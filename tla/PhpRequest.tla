----------------------------- MODULE PhpRequest -----------------------------
(***************************************************************************)
(* One request that runs a PHP script. Two processes: the service future   *)
(* of src/service/php.rs, polled by a tokio worker, and the closure it     *)
(* gives to spawn_blocking, which runs PHP on a thread of its own. They    *)
(* share three channels: the head and the error oneshots and the body of   *)
(* module UnboundChannel. The PHP thread also owns the Context, first as a *)
(* raw pointer in SG(server_context), then as the box deactivate() makes.  *)
(*                                                                         *)
(* PHP itself is external: between two callbacks it may do anything the    *)
(* SAPI lets it do. handle_abort_connection() ends in a longjmp to the     *)
(* innermost zend_try unless ignore_user_abort is on, so each of its       *)
(* callers either goes on or is left where it stands (Bailout). So does a  *)
(* fatal error of PHP code that a callback of the SAPI runs (FatalError).  *)
(***************************************************************************)
EXTENDS Naturals, Sequences

CONSTANTS
  Data,                  \* what one write of the script can carry
  MaxFrames              \* bound on the writes of one script

ASSUME RequestAssumption == MaxFrames \in Nat

VARIABLES
  svc,                   \* the service future and the response it became
  answer,                \* what the client was answered
  php,                   \* the blocking thread: the phase of execute_php
  fin,                   \* where the thread stands inside finish_request
  finished,              \* Context.request_finished
  ctx,                   \* who owns the Context
  head,                  \* Context.sender.head, and how it was sent
  headers,               \* the script's headers
  err,                   \* error_tx
  caught,                \* try_catch_first caught a bailout
  aborted,               \* PG(connection_status) is PHP_CONNECTION_ABORTED
  guardLeaked,           \* a longjmp left a SapiGlobals read guard behind
  sender, queue, rx, frameWaker, finishWaker, woken, sent, received

Body == INSTANCE UnboundChannel WITH Streaming <- TRUE

chan == <<sender, queue, rx, frameWaker, finishWaker, woken, sent, received>>
service == <<svc, answer>>
request == <<fin, finished, ctx, headers, caught, aborted, guardLeaked>>
thread == <<php, head, err, request>>
vars == <<service, thread, chan>>

Init ==
  /\ svc = "body"
  /\ answer = "none"
  /\ php = "idle"
  /\ fin = "none"
  /\ finished = FALSE
  /\ ctx = "none"
  /\ head = "held"
  /\ headers = "php"
  /\ err = "held"
  /\ caught = FALSE
  /\ aborted = FALSE
  /\ guardLeaked = FALSE
  /\ Body!Init

-----------------------------------------------------------------------------
(* The service future (src/service/php.rs:48-95). *)

\* The future is complete, or dropped, with these answers: its receivers go.
Respond(a, s) ==
  /\ answer' = a
  /\ svc' = s
  /\ Body!DropBody
  /\ UNCHANGED thread

\* The request body could not be read.
RequestBodyFails ==
  /\ svc = "body"
  /\ Respond("500", "done")

\* Mutant: a task of its own reads the body and goes on when the future is dropped.
SpawnAnyway ==
  /\ svc \in {"body", "cancelled"}
  /\ php = "idle"
  /\ svc' = IF svc = "body" THEN "select" ELSE svc
  /\ php' = "queued"
  /\ UNCHANGED <<answer, head, err, request, chan>>

SpawnScript ==
  /\ svc = "body"
  /\ svc' = "select"
  /\ php' = "queued"
  /\ UNCHANGED <<answer, head, err, request, chan>>

ErrorSent == err \in {"RequestStartupFailed", "Bailout"}

\* Both branches of the select are disabled: the thread dropped both senders.
SendersDropped == err = "dropped" /\ head = "held" /\ ctx = "freed"

SelectError ==
  /\ svc = "select"
  /\ ErrorSent \/ SendersDropped
  /\ Respond(IF err = "RequestStartupFailed" THEN "503" ELSE "500", "done")

\* The select polls its branches in random order, so a head that has arrived
\* may be taken or passed over for an error that arrived with it.
SelectFull ==
  /\ svc = "select"
  /\ head = "full"
  /\ svc' = "gather"
  /\ UNCHANGED <<answer, thread, chan>>

\* Mutant: only the head is made a response, and the body dropped.
SelectHeadOnly ==
  /\ svc = "select"
  /\ head = "chunked"
  /\ Respond("chunked", "done")

SelectChunked ==
  /\ svc = "select"
  /\ head = "chunked"
  /\ svc' = "streaming"
  /\ answer' = "chunked"
  /\ UNCHANGED <<thread, chan>>

Polling == svc \in {"gather", "streaming"} /\ UNCHANGED <<service, thread>>

RecvFrame == Polling /\ Body!RecvFrame
RecvNothing == Polling /\ Body!RecvNothing
PollFinishReady == Polling /\ Body!PollFinishReady
PollFinishPending == Polling /\ Body!PollFinishPending
Repoll == Polling /\ Body!Repoll

\* Mutant: the response is made of the frames that are there.
GatherNow ==
  /\ svc = "gather"
  /\ svc' = "done"
  /\ answer' = "full"
  /\ UNCHANGED <<thread, chan>>

\* collect() has returned: the whole body is the response.
Gathered ==
  /\ svc = "gather"
  /\ rx = "ended"
  /\ svc' = "done"
  /\ answer' = "full"
  /\ UNCHANGED <<thread, chan>>

Streamed ==
  /\ svc = "streaming"
  /\ rx = "ended"
  /\ svc' = "done"
  /\ UNCHANGED <<answer, thread, chan>>

\* The connection closes: hyper drops the future, or the body it is sending.
ClientGone ==
  /\ svc \in {"body", "select", "gather", "streaming"}
  /\ Respond(answer, "cancelled")

\* TimeoutLayer drops the future (src/cli/serve.rs:111-113) and map_result
\* makes the error a 504; a streaming response is out of its reach.
TimedOut ==
  /\ svc \in {"body", "select", "gather"}
  /\ Respond("504", "done")

Service ==
  \/ RequestBodyFails \/ SpawnScript
  \/ SelectError \/ SelectFull \/ SelectChunked
  \/ RecvFrame \/ RecvNothing \/ PollFinishReady \/ PollFinishPending \/ Repoll
  \/ Gathered \/ Streamed \/ ClientGone \/ TimedOut

-----------------------------------------------------------------------------
(* The PHP thread: the callbacks a running script makes. *)

\* Mutant: abort() does not wait for tx_frame to be dropped.
NoWait == TRUE

\* abort() and drop return before the thread does anything else.
Settled == sender \in {"live", "gone"}

\* PHP's output runs: its warnings during startup, the script, its shutdown functions
\* and destructors, and the buffers that finish_request flushes on their behalf.
PhpRuns ==
  /\ php \in {"startup", "script", "shutdown"}
  /\ fin \in {"none", "output"}
  /\ Settled

\* Mutant: the context is lost wherever the thread was.
LoseContext == "leaked"
ContextAfterJump == IF php = "deactivate" THEN "leaked" ELSE ctx

\* Where the zend_try is that a longjmp ends at: the one of php_request_startup, of the
\* script, of one step of php_request_shutdown, or the one around sapi_deactivate.
AfterJump ==
  IF php = "startup" THEN "failed"
  ELSE IF php = "deactivate" THEN "epilogue" ELSE "shutdown"

\* zend_bailout: the frames the longjmp skips are not unwound, so the box of
\* deactivate() is never dropped, nor is the guard that pasir_finish_request holds
\* across finish_request.
Bailout ==
  /\ php' = AfterJump
  /\ ctx' = ContextAfterJump
  /\ guardLeaked' = (guardLeaked \/ (fin # "none" /\ php # "deactivate"))
  /\ fin' = "none"

\* handle_abort_connection(); "at" is where finish_request goes on if it returns.
HandleAbort(at) ==
  /\ aborted' = TRUE
  /\ \/ Bailout
     \/ fin' = at /\ UNCHANGED <<php, ctx, guardLeaked>>
  /\ UNCHANGED <<service, finished, err, caught>>

\* A fatal error, or the end of the script's time, in an output callback that
\* php_output_end_all runs inside finish_request, with the client still there. (Elsewhere
\* it ends the script, EndScript, or a step of the shutdown.)
FatalError ==
  /\ PhpRuns
  /\ fin = "output"
  /\ Bailout
  /\ UNCHANGED <<service, finished, head, headers, err, caught, aborted, chan>>

\* PHP sends its headers once, before the first output or at the end.
SendHeaders ==
  /\ PhpRuns
  /\ headers = "php"
  /\ headers' = IF head = "held" THEN "context" ELSE "late"
  /\ UNCHANGED <<service, php, fin, finished, ctx, head, err, caught, aborted,
                 guardLeaked, chan>>

\* Mutant: output that nobody checked for headers.
WritesAnyway == PhpRuns /\ ~aborted /\ ~finished

\* ub_write: output is preceded by the headers and disabled by an abort.
Writes == PhpRuns /\ headers # "php" /\ ~aborted /\ ~finished

UbWrite ==
  /\ Writes
  /\ \E d \in Data : Body!Send(d)
  /\ UNCHANGED <<service, thread>>

\* The receiver is gone: the sender is dropped and the connection aborted.
UbWriteRefused ==
  /\ Writes
  /\ Body!SendRejected
  /\ Body!DropFrame
  /\ HandleAbort(fin)
  /\ UNCHANGED <<head, headers>>

\* The head takes the headers that have reached the context.
TakeHeaders == headers' = IF headers = "context" THEN "taken" ELSE headers

\* The head is received if the select still waits for it.
SendHead(type) ==
  /\ head = "held"
  /\ svc = "select"
  /\ head' = type
  /\ TakeHeaders
  /\ UNCHANGED <<service, php, finished, ctx, err, caught, aborted, guardLeaked, chan>>

SendHeadRefused ==
  /\ head = "held"
  /\ svc # "select"
  /\ head' = "refused"
  /\ TakeHeaders
  /\ UNCHANGED chan

Flush ==
  /\ PhpRuns
  /\ SendHead("chunked")
  /\ UNCHANGED fin

FlushRefused ==
  /\ PhpRuns
  /\ SendHeadRefused
  /\ HandleAbort(fin)

\* finish_request flushes the output first.
\* Mutant: it sends the head first.
FlushLast == "head"
FinishBegins == "output"

\* pasir_finish_request, and its alias fastcgi_finish_request, called by PHP code.
FinishRequest ==
  /\ PhpRuns
  /\ php # "startup"
  /\ fin = "none"
  /\ ~finished
  /\ fin' = FinishBegins
  /\ UNCHANGED <<service, php, finished, ctx, head, headers, err, caught, aborted,
                 guardLeaked, chan>>

AbortBody == IF sender = "live" THEN Body!Abort ELSE UNCHANGED chan

\* The output is flushed: abort the body, if there still is one.
FinishAbort ==
  /\ Settled
  /\ ~finished
  /\ \/ fin = "output"
     \/ fin = "none" /\ php = "deactivate"
  /\ fin' = "head"
  /\ finished' = TRUE
  /\ AbortBody
  /\ UNCHANGED <<service, php, ctx, head, headers, err, caught, aborted, guardLeaked>>

FinishHead ==
  /\ fin = "head"
  /\ Settled
  /\ SendHead("full")
  /\ fin' = "none"

FinishHeadRefused ==
  /\ fin = "head"
  /\ Settled
  /\ SendHeadRefused
  /\ HandleAbort("none")

\* The head went out before, with a flush.
FinishHeadTaken ==
  /\ fin = "head"
  /\ Settled
  /\ head # "held"
  /\ fin' = "none"
  /\ UNCHANGED <<service, php, finished, ctx, head, headers, err, caught, aborted,
                 guardLeaked, chan>>

\* The second half of abort(), and of the drop of a sender.
AbortDropFrame == Body!AbortDropFrame /\ UNCHANGED <<service, thread>>
DropFinish == Body!DropFinish /\ UNCHANGED <<service, thread>>

Callback ==
  \/ SendHeaders \/ UbWrite \/ UbWriteRefused \/ FatalError
  \/ Flush \/ FlushRefused
  \/ FinishRequest \/ FinishAbort
  \/ FinishHead \/ FinishHeadRefused \/ FinishHeadTaken
  \/ AbortDropFrame \/ DropFinish

-----------------------------------------------------------------------------
(* The PHP thread: execute_php and deactivate. *)

\* Mutant: the variant of ExecutePhpError that nothing constructs.
OtherError == "InitSapiGlobalsError"
StartupError == "RequestStartupFailed"

\* The context is handed to SG(server_context), and php_request_startup called.
RequestStartup ==
  /\ php = "queued"
  /\ php' = "startup"
  /\ ctx' = "raw"
  /\ UNCHANGED <<service, fin, finished, head, headers, err, caught, aborted, guardLeaked, chan>>

\* By a longjmp, PHP's own or that of an abort; nobody takes the context back.
StartupFails ==
  /\ php \in {"startup", "failed"}
  /\ Settled
  /\ php' = "returned"
  /\ ctx' = "leaked"
  /\ err' = StartupError
  /\ UNCHANGED <<service, fin, finished, head, headers, caught, aborted, guardLeaked, chan>>

StartupSucceeds ==
  /\ php = "startup"
  /\ Settled
  /\ php' = "script"
  /\ UNCHANGED <<service, request, head, err, chan>>

\* run_script catches what the script does; try_catch_first catches the rest.
EndScript ==
  /\ php = "script"
  /\ fin = "none"
  /\ Settled
  /\ php' = "shutdown"
  /\ caught' \in BOOLEAN
  /\ UNCHANGED <<service, fin, finished, ctx, head, headers, err, aborted, guardLeaked, chan>>

\* Mutant: the module has no deactivate.
ShutdownOnly ==
  /\ php = "shutdown"
  /\ fin = "none"
  /\ Settled
  /\ php' = "epilogue"
  /\ UNCHANGED <<service, request, head, err, chan>>

\* php_request_shutdown reaches sapi_deactivate, which boxes the context.
EndShutdown ==
  /\ php = "shutdown"
  /\ fin = "none"
  /\ Settled
  /\ headers # "php"
  /\ php' = "deactivate"
  /\ ctx' = "boxed"
  /\ UNCHANGED <<service, fin, finished, head, headers, err, caught, aborted, guardLeaked, chan>>

\* Mutants: deactivate does not finish the request, or keeps its own read guard.
DeactivateOnly ==
  /\ php = "deactivate"
  /\ fin = "none"
  /\ ~guardLeaked
  /\ php' = "epilogue"
  /\ ctx' = "freed"
  /\ UNCHANGED <<service, fin, finished, head, headers, err, caught, aborted, guardLeaked, chan>>

DeactivateKeepsGuard == FALSE /\ UNCHANGED vars

\* SapiGlobals::get_mut() waits for every read guard of the thread; then the
\* context is dropped.
DeactivateEnd ==
  /\ php = "deactivate"
  /\ finished
  /\ fin = "none"
  /\ Settled
  /\ ~guardLeaked
  /\ php' = "epilogue"
  /\ ctx' = "freed"
  /\ UNCHANGED <<service, fin, finished, head, headers, err, caught, aborted, guardLeaked, chan>>

\* execute_php returns and the closure reports it, or drops error_tx.
Epilogue ==
  /\ php = "epilogue"
  /\ php' = "returned"
  /\ err' = IF caught THEN "Bailout" ELSE "dropped"
  /\ UNCHANGED <<service, head, request, chan>>

Execute ==
  \/ RequestStartup \/ StartupFails \/ StartupSucceeds
  \/ EndScript \/ EndShutdown \/ DeactivateEnd \/ Epilogue

Next == Service \/ Callback \/ Execute

SafeSpec == Init /\ [][Next]_vars

\* A woken future is polled, a blocking task gets a thread, a script ends and every
\* call of the thread runs on. php_request_shutdown takes each of its steps once, so it
\* ends even if PHP code in them calls pasir_finish_request and a fatal error cuts it short
\* again and again. Nothing makes a request body arrive, a client leave, a timeout fire or
\* a script write.
Fairness ==
  /\ WF_vars(SelectError \/ SelectFull \/ SelectChunked)
  /\ WF_vars(RecvFrame \/ RecvNothing \/ PollFinishReady \/ PollFinishPending)
  /\ WF_vars(woken /\ Repoll)
  /\ WF_vars(Gathered \/ Streamed)
  /\ WF_vars(RequestStartup)
  /\ WF_vars(StartupFails \/ StartupSucceeds)
  /\ WF_vars(SendHeaders)
  /\ WF_vars(FinishAbort)
  /\ WF_vars(FinishHead \/ FinishHeadRefused \/ FinishHeadTaken)
  /\ WF_vars(AbortDropFrame \/ DropFinish)
  /\ WF_vars(EndScript)
  /\ SF_vars(EndShutdown)
  /\ WF_vars(DeactivateEnd)
  /\ WF_vars(Epilogue)

Spec == SafeSpec /\ Fairness

-----------------------------------------------------------------------------
(* Properties. *)

\* Every variable has its type (src/service/php.rs, src/sapi/context.rs:44-54).
TypeOK ==
  /\ svc \in {"body", "select", "gather", "streaming", "done", "cancelled"}
  /\ answer \in {"none", "full", "chunked", "500", "503", "504"}
  /\ php \in {"idle", "queued", "startup", "failed", "script", "shutdown", "deactivate", "epilogue", "returned"}
  /\ fin \in {"none", "output", "head"}
  /\ finished \in BOOLEAN
  /\ ctx \in {"none", "raw", "boxed", "freed", "leaked"}
  /\ head \in {"held", "full", "chunked", "refused"}
  /\ headers \in {"php", "context", "taken", "late"}
  /\ err \in {"held", "RequestStartupFailed", "Bailout", "dropped"}
  /\ caught \in BOOLEAN
  /\ aborted \in BOOLEAN
  /\ guardLeaked \in BOOLEAN
  /\ Body!TypeOK

\* A response collected before it is answered is the script's whole output: the
\* race that can cut a streamed body short does not exist for ResponseType::Full
\* (src/service/php.rs:87), whatever the script, the client and PHP do.
FullBodyComplete == answer = "full" => received = sent

\* The body is collected only after finish_request has given the sender up, the
\* assumption under which module UnboundChannel is a BodyStream.
GatherAfterFinish == svc = "gather" => sender = "gone"

\* A full response with a body carries the headers its script sent: finish_request
\* flushes the output, and so the headers, before it takes them for the head.
HeadersWithBody == head = "full" /\ sent # <<>> => headers = "taken"

\* PHP is told that the connection was aborted only when the client has left or
\* was answered 504 (src/sapi/context.rs:347-350, src/sapi/mod.rs:44-47).
AbortOnlyIfGone == aborted => svc = "cancelled" \/ answer = "504"

\* Once the script has been started it is answered with an error only for an
\* error that execute_php returned: never by the else arm of the select, which
\* needs a Context dropped with its head unsent (src/service/php.rs:93).
ErrorHasCause ==
  /\ answer = "503" => err = "RequestStartupFailed"
  /\ answer = "500" => php = "idle" \/ err = "Bailout"

\* SG(server_context) is valid while PHP may call back, a Context that is dropped
\* has nothing left to send, and one is lost only when php_request_startup fails or
\* PHP was told of an abort (crates/pasir_sapi/src/lib.rs:45-53, context.rs:83-88).
ContextOwnership ==
  /\ php \in {"startup", "failed", "script", "shutdown"} => ctx = "raw"
  /\ fin # "none" => ctx \in {"raw", "boxed"}
  /\ ctx = "freed" => sender = "gone" /\ head # "held" /\ finished
  /\ ctx = "leaked" => err = "RequestStartupFailed" \/ aborted

\* deactivate() waits for ever in get_mut(), for a guard that a longjmp leaked.
Stuck == php = "deactivate" /\ finished /\ fin = "none" /\ Settled /\ guardLeaked

\* A startup that printed and flushed before it failed: the head of a stream is out,
\* and the sender of its body is lost with the context.
Stranded == err = "RequestStartupFailed" /\ head = "chunked" /\ sender = "live"

\* No client waits in vain for a thread that has returned, or that will never return:
\* its future has an answer to select, or a body whose writer is gone and a task that was
\* woken to see its end. Only a stream begun by a failed startup is not ended. It holds
\* of a guard leaked under a client that is still there too: deactivate() finishes the
\* request before it waits (crates/pasir_sapi/src/lib.rs:47-51, src/sapi/mod.rs:110).
NobodyWaitsInVain ==
  (php = "returned" \/ Stuck) =>
    /\ svc = "select" => ErrorSent \/ head \in {"full", "chunked"}
    /\ svc \in {"gather", "streaming"} =>
         Stranded \/ (sender = "gone" /\ (rx = "parked" => woken))

\* The two processes use the body only through the operations of UnboundChannel.
UsesBody == Body!SafeSpec

\* The request of a script that was started is answered to the end, unless its client
\* leaves: no head, frame, error or end is waited for that does not come, whatever order
\* the head and the error, or the last frame and the end of a stream, arrive in, and
\* whether or not the thread is ever given back. A failed startup may strand a stream.
Answered == (svc = "select") ~> (svc \in {"done", "cancelled"} \/ Stranded)

\* The blocking thread is given back, unless a longjmp leaked a guard on it.
ThreadReturns == (php = "queued") ~> (php = "returned" \/ guardLeaked)

-----------------------------------------------------------------------------
(* Refinement: the request as its client sees it (module Exchange). *)

At ==
  IF svc \in {"body", "select", "gather"} THEN "open"
  ELSE IF svc = "streaming" THEN "streaming" ELSE "over"

Seen == IF answer \in {"full", "chunked"} THEN received ELSE <<>>

Script == IF php = "idle" THEN "none" ELSE IF err = "held" THEN "running" ELSE err

Client == INSTANCE Exchange WITH
  at <- At, seen <- Seen, script <- Script, written <- sent, closed <- sender # "live"

\* However the future, the thread and the channels interleave, the client of
\* PhpService::call sees an Exchange.
ImplementsExchange == Client!Spec

-----------------------------------------------------------------------------
(* Composition: the request as the server has it (module Server). *)

\* The connection of the request, in a server that is serving or told to stop.
Connection(when) ==
  IF svc = "cancelled" \/ (svc = "done" /\ when # "serving") THEN "closed"
  ELSE IF svc = "done" THEN "open" ELSE "busy"

\* The thread outlives the response.
Detached == svc \in {"done", "cancelled"} /\ php \notin {"idle", "returned"}

Life(when) == INSTANCE Server WITH
  Conns <- {"client"}, MaxDetached <- 1,
  phase <- when, loop <- "select", accepting <- TRUE, armed <- TRUE, sigint <- FALSE,
  sigterm <- FALSE, timedOut <- FALSE, result <- "none", raised <- {},
  conn <- [c \in {"client"} |-> Connection(when)],
  watched <- IF Connection(when) = "closed" THEN {} ELSE {"client"},
  detached <- IF Detached THEN 1 ELSE 0

\* What Server knows of a request: it is answered once, or left by its client; PHP may
\* outlive that, returns once, and is never started for a client that is gone.
RequestOfServer(when) ==
  \/ Life(when)!Answer("client") \/ Life(when)!AnswerEarly("client")
  \/ Life(when)!ClientLeavesBusy("client") \/ Life(when)!ThreadReturns
  \/ UNCHANGED Life(when)!vars

\* Whatever a request and its thread do, a server sees one of its own steps, in any
\* phase in which connections and threads are alive.
FitsServer ==
  [][\A when \in {"serving", "draining", "module", "sapi"} : RequestOfServer(when)]_vars

-----------------------------------------------------------------------------
(* What the repository says of the program and the program does not do. *)

\* deactivate() returns ("assert_eq!(TestSapi::deactivate(), SUCCESS)",
\* crates/pasir_sapi/src/lib.rs:265).
DeactivateReturns == (php = "deactivate") ~> (php # "deactivate")

\* The Context that into_raw() gave away is dropped when it is no longer needed
\* ("you must call drop(Context::from_raw(ptr))", crates/pasir_sapi/src/context.rs:34-35).
ContextReleased == php = "returned" => ctx = "freed"
=============================================================================
