-------------------------- MODULE PhpRequestProofs --------------------------
(***************************************************************************)
(* The safety properties of PhpRequest, for every Data and MaxFrames. The  *)
(* two processes are shown to use the body only through the operations of  *)
(* UnboundChannel, so the theorems of UnboundChannelProofs hold of it; one *)
(* inductive invariant relates the service, the thread and the body. With  *)
(* it every step is a step of Exchange, or one that the client cannot see. *)
(***************************************************************************)
EXTENDS PhpRequest, SequenceTheorems, TLAPS

Chan == INSTANCE UnboundChannelProofs WITH Streaming <- TRUE

-----------------------------------------------------------------------------
(* The body. *)

\* The body of a request starts as a channel does.
LEMMA BodyInit == Init => Body!Init
BY DEF Init

\* Polls of the body are the only steps of the service that touch it, with its end.
LEMMA ServiceUsesBody ==
  ASSUME Service
  PROVE  [Body!Next]_chan
<1> USE DEF chan, Body!Next, Body!Reader
<1>1. CASE RequestBodyFails \/ SelectError \/ ClientGone \/ TimedOut
  BY <1>1 DEF RequestBodyFails, SelectError, ClientGone, TimedOut, Respond
<1>2. CASE SpawnScript \/ SelectFull \/ SelectChunked \/ Gathered \/ Streamed
  BY <1>2 DEF SpawnScript, SelectFull, SelectChunked, Gathered, Streamed
<1>3. CASE RecvFrame \/ RecvNothing \/ PollFinishReady \/ PollFinishPending \/ Repoll
  BY <1>3 DEF RecvFrame, RecvNothing, PollFinishReady, PollFinishPending, Repoll
<1>4. QED
  BY <1>1, <1>2, <1>3 DEF Service

\* A callback sends, aborts or drops the body, or leaves it alone.
LEMMA CallbackUsesBody ==
  ASSUME Callback
  PROVE  [Body!Next]_chan
<1> USE DEF chan, Body!Next, Body!Writer
<1>1. CASE SendHeaders \/ FatalError \/ Flush \/ FlushRefused \/ FinishRequest
  BY <1>1 DEF SendHeaders, FatalError, Flush, FlushRefused, FinishRequest, SendHead, SendHeadRefused
<1>2. CASE FinishHead \/ FinishHeadRefused \/ FinishHeadTaken
  BY <1>2 DEF FinishHead, FinishHeadRefused, FinishHeadTaken, SendHead, SendHeadRefused
<1>3. CASE UbWrite \/ UbWriteRefused
  BY <1>3 DEF UbWrite, UbWriteRefused
<1>4. CASE FinishAbort \/ AbortDropFrame \/ DropFinish
  BY <1>4 DEF FinishAbort, AbortBody, AbortDropFrame, DropFinish
<1>5. QED
  BY <1>1, <1>2, <1>3, <1>4 DEF Callback

\* Every step of a request is a step of its body, or leaves the body alone.
LEMMA StepUsesBody ==
  ASSUME [Next]_vars
  PROVE  [Body!Next]_chan
<1>1. CASE Execute
  BY <1>1 DEF chan, Execute, RequestStartup, StartupFails, StartupSucceeds, EndScript,
              EndShutdown, DeactivateEnd, Epilogue
<1>2. CASE UNCHANGED vars
  BY <1>2 DEF vars, chan
<1>3. QED
  BY <1>1, <1>2, ServiceUsesBody, CallbackUsesBody DEF Next

\* A request uses its body as module UnboundChannel says a channel is used.
THEOREM RequestUsesBody == SafeSpec => UsesBody
<1>1. [Next]_vars => [Body!Next]_(Body!chan)
  BY StepUsesBody DEF chan, Body!chan
<1>2. QED
  BY BodyInit, <1>1, PTL DEF SafeSpec, UsesBody, Body!SafeSpec

\* The channel of UnboundChannelProofs is the one PhpRequest instantiates.
LEMMA SameChannel == (Body!Init <=> Chan!Init) /\ (Body!Next <=> Chan!Next)
BY DEF Body!Init, Chan!Init, Body!Next, Chan!Next, Body!Writer, Chan!Writer,
       Body!Reader, Chan!Reader, Body!Send, Chan!Send, Body!Abort, Chan!Abort,
       Body!AbortDropFrame, Chan!AbortDropFrame, Body!DropFrame, Chan!DropFrame,
       Body!DropFinish, Chan!DropFinish, Body!RecvFrame, Chan!RecvFrame,
       Body!RecvNothing, Chan!RecvNothing, Body!PollFinishReady, Chan!PollFinishReady,
       Body!PollFinishPending, Chan!PollFinishPending, Body!Repoll, Chan!Repoll,
       Body!DropBody, Chan!DropBody, Body!WakeFrame, Chan!WakeFrame,
       Body!WakeFinish, Chan!WakeFinish, Body!MayPoll, Chan!MayPoll,
       Body!FinishResolved, Chan!FinishResolved, Body!FramesClosed, Chan!FramesClosed

\* The body of a request keeps its types, is a FIFO and misses no wake-up.
LEMMA BodyFacts == SafeSpec => [](Body!TypeOK /\ Body!Fifo /\ Body!NoLostWakeup)
<1>1. /\ Chan!SafeSpec => []Chan!TypeOK
      /\ Chan!SafeSpec => []Chan!Fifo
      /\ Chan!SafeSpec => []Chan!NoLostWakeup
  BY Chan!ChannelTypeCorrect, Chan!ChannelIsFifo, Chan!ChannelWakes, RequestAssumption
     DEF Chan!ChannelAssumption
<1>2. [Body!Next]_(Body!chan) => [Chan!Next]_(Chan!chan)
  BY SameChannel DEF Body!chan, Chan!chan
<1>3. Chan!TypeOK => Body!TypeOK
  BY DEF Body!TypeOK, Chan!TypeOK, Body!SenderStates, Chan!SenderStates,
         Body!ReaderStates, Chan!ReaderStates
<1>4. Chan!Fifo => Body!Fifo
  BY DEF Body!Fifo, Chan!Fifo
<1>5. Chan!NoLostWakeup => Body!NoLostWakeup
  BY DEF Body!NoLostWakeup, Chan!NoLostWakeup, Body!FinishResolved, Chan!FinishResolved
<1>6. QED
  BY RequestUsesBody, SameChannel, <1>1, <1>2, <1>3, <1>4, <1>5, PTL
     DEF UsesBody, Body!SafeSpec, Chan!SafeSpec

-----------------------------------------------------------------------------
(* Types. *)

\* The service and the thread keep their types.
LEMMA RequestTypeStep ==
  ASSUME TypeOK, Body!TypeOK', [Next]_vars
  PROVE  TypeOK'
<1> USE DEF TypeOK, thread, request, service
<1>1. CASE UNCHANGED vars
  BY <1>1 DEF vars
<1>2. CASE RequestBodyFails \/ SelectError \/ ClientGone \/ TimedOut
  BY <1>2 DEF RequestBodyFails, SelectError, ClientGone, TimedOut, Respond
<1>3. CASE SpawnScript \/ SelectFull \/ SelectChunked \/ Gathered \/ Streamed
  BY <1>3 DEF SpawnScript, SelectFull, SelectChunked, Gathered, Streamed
<1>4. CASE RecvFrame \/ RecvNothing \/ PollFinishReady \/ PollFinishPending \/ Repoll
  BY <1>4 DEF RecvFrame, RecvNothing, PollFinishReady, PollFinishPending, Repoll, Polling
<1>5. ASSUME NEW at, HandleAbort(at)
      PROVE  /\ php' \in {php, "failed", "shutdown", "epilogue"} /\ fin' \in {at, "none"}
             /\ ctx' \in {ctx, "leaked"} /\ guardLeaked' \in BOOLEAN /\ aborted'
             /\ UNCHANGED <<service, finished, err, caught>>
  <2>1. guardLeaked' \in BOOLEAN
    <3>1. CASE Bailout
      BY <3>1, Zenon DEF Bailout
    <3>2. QED
      BY <1>5, <3>1 DEF HandleAbort
  <2>2. QED
    BY <1>5, <2>1 DEF HandleAbort, Bailout, AfterJump, ContextAfterJump
<1>6. CASE SendHeaders \/ UbWrite \/ Flush \/ FinishRequest
  BY <1>6 DEF SendHeaders, UbWrite, Flush, FinishRequest, FinishBegins, SendHead, TakeHeaders, PhpRuns
<1>7. CASE FinishAbort \/ FinishHead \/ FinishHeadTaken \/ AbortDropFrame \/ DropFinish
  BY <1>7 DEF FinishAbort, FinishHead, FinishHeadTaken, SendHead, TakeHeaders,
              AbortDropFrame, DropFinish
<1>8. CASE UbWriteRefused \/ FlushRefused
  BY <1>5, <1>8 DEF UbWriteRefused, FlushRefused, SendHeadRefused, TakeHeaders, Writes, PhpRuns
<1>9. CASE FinishHeadRefused
  BY <1>5, <1>9 DEF FinishHeadRefused, SendHeadRefused, TakeHeaders
<1>10. CASE FatalError
  <2>1. guardLeaked' \in BOOLEAN
    BY <1>10, Zenon DEF FatalError, Bailout
  <2>2. QED
    BY <1>10, <2>1 DEF FatalError, Bailout, AfterJump, ContextAfterJump
<1>11. CASE Execute
  BY <1>11 DEF Execute, RequestStartup, StartupFails, StartupError, StartupSucceeds, EndScript,
               EndShutdown, DeactivateEnd, Epilogue
<1>12. QED
  BY <1>1, <1>2, <1>3, <1>4, <1>6, <1>7, <1>8, <1>9, <1>10, <1>11 DEF Next, Service, Callback

\* Every variable of the request keeps its type.
THEOREM RequestTypeCorrect == SafeSpec => []TypeOK
<1>1. Body!TypeOK /\ Init => TypeOK
  BY DEF Init, TypeOK
<1>2. TypeOK /\ Body!TypeOK' /\ [Next]_vars => TypeOK'
  BY RequestTypeStep
<1>3. QED
  BY <1>1, <1>2, BodyFacts, PTL DEF SafeSpec

-----------------------------------------------------------------------------
(* The inductive invariant. *)

\* What the service's place says of the body, the head and the answer. A body that
\* is being collected has no writer (GatherAfterFinish below), so an empty queue
\* seen once stays empty until the end is seen.
ServiceInv ==
  /\ svc = "body" => php = "idle"
  /\ svc \in {"body", "select"} => rx = "idle"
  /\ svc \in {"body", "select", "gather"} => answer = "none"
  /\ svc = "gather" => head = "full" /\ rx # "dropped" /\ (rx # "idle" => queue = <<>>)
  /\ svc = "streaming" => answer = "chunked" /\ head = "chunked" /\ rx # "dropped"
  /\ svc = "done" => answer # "none"
  /\ rx = "dropped" => svc = "cancelled" \/ answer \in {"500", "503", "504"}
  /\ answer = "full" => svc = "done" /\ head = "full" /\ rx = "ended" /\ received = sent
  /\ answer = "chunked" => head = "chunked"

\* What the thread's place says of the context, the channels and PHP.
ThreadInv ==
  /\ php \notin {"returned"} => err = "held"
  /\ php \in {"startup", "failed", "script", "shutdown"} => ctx = "raw"
  /\ php = "deactivate" => ctx = "boxed"
  /\ php \in {"idle", "queued"} => ctx = "none"
  /\ php = "epilogue" => ctx \in {"freed", "leaked"}
  /\ fin # "none" => php \in {"script", "shutdown", "deactivate"}
  /\ fin = "head" => finished

\* What has become of the body and the head: a head that is sent for a full response,
\* and only that, has a closed body behind it and the headers of a body in it.
HeadInv ==
  /\ finished => sender # "live"
  /\ finished /\ fin # "head" => head # "held"
  /\ head = "full" => finished /\ sender = "gone"
  /\ head = "held" => headers \in {"php", "context"}
  /\ sent # <<>> => headers # "php"

IInv ==
  /\ ServiceInv /\ ThreadInv /\ HeadInv
  /\ HeadersWithBody /\ AbortOnlyIfGone /\ ErrorHasCause /\ ContextOwnership

\* The polls of the service and its decisions preserve the invariant.
LEMMA ServiceStep ==
  ASSUME TypeOK, Body!TypeOK, Body!Fifo, IInv, Service
  PROVE  IInv'
<1> USE DEF IInv, ServiceInv, ThreadInv, HeadInv, HeadersWithBody, AbortOnlyIfGone,
            ErrorHasCause, ContextOwnership, thread, request, service, chan
<1>1. CASE RequestBodyFails
  BY <1>1 DEF RequestBodyFails, Respond, Body!DropBody
<1>2. CASE SpawnScript
  BY <1>2 DEF SpawnScript
<1>3. CASE SelectError
  BY <1>3 DEF SelectError, ErrorSent, SendersDropped, Respond, Body!DropBody
<1>4. CASE SelectFull \/ SelectChunked
  BY <1>4 DEF SelectFull, SelectChunked
<1>5. CASE RecvFrame
  BY <1>5 DEF RecvFrame, Polling, Body!RecvFrame
<1>6. CASE RecvNothing
  BY <1>6 DEF RecvNothing, Polling, Body!RecvNothing
<1>7. CASE PollFinishReady \/ PollFinishPending
  BY <1>7 DEF PollFinishReady, PollFinishPending, Polling, Body!PollFinishReady,
              Body!PollFinishPending
<1>8. CASE Repoll
  BY <1>8 DEF Repoll, Polling, Body!Repoll
<1>9. CASE Gathered
  <2>1. queue = <<>> /\ received = sent
    BY <1>9, ConcatEmptySeq DEF Gathered, Body!TypeOK, Body!Fifo
  <2>2. QED
    BY <1>9, <2>1 DEF Gathered
<1>10. CASE Streamed
  BY <1>10 DEF Streamed
<1>11. CASE ClientGone
  BY <1>11 DEF ClientGone, Respond, Body!DropBody
<1>12. CASE TimedOut
  BY <1>12 DEF TimedOut, Respond, Body!DropBody
<1>13. QED
  BY <1>1, <1>2, <1>3, <1>4, <1>5, <1>6, <1>7, <1>8, <1>9, <1>10, <1>11, <1>12 DEF Service

\* What the thread finds refused was given up by its client or by the timeout.
LEMMA RefusedIsGone ==
  ASSUME TypeOK, IInv, php \in {"startup", "script", "shutdown", "deactivate"},
         rx = "dropped" \/ (head = "held" /\ svc # "select")
  PROVE  svc = "cancelled" \/ answer = "504"
BY DEF TypeOK, IInv, ServiceInv, ThreadInv, ErrorHasCause

\* The callbacks of PHP preserve the invariant.
LEMMA CallbackStep ==
  ASSUME TypeOK, Body!TypeOK, IInv, Callback
  PROVE  IInv'
<1> USE DEF IInv, ServiceInv, ThreadInv, HeadInv, HeadersWithBody, AbortOnlyIfGone,
            ErrorHasCause, ContextOwnership, thread, request, service, chan
<1>1. CASE SendHeaders
  BY <1>1 DEF SendHeaders, PhpRuns
<1>2. CASE UbWrite
  BY <1>2 DEF UbWrite, Writes, PhpRuns, Body!Send
<1>3. CASE UbWriteRefused
  BY <1>3, RefusedIsGone DEF UbWriteRefused, Writes, PhpRuns, HandleAbort, Bailout, AfterJump, ContextAfterJump,
     Body!SendRejected, Body!DropFrame
<1>4. CASE Flush
  BY <1>4 DEF Flush, PhpRuns, SendHead, TakeHeaders
<1>5. CASE FlushRefused
  BY <1>5, RefusedIsGone DEF FlushRefused, PhpRuns, SendHeadRefused, TakeHeaders,
     HandleAbort, Bailout, AfterJump, ContextAfterJump
<1>6. CASE FinishRequest
  BY <1>6 DEF FinishRequest, FinishBegins, PhpRuns
<1>7. CASE FinishAbort
  BY <1>7 DEF FinishAbort, AbortBody, Body!Abort
<1>8. CASE FinishHead
  BY <1>8 DEF FinishHead, SendHead, TakeHeaders, Settled
<1>9. CASE FinishHeadRefused
  BY <1>9, RefusedIsGone DEF FinishHeadRefused, SendHeadRefused, TakeHeaders,
     HandleAbort, Bailout, AfterJump, ContextAfterJump
<1>10. CASE FinishHeadTaken
  BY <1>10 DEF FinishHeadTaken
<1>11. CASE AbortDropFrame \/ DropFinish
  BY <1>11 DEF AbortDropFrame, DropFinish, Body!AbortDropFrame, Body!DropFinish
<1>12. CASE FatalError
  BY <1>12 DEF FatalError, PhpRuns, Bailout, AfterJump, ContextAfterJump
<1>13. QED
  BY <1>1, <1>2, <1>3, <1>4, <1>5, <1>6, <1>7, <1>8, <1>9, <1>10, <1>11, <1>12 DEF Callback

\* execute_php and deactivate preserve the invariant.
LEMMA ExecuteStep ==
  ASSUME TypeOK, Body!TypeOK, IInv, Execute
  PROVE  IInv'
<1> USE DEF IInv, ServiceInv, ThreadInv, HeadInv, HeadersWithBody, AbortOnlyIfGone,
            ErrorHasCause, ContextOwnership, thread, request, service, chan
<1>1. CASE RequestStartup \/ StartupFails \/ StartupSucceeds
  BY <1>1 DEF RequestStartup, StartupFails, StartupError, StartupSucceeds
<1>2. CASE EndScript \/ EndShutdown
  BY <1>2 DEF EndScript, EndShutdown
<1>3. CASE DeactivateEnd
  BY <1>3 DEF DeactivateEnd, Settled
<1>4. CASE Epilogue
  BY <1>4 DEF Epilogue
<1>5. QED
  BY <1>1, <1>2, <1>3, <1>4 DEF Execute

\* The inductive invariant holds in every state.
LEMMA RequestInvariant == SafeSpec => []IInv
<1>1. Init => IInv
  BY DEF Init, Body!Init, IInv, ServiceInv, ThreadInv, HeadInv, HeadersWithBody,
         AbortOnlyIfGone, ErrorHasCause, ContextOwnership
<1>2. IInv /\ UNCHANGED vars => IInv'
  BY DEF vars, thread, request, service, chan, IInv, ServiceInv, ThreadInv, HeadInv,
         HeadersWithBody, AbortOnlyIfGone, ErrorHasCause, ContextOwnership
<1>3. TypeOK /\ Body!TypeOK /\ Body!Fifo /\ IInv /\ [Next]_vars => IInv'
  BY <1>2, ServiceStep, CallbackStep, ExecuteStep DEF Next
<1>4. QED
  BY <1>1, <1>3, RequestTypeCorrect, BodyFacts, PTL DEF SafeSpec

-----------------------------------------------------------------------------
(* The properties. *)

\* A body is collected only after its writer has given it up.
THEOREM GatherIsAfterFinish == SafeSpec => []GatherAfterFinish
<1>1. IInv => GatherAfterFinish
  BY DEF IInv, ServiceInv, HeadInv, GatherAfterFinish
<1>2. QED
  BY <1>1, RequestInvariant, PTL

\* A full response is the whole output of its script.
THEOREM FullBodyIsComplete == SafeSpec => []FullBodyComplete
<1>1. IInv => FullBodyComplete
  BY DEF IInv, ServiceInv, FullBodyComplete
<1>2. QED
  BY <1>1, RequestInvariant, PTL

\* The headers of a script travel with the full response that carries its output.
THEOREM HeadersTravelWithBody == SafeSpec => []HeadersWithBody
<1>1. IInv => HeadersWithBody
  BY DEF IInv
<1>2. QED
  BY <1>1, RequestInvariant, PTL

\* PHP is told of an abort only when the client has left or was answered 504.
THEOREM AbortsOnlyIfGone == SafeSpec => []AbortOnlyIfGone
<1>1. IInv => AbortOnlyIfGone
  BY DEF IInv
<1>2. QED
  BY <1>1, RequestInvariant, PTL

\* An error answer has its cause in execute_php or in the request body.
THEOREM ErrorsHaveCauses == SafeSpec => []ErrorHasCause
<1>1. IInv => ErrorHasCause
  BY DEF IInv
<1>2. QED
  BY <1>1, RequestInvariant, PTL

\* The context is valid while PHP may use it, and is dropped with nothing to send.
THEOREM ContextIsOwned == SafeSpec => []ContextOwnership
<1>1. IInv => ContextOwnership
  BY DEF IInv
<1>2. QED
  BY <1>1, RequestInvariant, PTL

-----------------------------------------------------------------------------
(* The refinement. *)

\* How far the script is, and what of its output can have reached its client.
Outcome ==
  /\ php \in {"idle", "queued"} => sender = "live" /\ sent = <<>> /\ head = "held"
  /\ php = "epilogue" => finished
  /\ svc \in {"body", "select"} => received = <<>>
  /\ svc \in {"done", "cancelled"} => rx \in {"ended", "dropped"}
  /\ rx = "ended" => sender # "live"

\* Every step of the request preserves it.
LEMMA OutcomeStep ==
  ASSUME TypeOK, Body!TypeOK, IInv, Outcome, [Next]_vars
  PROVE  Outcome'
<1> USE DEF Outcome, thread, request, service, chan
<1>0. /\ rx # "idle" => svc \notin {"body", "select"}
      /\ php \notin {"returned"} => err = "held"
      /\ php = "idle" \/ svc # "body"
      /\ fin = "head" => finished
      /\ finished => sender # "live"
      /\ head = "full" => sender = "gone"
  BY DEF IInv, ServiceInv, ThreadInv, HeadInv
<1>1. CASE UNCHANGED vars
  BY <1>1 DEF vars
<1>2. CASE RequestBodyFails \/ SelectError \/ ClientGone \/ TimedOut
  BY <1>2 DEF RequestBodyFails, SelectError, ClientGone, TimedOut, Respond, Body!DropBody
<1>3. CASE SpawnScript \/ SelectFull \/ SelectChunked \/ Gathered \/ Streamed
  BY <1>0, <1>3 DEF SpawnScript, SelectFull, SelectChunked, Gathered, Streamed
<1>4. CASE RecvFrame \/ RecvNothing \/ Repoll
  BY <1>4 DEF RecvFrame, RecvNothing, Repoll, Polling, Body!RecvFrame, Body!RecvNothing, Body!Repoll
<1>5. CASE PollFinishReady \/ PollFinishPending
  BY <1>5 DEF PollFinishReady, PollFinishPending, Polling, Body!PollFinishReady,
              Body!PollFinishPending, Body!FinishResolved
<1>6. CASE SendHeaders \/ FatalError \/ Flush \/ FinishRequest
  BY <1>0, <1>6 DEF SendHeaders, FatalError, Flush, FinishRequest, SendHead, PhpRuns, Bailout,
                    AfterJump
<1>7. CASE UbWrite
  BY <1>0, <1>7 DEF UbWrite, Writes, PhpRuns, Body!Send
<1>8. CASE UbWriteRefused
  BY <1>0, <1>8 DEF UbWriteRefused, Writes, PhpRuns, HandleAbort, Bailout, AfterJump, Body!SendRejected,
                    Body!DropFrame
<1>9. CASE FlushRefused
  BY <1>0, <1>9 DEF FlushRefused, PhpRuns, SendHeadRefused, HandleAbort, Bailout, AfterJump
<1>10. CASE FinishAbort
  BY <1>0, <1>10 DEF FinishAbort, AbortBody, Body!Abort, IInv, ThreadInv
<1>11. CASE FinishHead \/ FinishHeadRefused \/ FinishHeadTaken
  BY <1>0, <1>11 DEF FinishHead, FinishHeadRefused, FinishHeadTaken, SendHead, SendHeadRefused,
                     HandleAbort, Bailout, AfterJump, IInv, ThreadInv
<1>12. CASE AbortDropFrame \/ DropFinish
  BY <1>12 DEF AbortDropFrame, DropFinish, Body!AbortDropFrame, Body!DropFinish
<1>13. CASE Execute
  BY <1>0, <1>13 DEF Execute, RequestStartup, StartupFails, StartupError, StartupSucceeds, EndScript, EndShutdown,
                     DeactivateEnd, Epilogue
<1>14. QED
  BY <1>1, <1>2, <1>3, <1>4, <1>5, <1>6, <1>7, <1>8, <1>9, <1>10, <1>11, <1>12, <1>13
     DEF Next, Service, Callback

\* What the future does is one step of the client's exchange, or none.
LEMMA ServiceRefines ==
  ASSUME TypeOK, Body!TypeOK, Body!Fifo, IInv, Outcome, Service
  PROVE  [Client!Next]_(Client!vars)
<1> USE DEF Client!vars, Client!client, Client!output, At, Seen, Script, thread, request, service, chan
<1>0. /\ svc = "body" => php = "idle"
      /\ svc \in {"body", "select", "gather"} => answer = "none"
      /\ php # "returned" => err = "held"
      /\ head = "full" => sender = "gone"
      /\ answer = "chunked" => head = "chunked"
      /\ ctx = "freed" => head # "held"
  BY DEF IInv, ServiceInv, ThreadInv, HeadInv, ContextOwnership
<1>1. CASE RequestBodyFails
  <2>1. Client!Refuse
    BY <1>0, <1>1 DEF RequestBodyFails, Respond, Body!DropBody, Client!Refuse, Client!Fail
  <2>2. QED
    BY <2>1 DEF Client!Next
<1>2. CASE SpawnScript
  <2>1. Client!Start
    BY <1>0, <1>2 DEF SpawnScript, Client!Start
  <2>2. QED
    BY <2>1 DEF Client!Next
<1>3. CASE SelectError
  <2>1. err \in {"RequestStartupFailed", "Bailout"} /\ php # "idle"
    BY <1>0, <1>3 DEF SelectError, ErrorSent, SendersDropped
  <2>2. Client!FailStartup \/ Client!FailScript
    BY <1>0, <1>3, <2>1 DEF SelectError, Respond, Body!DropBody, Client!FailStartup,
                            Client!FailScript, Client!Fail
  <2>3. QED
    BY <2>2 DEF Client!Next
<1>4. CASE SelectFull
  BY <1>0, <1>4 DEF SelectFull
<1>5. CASE SelectChunked
  <2>1. received = <<>> /\ Script # "none"
    BY <1>5 DEF SelectChunked, Outcome, TypeOK
  <2>2. Client!AnswerChunked
    BY <1>0, <1>5, <2>1 DEF SelectChunked, Client!AnswerChunked
  <2>3. QED
    BY <2>2 DEF Client!Next
<1>6. CASE RecvFrame
  <2>1. CASE svc = "gather"
    BY <1>0, <1>6, <2>1 DEF RecvFrame, Polling, Body!RecvFrame
  <2>2. CASE svc = "streaming"
    <3>1. sent = received \o queue /\ queue \in Seq(Data) /\ received \in Seq(Data) /\ queue # <<>>
      BY <1>6 DEF RecvFrame, Body!RecvFrame, Body!Fifo, Body!TypeOK
    <3>2. Len(received) \in Nat /\ Len(queue) \in Nat /\ Len(queue) > 0
      BY <3>1, EmptySeq, LenProperties
    <3>3. Len(sent) = Len(received) + Len(queue) /\ sent[Len(received) + 1] = queue[1]
      BY <3>1, <3>2, ConcatProperties
    <3>4. answer = "chunked" /\ Head(queue) = queue[1]
      BY <2>2, <3>1 DEF IInv, ServiceInv
    <3>5. received' = Append(received, sent[Len(received) + 1]) /\ Len(received) < Len(sent)
      BY <1>6, <3>2, <3>3, <3>4 DEF RecvFrame, Body!RecvFrame
    <3>6. Client!Deliver
      BY <1>6, <2>2, <3>4, <3>5 DEF RecvFrame, Polling, Body!RecvFrame, Client!Deliver
    <3>7. QED
      BY <3>6 DEF Client!Next
  <2>3. QED
    BY <1>6, <2>1, <2>2 DEF RecvFrame, Polling
<1>7. CASE RecvNothing \/ PollFinishReady \/ PollFinishPending \/ Repoll
  BY <1>7 DEF RecvNothing, PollFinishReady, PollFinishPending, Repoll, Polling, Body!RecvNothing,
              Body!PollFinishReady, Body!PollFinishPending, Body!Repoll
<1>8. CASE Gathered
  <2>1. queue = <<>> /\ received = sent /\ sender # "live"
    BY <1>8, ConcatEmptySeq DEF Gathered, Body!TypeOK, Body!Fifo, IInv, ServiceInv, Outcome
  <2>2. Client!AnswerFull
    BY <1>8, <2>1 DEF Gathered, Client!AnswerFull
  <2>3. QED
    BY <2>2 DEF Client!Next
<1>9. CASE Streamed
  <2>1. Client!EndStream
    BY <1>9 DEF Streamed, Outcome, Client!EndStream
  <2>2. QED
    BY <2>1 DEF Client!Next
<1>10. CASE ClientGone
  <2>1. Client!Leave
    BY <1>10 DEF ClientGone, Respond, Body!DropBody, Client!Leave
  <2>2. QED
    BY <2>1 DEF Client!Next
<1>11. CASE TimedOut
  <2>1. Client!TimeOut
    BY <1>0, <1>11 DEF TimedOut, Respond, Body!DropBody, Client!TimeOut, Client!Fail
  <2>2. QED
    BY <2>1 DEF Client!Next
<1>12. QED
  BY <1>1, <1>2, <1>3, <1>4, <1>5, <1>6, <1>7, <1>8, <1>9, <1>10, <1>11 DEF Service

\* A callback writes, closes the output, or is nothing to the client.
LEMMA CallbackRefines ==
  ASSUME TypeOK, Body!TypeOK, IInv, Outcome, Callback
  PROVE  [Client!Next]_(Client!vars)
<1> USE DEF Client!vars, Client!client, Client!output, At, Seen, Script, thread, request, service, chan
<1>0. /\ php # "returned" => err = "held"
      /\ fin # "none" => php \in {"script", "shutdown", "deactivate"}
  BY DEF IInv, ThreadInv
<1>1. ASSUME NEW at, HandleAbort(at), php \in {"startup", "script", "shutdown", "deactivate"}
      PROVE  UNCHANGED <<At, Script>> /\ UNCHANGED answer
  BY <1>0, <1>1 DEF HandleAbort, Bailout, AfterJump
<1>2. CASE SendHeaders \/ Flush \/ FinishRequest \/ FinishHead \/ FinishHeadTaken
  BY <1>2 DEF SendHeaders, Flush, FinishRequest, FinishHead, FinishHeadTaken, SendHead
<1>3. CASE UbWrite
  <2>1. PICK d \in Data : Body!Send(d)
    BY <1>3 DEF UbWrite
  <2>2. php \in {"startup", "script", "shutdown"} /\ UNCHANGED <<service, thread>>
    BY <1>3 DEF UbWrite, Writes, PhpRuns
  <2>3. At # "over"
    BY <2>1 DEF Body!Send, Outcome, TypeOK
  <2>4. Client!Write(d)
    BY <1>0, <2>1, <2>2, <2>3 DEF Body!Send, Client!Write
  <2>5. QED
    BY <2>4 DEF Client!Next
<1>4. CASE UbWriteRefused
  <2>1. php \in {"startup", "script", "shutdown"} /\ HandleAbort(fin) /\ Body!DropFrame
    BY <1>4 DEF UbWriteRefused, Writes, PhpRuns
  <2>2. UNCHANGED <<At, Script, answer>>
    BY <1>1, <2>1
  <2>3. Client!Close
    BY <1>0, <2>1, <2>2 DEF Body!DropFrame, Client!Close
  <2>4. QED
    BY <2>3 DEF Client!Next
<1>5. CASE FlushRefused
  BY <1>1, <1>5 DEF FlushRefused, PhpRuns, SendHeadRefused
<1>6. CASE FinishHeadRefused
  BY <1>0, <1>1, <1>6 DEF FinishHeadRefused, SendHeadRefused
<1>7. CASE FinishAbort
  <2>1. php # "idle" /\ err = "held"
    BY <1>0, <1>7 DEF FinishAbort
  <2>2. CASE sender = "live"
    <3>1. Client!Close
      BY <1>7, <2>1, <2>2 DEF FinishAbort, AbortBody, Body!Abort, Client!Close
    <3>2. QED
      BY <3>1 DEF Client!Next
  <2>3. CASE sender # "live"
    BY <1>7, <2>3 DEF FinishAbort, AbortBody
  <2>4. QED
    BY <2>2, <2>3
<1>8. CASE AbortDropFrame \/ DropFinish
  BY <1>8 DEF AbortDropFrame, DropFinish, Body!AbortDropFrame, Body!DropFinish
<1>9. CASE FatalError
  BY <1>0, <1>9 DEF FatalError, PhpRuns, Bailout, AfterJump
<1>10. QED
  BY <1>2, <1>3, <1>4, <1>5, <1>6, <1>7, <1>8, <1>9 DEF Callback

\* execute_php fails, starts and returns as the script of an exchange does.
LEMMA ExecuteRefines ==
  ASSUME TypeOK, IInv, Outcome, Execute
  PROVE  [Client!Next]_(Client!vars)
<1> USE DEF Client!vars, Client!client, Client!output, At, Seen, Script, thread, request, service, chan
<1>0. php # "returned" => err = "held"
  BY DEF IInv, ThreadInv
<1>1. CASE StartupFails
  <2>1. Client!StartupFails
    BY <1>0, <1>1 DEF StartupFails, StartupError, Client!StartupFails
  <2>2. QED
    BY <2>1 DEF Client!Next
<1>2. CASE RequestStartup \/ StartupSucceeds \/ EndScript \/ EndShutdown \/ DeactivateEnd
  BY <1>2 DEF RequestStartup, StartupSucceeds, EndScript, EndShutdown, DeactivateEnd
<1>3. CASE Epilogue
  <2>1. sender # "live"
    BY <1>3 DEF Epilogue, Outcome, IInv, HeadInv
  <2>2. Client!Return
    BY <1>0, <1>3, <2>1 DEF Epilogue, Client!Return
  <2>3. QED
    BY <2>2 DEF Client!Next
<1>4. QED
  BY <1>1, <1>2, <1>3 DEF Execute

\* Every request is an exchange: answered once, with the whole output, with a stream
\* of it in order, or with an error that has its cause.
THEOREM RequestIsExchange == SafeSpec => ImplementsExchange
<1>1. Init => Client!Init /\ Outcome
  BY DEF Init, Body!Init, Client!Init, At, Seen, Script, Outcome
<1>2. TypeOK /\ Body!TypeOK /\ IInv /\ Outcome /\ [Next]_vars => Outcome'
  BY OutcomeStep
<1>3. UNCHANGED vars => UNCHANGED Client!vars
  BY DEF vars, thread, request, service, chan, Client!vars, Client!client, Client!output,
         At, Seen, Script
<1>4. TypeOK /\ Body!TypeOK /\ Body!Fifo /\ IInv /\ Outcome /\ [Next]_vars
        => [Client!Next]_(Client!vars)
  BY <1>3, ServiceRefines, CallbackRefines, ExecuteRefines DEF Next
<1>5. QED
  BY <1>1, <1>2, <1>4, RequestTypeCorrect, BodyFacts, RequestInvariant, PTL
     DEF SafeSpec, ImplementsExchange, Client!Spec
-----------------------------------------------------------------------------
(* What a client may rely on. *)

Exch == INSTANCE ExchangeProofs WITH
  at <- At, seen <- Seen, script <- Script, written <- sent, closed <- sender # "live"

\* The exchange of ExchangeProofs is the one PhpRequest implements.
LEMMA SameExchange ==
  (Client!Init <=> Exch!Init) /\ ([Client!Next]_(Client!vars) <=> [Exch!Next]_(Exch!vars))
BY DEF Client!Init, Exch!Init, Client!Next, Exch!Next, Client!vars, Exch!vars,
       Client!client, Exch!client, Client!output, Exch!output, Client!Fail, Exch!Fail,
       Client!Refuse, Exch!Refuse, Client!FailStartup, Exch!FailStartup,
       Client!FailScript, Exch!FailScript, Client!TimeOut, Exch!TimeOut,
       Client!Start, Exch!Start, Client!StartupFails, Exch!StartupFails,
       Client!Write, Exch!Write, Client!Close, Exch!Close, Client!Return, Exch!Return,
       Client!AnswerFull, Exch!AnswerFull, Client!AnswerChunked, Exch!AnswerChunked,
       Client!Deliver, Exch!Deliver, Client!EndStream, Exch!EndStream,
       Client!Leave, Exch!Leave

\* The client of a request has what its script wrote, from the front, all of it in a
\* full response and nothing in an error.
THEOREM ClientsGetTheOutput == SafeSpec => []Client!Faithful
<1>1. Exch!Spec => []Exch!Faithful
  BY Exch!ExchangeIsFaithful
<1>2. Exch!Faithful => Client!Faithful
  BY DEF Exch!Faithful, Client!Faithful
<1>3. QED
  BY RequestIsExchange, SameExchange, <1>1, <1>2, PTL DEF ImplementsExchange, Client!Spec, Exch!Spec

\* Once it has its answer nothing changes it, and once it is gone nothing is written.
THEOREM ClientsAreAnsweredOnce == SafeSpec => Client!AnsweredOnce
<1>1. Exch!Spec => Exch!AnsweredOnce
  BY Exch!ExchangeAnswersOnce
<1>2. [Exch!Once]_(Exch!vars) => [Client!Once]_(Client!vars)
  BY DEF Exch!Once, Client!Once, Exch!vars, Client!vars, Exch!client, Client!client,
         Exch!output, Client!output
<1>3. QED
  BY RequestIsExchange, SameExchange, <1>1, <1>2, PTL
     DEF ImplementsExchange, Client!Spec, Exch!Spec, Exch!AnsweredOnce, Client!AnsweredOnce

-----------------------------------------------------------------------------
(* Waiting. *)

\* What a thread leaves behind: unless its startup failed, a closed body and a head that
\* was sent or refused, and refused only by a future that does not select any more.
LeavesNothing ==
  /\ php = "epilogue" => sender = "gone"
  /\ php = "returned" => Settled
  /\ php = "returned" => err = "RequestStartupFailed" \/ (sender = "gone" /\ head # "held")
  /\ svc = "select" => head # "refused"

\* Every step preserves it.
LEMMA LeavesNothingStep ==
  ASSUME TypeOK, Body!TypeOK, IInv, Outcome, LeavesNothing, [Next]_vars
  PROVE  LeavesNothing'
<1> USE DEF LeavesNothing, Settled, thread, request, service, chan
<1>0. /\ php # "returned" => err = "held"
      /\ svc = "body" => php = "idle"
      /\ php = "idle" => head = "held"
      /\ fin = "head" => finished
      /\ finished => sender # "live"
      /\ finished /\ fin # "head" => head # "held"
      /\ fin # "none" => php \in {"script", "shutdown", "deactivate"}
      /\ php = "epilogue" => finished
  BY DEF IInv, ServiceInv, ThreadInv, HeadInv, Outcome
<1>1. CASE UNCHANGED vars
  BY <1>1 DEF vars
<1>2. CASE RequestBodyFails \/ SelectError \/ ClientGone \/ TimedOut
  BY <1>2 DEF RequestBodyFails, SelectError, ClientGone, TimedOut, Respond, Body!DropBody
<1>3. CASE SpawnScript \/ SelectFull \/ SelectChunked \/ Gathered \/ Streamed
  BY <1>0, <1>3 DEF SpawnScript, SelectFull, SelectChunked, Gathered, Streamed
<1>4. CASE RecvFrame \/ RecvNothing \/ PollFinishReady \/ PollFinishPending \/ Repoll
  BY <1>4 DEF RecvFrame, RecvNothing, PollFinishReady, PollFinishPending, Repoll, Polling,
              Body!RecvFrame, Body!RecvNothing, Body!PollFinishReady, Body!PollFinishPending,
              Body!Repoll
<1>5. CASE SendHeaders \/ UbWrite \/ FatalError \/ FinishRequest \/ FinishHeadTaken
  BY <1>5 DEF SendHeaders, UbWrite, FatalError, FinishRequest, FinishHeadTaken, Writes, PhpRuns,
              Body!Send, Bailout, AfterJump
<1>6. CASE Flush \/ FinishHead
  BY <1>6 DEF Flush, FinishHead, PhpRuns, SendHead
<1>7. CASE UbWriteRefused
  BY <1>7 DEF UbWriteRefused, Writes, PhpRuns, HandleAbort, Bailout, AfterJump, Body!SendRejected,
              Body!DropFrame
<1>8. CASE FlushRefused
  BY <1>8 DEF FlushRefused, PhpRuns, SendHeadRefused, HandleAbort, Bailout, AfterJump
<1>9. CASE FinishAbort
  BY <1>0, <1>9 DEF FinishAbort, AbortBody, Body!Abort
<1>10. CASE FinishHeadRefused
  BY <1>0, <1>10 DEF FinishHeadRefused, SendHeadRefused, HandleAbort, Bailout, AfterJump
<1>11. CASE AbortDropFrame \/ DropFinish
  BY <1>11 DEF AbortDropFrame, DropFinish, Body!AbortDropFrame, Body!DropFinish
<1>12. CASE RequestStartup \/ StartupFails \/ StartupSucceeds \/ EndScript \/ EndShutdown
  BY <1>12 DEF RequestStartup, StartupFails, StartupError, StartupSucceeds, EndScript, EndShutdown
<1>13. CASE DeactivateEnd \/ Epilogue
  BY <1>0, <1>13 DEF DeactivateEnd, Epilogue
<1>14. QED
  BY <1>1, <1>2, <1>3, <1>4, <1>5, <1>6, <1>7, <1>8, <1>9, <1>10, <1>11, <1>12, <1>13
     DEF Next, Service, Callback, Execute

\* A thread that has returned, well or not, or that waits for ever on a leaked guard has
\* sent its head and closed its body: whoever waits has an answer or an end to see.
THEOREM EveryWaitHasAnEnd == SafeSpec => []NobodyWaitsInVain
<1>1. Init => Outcome /\ LeavesNothing
  BY DEF Init, Body!Init, Outcome, LeavesNothing
<1>2. TypeOK /\ Body!TypeOK /\ IInv /\ Outcome /\ LeavesNothing /\ [Next]_vars
        => Outcome' /\ LeavesNothing'
  BY OutcomeStep, LeavesNothingStep
<1>3. ASSUME TypeOK, Body!TypeOK, Body!NoLostWakeup, IInv, Outcome, LeavesNothing,
             php = "returned" \/ Stuck
      PROVE  /\ svc = "select" => ErrorSent \/ head \in {"full", "chunked"}
             /\ svc \in {"gather", "streaming"} =>
                  Stranded \/ (sender = "gone" /\ (rx = "parked" => woken))
  <2>1. Stuck => sender = "gone" /\ head # "held"
    BY <1>3 DEF Stuck, Settled, IInv, HeadInv
  <2>2. svc = "select" => ErrorSent \/ head \in {"full", "chunked"}
    BY <1>3, <2>1 DEF TypeOK, LeavesNothing, ErrorSent
  <2>3. ASSUME svc \in {"gather", "streaming"}, sender = "gone"
        PROVE  rx = "parked" => woken
    BY <1>3, <2>3 DEF Body!NoLostWakeup, Body!FinishResolved
  <2>4. ASSUME svc \in {"gather", "streaming"}, sender # "gone"
        PROVE  Stranded
    <3>1. err = "RequestStartupFailed" /\ svc = "streaming" /\ head = "chunked"
      BY <1>3, <2>1, <2>4 DEF LeavesNothing, IInv, ServiceInv, HeadInv
    <3>2. sender = "live"
      BY <1>3, <2>1, <2>4, <3>1 DEF LeavesNothing, Settled
    <3>3. QED
      BY <3>1, <3>2 DEF Stranded
  <2>5. QED
    BY <2>2, <2>3, <2>4
<1>4. TypeOK /\ Body!TypeOK /\ Body!NoLostWakeup /\ IInv /\ Outcome /\ LeavesNothing
        => NobodyWaitsInVain
  BY <1>3 DEF NobodyWaitsInVain
<1>5. QED
  BY <1>1, <1>2, <1>4, RequestTypeCorrect, BodyFacts, RequestInvariant, PTL DEF SafeSpec

-----------------------------------------------------------------------------
(* The composition with Server. *)

Over == svc \in {"done", "cancelled"}

\* A step leaves the exchange open, ends it, or comes after its end.
LEMMA StepOfExchange ==
  ASSUME TypeOK, IInv, [Next]_vars
  PROVE  \/ ~Over /\ ~Over'
         \/ ~Over /\ Over' /\ php' = php
         \/ /\ Over /\ svc' = svc
            /\ php' = php \/ (php \notin {"idle", "returned"} /\ php' # "idle")
<1> USE DEF Over, thread, request, service, chan
<1>1. CASE UNCHANGED vars
  BY <1>1 DEF vars
<1>2. CASE Service
  BY <1>2 DEF TypeOK, Service, RequestBodyFails, SpawnScript, SelectError, SelectFull, SelectChunked,
     RecvFrame, RecvNothing, PollFinishReady, PollFinishPending, Repoll, Polling, Gathered,
     Streamed, ClientGone, TimedOut, Respond
<1>3. CASE Callback
  <2>1. ASSUME NEW at, HandleAbort(at)
        PROVE  svc' = svc /\ (php' = php \/ php' \in {"failed", "shutdown", "epilogue"})
    BY <2>1 DEF HandleAbort, Bailout, AfterJump
  <2>2. fin # "none" => php \in {"script", "shutdown", "deactivate"}
    BY DEF IInv, ThreadInv
  <2>3. svc' = svc
    BY <1>3, <2>1 DEF Callback, SendHeaders, UbWrite, UbWriteRefused, FatalError, Flush, FlushRefused,
       FinishRequest, FinishAbort, FinishHead, FinishHeadRefused, FinishHeadTaken,
       AbortDropFrame, DropFinish, SendHead, SendHeadRefused
  <2>4. php' = php \/ (php \notin {"idle", "returned"} /\ php' # "idle")
    BY <1>3, <2>1, <2>2 DEF Callback, SendHeaders, UbWrite, UbWriteRefused, FatalError, Flush, FlushRefused,
       FinishRequest, FinishAbort, FinishHead, FinishHeadRefused, FinishHeadTaken,
       AbortDropFrame, DropFinish, SendHead, SendHeadRefused, Writes, PhpRuns, Bailout, AfterJump
  <2>5. QED
    BY <2>3, <2>4
<1>4. CASE Execute
  BY <1>4 DEF Execute, RequestStartup, StartupFails, StartupSucceeds, EndScript, EndShutdown, DeactivateEnd,
              Epilogue
<1>5. QED
  BY <1>1, <1>2, <1>3, <1>4 DEF Next

\* What a server sees of such a step: an answer, a departure, the end of a thread.
LEMMA ServerSees ==
  ASSUME TypeOK, IInv, [Next]_vars,
         NEW when \in {"serving", "draining", "module", "sapi"}
  PROVE  RequestOfServer(when)
<1> USE DEF RequestOfServer, Life!vars, Life!signals, Connection, Detached, Over
<1>1. CASE ~Over /\ ~Over'
  BY <1>1
<1>2. CASE ~Over /\ Over' /\ php' = php
  <2> USE DEF Life!Alive, Life!Leave, Life!AfterAnswer, Life!Detach
  <2>1. CASE svc' = "done" /\ php \in {"idle", "returned"}
    <3>1. Life(when)!Answer("client")
      BY <1>2, <2>1 DEF Life!Answer
    <3>2. QED
      BY <3>1
  <2>2. CASE svc' = "done" /\ php \notin {"idle", "returned"}
    <3>1. Life(when)!AnswerEarly("client")
      BY <1>2, <2>2 DEF Life!AnswerEarly
    <3>2. QED
      BY <3>1
  <2>3. CASE svc' = "cancelled"
    <3>1. Life(when)!ClientLeavesBusy("client")
      BY <1>2, <2>3 DEF Life!ClientLeavesBusy
    <3>2. QED
      BY <3>1
  <2>4. QED
    BY <1>2, <2>1, <2>2, <2>3
<1>3. CASE Over /\ svc' = svc /\ (php' = php \/ (php \notin {"idle", "returned"} /\ php' # "idle"))
  <2>1. CASE php \notin {"idle", "returned"} /\ php' = "returned"
    <3>1. Life(when)!ThreadReturns
      BY <1>3, <2>1 DEF Life!ThreadReturns, Life!Alive
    <3>2. QED
      BY <3>1
  <2>2. QED
    BY <1>3, <2>1
<1>4. QED
  BY <1>1, <1>2, <1>3, StepOfExchange

\* A request fits into its server.
THEOREM RequestFitsServer == SafeSpec => FitsServer
<1>1. TypeOK /\ IInv /\ [Next]_vars =>
        [\A when \in {"serving", "draining", "module", "sapi"} : RequestOfServer(when)]_vars
  BY ServerSees
<1>2. QED
  BY <1>1, RequestTypeCorrect, RequestInvariant, PTL DEF SafeSpec, FitsServer

=============================================================================
