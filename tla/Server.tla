------------------------------- MODULE Server -------------------------------
(***************************************************************************)
(* The life of a server from the moment its listener is bound: the accept  *)
(* loop and the drain of src/cli/serve.rs, the shutdown of PHP around it   *)
(* in src/cli/mod.rs, and the exit of src/main.rs. What a request does is  *)
(* module PhpRequest; here it matters only that its connection is busy,    *)
(* and that its PHP thread may outlive the response: after                 *)
(* pasir_finish_request, a timeout or the departure of the client it runs  *)
(* on detached.                                                            *)
(*                                                                         *)
(* tokio::select! polls its branches in random order and drops the futures *)
(* of the others before it runs a handler. sigterm is created once and     *)
(* remembers a signal; ctrl_c() is created for every turn of the loop, and *)
(* what it has heard goes with it. The handler of SIGTERM is installed     *)
(* when its stream is made, after clients can connect; that of SIGINT by   *)
(* the first poll of ctrl_c(). Until then each has its default action.     *)
(***************************************************************************)
EXTENDS Naturals

CONSTANTS
  Conns,                 \* connections that clients may make
  MaxDetached            \* bound on the detached PHP threads at one time

ASSUME ServerAssumption == MaxDetached \in Nat

VARIABLES
  phase,                 \* where Cli::execute and main stand
  loop,                  \* the accept loop: in select!, or in its accept handler
  accepting,             \* this select! still polls listener.accept()
  armed,                 \* ctrl_c() was polled once: SIGINT has a handler
  sigint, sigterm,       \* the future, the stream has heard its signal
  conn,                  \* each connection
  watched,               \* connections graceful.shutdown() waits for
  detached,              \* PHP threads whose response is gone
  timedOut,              \* the drain was cut by its timer
  result,                \* what serve() returned
  raised                 \* history: signals sent to the process

vars == <<phase, loop, accepting, armed, sigint, sigterm, conn, watched, detached,
          timedOut, result, raised>>
signals == <<armed, sigint, sigterm, raised>>

Handling == {c \in Conns : conn[c] = "accepted"}
Open == {c \in Conns : conn[c] \in {"open", "busy"}}

Init ==
  /\ phase = "listening"
  /\ loop = "select"
  /\ accepting = TRUE
  /\ armed = FALSE
  /\ sigint = FALSE
  /\ sigterm = FALSE
  /\ conn = [c \in Conns |-> "none"]
  /\ watched = {}
  /\ detached = 0
  /\ timedOut = FALSE
  /\ result = "none"
  /\ raised = {}

Selecting == phase = "serving" /\ loop = "select"
Alive == phase \notin {"exited", "killed"}

\* The listener is gone: connections that wait for accept() are reset.
Refused == [c \in Conns |-> IF conn[c] = "backlog" THEN "refused" ELSE conn[c]]

-----------------------------------------------------------------------------
(* The environment. *)

\* The kernel takes connections as soon as the listener is bound.
Connect(c) ==
  /\ phase \in {"listening", "serving"}
  /\ conn[c] = "none"
  /\ conn' = [conn EXCEPT ![c] = "backlog"]
  /\ UNCHANGED <<phase, loop, accepting, signals, watched, detached, timedOut, result>>

\* A SIGINT finds a ctrl_c future only while the loop is in its select!.
Sigint ==
  /\ armed
  /\ "SIGINT" \notin raised
  /\ phase \in {"serving", "draining"}
  /\ raised' = raised \union {"SIGINT"}
  /\ sigint' = Selecting
  /\ UNCHANGED <<phase, loop, accepting, armed, sigterm, conn, watched, detached, timedOut, result>>

\* Without a handler a SIGINT ends the process where it stands.
SigintKills ==
  /\ ~armed
  /\ Alive
  /\ raised' = raised \union {"SIGINT"}
  /\ phase' = "killed"
  /\ conn' = Refused
  /\ UNCHANGED <<loop, accepting, armed, sigint, sigterm, watched, detached,
                 timedOut, result>>

\* Mutant: the stream of SIGTERM is made in the select!, as ctrl_c() is.
SigtermUnheardLate == phase = "listening" \/ (phase = "serving" /\ ~armed)
SigtermUnheard == phase = "listening"

\* So does a SIGTERM before its stream is made.
SigtermKills ==
  /\ SigtermUnheard
  /\ raised' = raised \union {"SIGTERM"}
  /\ phase' = "killed"
  /\ conn' = Refused
  /\ UNCHANGED <<loop, accepting, armed, sigint, sigterm, watched, detached,
                 timedOut, result>>

Sigterm ==
  /\ "SIGTERM" \notin raised
  /\ phase \in {"serving", "draining"}
  /\ raised' = raised \union {"SIGTERM"}
  /\ sigterm' = TRUE
  /\ UNCHANGED <<phase, loop, accepting, armed, sigint, conn, watched, detached, timedOut, result>>

-----------------------------------------------------------------------------
(* The accept loop (src/cli/serve.rs:90-142). *)

\* signal(SignalKind::terminate())?: an error leaves serve() and drops the listener.
OpenSigterm ==
  /\ phase = "listening"
  /\ \/ phase' = "serving" /\ UNCHANGED <<conn, result>>
     \/ phase' = "module" /\ conn' = Refused /\ result' = "err"
  /\ UNCHANGED <<loop, accepting, signals, watched, detached, timedOut>>

\* Mutant: the SIGTERM stream is created anew for every turn, like ctrl_c.
AcceptForgets(c) ==
  /\ Selecting
  /\ accepting
  /\ conn[c] = "backlog"
  /\ loop' = "handler"
  /\ conn' = [conn EXCEPT ![c] = "accepted"]
  /\ sigint' = FALSE
  /\ sigterm' = FALSE
  /\ UNCHANGED <<phase, accepting, armed, raised, watched, detached, timedOut, result>>

\* select! polls the branch of ctrl_c() for the first time, before another one is
\* taken or not at all; a select! that waits has polled every branch.
PollCtrlC ==
  /\ Selecting
  /\ ~armed
  /\ armed' = TRUE
  /\ UNCHANGED <<phase, loop, accepting, sigint, sigterm, raised, conn, watched,
                 detached, timedOut, result>>

\* The handler runs after the ctrl_c future of this turn was dropped.
Accept(c) ==
  /\ Selecting
  /\ accepting
  /\ conn[c] = "backlog"
  /\ loop' = "handler"
  /\ conn' = [conn EXCEPT ![c] = "accepted"]
  /\ sigint' = FALSE
  /\ UNCHANGED <<phase, accepting, armed, sigterm, raised, watched, detached, timedOut, result>>

\* An Err does not match the pattern: the branch is disabled until the next turn.
AcceptFails ==
  /\ Selecting
  /\ accepting
  /\ accepting' = FALSE
  /\ UNCHANGED <<phase, loop, signals, conn, watched, detached, timedOut, result>>

\* Mutant: the connection is spawned without graceful.watch.
SpawnUnwatched(c) ==
  /\ conn[c] = "accepted"
  /\ phase = "serving"
  /\ loop' = "select"
  /\ accepting' = TRUE
  /\ conn' = [conn EXCEPT ![c] = "open"]
  /\ UNCHANGED <<phase, signals, watched, detached, timedOut, result>>

Spawn(c) ==
  /\ conn[c] = "accepted"
  /\ phase = "serving"
  /\ loop' = "select"
  /\ accepting' = TRUE
  /\ conn' = [conn EXCEPT ![c] = "open"]
  /\ watched' = watched \union {c}
  /\ UNCHANGED <<phase, signals, detached, timedOut, result>>

\* stream.local_addr()? leaves serve() with an error, and drops the listener.
LocalAddrFails(c) ==
  /\ conn[c] = "accepted"
  /\ phase = "serving"
  /\ phase' = "module"
  /\ result' = "err"
  /\ conn' = [d \in Conns |-> IF conn[d] = "backlog" \/ d = c THEN "refused" ELSE conn[d]]
  /\ UNCHANGED <<loop, accepting, signals, watched, detached, timedOut>>

\* Mutant: the listener is not dropped.
StopKeepsListener(heard) ==
  /\ Selecting
  /\ heard
  /\ phase' = "draining"
  /\ UNCHANGED <<loop, accepting, signals, conn, watched, detached, timedOut, result>>

\* A signal was heard: drop(listener), and on to graceful.shutdown().
Stop(heard) ==
  /\ Selecting
  /\ heard
  /\ phase' = "draining"
  /\ conn' = Refused
  /\ UNCHANGED <<loop, accepting, signals, watched, detached, timedOut, result>>

StopOnSigint == Stop(sigint)
StopOnSigterm == Stop(sigterm)

-----------------------------------------------------------------------------
(* Connections, and the PHP threads of their requests. *)

\* A request for PHP. A connection takes one until it has been told to shut down.
Request(c) ==
  /\ Alive
  /\ conn[c] = "open"
  /\ conn' = [conn EXCEPT ![c] = "busy"]
  /\ UNCHANGED <<phase, loop, accepting, signals, watched, detached, timedOut, result>>

\* A connection that was told to shut down closes when it has answered.
AfterAnswer == IF phase = "serving" THEN "open" ELSE "closed"

Leave(c, state) ==
  /\ conn' = [conn EXCEPT ![c] = state]
  /\ watched' = IF state = "closed" THEN watched \ {c} ELSE watched
  /\ UNCHANGED <<phase, loop, accepting, signals, timedOut, result>>

Detach == detached < MaxDetached /\ detached' = detached + 1

\* The thread has returned when the response is sent, or there never was one.
Answer(c) ==
  /\ Alive
  /\ conn[c] = "busy"
  /\ Leave(c, AfterAnswer)
  /\ UNCHANGED detached

\* PHP runs on: after pasir_finish_request, a 504 of the timeout layer, or from the end
\* of a body to the end of deactivate().
AnswerEarly(c) ==
  /\ Alive
  /\ conn[c] = "busy"
  /\ Leave(c, AfterAnswer)
  /\ Detach

ClientLeaves(c) ==
  /\ Alive
  /\ conn[c] = "open"
  /\ Leave(c, "closed")
  /\ UNCHANGED detached

\* No thread is left if the body of the request was still being read.
ClientLeavesBusy(c) ==
  /\ Alive
  /\ conn[c] = "busy"
  /\ Leave(c, "closed")
  /\ Detach \/ UNCHANGED detached

ThreadReturns ==
  /\ Alive
  /\ detached > 0
  /\ detached' = detached - 1
  /\ UNCHANGED <<phase, loop, accepting, signals, conn, watched, timedOut, result>>

\* An idle connection closes when it is told to shut down, by graceful.shutdown() or
\* by the drop of graceful.
CloseIdle(c) ==
  /\ Alive
  /\ phase \notin {"listening", "serving"}
  /\ conn[c] = "open"
  /\ Leave(c, "closed")
  /\ UNCHANGED detached

-----------------------------------------------------------------------------
(* The drain (src/cli/serve.rs:144-153) and the end (src/cli/mod.rs:122-128). *)

\* Mutant: a drain that is cut is an error of its own.
EndDrainAborted(cut) ==
  /\ phase = "draining"
  /\ phase' = "module"
  /\ timedOut' = cut
  /\ result' = IF cut THEN "aborted" ELSE "ok"
  /\ UNCHANGED <<loop, accepting, signals, conn, watched, detached>>

EndDrain(cut) ==
  /\ phase = "draining"
  /\ phase' = "module"
  /\ timedOut' = cut
  /\ result' = "ok"
  /\ UNCHANGED <<loop, accepting, signals, conn, watched, detached>>

Drained == watched = {} /\ EndDrain(FALSE)

\* Mutant: the drain has no timer.
DrainForever == watched = {} /\ EndDrain(TRUE)
DrainTimeout == EndDrain(TRUE)

\* php_module_shutdown, then sapi_shutdown; nothing waits for blocking threads.
ModuleShutdown ==
  /\ phase = "module"
  /\ phase' = "sapi"
  /\ UNCHANGED <<loop, accepting, signals, conn, watched, detached, timedOut, result>>

\* process::exit ends every connection and every thread.
Exit ==
  /\ phase = "sapi"
  /\ phase' = "exited"
  /\ UNCHANGED <<loop, accepting, signals, conn, watched, detached, timedOut, result>>

-----------------------------------------------------------------------------

PerConn(c) ==
  \/ Connect(c) \/ Accept(c) \/ Spawn(c) \/ LocalAddrFails(c)
  \/ Request(c) \/ Answer(c) \/ AnswerEarly(c)
  \/ ClientLeaves(c) \/ ClientLeavesBusy(c) \/ CloseIdle(c)

Serving ==
  \/ \E c \in Conns : PerConn(c)
  \/ OpenSigterm \/ Sigint \/ Sigterm
  \/ PollCtrlC \/ AcceptFails \/ StopOnSigint \/ StopOnSigterm
  \/ ThreadReturns
  \/ Drained \/ DrainTimeout

Next == Serving \/ SigintKills \/ SigtermKills \/ ModuleShutdown \/ Exit

SafeSpec == Init /\ [][Next]_vars

\* The handler runs on. A select! whose branches are ready again and again takes
\* each of them, because it polls them in random order. The timer fires, an idle
\* connection closes and the process ends; nothing makes PHP finish.
Fairness ==
  /\ \A c \in Conns : WF_vars(Spawn(c) \/ LocalAddrFails(c))
  /\ WF_vars(OpenSigterm)
  /\ WF_vars(PollCtrlC)
  /\ \A c \in Conns : SF_vars(Accept(c))
  /\ SF_vars(StopOnSigint)
  /\ SF_vars(StopOnSigterm)
  /\ \A c \in Conns : WF_vars(CloseIdle(c))
  /\ WF_vars(Drained \/ DrainTimeout)
  /\ WF_vars(ModuleShutdown)
  /\ WF_vars(Exit)

Spec == SafeSpec /\ Fairness

-----------------------------------------------------------------------------
(* Properties. *)

\* Every variable has its type (src/cli/serve.rs:86-91).
TypeOK ==
  /\ phase \in {"listening", "serving", "draining", "module", "sapi", "exited", "killed"}
  /\ loop \in {"select", "handler"}
  /\ accepting \in BOOLEAN
  /\ armed \in BOOLEAN
  /\ sigint \in BOOLEAN
  /\ sigterm \in BOOLEAN
  /\ conn \in [Conns -> {"none", "backlog", "accepted", "open", "busy", "closed", "refused"}]
  /\ watched \subseteq Conns
  /\ detached \in 0..MaxDetached
  /\ timedOut \in BOOLEAN
  /\ result \in {"none", "ok", "err"}
  /\ raised \subseteq {"SIGINT", "SIGTERM"}

\* A drain that reports success has cut no connection: whatever was accepted before
\* the signal has closed, and no request is left without its answer.
DrainCutsNothing == result = "ok" /\ ~timedOut => Open = {}

\* The accept handler holds the connection it accepted until it is spawned, unless
\* local_addr()? ends serve() under it or a signal the process; one that waits is refused
\* only when nothing is accepted any more.
NoConnectionDropped ==
  /\ phase = "serving" /\ loop = "handler" => Handling # {}
  /\ Handling # {} => phase \in {"serving", "killed"} /\ loop = "handler"
  /\ \A c \in Conns : conn[c] = "refused" => phase \notin {"listening", "serving"}

\* A SIGTERM ends the accept loop, however many connections arrive with it.
SigtermStops == ("SIGTERM" \in raised) ~> (phase # "serving")

\* A waiting connection is accepted or refused, unless an accept error has disabled
\* the branch.
Accepted ==
  \A c \in Conns : (conn[c] = "backlog") ~> (conn[c] # "backlog" \/ ~accepting)

-----------------------------------------------------------------------------
(* Refinement: the server as those who connect see it (module GracefulStop). *)

Door ==
  IF phase \in {"listening", "serving"} THEN "open"
  ELSE IF phase = "draining" THEN "closing" ELSE "closed"

\* A connection that the accept handler holds is still waiting; a kill resets it.
Guest(c) ==
  CASE conn[c] = "none" -> "away"
    [] conn[c] = "backlog" -> "waiting"
    [] conn[c] = "accepted" -> IF phase = "killed" THEN "refused" ELSE "waiting"
    [] conn[c] \in {"open", "busy"} -> "admitted"
    [] conn[c] = "closed" -> "gone"
    [] conn[c] = "refused" -> "refused"

Public == INSTANCE GracefulStop WITH
  Guests <- Conns, door <- Door, guest <- [c \in Conns |-> Guest(c)],
  clean <- result = "ok" /\ ~timedOut

\* Whatever arrives together, connections, signals, errors and timers, those who connect
\* see a server that stops gracefully or says that it did not.
ImplementsGracefulStop == Public!Spec

-----------------------------------------------------------------------------
(* What the repository says of the program and the program does not do. *)

\* A SIGINT shuts the server down ("Graceful Shutdown: SIGINT handling with
\* configurable timeout", README.md:27).
SigintStops == ("SIGINT" \in raised) ~> (phase # "serving")

\* No PHP runs after the module was shut down ("no later calls to PHP APIs are made
\* after shutdown", crates/pasir_sapi/src/lib.rs:159-160).
NoPhpAfterShutdown ==
  phase = "sapi" => detached = 0 /\ \A c \in Conns : conn[c] # "busy"
=============================================================================
