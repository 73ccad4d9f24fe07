---------------------------- MODULE ServerProofs ----------------------------
(***************************************************************************)
(* The safety properties of Server, for every set of connections and every *)
(* number of detached threads. One inductive invariant ties the handler to *)
(* the one connection in its hands, and graceful to the open connections.  *)
(***************************************************************************)
EXTENDS Server, TLAPS

\* The accept handler holds one connection.
OneHandled == \A c, d \in Handling : c = d

\* graceful waits for every connection that was spawned.
AllWatched == Open \subseteq watched

\* serve() has a result once it has returned, and a drain ends for one reason.
ResultOfServe ==
  /\ phase \in {"listening", "serving", "draining"} => result = "none"
  /\ result = "none" => phase \in {"listening", "serving", "draining", "killed"}

\* Only a listener has connections that wait for it.
BacklogOfListener == \A c \in Conns : conn[c] = "backlog" => phase \in {"listening", "serving"}

\* The loop starts in its select!, and until then clients only wait.
LoopNotEntered ==
  phase = "listening" => loop = "select" /\ \A c \in Conns : conn[c] \in {"none", "backlog"}

IInv ==
  /\ TypeOK
  /\ BacklogOfListener
  /\ LoopNotEntered
  /\ OneHandled
  /\ AllWatched
  /\ ResultOfServe
  /\ NoConnectionDropped
  /\ DrainCutsNothing

\* The server starts with no connection.
LEMMA InitIInv == Init => IInv
<1> SUFFICES ASSUME Init PROVE IInv
  OBVIOUS
<1>1. detached \in 0..MaxDetached
  BY ServerAssumption DEF Init
<1>2. TypeOK
  BY <1>1 DEF Init, TypeOK
<1>3. QED
  BY <1>2 DEF Init, IInv, BacklogOfListener, LoopNotEntered, OneHandled, Handling, AllWatched, Open, ResultOfServe,
              NoConnectionDropped, DrainCutsNothing

\* The steps that are neither a connection's nor an end of the loop or the drain.
SignalOrLoop ==
  \/ OpenSigterm \/ Sigint \/ SigintKills \/ SigtermKills \/ Sigterm
  \/ PollCtrlC \/ AcceptFails \/ ThreadReturns

\* Every step keeps every variable in its type.
LEMMA TypeStep ==
  ASSUME TypeOK, [Next]_vars
  PROVE  TypeOK'
<1> USE DEF TypeOK, signals
<1>1. ASSUME NEW c \in Conns, PerConn(c)
      PROVE  TypeOK'
  <2>1. CASE Connect(c) \/ Accept(c) \/ Spawn(c) \/ LocalAddrFails(c) \/ Request(c)
    BY <2>1 DEF Connect, Accept, Spawn, LocalAddrFails, Request
  <2>2. CASE Answer(c) \/ ClientLeaves(c) \/ CloseIdle(c)
    BY <2>2 DEF Answer, ClientLeaves, CloseIdle, Leave, AfterAnswer
  <2>3. CASE AnswerEarly(c) \/ ClientLeavesBusy(c)
    <3>1. detached' \in 0..MaxDetached
      BY <2>3, ServerAssumption DEF AnswerEarly, ClientLeavesBusy, Detach
    <3>2. QED
      BY <2>3, <3>1 DEF AnswerEarly, ClientLeavesBusy, Leave, AfterAnswer
  <2>4. QED
    BY <1>1, <2>1, <2>2, <2>3 DEF PerConn
<1>2. CASE SignalOrLoop
  <2>1. CASE SignalOrLoop /\ ~ThreadReturns
    BY <2>1 DEF SignalOrLoop, OpenSigterm, Sigint, SigintKills, SigtermKills, Refused, Sigterm,
       PollCtrlC, AcceptFails, Selecting
  <2>2. CASE ThreadReturns
    <3>1. detached' \in 0..MaxDetached
      BY <2>2, ServerAssumption DEF ThreadReturns
    <3>2. QED
      BY <2>2, <3>1 DEF ThreadReturns
  <2>3. QED
    BY <1>2, <2>1, <2>2
<1>3. CASE StopOnSigint \/ StopOnSigterm
  BY <1>3 DEF StopOnSigint, StopOnSigterm, Stop, Refused
<1>4. CASE Drained \/ DrainTimeout \/ ModuleShutdown \/ Exit
  BY <1>4 DEF Drained, DrainTimeout, EndDrain, ModuleShutdown, Exit
<1>5. CASE UNCHANGED vars
  BY <1>5 DEF vars
<1>6. QED
  BY <1>1, <1>2, <1>3, <1>4, <1>5 DEF Next, Serving, SignalOrLoop

\* Every step keeps the connection in the handler, and those graceful waits for.
LEMMA LoopStep ==
  ASSUME IInv, [Next]_vars
  PROVE  /\ BacklogOfListener' /\ LoopNotEntered' /\ OneHandled' /\ AllWatched'
         /\ ResultOfServe' /\ NoConnectionDropped'
<1> USE DEF IInv, TypeOK, BacklogOfListener, LoopNotEntered, OneHandled, Handling, AllWatched, Open, ResultOfServe,
            NoConnectionDropped, signals
<1>1. ASSUME NEW c \in Conns, PerConn(c)
      PROVE  /\ BacklogOfListener' /\ LoopNotEntered' /\ OneHandled' /\ AllWatched'
             /\ ResultOfServe' /\ NoConnectionDropped'
  <2>1. CASE Connect(c)
    BY <2>1 DEF Connect
  <2>2. CASE Accept(c)
    BY <2>2 DEF Accept, Selecting
  <2>3. CASE Spawn(c)
    BY <2>3 DEF Spawn
  <2>4. CASE LocalAddrFails(c)
    BY <2>4 DEF LocalAddrFails
  <2>5. CASE Request(c)
    BY <2>5 DEF Request
  <2>6. CASE Answer(c) \/ AnswerEarly(c)
    BY <2>6 DEF Answer, AnswerEarly, Leave, AfterAnswer
  <2>7. CASE ClientLeaves(c) \/ ClientLeavesBusy(c) \/ CloseIdle(c)
    BY <2>7 DEF ClientLeaves, ClientLeavesBusy, CloseIdle, Leave
  <2>8. QED
    BY <1>1, <2>1, <2>2, <2>3, <2>4, <2>5, <2>6, <2>7 DEF PerConn
<1>2. CASE SignalOrLoop
  BY <1>2 DEF SignalOrLoop, OpenSigterm, Sigint, SigintKills, SigtermKills, Refused, Sigterm,
     PollCtrlC, AcceptFails, ThreadReturns
<1>3. CASE StopOnSigint \/ StopOnSigterm
  BY <1>3 DEF StopOnSigint, StopOnSigterm, Stop, Refused, Selecting
<1>4. CASE Drained \/ DrainTimeout \/ ModuleShutdown \/ Exit
  BY <1>4 DEF Drained, DrainTimeout, EndDrain, ModuleShutdown, Exit
<1>5. CASE UNCHANGED vars
  BY <1>5 DEF vars
<1>6. QED
  BY <1>1, <1>2, <1>3, <1>4, <1>5 DEF Next, Serving, SignalOrLoop

\* Once a drain has succeeded no connection opens: the loop is over.
LEMMA DrainStep ==
  ASSUME IInv, [Next]_vars
  PROVE  DrainCutsNothing'
<1> USE DEF IInv, TypeOK, AllWatched, Open, ResultOfServe, DrainCutsNothing, signals
<1>1. ASSUME NEW c \in Conns, PerConn(c)
      PROVE  DrainCutsNothing'
  <2>1. CASE Connect(c) \/ Accept(c) \/ Spawn(c) \/ LocalAddrFails(c)
    BY <2>1 DEF Connect, Accept, Selecting, Spawn, LocalAddrFails
  <2>2. CASE Request(c)
    BY <2>2 DEF Request
  <2>3. CASE Answer(c) \/ AnswerEarly(c)
    BY <2>3 DEF Answer, AnswerEarly, Leave
  <2>4. CASE ClientLeaves(c) \/ ClientLeavesBusy(c) \/ CloseIdle(c)
    BY <2>4 DEF ClientLeaves, ClientLeavesBusy, CloseIdle, Leave
  <2>5. QED
    BY <1>1, <2>1, <2>2, <2>3, <2>4 DEF PerConn
<1>2. CASE SignalOrLoop
  BY <1>2 DEF SignalOrLoop, OpenSigterm, Sigint, SigintKills, SigtermKills, Refused, Sigterm,
     PollCtrlC, AcceptFails, ThreadReturns
<1>3. CASE StopOnSigint \/ StopOnSigterm
  BY <1>3 DEF StopOnSigint, StopOnSigterm, Stop, Refused, Selecting
<1>4. CASE Drained
  BY <1>4 DEF Drained, EndDrain
<1>5. CASE DrainTimeout
  BY <1>5 DEF DrainTimeout, EndDrain
<1>6. CASE ModuleShutdown \/ Exit
  BY <1>6 DEF ModuleShutdown, Exit
<1>7. CASE UNCHANGED vars
  BY <1>7 DEF vars
<1>8. QED
  BY <1>1, <1>2, <1>3, <1>4, <1>5, <1>6, <1>7 DEF Next, Serving, SignalOrLoop

\* The invariant holds in every state.
THEOREM ServerInvariant == SafeSpec => []IInv
<1>1. IInv /\ [Next]_vars => IInv'
  BY TypeStep, LoopStep, DrainStep DEF IInv
<1>2. QED
  BY InitIInv, <1>1, PTL DEF SafeSpec

\* Every variable of the server keeps its type.
THEOREM ServerTypeCorrect == SafeSpec => []TypeOK
<1>1. IInv => TypeOK
  BY DEF IInv
<1>2. QED
  BY ServerInvariant, <1>1, PTL

\* A graceful shutdown that reports success has cut no connection.
THEOREM DrainIsGraceful == SafeSpec => []DrainCutsNothing
<1>1. IInv => DrainCutsNothing
  BY DEF IInv
<1>2. QED
  BY ServerInvariant, <1>1, PTL

\* The accept handler holds what it accepted until it is spawned, unless local_addr()?
\* ends serve(); a connection is refused only when the listener is gone.
THEOREM ConnectionsAreKept == SafeSpec => []NoConnectionDropped
<1>1. IInv => NoConnectionDropped
  BY DEF IInv
<1>2. QED
  BY ServerInvariant, <1>1, PTL

-----------------------------------------------------------------------------
(* The refinement. *)

\* What a connection does is what its guest does, or nothing to it.
LEMMA ConnRefines ==
  ASSUME IInv, NEW c \in Conns, PerConn(c)
  PROVE  [Public!Next]_(Public!vars)
<1> USE DEF IInv, TypeOK, Door, Guest, signals
<1>1. CASE Connect(c)
  <2>1. Public!Arrive(c)
    BY <1>1 DEF Connect, Public!Arrive
  <2>2. QED
    BY <2>1 DEF Public!Next
<1>2. CASE Accept(c)
  BY <1>2 DEF Accept, Selecting, Public!vars
<1>3. CASE Spawn(c)
  <2>1. Public!Admit(c)
    BY <1>3 DEF Spawn, Public!Admit
  <2>2. QED
    BY <2>1 DEF Public!Next
<1>4. CASE LocalAddrFails(c)
  <2>1. Public!StopShort
    BY <1>4 DEF LocalAddrFails, OneHandled, Handling, ResultOfServe, Public!StopShort,
       Public!RefuseWaiting
  <2>2. QED
    BY <2>1 DEF Public!Next
<1>5. CASE Request(c)
  BY <1>5 DEF Request, Public!vars
<1>6. ASSUME NEW state \in {"open", "closed"}, conn[c] \in {"open", "busy"}, Leave(c, state)
      PROVE  [Public!Next]_(Public!vars)
  <2>1. CASE state = "open"
    BY <1>6, <2>1 DEF Leave, Public!vars
  <2>2. CASE state = "closed"
    <3>1. Public!Part(c)
      BY <1>6, <2>2 DEF Leave, Public!Part
    <3>2. QED
      BY <3>1 DEF Public!Next
  <2>3. QED
    BY <1>6, <2>1, <2>2
<1>7. CASE Answer(c) \/ AnswerEarly(c) \/ ClientLeaves(c) \/ ClientLeavesBusy(c) \/ CloseIdle(c)
  <2>1. AfterAnswer \in {"open", "closed"}
    BY DEF AfterAnswer
  <2>2. QED
    BY <1>6, <1>7, <2>1 DEF Answer, AnswerEarly, ClientLeaves, ClientLeavesBusy, CloseIdle
<1>8. QED
  BY <1>1, <1>2, <1>3, <1>4, <1>5, <1>7 DEF PerConn

\* So is what the loop, the signals and the drain do, and a kill.
LEMMA LoopRefines ==
  ASSUME IInv, [Next]_vars, ~ \E c \in Conns : PerConn(c)
  PROVE  [Public!Next]_(Public!vars)
<1> USE DEF IInv, TypeOK, Door, Guest, signals
<1>1. CASE Sigint \/ Sigterm \/ PollCtrlC \/ AcceptFails \/ ThreadReturns
  BY <1>1 DEF Sigint, Sigterm, PollCtrlC, AcceptFails, ThreadReturns, Public!vars
<1>2. CASE StopOnSigint \/ StopOnSigterm
  <2>1. Public!Close
    BY <1>2 DEF StopOnSigint, StopOnSigterm, Stop, Refused, Selecting, NoConnectionDropped,
       Handling, ResultOfServe, Public!Close, Public!RefuseWaiting
  <2>2. QED
    BY <2>1 DEF Public!Next
<1>3. CASE Drained
  <2>1. \A c \in Conns : Guest(c) # "admitted"
    BY <1>3 DEF Drained, AllWatched, Open
  <2>2. Public!StopCleanly
    BY <1>3, <2>1 DEF Drained, EndDrain, Public!StopCleanly
  <2>3. QED
    BY <2>2 DEF Public!Next
<1>4. CASE DrainTimeout
  <2>1. \A c \in Conns : Guest(c) # "waiting"
    BY <1>4 DEF DrainTimeout, EndDrain, BacklogOfListener, NoConnectionDropped, Handling
  <2>2. Public!StopShort
    BY <1>4, <2>1 DEF DrainTimeout, EndDrain, ResultOfServe, Public!StopShort, Public!RefuseWaiting
  <2>3. QED
    BY <2>2 DEF Public!Next
<1>5. CASE SigintKills
  <2>1. CASE phase \in {"listening", "serving", "draining"}
    <3>1. Public!StopShort
      BY <1>5, <2>1 DEF SigintKills, Refused, ResultOfServe, Public!StopShort,
         Public!RefuseWaiting
    <3>2. QED
      BY <3>1 DEF Public!Next
  <2>2. CASE phase \in {"module", "sapi"}
    BY <1>5, <2>2 DEF SigintKills, Refused, BacklogOfListener, NoConnectionDropped, Handling,
       Public!vars
  <2>3. QED
    BY <1>5, <2>1, <2>2 DEF SigintKills, Alive
<1>6. CASE ModuleShutdown \/ Exit
  BY <1>6 DEF ModuleShutdown, Exit, NoConnectionDropped, Handling, Public!vars
<1>7. CASE SigtermKills
  <2>1. Public!StopShort
    BY <1>7 DEF SigtermKills, SigtermUnheard, Refused, ResultOfServe, Public!StopShort,
       Public!RefuseWaiting
  <2>2. QED
    BY <2>1 DEF Public!Next
<1>8. CASE OpenSigterm
  <2>1. CASE phase' = "serving" /\ UNCHANGED <<conn, result>>
    BY <1>8, <2>1 DEF OpenSigterm, Public!vars
  <2>2. CASE phase' = "module" /\ conn' = Refused /\ result' = "err"
    <3>1. Public!StopShort
      BY <1>8, <2>2 DEF OpenSigterm, Refused, ResultOfServe, NoConnectionDropped, Handling,
         Public!StopShort, Public!RefuseWaiting
    <3>2. QED
      BY <3>1 DEF Public!Next
  <2>3. QED
    BY <1>8, <2>1, <2>2 DEF OpenSigterm
<1>9. CASE UNCHANGED vars
  BY <1>9 DEF vars, Public!vars
<1>10. QED
  BY <1>1, <1>2, <1>3, <1>4, <1>5, <1>6, <1>7, <1>8, <1>9 DEF Next, Serving

\* Every server stops gracefully, or says that it did not.
THEOREM ServerStopsGracefully == SafeSpec => ImplementsGracefulStop
<1>1. Init => Public!Init
  BY DEF Init, Public!Init, Door, Guest
<1>2. IInv /\ [Next]_vars => [Public!Next]_(Public!vars)
  BY ConnRefines, LoopRefines
<1>3. QED
  BY <1>1, <1>2, ServerInvariant, PTL DEF SafeSpec, ImplementsGracefulStop, Public!Spec

-----------------------------------------------------------------------------
(* What a graceful stop promises, proved of every behaviour that GracefulStop  *)
(* allows, and so of the server.                                               *)

\* Without its second part a clean stop could leave a guest waiting.
PublicInv ==
  /\ [c \in Conns |-> Guest(c)] \in [Conns -> {"away", "waiting", "admitted", "gone", "refused"}]
  /\ Public!DoorDecides
  /\ Public!CleanIsClean

\* The promises are kept by every step of a graceful stop.
LEMMA PublicStep ==
  ASSUME PublicInv, [Public!Next]_(Public!vars)
  PROVE  PublicInv' /\ [Public!NoLateGuest]_(Public!vars)
<1> USE DEF PublicInv, Public!DoorDecides, Public!CleanIsClean, Public!NoLateGuest
<1>1. ASSUME NEW g \in Conns, Public!Arrive(g) \/ Public!Admit(g) \/ Public!Part(g)
      PROVE  PublicInv' /\ Public!NoLateGuest
  <2>1. CASE Public!Arrive(g)
    BY <2>1 DEF Public!Arrive
  <2>2. CASE Public!Admit(g)
    BY <2>2 DEF Public!Admit
  <2>3. CASE Public!Part(g)
    BY <2>3 DEF Public!Part
  <2>4. QED
    BY <1>1, <2>1, <2>2, <2>3
<1>2. CASE Public!Close
  BY <1>2 DEF Public!Close, Public!RefuseWaiting
<1>3. CASE Public!StopCleanly
  BY <1>3 DEF Public!StopCleanly
<1>4. CASE Public!StopShort
  BY <1>4 DEF Public!StopShort, Public!RefuseWaiting
<1>5. CASE UNCHANGED Public!vars
  BY <1>5 DEF Public!vars
<1>6. QED
  BY <1>1, <1>2, <1>3, <1>4, <1>5 DEF Public!Next

\* Nobody who was admitted is cut off by a stop that says it was clean, and nobody is
\* left waiting at a listener that is gone (src/cli/serve.rs:118-153).
THEOREM CleanStopIsClean == SafeSpec => [](Public!DoorDecides /\ Public!CleanIsClean)
<1>1. Public!Init => PublicInv
  BY DEF Public!Init, PublicInv, Public!DoorDecides, Public!CleanIsClean
<1>2. PublicInv /\ [Public!Next]_(Public!vars) => PublicInv'
  BY PublicStep
<1>3. PublicInv => Public!DoorDecides /\ Public!CleanIsClean
  BY DEF PublicInv
<1>4. QED
  BY <1>1, <1>2, <1>3, ServerStopsGracefully, PTL DEF ImplementsGracefulStop, Public!Spec

\* No connection is admitted once the accept loop was left, and none that was admitted
\* is refused (src/cli/serve.rs:93-142).
THEOREM NobodyIsAdmittedLate == SafeSpec => Public!Admission
<1>1. Public!Init => PublicInv
  BY DEF Public!Init, PublicInv, Public!DoorDecides, Public!CleanIsClean
<1>2. PublicInv /\ [Public!Next]_(Public!vars) => PublicInv' /\ [Public!NoLateGuest]_(Public!vars)
  BY PublicStep
<1>3. QED
  BY <1>1, <1>2, ServerStopsGracefully, PTL DEF ImplementsGracefulStop, Public!Spec,
     Public!Admission

=============================================================================
