---------------------------- MODULE GracefulStop ----------------------------
(***************************************************************************)
(* What a server promises to those who connect to it, whatever signals,    *)
(* selects and timers it takes: whoever waits is admitted or refused, and  *)
(* refused only when the door closes; nobody is admitted after that; and a *)
(* server that says it has stopped cleanly has sent nobody away whom it    *)
(* had admitted. Server is shown to implement this specification.          *)
(***************************************************************************)

CONSTANT Guests

VARIABLES
  door,                  \* open, closing, or closed
  guest,                 \* each guest: away, waiting, admitted, gone or refused
  clean                  \* the server says that it has stopped cleanly

vars == <<door, guest, clean>>

Init ==
  /\ door = "open"
  /\ guest = [g \in Guests |-> "away"]
  /\ clean = FALSE

Arrive(g) ==
  /\ door = "open"
  /\ guest[g] = "away"
  /\ guest' = [guest EXCEPT ![g] = "waiting"]
  /\ UNCHANGED <<door, clean>>

Admit(g) ==
  /\ door = "open"
  /\ guest[g] = "waiting"
  /\ guest' = [guest EXCEPT ![g] = "admitted"]
  /\ UNCHANGED <<door, clean>>

Part(g) ==
  /\ guest[g] = "admitted"
  /\ guest' = [guest EXCEPT ![g] = "gone"]
  /\ UNCHANGED <<door, clean>>

RefuseWaiting ==
  guest' = [g \in Guests |-> IF guest[g] = "waiting" THEN "refused" ELSE guest[g]]

Close ==
  /\ door = "open"
  /\ door' = "closing"
  /\ RefuseWaiting
  /\ UNCHANGED clean

StopCleanly ==
  /\ door = "closing"
  /\ \A g \in Guests : guest[g] # "admitted"
  /\ door' = "closed"
  /\ clean' = TRUE
  /\ UNCHANGED guest

\* An error, a kill or an impatient timer.
StopShort ==
  /\ door # "closed"
  /\ door' = "closed"
  /\ RefuseWaiting
  /\ UNCHANGED clean

Next ==
  \/ \E g \in Guests : Arrive(g) \/ Admit(g) \/ Part(g)
  \/ Close \/ StopCleanly \/ StopShort

Spec == Init /\ [][Next]_vars

-----------------------------------------------------------------------------
(* What a guest may rely on. *)

\* Nobody is refused at an open door, and nobody waits at another one.
DoorDecides ==
  \A g \in Guests : guest[g] \notin (IF door = "open" THEN {"refused"} ELSE {"waiting"})

\* A clean stop has cut nobody off.
CleanIsClean == clean => door = "closed" /\ \A g \in Guests : guest[g] \notin {"waiting", "admitted"}

\* Nobody is admitted once the door is not open, and who was admitted is never refused.
NoLateGuest ==
  \A g \in Guests :
    /\ guest'[g] = "admitted" => guest[g] = "admitted" \/ door = "open"
    /\ guest'[g] = "refused" => guest[g] \in {"waiting", "refused"} /\ door' # "open"

Admission == [][NoLateGuest]_vars
=============================================================================
