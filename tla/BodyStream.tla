----------------------------- MODULE BodyStream -----------------------------
(***************************************************************************)
(* What a response body promises to its reader, whatever carries it: the   *)
(* frames arrive once and in the order they were written, and the body     *)
(* ends only after the writer has closed it and every frame has arrived.   *)
(* UnboundChannel is shown to implement this specification when the body   *)
(* is collected after the writer has finished.                             *)
(***************************************************************************)
EXTENDS Naturals, Sequences

CONSTANT Data            \* what one frame can carry

VARIABLES
  sent,                  \* every frame the writer wrote
  received,              \* the frames the reader has taken
  closed,                \* the writer has given the body up
  state                  \* the body as its reader sees it

vars == <<sent, received, closed, state>>

Init ==
  /\ sent = <<>>
  /\ received = <<>>
  /\ closed = FALSE
  /\ state = "open"

Write(d) ==
  /\ ~closed
  /\ state = "open"
  /\ sent' = Append(sent, d)
  /\ UNCHANGED <<received, closed, state>>

Close ==
  /\ ~closed
  /\ closed' = TRUE
  /\ UNCHANGED <<sent, received, state>>

Deliver ==
  /\ state = "open"
  /\ Len(received) < Len(sent)
  /\ received' = Append(received, sent[Len(received) + 1])
  /\ UNCHANGED <<sent, closed, state>>

End ==
  /\ state = "open"
  /\ closed
  /\ received = sent
  /\ state' = "ended"
  /\ UNCHANGED <<sent, received, closed>>

Abandon ==
  /\ state \in {"open", "ended"}
  /\ state' = "abandoned"
  /\ UNCHANGED <<sent, received, closed>>

Next ==
  \/ \E d \in Data : Write(d)
  \/ Close
  \/ Deliver
  \/ End
  \/ Abandon

SafeSpec == Init /\ [][Next]_vars

\* Once the writer has closed the body, a reader that stays drains and ends it.
Fairness == WF_vars(closed /\ Deliver) /\ WF_vars(End)

Spec == SafeSpec /\ Fairness
=============================================================================
