------------------------------ MODULE Exchange ------------------------------
(***************************************************************************)
(* What PhpService::call promises to a client, whatever threads, channels  *)
(* and polls it takes: a request is answered once, with an error that has  *)
(* its cause, with the whole output of its script, or with a stream that   *)
(* carries the output in order and ends only after the script has finished *)
(* it; and nothing is taken from a script once its client has the answer.  *)
(* PhpRequest is shown to implement this specification.                    *)
(***************************************************************************)
EXTENDS Naturals, Sequences

CONSTANT Data            \* what one write of the script can carry

VARIABLES
  at,                    \* the exchange: not answered, being streamed, or over
  answer,                \* what the client was answered
  seen,                  \* what the client has of the script's output
  script,                \* the script: not started, running, or how it returned
  written,               \* what the script has written
  closed                 \* the script has finished its output

client == <<at, answer, seen>>
output == <<written, closed>>
vars == <<client, script, output>>

Init ==
  /\ at = "open"
  /\ answer = "none"
  /\ seen = <<>>
  /\ script = "none"
  /\ written = <<>>
  /\ closed = FALSE

\* The exchange ends with an answer that has nothing of the output.
Fail(a) ==
  /\ at = "open"
  /\ at' = "over"
  /\ answer' = a
  /\ UNCHANGED <<seen, script, output>>

Refuse == script = "none" /\ Fail("500")
FailStartup == script = "RequestStartupFailed" /\ Fail("503")
FailScript == script = "Bailout" /\ Fail("500")
TimeOut == Fail("504")

Start ==
  /\ at = "open"
  /\ script = "none"
  /\ script' = "running"
  /\ UNCHANGED <<client, output>>

\* PHP may have printed, and flushed, before its startup fails.
StartupFails ==
  /\ script = "running"
  /\ script' = "RequestStartupFailed"
  /\ UNCHANGED <<client, output>>

Write(d) ==
  /\ script = "running"
  /\ ~closed
  /\ at # "over"
  /\ written' = Append(written, d)
  /\ UNCHANGED <<client, script, closed>>

Close ==
  /\ script = "running"
  /\ ~closed
  /\ closed' = TRUE
  /\ UNCHANGED <<client, script, written>>

\* A script returns, well or not, only after it has finished its output.
Return ==
  /\ script = "running"
  /\ closed
  /\ script' \in {"Bailout", "dropped"}
  /\ UNCHANGED <<client, output>>

AnswerFull ==
  /\ at = "open"
  /\ closed
  /\ at' = "over"
  /\ answer' = "full"
  /\ seen' = written
  /\ UNCHANGED <<script, output>>

AnswerChunked ==
  /\ at = "open"
  /\ script # "none"
  /\ at' = "streaming"
  /\ answer' = "chunked"
  /\ UNCHANGED <<seen, script, output>>

Deliver ==
  /\ at = "streaming"
  /\ Len(seen) < Len(written)
  /\ seen' = Append(seen, written[Len(seen) + 1])
  /\ UNCHANGED <<at, answer, script, output>>

\* Not every stream has all that was written (NoTruncation of UnboundChannel).
EndStream ==
  /\ at = "streaming"
  /\ closed
  /\ at' = "over"
  /\ UNCHANGED <<answer, seen, script, output>>

Leave ==
  /\ at # "over"
  /\ at' = "over"
  /\ UNCHANGED <<answer, seen, script, output>>

Next ==
  \/ Refuse \/ FailStartup \/ FailScript \/ TimeOut
  \/ Start \/ StartupFails \/ (\E d \in Data : Write(d)) \/ Close \/ Return
  \/ AnswerFull \/ AnswerChunked \/ Deliver \/ EndStream \/ Leave

Spec == Init /\ [][Next]_vars

-----------------------------------------------------------------------------
(* What a client may rely on. *)

\* What it has is how the output of the script begins: the whole of a finished output in
\* a full response, nothing of it in an error.
Faithful ==
  /\ Len(seen) <= Len(written)
  /\ \A n \in 1..Len(seen) : seen[n] = written[n]
  /\ answer = "full" => closed /\ seen = written
  /\ answer \in {"500", "503", "504"} => at = "over" /\ seen = <<>>

\* It is answered once, and when the exchange is over nothing is taken from the script.
Once ==
  /\ answer # "none" => answer' = answer
  /\ at = "over" => UNCHANGED <<client, written>>

AnsweredOnce == [][Once]_vars
=============================================================================
