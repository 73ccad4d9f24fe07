--------------------------- MODULE ExchangeProofs ---------------------------
(***************************************************************************)
(* What a client may rely on in an exchange, whatever implements it.       *)
(***************************************************************************)
EXTENDS Exchange, SequenceTheorems, TLAPS

\* Before its answer a client has nothing, and only a stream gives it more.
IInv ==
  /\ Faithful
  /\ written \in Seq(Data) /\ seen \in Seq(Data)
  /\ at = "open" => answer = "none" /\ seen = <<>>
  /\ at = "streaming" => answer = "chunked"

\* Every step of an exchange preserves it.
LEMMA ExchangeStep ==
  ASSUME IInv, [Next]_vars
  PROVE  IInv'
<1> USE DEF IInv, Faithful, client, output
<1>0. Len(written) \in Nat /\ Len(seen) \in Nat
  BY LenProperties
<1>1. CASE UNCHANGED vars
  BY <1>1 DEF vars
<1>2. CASE Refuse \/ FailStartup \/ FailScript \/ TimeOut
  BY <1>2 DEF Refuse, FailStartup, FailScript, TimeOut, Fail
<1>3. CASE Start \/ StartupFails \/ Close \/ Return
  BY <1>3 DEF Start, StartupFails, Close, Return
<1>4. ASSUME NEW d \in Data, Write(d)
      PROVE  IInv'
  BY <1>0, <1>4, AppendProperties DEF Write
<1>5. CASE AnswerFull
  BY <1>0, <1>5 DEF AnswerFull
<1>6. CASE AnswerChunked \/ EndStream \/ Leave
  BY <1>6 DEF AnswerChunked, EndStream, Leave
<1>7. CASE Deliver
  <2>1. written[Len(seen) + 1] \in Data
    BY <1>0, <1>7 DEF Deliver
  <2>2. QED
    BY <1>0, <1>7, <2>1, AppendProperties DEF Deliver
<1>8. QED
  BY <1>1, <1>2, <1>3, <1>4, <1>5, <1>6, <1>7 DEF Next

\* A client has how the output begins, all of it or nothing of it as its answer says.
THEOREM ExchangeIsFaithful == Spec => []Faithful
<1>1. Init => IInv
  BY EmptySeq DEF Init, IInv, Faithful
<1>2. IInv /\ [Next]_vars => IInv'
  BY ExchangeStep
<1>3. IInv => Faithful
  BY DEF IInv
<1>4. QED
  BY <1>1, <1>2, <1>3, PTL DEF Spec

\* A client is answered once, and nothing follows the end of the exchange.
THEOREM ExchangeAnswersOnce == Spec => AnsweredOnce
<1>1. Init => IInv
  BY EmptySeq DEF Init, IInv, Faithful
<1>2. IInv /\ [Next]_vars => IInv'
  BY ExchangeStep
<1>3. IInv /\ [Next]_vars => [Once]_vars
  BY DEF IInv, Once, vars, client, output, Next, Refuse, FailStartup, FailScript, TimeOut, Fail,
         Start, StartupFails, Close, Return, Write, AnswerFull, AnswerChunked, Deliver,
         EndStream, Leave
<1>4. QED
  BY <1>1, <1>2, <1>3, PTL DEF Spec, AnsweredOnce
=============================================================================
