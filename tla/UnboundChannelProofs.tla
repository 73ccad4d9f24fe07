------------------------ MODULE UnboundChannelProofs ------------------------
(***************************************************************************)
(* What module UnboundChannel promises for every Data and MaxFrames, in    *)
(* both uses of the body: types, order, wake-ups. And, when the body is    *)
(* collected after the writer is gone, that it is a BodyStream.            *)
(***************************************************************************)
EXTENDS UnboundChannel, SequenceTheorems, TLAPS

\* A waker slot is taken or set, and nothing else.
LEMMA WakersTyped ==
  ASSUME TypeOK, [Next]_chan
  PROVE  frameWaker' \in BOOLEAN /\ finishWaker' \in BOOLEAN /\ woken' \in BOOLEAN
<1>1. frameWaker \in BOOLEAN /\ finishWaker \in BOOLEAN /\ woken \in BOOLEAN
  BY DEF TypeOK
<1>2. CASE UNCHANGED chan
  BY <1>1, <1>2 DEF chan
<1>3. CASE WakeFrame
  BY <1>1, <1>3, Zenon DEF WakeFrame
<1>4. CASE WakeFinish
  BY <1>1, <1>4, Zenon DEF WakeFinish
<1>5. CASE RecvFrame \/ PollFinishReady
  BY <1>1, <1>5 DEF RecvFrame, PollFinishReady
<1>6. CASE RecvNothing
  BY <1>1, <1>6, Zenon DEF RecvNothing
<1>7. CASE PollFinishPending \/ Repoll \/ DropBody
  BY <1>1, <1>7 DEF PollFinishPending, Repoll, DropBody
<1>8. Writer => WakeFrame \/ WakeFinish
  BY DEF Writer, Send, Abort, AbortDropFrame, DropFrame, DropFinish
<1>9. QED
  BY <1>2, <1>3, <1>4, <1>5, <1>6, <1>7, <1>8 DEF Next, Reader

\* The channel keeps its types from one poll, send or drop to the next.
LEMMA TypeStep ==
  ASSUME TypeOK, [Next]_chan
  PROVE  TypeOK'
<1> DEFINE Rest == /\ sender \in SenderStates
                   /\ queue \in Seq(Data)
                   /\ rx \in ReaderStates
                   /\ sent \in Seq(Data)
                   /\ received \in Seq(Data)
<1> SUFFICES Rest'
  BY WakersTyped DEF TypeOK
<1> USE DEF SenderStates, ReaderStates
<1>1. Rest
  BY DEF TypeOK
<1>2. CASE UNCHANGED chan
  BY <1>1, <1>2 DEF chan
<1>3. ASSUME NEW d \in Data, Send(d)
      PROVE  Rest'
  BY <1>1, <1>3 DEF Send
<1>4. CASE Abort \/ AbortDropFrame \/ DropFrame \/ DropFinish
  BY <1>1, <1>4 DEF Abort, AbortDropFrame, DropFrame, DropFinish
<1>5. CASE RecvFrame
  <2>1. Head(queue) \in Data /\ Tail(queue) \in Seq(Data)
    BY <1>1, <1>5, HeadTailProperties DEF RecvFrame
  <2>2. received' \in Seq(Data)
    BY <1>1, <1>5, <2>1 DEF RecvFrame
  <2>3. QED
    BY <1>1, <1>5, <2>1, <2>2 DEF RecvFrame
<1>6. CASE RecvNothing \/ PollFinishReady \/ PollFinishPending \/ Repoll
  BY <1>1, <1>6 DEF RecvNothing, PollFinishReady, PollFinishPending, Repoll
<1>7. CASE DropBody
  BY <1>1, <1>7, EmptySeq DEF DropBody
<1>8. QED
  BY <1>2, <1>3, <1>4, <1>5, <1>6, <1>7 DEF Next, Writer, Reader

\* The types hold of a new channel.
LEMMA TypeInit == Init => TypeOK
BY EmptySeq DEF Init, TypeOK, SenderStates, ReaderStates

\* Every variable of the channel keeps its type.
THEOREM ChannelTypeCorrect == SafeSpec => []TypeOK
<1>1. TypeOK /\ [Next]_chan => TypeOK'
  BY TypeStep
<1>2. QED
  BY TypeInit, <1>1, PTL DEF SafeSpec

-----------------------------------------------------------------------------
(* Order. *)

\* A non-empty sequence is its head followed by its tail.
LEMMA HeadTailConcat ==
  ASSUME NEW S, NEW q \in Seq(S), q # <<>>
  PROVE  q = <<Head(q)>> \o Tail(q)
<1>1. Len(q) \in Nat /\ Len(q) > 0
  BY EmptySeq
<1>2. SubSeq(q, 1, Len(q)) = <<q[1]>> \o SubSeq(q, 1 + 1, Len(q))
  BY <1>1, SubSeqRecursiveFirst
<1>3. SubSeq(q, 1, Len(q)) = q /\ SubSeq(q, 1 + 1, Len(q)) = Tail(q)
  BY SubSeqFull, TailIsSubSeq
<1>4. QED
  BY <1>2, <1>3

\* No step of the channel loses, duplicates or reorders a frame.
LEMMA FifoStep ==
  ASSUME TypeOK, Fifo, [Next]_chan
  PROVE  Fifo'
<1>1. CASE UNCHANGED <<queue, rx, sent, received>>
  BY <1>1 DEF Fifo
<1>2. ASSUME NEW d \in Data, Send(d)
      PROVE  Fifo'
  <2>1. sent = received \o queue
    BY <1>2 DEF Send, Fifo
  <2>2. <<d>> \in Seq(Data) /\ sent \in Seq(Data) /\ queue \in Seq(Data) /\ received \in Seq(Data)
    BY DEF TypeOK
  <2>3. sent' = sent \o <<d>> /\ queue' = queue \o <<d>> /\ received' = received
    BY <1>2, <2>2 DEF Send
  <2>4. QED
    BY <2>1, <2>2, <2>3, ConcatAssociative DEF Fifo
<1>3. CASE RecvFrame
  <2>1. sent = received \o queue /\ queue # <<>> /\ sent' = sent
    BY <1>3 DEF RecvFrame, Fifo
  <2>2. queue \in Seq(Data) /\ received \in Seq(Data)
    BY DEF TypeOK
  <2> DEFINE h == <<Head(queue)>>
  <2>3. Head(queue) \in Data /\ h \in Seq(Data) /\ Tail(queue) \in Seq(Data)
    BY <2>1, <2>2, HeadTailProperties
  <2>4. queue = h \o Tail(queue)
    BY <2>1, <2>2, HeadTailConcat
  <2>5. received' = received \o h /\ queue' = Tail(queue)
    BY <1>3, <2>2, <2>3 DEF RecvFrame
  <2> HIDE DEF h
  <2>6. (received \o h) \o Tail(queue) = received \o (h \o Tail(queue))
    BY <2>2, <2>3, ConcatAssociative
  <2>7. sent' = received' \o queue'
    BY <2>1, <2>4, <2>5, <2>6
  <2>8. QED
    BY <2>7 DEF Fifo
<1>4. CASE RecvNothing \/ PollFinishReady \/ PollFinishPending \/ Repoll \/ DropBody
  BY <1>4 DEF Fifo, RecvNothing, PollFinishReady, PollFinishPending, Repoll, DropBody
<1>5. CASE Abort \/ AbortDropFrame \/ DropFrame \/ DropFinish
  BY <1>1, <1>5 DEF Abort, AbortDropFrame, DropFrame, DropFinish
<1>6. QED
  BY <1>1, <1>2, <1>3, <1>4, <1>5 DEF Next, Writer, Reader, chan

\* A new channel has sent and received nothing.
LEMMA FifoInit == Init => Fifo
BY DEF Init, Fifo

\* The queue is a FIFO from the writer to the reader, for every Data and MaxFrames.
THEOREM ChannelIsFifo == SafeSpec => []Fifo
<1>1. TypeOK /\ Fifo /\ [Next]_chan => Fifo'
  BY FifoStep
<1>2. QED
  BY FifoInit, <1>1, ChannelTypeCorrect, PTL DEF SafeSpec

-----------------------------------------------------------------------------
(* Wake-ups. *)

\* Between two polls the reader's wakers cover what the writer may still do:
\* a frame or the closing of tx_frame from the first poll on, the end of the
\* body from the second. A waker that is gone has woken the task.
WakerInv ==
  ~woken =>
    /\ rx \in {"finish", "parked"} => queue = <<>> /\ (frameWaker \/ FramesClosed)
    /\ rx = "parked" => finishWaker /\ ~FinishResolved

\* Every step of either side keeps the wakers registered.
LEMMA WakerStep ==
  ASSUME TypeOK, WakerInv, [Next]_chan
  PROVE  WakerInv'
<1> USE DEF WakerInv, FramesClosed, FinishResolved
<1>1. CASE UNCHANGED chan
  BY <1>1 DEF chan
<1>2. ASSUME NEW d \in Data, Send(d)
      PROVE  WakerInv'
  BY <1>2 DEF Send, WakeFrame, TypeOK
<1>3. CASE Abort \/ DropFinish
  BY <1>3 DEF Abort, DropFinish, WakeFinish, TypeOK
<1>4. CASE AbortDropFrame \/ DropFrame
  BY <1>4 DEF AbortDropFrame, DropFrame, WakeFrame, TypeOK
<1>5. CASE RecvFrame \/ RecvNothing
  BY <1>5 DEF RecvFrame, RecvNothing, TypeOK
<1>6. CASE PollFinishReady \/ PollFinishPending
  BY <1>6 DEF PollFinishReady, PollFinishPending, TypeOK
<1>7. CASE Repoll \/ DropBody
  BY <1>7 DEF Repoll, DropBody, TypeOK
<1>8. QED
  BY <1>1, <1>2, <1>3, <1>4, <1>5, <1>6, <1>7 DEF Next, Writer, Reader

\* No wake-up is lost between the two polls of poll_frame.
THEOREM ChannelWakes == SafeSpec => []NoLostWakeup
<1>1. Init => WakerInv
  BY DEF Init, WakerInv
<1>2. TypeOK /\ WakerInv /\ [Next]_chan => WakerInv'
  BY WakerStep
<1>3. TypeOK /\ WakerInv => NoLostWakeup
  BY DEF TypeOK, WakerInv, NoLostWakeup
<1>4. QED
  BY <1>1, <1>2, <1>3, ChannelTypeCorrect, PTL DEF SafeSpec

-----------------------------------------------------------------------------
(* The body collected after the writer is gone. *)

\* A reader that has begun to look for the end has an empty queue and no writer.
Collected == rx \in {"finish", "parked", "ended"} => sender = "gone" /\ queue = <<>>

\* No step gives a reader that waits for the end anything more.
LEMMA CollectedStep ==
  ASSUME ~Streaming, TypeOK, Collected, [Next]_chan
  PROVE  Collected'
<1> USE DEF Collected, TypeOK, ReaderStates
<1>1. CASE UNCHANGED chan
  BY <1>1 DEF chan
<1>2. CASE Writer
  BY <1>2 DEF Writer, Send, Abort, AbortDropFrame, DropFrame, DropFinish
<1>3. CASE RecvFrame \/ RecvNothing
  BY <1>3 DEF RecvFrame, RecvNothing, MayPoll
<1>4. CASE PollFinishReady \/ PollFinishPending \/ Repoll \/ DropBody
  BY <1>4 DEF PollFinishReady, PollFinishPending, Repoll, DropBody
<1>5. QED
  BY <1>1, <1>2, <1>3, <1>4 DEF Next, Reader

\* A body that is read after its writer is gone is always Collected.
LEMMA CollectedInvariant ==
  ASSUME ~Streaming
  PROVE  SafeSpec => []Collected
<1>1. Init => Collected
  BY DEF Init, Collected
<1>2. TypeOK /\ Collected /\ [Next]_chan => Collected'
  BY CollectedStep
<1>3. QED
  BY <1>1, <1>2, ChannelTypeCorrect, PTL DEF SafeSpec

\* A collected body is complete when it ends.
THEOREM CollectedIsComplete ==
  ASSUME ~Streaming
  PROVE  SafeSpec => []NoTruncation
<1>1. TypeOK /\ Fifo /\ Collected => NoTruncation
  BY ConcatEmptySeq DEF TypeOK, Fifo, Collected, NoTruncation
<1>2. QED
  BY <1>1, ChannelTypeCorrect, ChannelIsFifo, CollectedInvariant, PTL

\* Every step of a collected body is a step of BodyStream, or stutters.
LEMMA StreamStep ==
  ASSUME ~Streaming, TypeOK, Fifo, Collected, [Next]_chan
  PROVE  [Stream!Next]_(Stream!vars)
<1> USE DEF Stream!vars, StreamState
<1>1. CASE UNCHANGED chan
  BY <1>1 DEF chan
<1>2. ASSUME NEW d \in Data, Send(d)
      PROVE  Stream!Next
  <2>1. rx = "idle"
    BY <1>2 DEF Send, TypeOK, ReaderStates, Collected
  <2>2. Stream!Write(d)
    BY <1>2, <2>1 DEF Send, Stream!Write
  <2>3. QED
    BY <2>2 DEF Stream!Next
<1>3. CASE Abort \/ DropFrame
  <2>1. Stream!Close
    BY <1>3 DEF Abort, DropFrame, Stream!Close
  <2>2. QED
    BY <2>1 DEF Stream!Next
<1>4. CASE AbortDropFrame \/ DropFinish
  BY <1>4 DEF AbortDropFrame, DropFinish
<1>5. CASE RecvFrame
  <2>1. sent = received \o queue /\ queue \in Seq(Data) /\ received \in Seq(Data) /\ queue # <<>>
    BY <1>5 DEF RecvFrame, Fifo, TypeOK
  <2>2. Len(received) \in Nat /\ Len(queue) \in Nat /\ Len(queue) > 0
    BY <2>1, EmptySeq, LenProperties
  <2>3. Len(sent) = Len(received) + Len(queue)
    BY <2>1, ConcatProperties
  <2>4. sent[Len(received) + 1] = queue[1]
    BY <2>1, <2>2, ConcatProperties
  <2>5. Head(queue) = queue[1]
    BY <2>1
  <2>6. Stream!Deliver
    BY <1>5, <2>2, <2>3, <2>4, <2>5 DEF RecvFrame, Stream!Deliver
  <2>7. QED
    BY <2>6 DEF Stream!Next
<1>6. CASE RecvNothing \/ PollFinishPending \/ Repoll
  BY <1>6 DEF RecvNothing, PollFinishPending, Repoll
<1>7. CASE PollFinishReady
  <2>1. sender = "gone" /\ received = sent
    BY <1>7, ConcatEmptySeq DEF PollFinishReady, Collected, Fifo, TypeOK
  <2>2. Stream!End
    BY <1>7, <2>1 DEF PollFinishReady, Stream!End
  <2>3. QED
    BY <2>2 DEF Stream!Next
<1>8. CASE DropBody
  <2>1. Stream!Abandon
    BY <1>8 DEF DropBody, Stream!Abandon
  <2>2. QED
    BY <2>1 DEF Stream!Next
<1>9. QED
  BY <1>1, <1>2, <1>3, <1>4, <1>5, <1>6, <1>7, <1>8 DEF Next, Writer, Reader

\* A collected body implements BodyStream, up to fairness.
THEOREM CollectedIsBodyStream ==
  ASSUME ~Streaming
  PROVE  SafeSpec => Stream!SafeSpec
<1>1. Init => Stream!Init
  BY DEF Init, Stream!Init, StreamState
<1>2. TypeOK /\ Fifo /\ Collected /\ [Next]_chan => [Stream!Next]_(Stream!vars)
  BY StreamStep
<1>3. QED
  BY <1>1, <1>2, ChannelTypeCorrect, ChannelIsFifo, CollectedInvariant, PTL
     DEF SafeSpec, Stream!SafeSpec
=============================================================================
