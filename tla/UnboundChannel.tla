--------------------------- MODULE UnboundChannel ---------------------------
(***************************************************************************)
(* The response body of a PHP request, src/unbound_channel.rs: an mpsc     *)
(* queue of frames beside a oneshot that says "no more frames". The writer *)
(* is a blocking thread running PHP, the reader an asynchronous task that  *)
(* polls the body, so a poll_frame is two steps (the queue is polled, then *)
(* the oneshot) between which the writer may do anything.                  *)
(*                                                                         *)
(* src/service/php.rs uses the body in two ways. ResponseType::Chunked     *)
(* hands it to hyper at once, and it is polled while PHP writes (Streaming *)
(* = TRUE). ResponseType::Full collects it after the head has arrived,     *)
(* which finish_request sends after abort(): module PhpRequest shows that  *)
(* the writer is gone by then (Streaming = FALSE).                         *)
(***************************************************************************)
EXTENDS Naturals, Sequences

CONSTANTS
  Data,                  \* what one frame can carry
  MaxFrames,             \* bound on the frames of one body
  Streaming              \* whether the body is polled while the writer runs

ASSUME ChannelAssumption == MaxFrames \in Nat /\ Streaming \in BOOLEAN

VARIABLES
  sender,                \* the Sender: alive, inside abort() or drop, or gone
  queue,                 \* frames between tx_frame and rx_frame
  rx,                    \* where the reader stands in poll_frame
  frameWaker,            \* rx_frame holds the task's waker
  finishWaker,           \* rx_finish holds the task's waker
  woken,                 \* the task was woken and not polled since
  sent, received         \* history: frames accepted from the writer, frames yielded

chan == <<sender, queue, rx, frameWaker, finishWaker, woken, sent, received>>

SenderStates == {"live", "aborting", "dropping", "gone"}
ReaderStates == {"idle", "finish", "parked", "ended", "dropped"}

\* abort() resolves tx_finish and drops tx_frame after it; a plain drop runs
\* the fields in order, tx_frame before tx_finish.
FinishResolved == sender \in {"aborting", "gone"}
FramesClosed == sender \in {"dropping", "gone"}

Init ==
  /\ sender = "live"
  /\ queue = <<>>
  /\ rx = "idle"
  /\ frameWaker = FALSE
  /\ finishWaker = FALSE
  /\ woken = FALSE
  /\ sent = <<>>
  /\ received = <<>>

-----------------------------------------------------------------------------
(* The writer. *)

\* Mutants: the waker is taken and the task is not scheduled.
ForgetFrame == frameWaker' = FALSE /\ UNCHANGED <<woken, finishWaker>>
ForgetFinish == finishWaker' = FALSE /\ UNCHANGED <<woken, frameWaker>>

\* Waking takes the waker out of its slot and schedules the task.
WakeFrame ==
  /\ woken' = (woken \/ frameWaker)
  /\ frameWaker' = FALSE
  /\ UNCHANGED finishWaker

WakeFinish ==
  /\ woken' = (woken \/ finishWaker)
  /\ finishWaker' = FALSE
  /\ UNCHANGED frameWaker

\* send() to a dropped receiver returns the frame as an error.
SendRejected == sender = "live" /\ rx = "dropped"

\* Mutant: the queue is a stack.
Push(d) ==
  /\ sender = "live" /\ rx # "dropped" /\ Len(sent) < MaxFrames
  /\ queue' = <<d>> \o queue
  /\ sent' = Append(sent, d)
  /\ WakeFrame
  /\ UNCHANGED <<sender, rx, received>>

Send(d) ==
  /\ sender = "live"
  /\ rx # "dropped"
  /\ Len(sent) < MaxFrames
  /\ queue' = Append(queue, d)
  /\ sent' = Append(sent, d)
  /\ WakeFrame
  /\ UNCHANGED <<sender, rx, received>>

Abort ==
  /\ sender = "live"
  /\ sender' = "aborting"
  /\ WakeFinish
  /\ UNCHANGED <<queue, rx, sent, received>>

AbortDropFrame ==
  /\ sender = "aborting"
  /\ sender' = "gone"
  /\ WakeFrame
  /\ UNCHANGED <<queue, rx, sent, received>>

DropFrame ==
  /\ sender = "live"
  /\ sender' = "dropping"
  /\ WakeFrame
  /\ UNCHANGED <<queue, rx, sent, received>>

DropFinish ==
  /\ sender = "dropping"
  /\ sender' = "gone"
  /\ WakeFinish
  /\ UNCHANGED <<queue, rx, sent, received>>

-----------------------------------------------------------------------------
(* The reader. *)

\* Mutant: the body is collected without waiting for the head.
AtOnce == TRUE

MayPoll == Streaming \/ sender = "gone"

\* Mutant: the frame is yielded and left in the queue.
PeekFrame ==
  /\ rx = "idle" /\ MayPoll /\ queue # <<>>
  /\ received' = Append(received, Head(queue))
  /\ UNCHANGED <<sender, queue, rx, frameWaker, finishWaker, woken, sent>>

\* rx_frame.poll_recv is Ready(Some): the frame is yielded.
RecvFrame ==
  /\ rx = "idle"
  /\ MayPoll
  /\ queue # <<>>
  /\ received' = Append(received, Head(queue))
  /\ queue' = Tail(queue)
  /\ UNCHANGED <<sender, rx, frameWaker, finishWaker, woken, sent>>

\* Mutants: a Ready(None) is yielded like a frame; try_recv instead of poll_recv.
YieldNone ==
  /\ rx = "idle" /\ MayPoll /\ queue = <<>>
  /\ rx' = "finish"
  /\ received' = Append(received, "None")
  /\ UNCHANGED <<sender, queue, frameWaker, finishWaker, woken, sent>>

TryRecv ==
  /\ rx = "idle" /\ MayPoll /\ queue = <<>>
  /\ rx' = "finish"
  /\ UNCHANGED <<sender, queue, frameWaker, finishWaker, woken, sent, received>>

\* rx_frame.poll_recv is Ready(None) or Pending: on to rx_finish.
RecvNothing ==
  /\ rx = "idle"
  /\ MayPoll
  /\ queue = <<>>
  /\ rx' = "finish"
  /\ frameWaker' = (frameWaker \/ ~FramesClosed)
  /\ UNCHANGED <<sender, queue, finishWaker, woken, sent, received>>

\* rx_finish is Ready, with a value or because its sender was dropped: Ready(None).
PollFinishReady ==
  /\ rx = "finish"
  /\ FinishResolved
  /\ rx' = "ended"
  /\ UNCHANGED <<sender, queue, frameWaker, finishWaker, woken, sent, received>>

PollFinishPending ==
  /\ rx = "finish"
  /\ ~FinishResolved
  /\ rx' = "parked"
  /\ finishWaker' = TRUE
  /\ UNCHANGED <<sender, queue, frameWaker, woken, sent, received>>

\* The task is polled again: because it was woken, or for a reason of its own.
Repoll ==
  /\ rx = "parked"
  /\ rx' = "idle"
  /\ woken' = FALSE
  /\ UNCHANGED <<sender, queue, frameWaker, finishWaker, sent, received>>

\* The task drops the body between two polls; what the queue held goes with it.
DropBody ==
  /\ rx \in {"idle", "parked", "ended"}
  /\ rx' = "dropped"
  /\ queue' = <<>>
  /\ frameWaker' = FALSE
  /\ finishWaker' = FALSE
  /\ UNCHANGED <<sender, woken, sent, received>>

-----------------------------------------------------------------------------

Writer ==
  \/ \E d \in Data : Send(d)
  \/ Abort
  \/ AbortDropFrame
  \/ DropFrame
  \/ DropFinish

Reader ==
  \/ RecvFrame
  \/ RecvNothing
  \/ PollFinishReady
  \/ PollFinishPending
  \/ Repoll
  \/ DropBody

Next == Writer \/ Reader

SafeSpec == Init /\ [][Next]_chan

\* abort() and drop run to their end, a started poll_frame runs to its end, a
\* woken task is polled, and the reader polls on after a frame. Nothing makes
\* the writer finish, and nothing polls a parked task that was not woken.
Fairness ==
  /\ WF_chan(AbortDropFrame)
  /\ WF_chan(DropFinish)
  /\ WF_chan(RecvFrame)
  /\ WF_chan(RecvNothing)
  /\ WF_chan(PollFinishReady \/ PollFinishPending)
  /\ WF_chan(woken /\ Repoll)

Spec == SafeSpec /\ Fairness

-----------------------------------------------------------------------------
(* Properties. *)

\* Every variable has its type (src/unbound_channel.rs:15-18, 51-54).
TypeOK ==
  /\ sender \in SenderStates
  /\ queue \in Seq(Data)
  /\ rx \in ReaderStates
  /\ frameWaker \in BOOLEAN
  /\ finishWaker \in BOOLEAN
  /\ woken \in BOOLEAN
  /\ sent \in Seq(Data)
  /\ received \in Seq(Data)

\* Until the body is dropped, what was accepted is what was yielded followed by
\* what still waits: no frame is lost, duplicated or reordered inside the
\* channel, whichever half of abort() or drop the writer is in.
Fifo == rx # "dropped" => sent = received \o queue

\* A body that reports its end has yielded every frame that was accepted. Holds
\* when the body is collected after the writer is gone (ResponseType::Full).
NoTruncation == rx = "ended" => received = sent

\* A parked task that has something to do has been woken: a frame, or the end of
\* the body, that arrives between the two polls of poll_frame is not missed.
NoLostWakeup == rx = "parked" /\ (queue # <<>> \/ FinishResolved) => woken

\* Once abort() or drop has begun the reader sees the end of the body, or drops it.
BodyEnds == (sender # "live") ~> (rx \in {"ended", "dropped"})

\* A frame reaches a streaming reader without the writer having to finish.
ChunkDelivered ==
  \A n \in 1..MaxFrames :
    (Len(sent) >= n) ~> (Len(received) >= n \/ rx \in {"ended", "dropped"})

-----------------------------------------------------------------------------
(* Refinement: the channel as a body (module BodyStream). *)

StreamState ==
  IF rx = "dropped" THEN "abandoned" ELSE IF rx = "ended" THEN "ended" ELSE "open"

Stream == INSTANCE BodyStream WITH closed <- sender # "live", state <- StreamState

\* A body collected after the writer is gone is a BodyStream: drained in order,
\* ended only when empty, and always ended or abandoned in the end.
ImplementsBodyStream == Stream!Spec
=============================================================================
