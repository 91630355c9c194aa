----------------------------- MODULE StreamPipe -----------------------------
(***************************************************************************)
(* One stream of pkg/streamclient: a Writer (streamwriter.go) and a Reader *)
(* (streamreader.go), each registered in its process's Broker              *)
(* (streambroker.go), over an RPC transport that may reorder packets,      *)
(* deliver one twice, or never deliver it.                                 *)
(*                                                                         *)
(* Every method of Writer and Reader holds the object's lock and is one    *)
(* step.  Write may wait on w.cond, and is then several: the call, and one *)
(* step for each time it is woken.  The writer's broker queue sits in      *)
(* front of dataNet and adds nothing to a transport that reorders; the     *)
(* reader's is kept (ackQueue), because working it off is what             *)
(* unregisters the reader.                                                 *)
(***************************************************************************)
EXTENDS StreamReader, FiniteSets

CONSTANTS
  MaxBytes,  \* bound on the bytes the application writes
  MaxChunk,  \* bound on one Write, and on the slice Read is given
  MaxQueue,  \* bound on the acks waiting in the reader's broker
  MaxRepeats \* bound on the packets the transport delivers once more

ASSUME PipeAssumption ==
  /\ MaxBytes \in Nat
  /\ MaxChunk \in Nat \ {0}
  /\ MaxQueue \in Nat \ {0}
  /\ MaxRepeats \in Nat

VARIABLES
  w,              \* the Writer
  r,              \* the Reader
  dataNet,        \* data packets in flight to the reader
  ackNet,         \* acks in flight to the writer
  ackQueue,       \* sendQueue of the reader's broker
  readerKnown,    \* the reader is in its broker's readers map
  writerKnown,    \* the writer is in its broker's writers map
  errorSent,      \* readerErrorSentTime holds this stream
  repeats,        \* deliveries that left their packet in the transport
  delivered,      \* history: the bytes Read has returned
  accepted        \* history: bytes of the Write calls that returned no error

vars == <<w, r, dataNet, ackNet, ackQueue, readerKnown, writerKnown,
          errorSent, repeats, delivered, accepted>>

StreamId == "stream"

NewWriter ==
  [readWindow |-> ReadWindow, nextSeq |-> 0, buffer |-> << >>,
   sentNotAcked |-> 0, maxAckedSeq |-> 0, maxAckedRwnd |-> 0,
   finAcked |-> FALSE, canceled |-> FALSE, closed |-> FALSE, err |-> "none",
   call |-> "idle"]  \* call: the Write in progress, "idle", "waiting" or "woken"

Init ==
  /\ w = NewWriter
  /\ r = NewReaderWithSeq(StreamId, 0)
  /\ dataNet = {}
  /\ ackNet = {}
  /\ ackQueue = << >>
  /\ readerKnown = TRUE
  /\ writerKnown = TRUE
  /\ errorSent = FALSE
  /\ repeats = 0
  /\ delivered = << >>
  /\ accepted = 0

-----------------------------------------------------------------------------
(* The writer's application.                                               *)

Written == w.nextSeq + Len(w.buffer)

\* mutant of Avail: what is in flight is forgotten
Avail_IgnoresInFlight(wr) == wr.readWindow

Avail(wr) == wr.readWindow - wr.sentNotAcked

ToSend(wr) == IF Len(wr.buffer) <= Avail(wr) THEN Len(wr.buffer) ELSE Avail(wr)

Sent(wr) ==
  [wr EXCEPT !.nextSeq = @ + ToSend(wr),
             !.sentNotAcked = @ + ToSend(wr),
             !.buffer = SubSeq(@, ToSend(wr) + 1, Len(@))]

\* The loop of Write from a writer that holds unsent bytes.  One packet fills
\* the window or empties the buffer, so the loop then waits or returns.
SendLoop(wr) ==
  IF Avail(wr) <= 0
    THEN /\ w' = [wr EXCEPT !.call = "waiting"]
         /\ UNCHANGED <<dataNet, accepted>>
    ELSE LET left == Sent(wr)
         IN  /\ w' = [left EXCEPT !.call = IF left.buffer = << >> THEN "idle" ELSE "waiting"]
             /\ dataNet' = dataNet \cup
                  {DataPacket(StreamId, wr.nextSeq, SubSeq(wr.buffer, 1, ToSend(wr)))}
             /\ accepted' = IF left.buffer = << >> THEN left.nextSeq ELSE accepted

Write(n) ==
  /\ w.call = "idle"
  /\ ~w.closed
  /\ w.err = "none"
  /\ Written + n <= MaxBytes
  /\ SendLoop([w EXCEPT !.buffer = @ \o Bytes(Written, Written + n)])
  /\ UNCHANGED <<repeats, r, ackNet, ackQueue, readerKnown, writerKnown, errorSent, delivered>>

\* A woken Write returns an error once the writer is closed or cancelled.
WriteWoken ==
  /\ w.call = "woken"
  /\ IF w.closed \/ w.err /= "none"
       THEN /\ w' = [w EXCEPT !.call = "idle"]
            /\ UNCHANGED <<dataNet, accepted>>
       ELSE SendLoop(w)
  /\ UNCHANGED <<repeats, r, ackNet, ackQueue, readerKnown, writerKnown, errorSent, delivered>>

\* mutant of Woken: no Broadcast
Woken_Never(call) == call

\* w.cond.Broadcast()
Woken(call) == IF call = "waiting" THEN "woken" ELSE call

CloseWithError(isError) ==
  /\ ~w.closed
  /\ w' = [w EXCEPT !.closed = TRUE,
                    !.err = IF @ = "none" THEN "closed" ELSE @,
                    !.call = Woken(@)]
  /\ dataNet' = dataNet \cup {Packet(StreamId, w.nextSeq, << >>, ~isError, isError)}
  /\ UNCHANGED <<repeats, r, ackNet, ackQueue, readerKnown, writerKnown, errorSent,
                 delivered, accepted>>

-----------------------------------------------------------------------------
(* Acks arriving at the writer's broker and the writer.                    *)

\* mutant of Newer: the window of an ack is not compared
Newer_SeqOnly(wr, ack) == ack.seq > wr.maxAckedSeq

\* mutant of Newer: an older window of the same sequence number is taken
Newer_AnyWindow(wr, ack) == ack.seq >= wr.maxAckedSeq

\* mutant of Newer: every ack is taken
Newer_Always(wr, ack) == TRUE

\* Acks are ordered by the tuple (seq, rwnd).
Newer(wr, ack) ==
  \/ ack.seq > wr.maxAckedSeq
  \/ ack.seq = wr.maxAckedSeq /\ ack.rwnd > wr.maxAckedRwnd

\* mutant of Unacked: the sequence number is taken for a count
Unacked_BySeq(wr, ack) == wr.sentNotAcked - ack.seq

Unacked(wr, ack) ==
  LET oldest == wr.nextSeq - wr.sentNotAcked
      acked  == IF ack.seq > oldest THEN ack.seq - oldest ELSE 0
  IN  IF acked <= wr.sentNotAcked THEN wr.sentNotAcked - acked ELSE 0

AckedWriter(wr, ack) ==
  IF wr.closed
    THEN [wr EXCEPT !.maxAckedSeq = ack.seq, !.maxAckedRwnd = ack.rwnd]
    ELSE [wr EXCEPT !.maxAckedSeq = ack.seq, !.maxAckedRwnd = ack.rwnd,
                    !.sentNotAcked = Unacked(wr, ack),
                    !.readWindow = ack.rwnd,
                    !.call = Woken(@)]

CanceledWriter(wr) ==
  IF wr.closed
    THEN [wr EXCEPT !.canceled = TRUE]
    ELSE [wr EXCEPT !.canceled = TRUE, !.err = "cancelled", !.call = Woken(@)]

AfterAck(wr, ack) ==
  CASE ack.fin -> [wr EXCEPT !.finAcked = TRUE, !.maxAckedSeq = ack.seq]
    [] ~ack.fin /\ ack.cancel /\ ~wr.canceled -> CanceledWriter(wr)
    [] OTHER -> IF Newer(wr, ack) THEN AckedWriter(wr, ack) ELSE wr

\* A delivered packet leaves the transport, or stays to be delivered again.
AfterDelivery(net, pk, again) == IF again THEN net ELSE net \ {pk}

Repeats(again) ==
  /\ again => repeats < MaxRepeats
  /\ repeats' = IF again THEN repeats + 1 ELSE repeats

\* processRecvAck: an ack for an unregistered writer is dropped.
RecvAck(ack, again) ==
  /\ Repeats(again)
  /\ ackNet' = AfterDelivery(ackNet, ack, again)
  /\ w' = IF writerKnown THEN AfterAck(w, ack) ELSE w
  /\ writerKnown' = (writerKnown /\ ~ack.fin /\ ~ack.cancel)
  /\ UNCHANGED <<r, dataNet, ackQueue, readerKnown, errorSent, delivered, accepted>>

-----------------------------------------------------------------------------
(* Data arriving at the reader's broker and the reader.                    *)

CancelUnknown(pk) ==
  [id |-> pk.id, seq |-> pk.seq, rwnd |-> 0, fin |-> FALSE, cancel |-> TRUE]

RecvKnown(pk) ==
  /\ readerKnown
  /\ r' = RecvData(r, pk)
  /\ ackQueue' = IF AcksData(r, pk) THEN Append(ackQueue, DataAck(r, pk)) ELSE ackQueue
  /\ UNCHANGED errorSent

\* processRecvData without a reader: a Cancel, unless one was sent within the
\* last second.
RecvUnknown(pk) ==
  /\ ~readerKnown
  /\ \/ errorSent /\ UNCHANGED <<ackQueue, errorSent>>
     \/ /\ ackQueue' = Append(ackQueue, CancelUnknown(pk))
        /\ errorSent' = TRUE
  /\ UNCHANGED r

RecvPacket(pk, again) ==
  /\ Len(ackQueue) < MaxQueue
  /\ Repeats(again)
  /\ dataNet' = AfterDelivery(dataNet, pk, again)
  /\ RecvKnown(pk) \/ RecvUnknown(pk)
  /\ UNCHANGED <<w, ackNet, readerKnown, writerKnown, delivered, accepted>>

\* mutant of ProcessSendAck: the reader is never unregistered
ProcessSendAck_KeepsReader ==
  /\ ackQueue /= << >>
  /\ ackQueue' = Tail(ackQueue)
  /\ ackNet' = ackNet \cup {Head(ackQueue)}
  /\ UNCHANGED <<repeats, w, r, dataNet, writerKnown, delivered, accepted, readerKnown, errorSent>>

\* The reader's writerRoutes entry stays, so a late Cancel is still sent; the
\* cleanup drops the time of the last Cancel with the reader.
ProcessSendAck ==
  /\ ackQueue /= << >>
  /\ ackQueue' = Tail(ackQueue)
  /\ ackNet' = ackNet \cup {Head(ackQueue)}
  /\ IF Head(ackQueue).fin \/ Head(ackQueue).cancel
       THEN readerKnown' = FALSE /\ errorSent' = FALSE
       ELSE UNCHANGED <<readerKnown, errorSent>>
  /\ UNCHANGED <<repeats, w, r, dataNet, writerKnown, delivered, accepted>>

-----------------------------------------------------------------------------
(* The reader's application.                                               *)

ReadBytes(n) ==
  /\ ReadsBytes(r)
  /\ Len(ackQueue) < MaxQueue
  /\ r' = Read(r, n)
  /\ delivered' = delivered \o Taken(r, n)
  /\ ackQueue' = IF AcksRead(r, n)
                   THEN Append(ackQueue, AckPacket(AfterTaking(r, n), FALSE, FALSE))
                   ELSE ackQueue
  /\ UNCHANGED <<repeats, w, dataNet, ackNet, readerKnown, writerKnown, errorSent, accepted>>

CloseReader ==
  /\ ~r.closed
  /\ Len(ackQueue) < MaxQueue
  /\ r' = Close(r)
  /\ ackQueue' = Append(ackQueue, AckPacket(Close(r), FALSE, TRUE))
  /\ UNCHANGED <<repeats, w, dataNet, ackNet, readerKnown, writerKnown, errorSent,
                 delivered, accepted>>

-----------------------------------------------------------------------------

Next ==
  \/ \E n \in 1 .. MaxChunk : Write(n)
  \/ WriteWoken
  \/ \E isError \in BOOLEAN : CloseWithError(isError)
  \/ \E ack \in ackNet, again \in BOOLEAN : RecvAck(ack, again)
  \/ \E pk \in dataNet, again \in BOOLEAN : RecvPacket(pk, again)
  \/ ProcessSendAck
  \/ \E n \in 1 .. MaxChunk : ReadBytes(n)
  \/ CloseReader

Spec == Init /\ [][Next]_vars

(* The transport delivers what it holds, both brokers' queues are worked     *)
(* off, a woken goroutine runs, and the application keeps calling Read.  A   *)
(* stream takes finitely many steps, so it is enough that it does not stop.  *)
Proceeds ==
  \/ \E ack \in ackNet : RecvAck(ack, FALSE)
  \/ \E pk \in dataNet : RecvPacket(pk, FALSE)
  \/ ProcessSendAck
  \/ WriteWoken
  \/ \E n \in 1 .. MaxChunk : ReadBytes(n)

FairSpec == Spec /\ WF_vars(Proceeds)

-----------------------------------------------------------------------------

Acks == [id : {StreamId}, seq : Nat, rwnd : Nat, fin : BOOLEAN, cancel : BOOLEAN]

Packets == [id : {StreamId}, seq : Nat, data : Seq(Nat), eof : BOOLEAN, error : BOOLEAN]

Errors == {"none", "closed", "stream", "cancelled"}

Writers ==
  [readWindow : Nat, nextSeq : Nat, buffer : Seq(Nat), sentNotAcked : Nat,
   maxAckedSeq : Nat, maxAckedRwnd : Nat, finAcked : BOOLEAN,
   canceled : BOOLEAN, closed : BOOLEAN, err : Errors,
   call : {"idle", "waiting", "woken"}]

Readers ==
  [id : {StreamId}, nextSeq : Nat, buffer : Seq(Nat), eof : BOOLEAN,
   err : Errors, closed : BOOLEAN, lastRwndSent : Nat,
   oooPackets : SUBSET Packets]

TypeOK ==
  /\ w \in Writers
  /\ r \in Readers
  /\ dataNet \subseteq Packets
  /\ ackNet \subseteq Acks
  /\ ackQueue \in Seq(Acks)
  /\ readerKnown \in BOOLEAN
  /\ writerKnown \in BOOLEAN
  /\ errorSent \in BOOLEAN
  /\ repeats \in 0 .. MaxRepeats
  /\ delivered \in Seq(Nat)
  /\ accepted \in Nat

(* What the application has read, followed by what waits in the reader's     *)
(* buffer, is the start of what the writer's application wrote: nothing      *)
(* missing, repeated or swapped, whatever the transport did to the packets.  *)
InOrder == delivered \o r.buffer = Bytes(0, r.nextSeq)

(* Flow control: what the writer has sent and the application has not yet    *)
(* read never exceeds the read window, so neither the reader's buffer nor    *)
(* its out-of-order packets can outgrow it, and rwnd is never clamped at 0.  *)
FlowControl == w.nextSeq - Len(delivered) <= ReadWindow

(* The writer's count of bytes in flight is exact while it is open, although *)
(* acks reach it late, out of order and twice.                               *)
InFlightExact == ~w.closed => w.sentNotAcked = w.nextSeq - w.maxAckedSeq

(* No lost wake-up: a Write only waits on w.cond while the window really is  *)
(* used up and nobody closed or cancelled the stream.                        *)
WaitsForWindow ==
  w.call = "waiting" => Avail(w) <= 0 /\ ~w.closed /\ w.err = "none"

(* A clean end of stream is the whole stream: a reader at eof has every byte *)
(* that was sent, and every byte of a Write that reported success.           *)
EofMeansComplete ==
  r.eof => r.nextSeq = w.nextSeq /\ accepted <= r.nextSeq

(* The right edge of the writer's window, the first byte it may not send,    *)
(* never moves back while the writer is open: a stale or duplicated ack      *)
(* never takes back a window already granted.                                *)
EdgeNeverRetreats ==
  [][~w'.closed => w'.maxAckedSeq + w'.readWindow >= w.maxAckedSeq + w.readWindow]_vars

(* A Write that waits for window returns: the reader's acks reach it, or it  *)
(* is closed or cancelled.  Also the deadlock a reader that withholds its    *)
(* window updates would cause.                                               *)
WriteReturns == (w.call /= "idle") ~> (w.call = "idle")

(* A stream that was closed, failed or was given up comes to its end: the    *)
(* reader is told, even with packets out of order or the window exhausted,   *)
(* and both brokers forget it, so a long-lived broker collects no dead       *)
(* streams.                                                                  *)
StreamForgotten ==
  (w.closed \/ r.eof \/ r.err /= "none") ~>
    (r.eof \/ r.err /= "none") /\ ~readerKnown /\ ~writerKnown

=============================================================================
