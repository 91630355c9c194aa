---------------------------- MODULE StreamManager ----------------------------
(***************************************************************************)
(* The job manager's side of a durable stream, pkg/jobmanager/             *)
(* streammanager.go: the goroutine that reads the PTY into the output      *)
(* buffer, the goroutine that sends what is buffered, and the calls the    *)
(* connection makes (ClientConnected, ClientDisconnected, RecvAck,         *)
(* SetRwndSize).                                                           *)
(*                                                                         *)
(* There are two locks.  sm.lock guards the manager; cb.lock guards the    *)
(* buffer, and the PTY goroutine takes only cb.lock to write.  A method    *)
(* that holds sm.lock and calls the buffer several times is therefore      *)
(* several steps, one for each call, and lockHeld says where it is; the    *)
(* PTY may write in between, other methods must wait.                      *)
(***************************************************************************)
EXTENDS StreamBytes

CONSTANTS
  MaxSize,    \* CirBufSize
  MaxWrite,   \* MaxPacketSize: the longest PTY read, and the longest packet
  MaxTotal,   \* bound on the PTY's output
  CwndSize,   \* the window of a connected stream, whatever the client grants
  MaxRwnd,    \* the largest window a client grants (DefaultStreamRwnd)
  MaxStreams  \* bound on the connections made

ASSUME StreamManagerAssumption ==
  /\ MaxSize \in Nat \ {0}
  /\ MaxWrite \in 1 .. MaxSize
  /\ MaxTotal \in Nat
  /\ CwndSize \in 1 .. MaxSize
  /\ MaxRwnd \in Nat \ {0}
  /\ MaxStreams \in Nat \ {0}

VARIABLES
  head, total, syncMode, windowSize, writer,  \* the buffer, see OutputWindow
  sm,       \* the StreamManager's fields
  pty,      \* the readLoop goroutine: where it is, and the bytes it has in hand
  sender,   \* the senderLoop goroutine: where it is, and the packet it has in hand
  lockHeld  \* the method in the middle of which sm.lock is held

bufVars == <<head, total, syncMode, windowSize, writer>>

vars == <<bufVars, sm, pty, sender, lockHeld>>

Buf == INSTANCE OutputWindow

StreamIds == 1 .. MaxStreams

NoPacket == [none |-> TRUE]

Free == [by |-> "nobody"]

Init ==
  /\ Buf!Init
  /\ sm = [streamId |-> 0, connected |-> FALSE, eofPos |-> -1, terminalEvent |-> "none",
           rwndSize |-> CwndSize, sentNotAcked |-> 0, maxAckedSeq |-> 0,
           maxAckedRwnd |-> 0, terminalEventSent |-> FALSE, terminalEventAcked |-> FALSE]
  /\ pty = [at |-> "reading", left |-> 0]
  /\ sender = [at |-> "running", pk |-> NoPacket]
  /\ lockHeld = Free

EffectiveWindow(rwnd) == Buf!Smaller(CwndSize, rwnd)

\* mutant of SignalDrain: nobody is signalled
SignalDrain_Never == sender' = sender

\* sm.drainCond.Signal(): the sender is the only goroutine that waits on it.
SignalDrain == sender' = IF sender.at = "waiting" THEN [sender EXCEPT !.at = "running"]
                                                  ELSE sender

-----------------------------------------------------------------------------
(* readLoop, handleReadData, handleEOF, handleError.                       *)

ReadPty(n) ==
  /\ pty.at = "reading"
  /\ total + n <= MaxTotal
  /\ pty' = [at |-> "writing", left |-> n]
  /\ UNCHANGED <<bufVars, sm, sender, lockHeld>>

\* mutant of WritePty: the whole read buffer is counted as written
WritePty_CountsWholeBuffer ==
  /\ pty.at = "writing"
  /\ Buf!WriteAvailable(pty.left)
  /\ pty' = IF total' > total
              THEN [at |-> "signalling", left |-> pty.left - MaxWrite]
              ELSE pty
  /\ UNCHANGED <<sm, sender, lockHeld>>

\* One turn of handleReadData's loop: it writes, or waits on the channel.
WritePty ==
  /\ pty.at = "writing"
  /\ Buf!WriteAvailable(pty.left)
  /\ pty' = IF total' > total
              THEN [at |-> "signalling", left |-> pty.left - (total' - total)]
              ELSE pty
  /\ UNCHANGED <<sm, sender, lockHeld>>

SignalWritten ==
  /\ pty.at = "signalling"
  /\ lockHeld = Free
  /\ SignalDrain
  /\ pty' = [pty EXCEPT !.at = IF pty.left = 0 THEN "reading" ELSE "writing"]
  /\ UNCHANGED <<bufVars, sm, lockHeld>>

HandleTerminalEvent(event) ==
  /\ pty.at = "reading"
  /\ lockHeld = Free
  /\ sm' = [sm EXCEPT !.eofPos = total, !.terminalEvent = event]
  /\ SignalDrain
  /\ pty' = [pty EXCEPT !.at = "done"]
  /\ UNCHANGED <<bufVars, lockHeld>>

-----------------------------------------------------------------------------
(* senderLoop, prepareNextPacket, prepareTerminalPacket.                   *)

AvailableToSend == EffectiveWindow(sm.rwndSize) - sm.sentNotAcked

\* mutant of NextData: the packet may run past the window
NextData_IgnoresWindow == Buf!PeekDataAt(sm.sentNotAcked, MaxWrite)

NextData ==
  Buf!PeekDataAt(sm.sentNotAcked, Buf!Smaller(AvailableToSend, MaxWrite))

\* mutant of HasTerminal: the end is sent as soon as it is known
HasTerminal_AtOnce == sm.terminalEvent /= "none" /\ ~sm.terminalEventSent

HasTerminal == Buf!Size = 0 /\ sm.terminalEvent /= "none" /\ ~sm.terminalEventSent

HasData == Buf!Size > 0 /\ AvailableToSend > 0 /\ NextData /= << >>

PrepareTerminalPacket ==
  /\ HasTerminal
  /\ sender' = [at |-> "sending",
                pk |-> Packet(sm.streamId, sm.eofPos, << >>,
                              sm.terminalEvent = "eof", sm.terminalEvent = "error")]
  /\ sm' = [sm EXCEPT !.terminalEventSent = TRUE]

\* mutant of PrepareData: every packet starts at the head
PrepareData_FromHead ==
  /\ HasData
  /\ sender' = [at |-> "sending", pk |-> DataPacket(sm.streamId, head, NextData)]
  /\ sm' = [sm EXCEPT !.sentNotAcked = @ + Len(NextData)]

PrepareData ==
  /\ HasData
  /\ sender' = [at |-> "sending",
                pk |-> DataPacket(sm.streamId, head + sm.sentNotAcked, NextData)]
  /\ sm' = [sm EXCEPT !.sentNotAcked = @ + Len(NextData)]

WaitForDrain ==
  /\ ~sm.connected \/ ~(HasTerminal \/ HasData)
  /\ sender' = [sender EXCEPT !.at = "waiting"]
  /\ UNCHANGED sm

PrepareNextPacket ==
  /\ sender.at = "running"
  /\ lockHeld = Free
  /\ IF sm.terminalEventAcked
       THEN sender' = [sender EXCEPT !.at = "done"] /\ UNCHANGED sm
       ELSE \/ WaitForDrain
            \/ sm.connected /\ (PrepareTerminalPacket \/ PrepareData)
  /\ UNCHANGED <<bufVars, pty, lockHeld>>

\* sender.SendData, outside the lock.
SendPacket ==
  /\ sender.at = "sending"
  /\ sender' = [at |-> "running", pk |-> NoPacket]
  /\ UNCHANGED <<bufVars, sm, pty, lockHeld>>

-----------------------------------------------------------------------------
(* ClientConnected: the head is read, what the client already has is       *)
(* consumed, the head is read again, and the mode is changed, each under   *)
(* its own cb.lock.                                                        *)

Connectable == ~sm.terminalEventAcked /\ ~sm.connected

ConnectReadHead(id, rwnd, clientSeq) ==
  /\ lockHeld = Free
  /\ Connectable
  /\ lockHeld' = [by |-> IF clientSeq > head THEN "ConnectConsume" ELSE "ConnectEnter",
                  id |-> id, rwnd |-> rwnd, clientSeq |-> clientSeq, headPos |-> head]
  /\ UNCHANGED <<bufVars, sm, pty, sender>>

BytesToConsume == lockHeld.clientSeq - lockHeld.headPos

\* "client seq is beyond our stream end"
ConnectRefused ==
  /\ lockHeld.by = "ConnectConsume"
  /\ BytesToConsume > Buf!Size
  /\ lockHeld' = Free
  /\ UNCHANGED <<bufVars, sm, pty, sender>>

ConnectConsume ==
  /\ lockHeld.by = "ConnectConsume"
  /\ BytesToConsume <= Buf!Size
  /\ Buf!Consume(BytesToConsume)
  /\ lockHeld' = [lockHeld EXCEPT !.by = "ConnectReread"]
  /\ UNCHANGED <<sm, pty, sender>>

ConnectReread ==
  /\ lockHeld.by = "ConnectReread"
  /\ lockHeld' = [lockHeld EXCEPT !.by = "ConnectEnter", !.headPos = head]
  /\ UNCHANGED <<bufVars, sm, pty, sender>>

\* What ClientConnected returns.
StartSeq == Buf!Larger(lockHeld.headPos, lockHeld.clientSeq)

ConnectEnter ==
  /\ lockHeld.by = "ConnectEnter"
  /\ sm' = [sm EXCEPT !.streamId = lockHeld.id, !.connected = TRUE,
                      !.rwndSize = lockHeld.rwnd, !.sentNotAcked = 0]
  /\ Buf!SetEffectiveWindow(TRUE, EffectiveWindow(lockHeld.rwnd))
  /\ SignalDrain
  /\ lockHeld' = Free
  /\ UNCHANGED pty

-----------------------------------------------------------------------------

\* mutant of ClientDisconnected: the buffer stays in sync mode
ClientDisconnected_StaysSync ==
  /\ lockHeld = Free
  /\ sm.connected
  /\ sm' = [sm EXCEPT !.connected = FALSE, !.sentNotAcked = 0,
                      !.maxAckedSeq = 0, !.maxAckedRwnd = 0,
                      !.terminalEventSent = @ /\ sm.terminalEventAcked]
  /\ SignalDrain
  /\ UNCHANGED <<bufVars, pty, lockHeld>>

\* mutant of ClientDisconnected: the terminal event counts as sent for good
ClientDisconnected_KeepsSent ==
  /\ lockHeld = Free
  /\ sm.connected
  /\ sm' = [sm EXCEPT !.connected = FALSE, !.sentNotAcked = 0,
                      !.maxAckedSeq = 0, !.maxAckedRwnd = 0]
  /\ Buf!SetEffectiveWindow(FALSE, MaxSize)
  /\ SignalDrain
  /\ UNCHANGED <<pty, lockHeld>>

ClientDisconnected ==
  /\ lockHeld = Free
  /\ sm.connected
  /\ sm' = [sm EXCEPT !.connected = FALSE, !.sentNotAcked = 0,
                      !.maxAckedSeq = 0, !.maxAckedRwnd = 0,
                      !.terminalEventSent = @ /\ sm.terminalEventAcked]
  /\ Buf!SetEffectiveWindow(FALSE, MaxSize)
  /\ SignalDrain
  /\ UNCHANGED <<pty, lockHeld>>

IsStale(ack) ==
  \/ ack.seq < sm.maxAckedSeq
  \/ ack.seq = sm.maxAckedSeq /\ ack.rwnd <= sm.maxAckedRwnd

IgnoresAck(ack) == ~sm.connected \/ ack.id /= sm.streamId

\* Cancel is not looked at.
RecvFin(ack) ==
  /\ lockHeld = Free
  /\ ~IgnoresAck(ack) /\ ack.fin
  /\ sm' = [sm EXCEPT !.terminalEventAcked = TRUE]
  /\ SignalDrain
  /\ UNCHANGED <<bufVars, pty, lockHeld>>

\* mutant of AckedBytes: an ack is taken for all that was sent
AckedBytes_AllSent(ack) == sm.sentNotAcked

AckedBytes(ack) == ack.seq - head

\* An ack that is older than the head, or runs ahead of what was sent, is
\* remembered and otherwise ignored.
RecvAckOutside(ack) ==
  /\ lockHeld = Free
  /\ ~IgnoresAck(ack) /\ ~ack.fin /\ ~IsStale(ack)
  /\ AckedBytes(ack) \notin 0 .. sm.sentNotAcked
  /\ sm' = [sm EXCEPT !.maxAckedSeq = ack.seq, !.maxAckedRwnd = ack.rwnd]
  /\ UNCHANGED <<bufVars, pty, sender, lockHeld>>

\* mutant of RecvAckConsume: what is acked still counts as in flight
RecvAckConsume_KeepsInFlight(ack) ==
  /\ lockHeld = Free
  /\ ~IgnoresAck(ack) /\ ~ack.fin /\ ~IsStale(ack)
  /\ AckedBytes(ack) \in 0 .. sm.sentNotAcked
  /\ sm' = [sm EXCEPT !.maxAckedSeq = ack.seq, !.maxAckedRwnd = ack.rwnd,
                      !.rwndSize = ack.rwnd]
  /\ IF AckedBytes(ack) > 0 THEN Buf!Consume(AckedBytes(ack)) ELSE UNCHANGED bufVars
  /\ lockHeld' = [by |-> "RecvAck",
                  signals |-> ack.rwnd > sm.rwndSize \/ AckedBytes(ack) > 0]
  /\ UNCHANGED <<pty, sender>>

RecvAckConsume(ack) ==
  /\ lockHeld = Free
  /\ ~IgnoresAck(ack) /\ ~ack.fin /\ ~IsStale(ack)
  /\ AckedBytes(ack) \in 0 .. sm.sentNotAcked
  /\ sm' = [sm EXCEPT !.maxAckedSeq = ack.seq, !.maxAckedRwnd = ack.rwnd,
                      !.sentNotAcked = @ - AckedBytes(ack), !.rwndSize = ack.rwnd]
  /\ IF AckedBytes(ack) > 0 THEN Buf!Consume(AckedBytes(ack)) ELSE UNCHANGED bufVars
  /\ lockHeld' = [by |-> "RecvAck",
                  signals |-> ack.rwnd > sm.rwndSize \/ AckedBytes(ack) > 0]
  /\ UNCHANGED <<pty, sender>>

RecvAckResize ==
  /\ lockHeld.by = "RecvAck"
  /\ Buf!SetEffectiveWindow(TRUE, EffectiveWindow(sm.rwndSize))
  /\ IF lockHeld.signals THEN SignalDrain ELSE UNCHANGED sender
  /\ lockHeld' = Free
  /\ UNCHANGED <<sm, pty>>

RecvAckIgnored(ack) ==
  /\ lockHeld = Free
  /\ IgnoresAck(ack) \/ (~ack.fin /\ IsStale(ack))
  /\ UNCHANGED vars

RecvAck(ack) ==
  RecvFin(ack) \/ RecvAckOutside(ack) \/ RecvAckConsume(ack) \/ RecvAckIgnored(ack)

SetRwndSize(rwnd) ==
  /\ lockHeld = Free
  /\ sm.connected
  /\ sm' = [sm EXCEPT !.rwndSize = rwnd]
  /\ Buf!SetEffectiveWindow(TRUE, EffectiveWindow(rwnd))
  /\ SignalDrain
  /\ UNCHANGED <<pty, lockHeld>>

-----------------------------------------------------------------------------

\* The two goroutines and the rest of a method that holds the lock.
Internal ==
  \/ \E n \in 1 .. MaxWrite : ReadPty(n)
  \/ WritePty
  \/ SignalWritten
  \/ \E event \in {"eof", "error"} : HandleTerminalEvent(event)
  \/ PrepareNextPacket
  \/ ConnectRefused
  \/ ConnectConsume
  \/ ConnectReread
  \/ ConnectEnter
  \/ RecvAckResize

\* The acks a client can send: up to what it was sent, of any connection.
Acks ==
  [id : StreamIds, seq : 0 .. head + sm.sentNotAcked, rwnd : 0 .. MaxRwnd,
   fin : BOOLEAN]

(* Any client: it connects with a new stream id from any position, one       *)
(* beyond the end of the output included (its file may hold bytes twice, see *)
(* DurableStream), acks what it was sent in any order and any number of      *)
(* times, and ends a stream only once its terminal packet was sent.          *)
ClientStep ==
  \/ \E id \in StreamIds, rwnd \in 0 .. MaxRwnd, clientSeq \in 0 .. total + 1 :
       id = sm.streamId + 1 /\ ConnectReadHead(id, rwnd, clientSeq)
  \/ ClientDisconnected
  \/ \E ack \in Acks : (ack.fin => sm.terminalEventSent) /\ RecvAck(ack)
  \/ \E rwnd \in 0 .. MaxRwnd : SetRwndSize(rwnd)

Next == Internal \/ SendPacket \/ ClientStep

Spec == Init /\ [][Next]_vars

-----------------------------------------------------------------------------

TypeOK ==
  /\ head \in 0 .. total
  /\ total \in 0 .. MaxTotal
  /\ syncMode \in BOOLEAN
  /\ windowSize \in 0 .. MaxSize
  /\ writer \in {"running", "waiting"}
  /\ sm \in [streamId : 0 .. MaxStreams, connected : BOOLEAN, eofPos : -1 .. MaxTotal,
             terminalEvent : {"none", "eof", "error"}, rwndSize : Nat,
             sentNotAcked : Nat, maxAckedSeq : Nat, maxAckedRwnd : Nat,
             terminalEventSent : BOOLEAN, terminalEventAcked : BOOLEAN]
  /\ pty \in [at : {"reading", "writing", "signalling", "done"}, left : 0 .. MaxWrite]
  /\ sender.at \in {"running", "waiting", "sending", "done"}
  /\ lockHeld.by \in {"nobody", "ConnectConsume", "ConnectReread", "ConnectEnter", "RecvAck"}

(* What is in flight is still buffered, so a lost packet can be sent again   *)
(* after a reconnect, and Consume never fails.                               *)
InFlightIsBuffered == sm.sentNotAcked <= Buf!Size

(* No more than the connected window is ever in flight, and never more than  *)
(* MaxRwnd, whatever the client's acks and window updates.                   *)
InFlightBounded == sm.sentNotAcked <= EffectiveWindow(MaxRwnd)

(* A connected stream blocks the PTY rather than overwrite output, and a     *)
(* disconnected one never blocks it.                                         *)
BlocksOnlyConnected ==
  /\ sm.connected => syncMode
  /\ (~sm.connected /\ sm.streamId /= 0) => ~syncMode /\ writer = "running"

(* No lost wake-up: the sender sleeps only while it has nothing to send, or  *)
(* the PTY goroutine is about to signal it, although the PTY writes to the   *)
(* buffer without sm.lock.                                                   *)
SleepsOnlyIdle ==
  (sender.at = "waiting" /\ sm.connected /\ (HasData \/ HasTerminal)) =>
    \/ pty.at = "signalling"
    \/ lockHeld.by = "RecvAck" /\ lockHeld.signals

(* The terminal event comes last: it is only sent once every byte of output  *)
(* was acked (or overwritten), so a client that sees it has missed nothing.  *)
TerminalIsLast ==
  sm.terminalEventSent => head = total /\ sm.eofPos = total /\ pty.at = "done"

(* While a connection lasts the position of the next byte to send only       *)
(* advances, and the packet prepared next starts there: the packets of one   *)
(* stream neither overlap nor leave a hole.                                  *)
SendsEveryByteOnce ==
  [][(sm.connected /\ sm'.connected) =>
       LET next == head + sm.sentNotAcked
       IN  head' + sm'.sentNotAcked =
             IF sender'.at = "sending" /\ sender.at = "running" /\ sender'.pk.seq = next
               THEN next + Len(sender'.pk.data)
               ELSE next]_vars

=============================================================================
