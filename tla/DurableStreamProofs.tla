------------------------- MODULE DurableStreamProofs -------------------------
(***************************************************************************)
(* Proofs about DurableStream.                                             *)
(***************************************************************************)
EXTENDS DurableStream, SequenceTheorems, TLAPS

\* StreamManager with its proofs; what is proved there holds here.
P == INSTANCE StreamManagerProofs WITH MaxRwnd <- ReadWindow

-----------------------------------------------------------------------------
(* The inductive invariant.                                                 *)

HasReader(id) == ~readers[id].closed

\* The packets on their way: in the network, or about to be sent.
Sent == dataNet \cup {pk \in {sender.pk} : sender.at = "sending"}

\* The job manager serves one connection after the other: what it holds belongs
\* to the connection it serves, or while it connects to an earlier one.
Turns ==
  /\ 1 <= sm.streamId
  /\ {sm.streamId, jm.pending} \cup attached
       \subseteq 0 .. (IF jm.step = "idle" THEN jm.id ELSE jm.id - 1)
  /\ jm.id <= conn
  /\ ~up => conn < MaxStreams
  /\ lockHeld.by \in P!Connecting =>
       jm.step = "connecting" /\ lockHeld.id = jm.id /\ lockHeld.rwnd = 0

\* What the main server waits for, and that the job manager has not begun to
\* serve the connection it has not been asked to.
Asked ==
  /\ restart.at \in {"idle", "stat", "create"} => rpc.at = "none"
  /\ restart.at = "prepare" =>
       rpc.at \in {"prepare", "prepared", "refused", "streamDone", "failed"}
  /\ restart.at = "start" => rpc.at \in {"start", "started", "failed"}
  /\ restart.at \in {"stat", "create"} => jm.id < conn
  /\ rpc.at = "prepare" /\ jm.step = "idle" => jm.id < conn

\* Nothing opens the window of the stream that waits for StartStream.
Corked ==
  /\ jm.pending \notin attached
  /\ sm.streamId = jm.pending => sm.rwndSize = 0
  /\ \A pk \in Sent : pk.id <= sm.streamId /\ (pk.data /= << >> => pk.id /= jm.pending)
  /\ restart.at = "prepare" /\ sm.streamId = conn => jm.pending = conn

\* A packet's bytes are where its number says.
Whole(pk) ==
  /\ pk \in Packets
  /\ pk.data = Bytes(pk.seq, PacketEnd(pk))
  /\ PacketEnd(pk) <= MaxTotal

\* The PTY has ended, and all of its output was acknowledged or let go of.
EndReached == sm.terminalEvent /= "none" /\ head = total

Held(id) == readers[id].oooPackets

\* The packets are whole, and nobody speaks of the end before it is there.
Contents ==
  /\ \A pk \in Sent : Whole(pk) /\ (pk.eof \/ pk.error => EndReached)
  /\ \A id \in Streams :
       HasReader(id) =>
         /\ readers[id].id = id
         /\ \A pk \in Held(id) : Whole(pk) /\ (pk.eof \/ pk.error => EndReached)
         /\ readers[id].eof \/ readers[id].err /= "none" => EndReached
  /\ \A ack \in ackNet : ack.fin => EndReached
  /\ sm.terminalEventAcked \/ rpc.at = "streamDone" => EndReached

\* Who uses a reader has one.
Service ==
  /\ \A id \in known : HasReader(id)
  /\ \A id \in Streams :
       /\ loops[id].at /= "none" => HasReader(id)
       /\ loops[id].at /= "appending" => loops[id].hand = << >>
       /\ id > conn => loops[id].at = "none"
  /\ restart.at /= "idle" => loops[conn].at = "none"
  /\ restart.at \in {"prepare", "start"} => HasReader(conn) /\ current = conn

\* The first byte that a reader holds, and that its loop has not appended.
From(id) == readers[id].nextSeq - Len(readers[id].buffer)

Start(id) == From(id) - Len(loops[id].hand)

\* A reader that holds the bytes from the given one on.
Received(rd, from) ==
  /\ rd \in Readers
  /\ from \in 0 .. rd.nextSeq
  /\ rd.buffer = Bytes(from, rd.nextSeq)

\* What a reader and its loop hold is one run of bytes, and nothing has come
\* for a stream that is not started.
Runs ==
  /\ \A id \in Streams :
       HasReader(id) =>
         /\ Received(readers[id], From(id))
         /\ 0 <= Start(id)
         /\ loops[id].hand = Bytes(Start(id), From(id))
  /\ restart.at = "prepare" =>
       /\ readers[conn].buffer = << >>
       /\ readers[conn].nextSeq = restart.seq
       /\ \A pk \in Held(conn) : pk.data = << >>

IInv ==
  /\ TypeOK
  /\ P!IInv
  /\ Turns
  /\ Asked
  /\ Corked
  /\ Contents
  /\ Service
  /\ Runs

\* The current stream goes on where the file ends.
Aligned ==
  /\ \A id \in Streams :
       /\ loops[id].at = "appending" => id = current
       /\ id = current /\ HasReader(id) => Start(id) = Position
  /\ restart.at = "create" =>
       /\ restart.seq = Position
       /\ NoneAppending
       /\ OldLoop = "settles" => Settled

\* No byte of the file lies behind its position, on disk either.
Below ==
  /\ \A i \in 1 .. Len(file) : file[i] < Position
  /\ \A i \in 1 .. flushed.size : file[i] < flushed.size + flushed.gap
  /\ FileInOrder

FileInv == OldLoop /= "races" => Aligned /\ Below

-----------------------------------------------------------------------------

LEMMA Sizes ==
  /\ MaxSize \in Nat \ {0} /\ MaxWrite \in 1 .. MaxSize /\ MaxTotal \in Nat
  /\ CwndSize \in 1 .. MaxSize /\ ReadWindow \in Nat \ {0} /\ AckDivisor \in Nat \ {0}
  /\ MaxStreams \in Nat \ {0} /\ MaxCrashes \in Nat
  BY DurableAssumption, ReaderAssumption

\* The lemmas of StreamManagerProofs about runs of bytes.
LEMMA BytesIsSeq ==
  ASSUME NEW a \in Int, NEW b \in Int, a <= b
  PROVE  /\ Bytes(a, b) \in Seq(Int)
         /\ Len(Bytes(a, b)) = b - a
         /\ \A i \in 1 .. b - a : Bytes(a, b)[i] = a + i - 1
BY Sizes, P!BytesIsSeq DEF P!Bytes, Bytes

LEMMA NoBytes ==
  ASSUME NEW a \in Int, NEW b \in Int, b <= a
  PROVE  Bytes(a, b) = << >>
BY Sizes, P!NoBytes DEF P!Bytes, Bytes

LEMMA BytesConcat ==
  ASSUME NEW a \in Int, NEW b \in Int, NEW c \in Int, a <= b, b <= c
  PROVE  Bytes(a, b) \o Bytes(b, c) = Bytes(a, c)
BY Sizes, P!BytesConcat DEF P!Bytes, Bytes

LEMMA BytesSub ==
  ASSUME NEW a \in Int, NEW b \in Int, NEW m \in Nat, NEW n \in Nat,
         m <= n, n <= b - a
  PROVE  SubSeq(Bytes(a, b), m + 1, n) = Bytes(a + m, a + n)
BY Sizes, P!BytesSub DEF P!Bytes, Bytes

LEMMA BytesNat ==
  ASSUME NEW a \in Nat, NEW b \in Nat
  PROVE  Bytes(a, b) \in Seq(Nat)
BY Sizes, P!BytesNat DEF P!Bytes, Bytes

LEMMA GreatestNatural ==
  ASSUME NEW T, T \subseteq Nat, T # {}, NEW bound \in Nat, \A x \in T : x <= bound
  PROVE  \E x \in T : \A y \in T : y <= x
BY Sizes, P!GreatestNatural

-----------------------------------------------------------------------------
(* The job manager of the composition is StreamManager: every step is one   *)
(* of its steps, with some call of a connection, or leaves it alone.        *)

LEMMA PtyStep ==
  /\ ApplicationRuns => P!Internal
  /\ ReadLoopRuns => P!Internal
  BY DEF ApplicationRuns, ReadLoopRuns, P!Internal,
         SM!ReadPty, P!ReadPty, SM!WritePty, P!WritePty, SM!SignalWritten, P!SignalWritten,
         SM!HandleTerminalEvent, P!HandleTerminalEvent, SM!SignalDrain, P!SignalDrain,
         SM!bufVars, P!bufVars, SM!Free, P!Free, SM!Buf!WriteAvailable, P!Buf!WriteAvailable,
         SM!Buf!WriteSync, P!Buf!WriteSync, SM!Buf!WriteBlocks, P!Buf!WriteBlocks,
         SM!Buf!WriteAsync, P!Buf!WriteAsync, SM!Buf!Full, P!Buf!Full, SM!Buf!Size, P!Buf!Size,
         SM!Buf!Smaller, P!Buf!Smaller, SM!Buf!Larger, P!Buf!Larger

LEMMA SameData ==
  /\ SM!HasTerminal <=> P!HasTerminal
  /\ SM!NextData = P!NextData
  /\ SM!HasData <=> P!HasData
  /\ SM!Buf!Size = P!Buf!Size
<1>1. SM!Buf!Size = P!Buf!Size
  BY DEF SM!Buf!Size, P!Buf!Size
<1>2. SM!HasTerminal <=> P!HasTerminal
  BY <1>1 DEF SM!HasTerminal, P!HasTerminal
<1>3. SM!AvailableToSend = P!AvailableToSend
  BY DEF SM!AvailableToSend, P!AvailableToSend, SM!EffectiveWindow, P!EffectiveWindow,
         SM!Buf!Smaller, P!Buf!Smaller
<1>4. SM!NextData = P!NextData
  BY <1>3 DEF SM!NextData, P!NextData, SM!Buf!PeekDataAt, P!Buf!PeekDataAt, SM!Buf!Smaller,
         P!Buf!Smaller, SM!Buf!Larger, P!Buf!Larger, SM!Buf!Bytes, P!Buf!Bytes
<1>5. SM!HasData <=> P!HasData
  BY <1>1, <1>3, <1>4 DEF SM!HasData, P!HasData
<1>6. QED
  BY <1>1, <1>2, <1>4, <1>5

LEMMA SenderStep ==
  /\ SenderRuns => P!Internal
  /\ SendPacket => P!SendPacket
<1>1. SM!PrepareTerminalPacket => P!PrepareTerminalPacket
  BY SameData DEF SM!PrepareTerminalPacket, P!PrepareTerminalPacket, SM!Packet, P!Packet
<1>2. SM!PrepareData => P!PrepareData
  BY SameData DEF SM!PrepareData, P!PrepareData, SM!DataPacket, P!DataPacket, SM!Packet, P!Packet
<1>3. SM!WaitForDrain => P!WaitForDrain
  BY SameData DEF SM!WaitForDrain, P!WaitForDrain
<1>4. SM!PrepareNextPacket => P!PrepareNextPacket
  BY <1>1, <1>2, <1>3 DEF SM!PrepareNextPacket, P!PrepareNextPacket, SM!Free, P!Free, SM!bufVars, P!bufVars
<1>5. QED
  BY <1>4 DEF SenderRuns, SendPacket, P!Internal, SM!SendPacket, P!SendPacket, SM!NoPacket, P!NoPacket,
              SM!bufVars, P!bufVars

LEMMA SameCalls ==
  /\ SM!Free = P!Free
  /\ SM!ClientDisconnected => P!ClientDisconnected
  /\ \A id, rwnd, seq : SM!ConnectReadHead(id, rwnd, seq) => P!ConnectReadHead(id, rwnd, seq)
  /\ \A rwnd : SM!SetRwndSize(rwnd) => P!SetRwndSize(rwnd)
  /\ \A ack : SM!RecvAck(ack) => P!RecvAck(ack)
<1>1. SM!Free = P!Free
  BY DEF SM!Free, P!Free
<1>2. SM!ClientDisconnected => P!ClientDisconnected
  BY DEF SM!ClientDisconnected, P!ClientDisconnected, SM!Free, P!Free, SM!SignalDrain, P!SignalDrain,
     SM!Buf!SetEffectiveWindow, P!Buf!SetEffectiveWindow, SM!Buf!Smaller, P!Buf!Smaller, SM!Buf!Larger, P!Buf!Larger
<1>3. \A id, rwnd, seq : SM!ConnectReadHead(id, rwnd, seq) => P!ConnectReadHead(id, rwnd, seq)
  BY DEF SM!ConnectReadHead, P!ConnectReadHead, SM!Free, P!Free, SM!Connectable, P!Connectable, SM!bufVars, P!bufVars
<1>4. \A rwnd : SM!SetRwndSize(rwnd) => P!SetRwndSize(rwnd)
  BY DEF SM!SetRwndSize, P!SetRwndSize, SM!Free, P!Free, SM!SignalDrain, P!SignalDrain, SM!EffectiveWindow, P!EffectiveWindow,
     SM!Buf!SetEffectiveWindow, P!Buf!SetEffectiveWindow, SM!Buf!Smaller, P!Buf!Smaller, SM!Buf!Larger, P!Buf!Larger
<1>5. ASSUME NEW ack, SM!RecvAck(ack)
      PROVE  P!RecvAck(ack)
  <2>1. SM!IgnoresAck(ack) <=> P!IgnoresAck(ack)
    BY DEF SM!IgnoresAck, P!IgnoresAck
  <2>2. SM!IsStale(ack) <=> P!IsStale(ack)
    BY DEF SM!IsStale, P!IsStale
  <2>3. SM!AckedBytes(ack) = P!AckedBytes(ack)
    BY DEF SM!AckedBytes, P!AckedBytes
  <2>4. SM!RecvFin(ack) => P!RecvFin(ack)
    BY <1>1, <2>1 DEF SM!RecvFin, P!RecvFin, SM!SignalDrain, P!SignalDrain, SM!bufVars, P!bufVars
  <2>5. SM!RecvAckOutside(ack) => P!RecvAckOutside(ack)
    BY <1>1, <2>1, <2>2, <2>3 DEF SM!RecvAckOutside, P!RecvAckOutside, SM!bufVars, P!bufVars
  <2>6. SM!RecvAckConsume(ack) => P!RecvAckConsume(ack)
    BY <1>1, <2>1, <2>2, <2>3
    DEF SM!RecvAckConsume, P!RecvAckConsume, SM!bufVars, P!bufVars, SM!Buf!Consume, P!Buf!Consume, SM!Buf!Size, P!Buf!Size
  <2>7. SM!RecvAckIgnored(ack) => P!RecvAckIgnored(ack)
    BY <1>1, <2>1, <2>2 DEF SM!RecvAckIgnored, P!RecvAckIgnored, SM!vars, P!vars, SM!bufVars, P!bufVars
  <2>8. QED
    BY <1>5, <2>4, <2>5, <2>6, <2>7 DEF SM!RecvAck, P!RecvAck
<1>6. QED
  BY <1>1, <1>2, <1>3, <1>4, <1>5

LEMMA SameConnect ==
  /\ SM!ConnectConsume => P!ConnectConsume
  /\ SM!ConnectReread => P!ConnectReread
  /\ SM!ConnectRefused => P!ConnectRefused
  /\ SM!ConnectEnter => P!ConnectEnter
  /\ SM!RecvAckResize => P!RecvAckResize
<1>1. SM!BytesToConsume = P!BytesToConsume /\ SM!Buf!Size = P!Buf!Size
  BY DEF SM!BytesToConsume, P!BytesToConsume, SM!Buf!Size, P!Buf!Size
<1>2. SM!ConnectConsume => P!ConnectConsume
  BY <1>1 DEF SM!ConnectConsume, P!ConnectConsume, SM!Buf!Consume, P!Buf!Consume
<1>3. (SM!ConnectReread => P!ConnectReread) /\ (SM!ConnectRefused => P!ConnectRefused)
  BY <1>1 DEF SM!ConnectReread, P!ConnectReread, SM!ConnectRefused, P!ConnectRefused, SM!Free, P!Free, SM!bufVars, P!bufVars
<1>4. SM!ConnectEnter => P!ConnectEnter
  BY DEF SM!ConnectEnter, P!ConnectEnter, SM!Free, P!Free, SM!SignalDrain, P!SignalDrain, SM!EffectiveWindow, P!EffectiveWindow,
     SM!Buf!SetEffectiveWindow, P!Buf!SetEffectiveWindow, SM!Buf!Smaller, P!Buf!Smaller, SM!Buf!Larger, P!Buf!Larger
<1>5. SM!RecvAckResize => P!RecvAckResize
  BY DEF SM!RecvAckResize, P!RecvAckResize, SM!Free, P!Free, SM!SignalDrain, P!SignalDrain, SM!EffectiveWindow, P!EffectiveWindow,
     SM!Buf!SetEffectiveWindow, P!Buf!SetEffectiveWindow, SM!Buf!Smaller, P!Buf!Smaller, SM!Buf!Larger, P!Buf!Larger
<1>6. QED
  BY <1>2, <1>3, <1>4, <1>5

LEMMA SameVars == UNCHANGED smVars => UNCHANGED P!vars
  BY DEF smVars, P!vars, P!bufVars

LEMMA ManagerStep == LinkTypes /\ [Next]_vars => [P!AnyNext]_(P!vars)
<1> SUFFICES ASSUME LinkTypes, [Next]_vars PROVE P!AnyNext \/ UNCHANGED P!vars
  OBVIOUS
<1> USE DEF P!AnyNext
<1>1. CASE ApplicationRuns \/ ReadLoopRuns \/ SenderRuns \/ SendPacket
  BY <1>1, PtyStep, SenderStep
<1>2. CASE RecvAckEnds
  BY <1>2, SameConnect DEF RecvAckEnds, P!Internal
<1>3. CASE \E ack \in ackNet : RecvAck(ack)
  <2>1. PICK ack \in ackNet : RecvAck(ack)
    BY <1>3
  <2>2. P!IsAck(ack)
    BY Sizes DEF LinkTypes, Acks, P!IsAck
  <2>3. SM!RecvAck(ack) => P!AnyCall
    BY <2>2, SameCalls DEF P!AnyCall
  <2>4. SM!RecvAck(ack) \/ UNCHANGED smVars
    BY <2>1 DEF RecvAck
  <2>5. QED
    BY <2>4, <2>3, SameVars
<1>4. CASE HandleConnect
  <2>1. CASE HandlePrepare
    <3>1. UNCHANGED smVars
      BY <2>1 DEF HandlePrepare
    <3>2. QED
      BY <3>1, SameVars
  <2>2. CASE DisconnectOld
    <3>1. SM!ClientDisconnected \/ UNCHANGED smVars
      BY <2>2 DEF DisconnectOld
    <3>2. QED
      BY <3>1, SameVars, SameCalls DEF P!AnyCall
  <2>3. CASE ConnectNew
    <3>1. jm.id \in P!StreamIds /\ jm.seq \in Nat /\ 0 \in 0 .. ReadWindow
      BY Sizes DEF LinkTypes, P!StreamIds, Streams
    <3>2. P!ConnectReadHead(jm.id, 0, jm.seq)
      BY <2>3, SameCalls DEF ConnectNew
    <3>3. QED
      BY <3>1, <3>2 DEF P!AnyCall
  <2>4. CASE ConnectConsume
    BY <2>4, SameConnect DEF ConnectConsume, P!Internal
  <2>5. CASE ConnectFails
    <3>1. SM!ConnectRefused \/ UNCHANGED smVars
      BY <2>5 DEF ConnectFails
    <3>2. QED
      BY <3>1, SameConnect, SameVars DEF P!Internal
  <2>6. CASE Connected
    BY <2>6, SameConnect DEF Connected, P!Internal
  <2>7. CASE HandleStart
    <3>1. ReadWindow \in 0 .. ReadWindow
      BY Sizes
    <3>2. P!SetRwndSize(ReadWindow)
      BY <2>7, SameCalls DEF HandleStart
    <3>3. QED
      BY <3>1, <3>2 DEF P!AnyCall
  <2>8. QED
    BY <1>4, <2>1, <2>2, <2>3, <2>4, <2>5, <2>6, <2>7 DEF HandleConnect
<1>5. CASE \E pk \in dataNet : RecvPacket(pk)
  <2>1. UNCHANGED smVars
    BY <1>5 DEF RecvPacket
  <2>2. QED
    BY <2>1, SameVars
<1>6. CASE \E id \in Streams : Loop(id)
  <2>1. PICK id \in Streams : Loop(id)
    BY <1>6
  <2>2. UNCHANGED smVars
    BY <2>1 DEF Loop, LoopTakes, LoopAppends, LoopSuperseded, LoopEnds
  <2>3. QED
    BY <2>2, SameVars
<1>7. CASE RestartStreaming
  <2>1. UNCHANGED smVars
    BY <1>7 DEF RestartStreaming, StatFile, CreateReader, RestartStops, RestartContinues, RestartDone
  <2>2. QED
    BY <2>1, SameVars
<1>8. CASE Reconnect \/ Drop \/ FlushCache \/ Crash
  <2>1. UNCHANGED smVars
    BY <1>8 DEF Reconnect, Drop, FlushCache, Crash
  <2>2. QED
    BY <2>1, SameVars
<1>9. CASE UNCHANGED vars
  <2>1. UNCHANGED smVars
    BY <1>9 DEF vars
  <2>2. QED
    BY <2>1, SameVars
<1>10. QED
  BY <1>1, <1>2, <1>3, <1>4, <1>5, <1>6, <1>7, <1>8, <1>9 DEF Next

LEMMA ManagerInv == LinkTypes /\ P!IInv /\ [Next]_vars => P!IInv'
  BY ManagerStep, Sizes, P!StepIInv

-----------------------------------------------------------------------------
(* What the steps of the job manager's goroutines change.                   *)

JmTypes ==
  [client : 0 .. MaxStreams, pending : 0 .. MaxStreams,
   step : {"idle", "disconnect", "connect", "connecting"}, id : Streams, seq : Nat]

LEMMA Facts ==
  ASSUME IInv
  PROVE  /\ jm \in JmTypes /\ attached \subseteq Streams /\ conn \in Streams /\ conn \in Nat
         /\ jm.id \in Nat /\ jm.id \in Streams /\ jm.pending \in Nat
         /\ sm \in P!SmFields /\ sm.streamId \in Nat /\ sm.streamId \in Streams
         /\ dataNet \subseteq Packets /\ ackNet \subseteq Acks
         /\ restart = [at |-> restart.at, seq |-> restart.seq] /\ restart.seq \in Nat
         /\ rpc = [at |-> rpc.at, seq |-> rpc.seq] /\ rpc.seq \in Nat
         /\ sender = [at |-> sender.at, pk |-> sender.pk]
         /\ MaxStreams \in Nat
<1>1. LinkTypes /\ P!TypeOK /\ P!Shapes
  BY DEF IInv, TypeOK, P!IInv
<1>2. sm \in P!SmFields /\ sm.streamId \in 0 .. MaxStreams
  BY <1>1 DEF P!TypeOK, P!SmFields
<1>3. jm \in JmTypes /\ jm.id \in Streams /\ jm.pending \in 0 .. MaxStreams
  BY <1>1 DEF LinkTypes, JmTypes
<1>4. sm.streamId \in Streams
  BY <1>2, Sizes DEF IInv, Turns, Streams
<1>5. QED
  BY <1>1, <1>2, <1>3, <1>4, Sizes DEF LinkTypes, P!Shapes, Streams

\* The steps that neither send nor connect.
Quiet ==
  /\ sm'.streamId = sm.streamId /\ sm'.rwndSize = sm.rwndSize
  /\ sm'.terminalEventAcked = sm.terminalEventAcked
  /\ sender'.at = "sending" <=> sender.at = "sending"
  /\ sender'.pk = sender.pk
  /\ lockHeld'.by \in P!Connecting => lockHeld.by = lockHeld'.by /\ lockHeld' = lockHeld

LEMMA QuietSteps ==
  ASSUME IInv, ApplicationRuns \/ ReadLoopRuns \/ RecvAckEnds
  PROVE  Quiet
<1>1. sm \in P!SmFields /\ sender = [at |-> sender.at, pk |-> sender.pk]
  BY Facts
<1>2. sender' \in {sender, [sender EXCEPT !.at = "running"]} /\ (sender' # sender => sender.at = "waiting")
  BY DEF ApplicationRuns, ReadLoopRuns, RecvAckEnds, SM!ReadPty, SM!HandleTerminalEvent, SM!WritePty,
     SM!SignalWritten, SM!RecvAckResize, SM!SignalDrain
<1>3. (sender'.at = "sending" <=> sender.at = "sending") /\ sender'.pk = sender.pk
  BY <1>1, <1>2
<1>4. lockHeld' = lockHeld \/ lockHeld' = SM!Free
  BY DEF ApplicationRuns, ReadLoopRuns, RecvAckEnds, SM!ReadPty, SM!HandleTerminalEvent, SM!WritePty,
     SM!SignalWritten, SM!RecvAckResize
<1>5. sm' = sm \/ \E event \in {"eof", "error"} : sm' = [sm EXCEPT !.eofPos = total, !.terminalEvent = event]
  BY DEF ApplicationRuns, ReadLoopRuns, RecvAckEnds, SM!ReadPty, SM!HandleTerminalEvent, SM!WritePty,
     SM!SignalWritten, SM!RecvAckResize
<1>6. /\ sm'.streamId = sm.streamId /\ sm'.rwndSize = sm.rwndSize
      /\ sm'.terminalEventAcked = sm.terminalEventAcked
  BY <1>1, <1>5 DEF P!SmFields
<1>7. QED
  BY <1>3, <1>4, <1>6 DEF Quiet, SM!Free, P!Connecting

\* What is sent begins where the last packet ended, in what is buffered.
LEMMA NextDataIs ==
  ASSUME P!IInv, P!HasData
  PROVE  \E to \in Nat :
           /\ head + sm.sentNotAcked \in Nat /\ head + sm.sentNotAcked < to /\ to <= total
           /\ P!NextData = Bytes(head + sm.sentNotAcked, to)
<1> DEFINE from == head + sm.sentNotAcked
           n == P!Buf!Smaller(P!AvailableToSend, MaxWrite)
           to == P!Buf!Smaller(from + n, P!Buf!Larger(total, from))
<1>1. /\ head \in Nat /\ total \in Nat /\ sm.sentNotAcked \in Nat /\ sm.rwndSize \in Nat
      /\ sm.sentNotAcked <= total - head
      /\ P!AvailableToSend \in Int
  <2>1. /\ head \in 0 .. total /\ total \in 0 .. MaxTotal
        /\ sm \in P!SmFields /\ P!InFlightIsBuffered
    BY DEF P!IInv, P!TypeOK, P!SmFields
  <2>2. head \in Nat /\ total \in Nat /\ sm.sentNotAcked \in Nat /\ sm.rwndSize \in Nat
    BY <2>1, Sizes DEF P!SmFields
  <2>3. QED
    BY <2>1, <2>2, Sizes DEF P!InFlightIsBuffered, P!Buf!Size, P!AvailableToSend, P!EffectiveWindow, P!Buf!Smaller
<1>2. from \in Nat /\ n \in Int /\ to \in Int /\ P!AvailableToSend > 0
  BY <1>1, Sizes DEF P!Buf!Smaller, P!Buf!Larger, P!HasData
<1>3. P!NextData = Bytes(from, to)
  BY DEF P!NextData, P!Buf!PeekDataAt, P!Buf!Bytes, Bytes
<1>4. to <= total
  BY <1>1 DEF P!Buf!Smaller, P!Buf!Larger
<1>5. from < to
  <2> HIDE DEF from, to
  <2> SUFFICES ASSUME to <= from PROVE FALSE
    BY <1>2
  <2>1. P!NextData = << >>
    BY <1>2, <1>3, NoBytes
  <2>2. QED
    BY <2>1 DEF P!HasData
<1>6. to \in Nat
  BY <1>2, <1>5
<1>7. QED
  BY <1>2, <1>3, <1>4, <1>5, <1>6

LEMMA NextDataWhole ==
  ASSUME IInv, P!HasData
  PROVE  Whole(DataPacket(sm.streamId, head + sm.sentNotAcked, P!NextData))
<1> DEFINE from == head + sm.sentNotAcked
           pk == DataPacket(sm.streamId, from, P!NextData)
<1>1. PICK to \in Nat : from \in Nat /\ from < to /\ to <= total /\ P!NextData = Bytes(from, to)
  BY NextDataIs DEF IInv
<1>2. total \in Nat /\ total <= MaxTotal
  BY Sizes DEF IInv, P!IInv, P!TypeOK
<1> HIDE DEF from
<1>3. P!NextData \in Seq(Nat) /\ Len(P!NextData) = to - from
  <2>1. from \in Int /\ to \in Int /\ from <= to
    BY <1>1
  <2>2. Len(Bytes(from, to)) = to - from
    BY <2>1, BytesIsSeq
  <2>3. Bytes(from, to) \in Seq(Nat)
    BY <1>1, BytesNat
  <2>4. QED
    BY <1>1, <2>2, <2>3
<1>4. /\ pk.id = sm.streamId /\ pk.seq = from /\ pk.data = P!NextData
      /\ pk \in Packets
  BY <1>1, <1>3, Facts DEF DataPacket, Packet, Packets
<1> HIDE DEF pk
<1>5. PacketEnd(pk) = to
  BY <1>1, <1>3, <1>4 DEF PacketEnd
<1>6. PacketEnd(pk) <= MaxTotal
  BY <1>1, <1>2, <1>5, Sizes
<1>7. pk.data = Bytes(pk.seq, PacketEnd(pk))
  BY <1>1, <1>4, <1>5
<1>8. Whole(pk)
  BY <1>4, <1>6, <1>7 DEF Whole
<1>9. QED
  BY <1>8 DEF pk, from

LEMMA SenderIs ==
  ASSUME IInv, SenderRuns
  PROVE  /\ sm'.streamId = sm.streamId /\ sm'.rwndSize = sm.rwndSize
         /\ sm'.terminalEvent = sm.terminalEvent
         /\ sm'.terminalEventAcked = sm.terminalEventAcked
         /\ lockHeld' = lockHeld
         /\ sender'.at = "sending" =>
              /\ Whole(sender'.pk) /\ sender'.pk.id = sm.streamId /\ sender'.pk.seq <= total
              /\ sender'.pk.eof \/ sender'.pk.error => EndReached
              /\ sender'.pk.data /= << >> => sm.rwndSize > 0
<1>1. sm \in P!SmFields /\ sender = [at |-> sender.at, pk |-> sender.pk] /\ sm.streamId \in Streams
  BY Facts
<1>2. SM!PrepareNextPacket
  BY DEF SenderRuns
<1>3. lockHeld' = lockHeld
  BY <1>2 DEF SM!PrepareNextPacket
<1>4. CASE sm' = sm /\ sender'.at /= "sending"
  BY <1>3, <1>4
<1>5. CASE SM!PrepareTerminalPacket
  <2>1. /\ sm' = [sm EXCEPT !.terminalEventSent = TRUE]
        /\ sender' = [at |-> "sending",
                      pk |-> SM!Packet(sm.streamId, sm.eofPos, << >>, sm.terminalEvent = "eof",
                                       sm.terminalEvent = "error")]
        /\ sm.terminalEvent /= "none" /\ total - head = 0
    BY <1>5 DEF SM!PrepareTerminalPacket, SM!HasTerminal, SM!Buf!Size
  <2>0. head = total
    BY <2>1 DEF IInv, P!IInv, P!TypeOK
  <2> DEFINE pk == Packet(sm.streamId, sm.eofPos, << >>, sm.terminalEvent = "eof",
                          sm.terminalEvent = "error")
  <2>2. sender' = [at |-> "sending", pk |-> pk]
    BY <2>1 DEF SM!Packet, Packet
  <2>3. sm.eofPos \in Nat /\ sm.eofPos = total /\ sm.eofPos <= MaxTotal
    BY <2>1, Sizes DEF IInv, P!IInv, P!Terminal, P!TypeOK
  <2>4. /\ pk.id = sm.streamId /\ pk.seq = sm.eofPos /\ pk.data = << >>
        /\ pk \in Packets
    BY <1>1, <2>3 DEF Packet, Packets
  <2>5. Whole(pk)
    <3> HIDE DEF pk
    <3>1. PacketEnd(pk) = sm.eofPos
      BY <2>3, <2>4 DEF PacketEnd
    <3>2. Bytes(sm.eofPos, sm.eofPos) = << >>
      BY <2>3, NoBytes
    <3>3. QED
      BY <2>3, <2>4, <3>1, <3>2 DEF Whole
  <2>6. QED
    <3> HIDE DEF pk
    <3>1. sender'.pk = pk
      BY <2>2
    <3>2. /\ sm'.streamId = sm.streamId /\ sm'.rwndSize = sm.rwndSize
          /\ sm'.terminalEvent = sm.terminalEvent
          /\ sm'.terminalEventAcked = sm.terminalEventAcked
      BY <1>1, <2>1 DEF P!SmFields
    <3>3. QED
      BY <1>3, <2>0, <2>1, <2>3, <2>4, <2>5, <3>1, <3>2 DEF EndReached
<1>6. CASE SM!PrepareData
  <2>1. /\ P!HasData
        /\ sender' = [at |-> "sending",
                      pk |-> SM!DataPacket(sm.streamId, head + sm.sentNotAcked, P!NextData)]
        /\ sm' = [sm EXCEPT !.sentNotAcked = @ + Len(P!NextData)]
    BY <1>6, SameData DEF SM!PrepareData
  <2> DEFINE pk == DataPacket(sm.streamId, head + sm.sentNotAcked, P!NextData)
  <2>2. sender' = [at |-> "sending", pk |-> pk]
    BY <2>1 DEF SM!DataPacket, SM!Packet, DataPacket, Packet
  <2>3. Whole(pk)
    BY <2>1, NextDataWhole
  <2>4. /\ pk.id = sm.streamId /\ ~pk.eof /\ ~pk.error
        /\ pk.seq <= total
    <3>1. PICK to \in Nat : head + sm.sentNotAcked \in Nat /\ head + sm.sentNotAcked < to /\ to <= total
      BY <2>1, NextDataIs DEF IInv
    <3>2. total \in Nat
      BY Sizes DEF IInv, P!IInv, P!TypeOK
    <3>3. QED
      BY <3>1, <3>2 DEF DataPacket, Packet
  <2>5. sm.rwndSize > 0
    <3>1. sm.rwndSize \in Nat /\ sm.sentNotAcked \in Nat
      BY <1>1 DEF P!SmFields
    <3>2. QED
      BY <2>1, <3>1, Sizes DEF P!HasData, P!AvailableToSend, P!EffectiveWindow, P!Buf!Smaller
  <2>6. QED
    <3> HIDE DEF pk
    <3>1. sender'.pk = pk
      BY <2>2
    <3>2. /\ sm'.streamId = sm.streamId /\ sm'.rwndSize = sm.rwndSize
          /\ sm'.terminalEvent = sm.terminalEvent
          /\ sm'.terminalEventAcked = sm.terminalEventAcked
      BY <1>1, <2>1 DEF P!SmFields
    <3>3. QED
      BY <1>3, <2>3, <2>4, <2>5, <3>1, <3>2
<1>7. QED
  BY <1>1, <1>2, <1>4, <1>5, <1>6 DEF SM!PrepareNextPacket, SM!WaitForDrain

LEMMA AckIs ==
  ASSUME IInv, NEW ack \in ackNet, RecvAck(ack)
  PROVE  /\ sm'.streamId = sm.streamId /\ sm'.terminalEvent = sm.terminalEvent
         /\ sm'.rwndSize = sm.rwndSize \/ sm.streamId \in attached
         /\ sm'.terminalEventAcked = sm.terminalEventAcked \/ ack.fin
         /\ sender'.at = "sending" <=> sender.at = "sending"
         /\ sender'.pk = sender.pk
         /\ lockHeld'.by \in P!Connecting => lockHeld' = lockHeld
<1>1. sm \in P!SmFields /\ sender = [at |-> sender.at, pk |-> sender.pk]
  BY Facts
<1>2. CASE ack.id \notin attached
  BY <1>2 DEF RecvAck, smVars
<1>3. CASE ack.id \in attached
  <2>1. SM!RecvAck(ack)
    BY <1>3 DEF RecvAck
  <2>2. CASE SM!RecvFin(ack)
    BY <1>1, <2>2 DEF SM!RecvFin, SM!SignalDrain, P!SmFields
  <2>3. CASE SM!RecvAckOutside(ack)
    BY <1>1, <2>3 DEF SM!RecvAckOutside, P!SmFields
  <2>4. CASE SM!RecvAckConsume(ack)
    <3>1. sm.streamId \in attached /\ lockHeld'.by = "RecvAck" /\ sender' = sender
      BY <1>3, <2>4 DEF SM!RecvAckConsume, SM!IgnoresAck
    <3>2. sm' = [sm EXCEPT !.maxAckedSeq = ack.seq, !.maxAckedRwnd = ack.rwnd,
                           !.sentNotAcked = @ - SM!AckedBytes(ack), !.rwndSize = ack.rwnd]
      BY <2>4 DEF SM!RecvAckConsume
    <3>3. QED
      BY <1>1, <3>1, <3>2 DEF P!SmFields, P!Connecting
  <2>5. CASE SM!RecvAckIgnored(ack)
    BY <2>5 DEF SM!RecvAckIgnored, SM!vars
  <2>6. QED
    BY <2>1, <2>2, <2>3, <2>4, <2>5 DEF SM!RecvAck
<1>4. QED
  BY <1>2, <1>3

LEMMA DisconnectIs ==
  ASSUME IInv, DisconnectOld
  PROVE  Quiet
<1>1. sm \in P!SmFields /\ sender = [at |-> sender.at, pk |-> sender.pk]
  BY Facts
<1>2. CASE jm.client = 0
  BY <1>2 DEF DisconnectOld, smVars, Quiet
<1>3. CASE jm.client /= 0
  BY <1>1, <1>3 DEF DisconnectOld, SM!ClientDisconnected, SM!SignalDrain, Quiet, P!SmFields
<1>4. QED
  BY <1>2, <1>3

LEMMA ConnectNewIs ==
  ASSUME ConnectNew
  PROVE  sm' = sm /\ sender' = sender /\ lockHeld'.id = jm.id /\ lockHeld'.rwnd = 0
  BY DEF ConnectNew, SM!ConnectReadHead

LEMMA ConnectConsumeIs ==
  ASSUME IInv, ConnectConsume
  PROVE  /\ sm' = sm /\ sender' = sender
         /\ lockHeld.by \in P!Connecting /\ lockHeld'.id = lockHeld.id /\ lockHeld'.rwnd = lockHeld.rwnd
<1>1. lockHeld \in P!LockStates
  BY DEF IInv, P!IInv, P!Shapes
<1>2. /\ lockHeld.by \in {"ConnectConsume", "ConnectReread"} /\ sm' = sm /\ sender' = sender
      /\ \/ lockHeld' = [lockHeld EXCEPT !.by = "ConnectReread"]
         \/ lockHeld' = [lockHeld EXCEPT !.by = "ConnectEnter", !.headPos = head]
  BY DEF ConnectConsume, SM!ConnectConsume, SM!ConnectReread
<1>3. lockHeld \in [by : P!Connecting, id : P!StreamIds, rwnd : 0 .. ReadWindow, clientSeq : Nat,
                    headPos : Nat]
  BY <1>1, <1>2 DEF P!LockStates, P!Free
<1>4. QED
  BY <1>2, <1>3

LEMMA ConnectFailsIs ==
  ASSUME ConnectFails
  PROVE  sm' = sm /\ sender' = sender /\ lockHeld' = P!Free
  BY DEF ConnectFails, SM!ConnectRefused, smVars, SM!Free, P!Free

LEMMA ConnectedIs ==
  ASSUME IInv, Connected
  PROVE  /\ sm'.streamId = lockHeld.id /\ sm'.rwndSize = lockHeld.rwnd
         /\ lockHeld.by \in P!Connecting /\ lockHeld' = P!Free
         /\ sm'.terminalEvent = sm.terminalEvent
         /\ sm'.terminalEventAcked = sm.terminalEventAcked
         /\ sender'.at = "sending" <=> sender.at = "sending"
         /\ sender'.pk = sender.pk
<1>1. sm \in P!SmFields /\ sender = [at |-> sender.at, pk |-> sender.pk]
  BY Facts
<1>2. QED
  BY <1>1 DEF Connected, SM!ConnectEnter, SM!SignalDrain, SM!Free, P!Free, P!Connecting, P!SmFields

LEMMA HandleStartIs ==
  ASSUME IInv, HandleStart
  PROVE  /\ sm'.streamId = sm.streamId /\ sm'.terminalEvent = sm.terminalEvent
         /\ sm'.terminalEventAcked = sm.terminalEventAcked
         /\ sender'.at = "sending" <=> sender.at = "sending"
         /\ sender'.pk = sender.pk
         /\ lockHeld' = lockHeld
<1>1. sm \in P!SmFields /\ sender = [at |-> sender.at, pk |-> sender.pk]
  BY Facts
<1>2. QED
  BY <1>1 DEF HandleStart, SM!SetRwndSize, SM!SignalDrain, P!SmFields

LEMMA SendPacketIs ==
  ASSUME SendPacket
  PROVE  /\ sm' = sm /\ lockHeld' = lockHeld
         /\ sender.at = "sending" /\ sender'.at = "running"
         /\ dataNet' \subseteq dataNet \cup {sender.pk}
  BY DEF SendPacket, SM!SendPacket

-----------------------------------------------------------------------------
(* The connections take their turns.                                        *)

\* What a step that is no part of the connect protocol leaves alone.
LEMMA TurnsFrame ==
  ASSUME IInv, sm'.streamId = sm.streamId, jm' = jm, attached' \subseteq attached,
         conn' = conn, up' = up,
         lockHeld'.by \in P!Connecting => lockHeld.by = lockHeld'.by /\ lockHeld' = lockHeld
  PROVE  Turns'
  BY DEF IInv, Turns

LEMMA TurnsStep == IInv /\ [Next]_vars => Turns'
<1> SUFFICES ASSUME IInv, [Next]_vars PROVE Turns'
  OBVIOUS
<1> USE Facts
<1>1. CASE ApplicationRuns \/ ReadLoopRuns \/ RecvAckEnds
  <2>1. jm' = jm /\ attached' = attached /\ conn' = conn /\ up' = up
    BY <1>1 DEF ApplicationRuns, ReadLoopRuns, RecvAckEnds, elsewhere, jmVars, netVars
  <2>2. QED
    BY <1>1, <2>1, QuietSteps, TurnsFrame DEF Quiet
<1>2. CASE SenderRuns
  <2>1. jm' = jm /\ attached' = attached /\ conn' = conn /\ up' = up
    BY <1>2 DEF SenderRuns, elsewhere, jmVars, netVars
  <2>2. QED
    BY <1>2, <2>1, SenderIs, TurnsFrame
<1>3. CASE SendPacket
  <2>1. jm' = jm /\ attached' = attached /\ conn' = conn /\ up' = up
    BY <1>3 DEF SendPacket, jmVars
  <2>2. QED
    BY <1>3, <2>1, SendPacketIs, TurnsFrame
<1>4. CASE \E ack \in ackNet : RecvAck(ack)
  <2>1. PICK ack \in ackNet : RecvAck(ack)
    BY <1>4
  <2>2. jm' = jm /\ attached' \subseteq attached /\ conn' = conn /\ up' = up
    BY <2>1 DEF RecvAck
  <2>3. QED
    BY <2>1, <2>2, AckIs, TurnsFrame
<1>5. CASE HandlePrepare
  <2>1. /\ UNCHANGED <<sm, attached, conn, up, lockHeld>> /\ rpc.at = "prepare" /\ jm.step = "idle"
        /\ lockHeld = SM!Free
        /\ jm' = jm \/ jm' = [jm EXCEPT !.step = "disconnect", !.id = conn, !.seq = rpc.seq]
    BY <1>5 DEF HandlePrepare, smVars, netVars
  <2>2. CASE jm' = jm
    BY <2>1, <2>2, TurnsFrame
  <2>3. CASE jm' = [jm EXCEPT !.step = "disconnect", !.id = conn, !.seq = rpc.seq]
    <3>1. jm'.pending = jm.pending /\ jm'.id = conn /\ jm'.step = "disconnect"
      BY <2>3 DEF JmTypes
    <3>2. \A x \in {sm.streamId, jm.pending} \cup attached : x \in 0 .. conn - 1
      BY <2>1 DEF IInv, Turns, Asked
    <3>3. QED
      BY <2>1, <3>1, <3>2 DEF IInv, Turns, SM!Free, P!Connecting
  <2>4. QED
    BY <2>1, <2>2, <2>3
<1>6. CASE DisconnectOld
  <2>1. conn' = conn /\ up' = up /\ attached' = attached
        /\ jm' = [jm EXCEPT !.step = "connect", !.client = 0] /\ jm.step = "disconnect"
    BY <1>6 DEF DisconnectOld, netVars
  <2>2. jm'.pending = jm.pending /\ jm'.id = jm.id /\ jm'.step = "connect"
    BY <2>1 DEF JmTypes
  <2>3. QED
    BY <1>6, <2>1, <2>2, DisconnectIs DEF Quiet, IInv, Turns
<1>7. CASE ConnectNew
  <2>1. conn' = conn /\ up' = up /\ attached' = attached
        /\ jm' = [jm EXCEPT !.step = "connecting"] /\ jm.step = "connect"
    BY <1>7 DEF ConnectNew, netVars
  <2>2. jm'.pending = jm.pending /\ jm'.id = jm.id /\ jm'.step = "connecting"
    BY <2>1 DEF JmTypes
  <2>3. QED
    BY <1>7, <2>1, <2>2, ConnectNewIs DEF IInv, Turns
<1>8. CASE ConnectConsume
  <2>1. conn' = conn /\ up' = up /\ attached' = attached /\ jm' = jm
    BY <1>8 DEF ConnectConsume, jmVars, netVars
  <2>2. QED
    BY <1>8, <2>1, ConnectConsumeIs DEF IInv, Turns
<1>9. CASE ConnectFails
  <2>1. conn' = conn /\ up' = up /\ attached' = attached /\ jm' = [jm EXCEPT !.step = "idle"]
    BY <1>9 DEF ConnectFails, netVars
  <2>2. jm'.pending = jm.pending /\ jm'.id = jm.id /\ jm'.step = "idle"
    BY <2>1 DEF JmTypes
  <2>3. \A x \in {sm.streamId, jm.pending} \cup attached : x \in 0 .. jm.id
    BY DEF IInv, Turns
  <2>4. QED
    BY <1>9, <2>1, <2>2, <2>3, ConnectFailsIs DEF IInv, Turns, P!Free, P!Connecting
<1>10. CASE Connected
  <2>1. conn' = conn /\ up' = up /\ attached' = attached
        /\ jm' = [jm EXCEPT !.step = "idle", !.client = jm.id, !.pending = jm.id]
    BY <1>10 DEF Connected, netVars
  <2>2. jm'.pending = jm.id /\ jm'.id = jm.id /\ jm'.step = "idle"
    BY <2>1 DEF JmTypes
  <2>3. \A x \in attached : x \in 0 .. jm.id
    BY DEF IInv, Turns
  <2>4. sm'.streamId = jm.id /\ lockHeld' = P!Free
    BY <1>10, ConnectedIs DEF IInv, Turns
  <2>5. 1 <= jm.id
    BY DEF Streams
  <2>6. QED
    BY <2>1, <2>2, <2>3, <2>4, <2>5 DEF IInv, Turns, P!Free, P!Connecting
<1>11. CASE HandleStart
  <2>1. conn' = conn /\ up' = up /\ attached' = attached \cup {jm.pending}
        /\ jm' = [jm EXCEPT !.pending = 0]
    BY <1>11 DEF HandleStart, netVars
  <2>2. jm'.pending = 0 /\ jm'.id = jm.id /\ jm'.step = jm.step
    BY <2>1 DEF JmTypes
  <2>3. QED
    BY <1>11, <2>1, <2>2, HandleStartIs DEF IInv, Turns
<1>12. CASE \E pk \in dataNet : RecvPacket(pk)
  <2>1. UNCHANGED <<sm, jm, attached, conn, up, lockHeld>>
    BY <1>12 DEF RecvPacket, smVars, jmVars
  <2>2. QED
    BY <2>1, TurnsFrame
<1>13. CASE \E id \in Streams : Loop(id)
  <2>1. UNCHANGED <<sm, jm, attached, conn, up, lockHeld>>
    BY <1>13 DEF Loop, LoopTakes, LoopAppends, LoopSuperseded, LoopEnds, smVars, jmVars, netVars
  <2>2. QED
    BY <2>1, TurnsFrame
<1>14. CASE Reconnect
  <2>1. UNCHANGED <<sm, jm, attached, lockHeld>> /\ up' = TRUE /\ conn' = conn + 1
    BY <1>14 DEF Reconnect, smVars, jmVars
  <2>2. QED
    BY <2>1 DEF IInv, Turns
<1>15. CASE RestartStreaming
  <2>1. UNCHANGED <<sm, jm, attached, conn, up, lockHeld>>
    BY <1>15 DEF RestartStreaming, StatFile, CreateReader, RestartStops, RestartContinues, RestartDone,
                 smVars, jmVars, netVars
  <2>2. QED
    BY <2>1, TurnsFrame
<1>16. CASE Drop \/ Crash
  <2>1. UNCHANGED <<sm, jm, attached, conn, lockHeld>> /\ up' = FALSE /\ conn < MaxStreams
    BY <1>16 DEF Drop, Crash, smVars, jmVars
  <2>2. QED
    BY <2>1 DEF IInv, Turns
<1>17. CASE FlushCache \/ UNCHANGED vars
  <2>1. UNCHANGED <<sm, jm, attached, conn, up, lockHeld>>
    BY <1>17 DEF FlushCache, vars, smVars, jmVars, netVars
  <2>2. QED
    BY <2>1, TurnsFrame
<1>18. QED
  BY <1>1, <1>2, <1>3, <1>4, <1>5, <1>6, <1>7, <1>8, <1>9, <1>10, <1>11, <1>12, <1>13, <1>14, <1>15,
     <1>16, <1>17 DEF Next, HandleConnect

-----------------------------------------------------------------------------
(* What the main server asks for.                                          *)

LEMMA AskedStep == IInv /\ [Next]_vars => Asked'
<1> SUFFICES ASSUME IInv, [Next]_vars PROVE Asked'
  OBVIOUS
<1>0. Asked /\ jm \in JmTypes /\ restart = [at |-> restart.at, seq |-> restart.seq]
      /\ rpc = [at |-> rpc.at, seq |-> rpc.seq] /\ jm.id \in Nat /\ conn \in Nat /\ jm.id <= conn
  BY Facts DEF IInv, Turns
<1>1. CASE UNCHANGED <<restart, rpc, jm, conn>>
  BY <1>0, <1>1 DEF Asked
<1>2. CASE HandlePrepare
  <2>1. /\ restart' = restart /\ conn' = conn /\ rpc.at = "prepare" /\ jm.step = "idle"
        /\ \/ rpc' = [rpc EXCEPT !.at = "streamDone"] /\ jm' = jm
           \/ rpc' = rpc /\ jm' = [jm EXCEPT !.step = "disconnect", !.id = conn, !.seq = rpc.seq]
    BY <1>2 DEF HandlePrepare, netVars
  <2>2. restart.at = "prepare"
    BY <1>0, <2>1, Facts DEF Asked, IInv, TypeOK, LinkTypes
  <2>3. rpc'.at = "streamDone" \/ (rpc'.at = "prepare" /\ jm'.step = "disconnect")
    BY <1>0, <2>1 DEF JmTypes
  <2>4. QED
    BY <1>0, <2>1, <2>2, <2>3 DEF Asked
<1>3. CASE DisconnectOld
  <2>1. /\ restart' = restart /\ conn' = conn /\ rpc' = rpc
        /\ jm' = [jm EXCEPT !.step = "connect", !.client = 0]
    BY <1>3 DEF DisconnectOld, netVars
  <2>2. jm'.id = jm.id /\ jm'.step = "connect"
    BY <1>0, <2>1 DEF JmTypes
  <2>3. QED
    BY <1>0, <2>1, <2>2 DEF Asked
<1>4. CASE ConnectNew
  <2>1. /\ restart' = restart /\ conn' = conn /\ rpc' = rpc /\ jm' = [jm EXCEPT !.step = "connecting"]
    BY <1>4 DEF ConnectNew, netVars
  <2>2. jm'.id = jm.id /\ jm'.step = "connecting"
    BY <1>0, <2>1 DEF JmTypes
  <2>3. QED
    BY <1>0, <2>1, <2>2 DEF Asked
<1>5. CASE ConnectFails \/ Connected
  <2>1. /\ restart' = restart /\ conn' = conn
        /\ jm'.id = jm.id
        /\ \E at \in {"refused", "prepared"}, seq \in {0, SM!StartSeq} : Answer(at, seq)
    BY <1>0, <1>5 DEF ConnectFails, Connected, netVars, JmTypes
  <2>2. CASE rpc.at = "prepare" /\ jm.id = conn
    <3>1. restart.at = "prepare"
      BY <1>0, <2>2 DEF Asked, IInv, TypeOK, LinkTypes
    <3>2. rpc'.at \in {"refused", "prepared"}
      BY <2>1, <2>2 DEF Answer
    <3>3. QED
      BY <1>0, <2>1, <3>1, <3>2 DEF Asked
  <2>3. CASE ~(rpc.at = "prepare" /\ jm.id = conn)
    <3>1. rpc' = rpc
      BY <2>1, <2>3 DEF Answer
    <3>2. QED
      BY <1>0, <2>1, <2>3, <3>1 DEF Asked
  <2>4. QED
    BY <2>2, <2>3
<1>6. CASE HandleStart
  <2>1. /\ restart' = restart /\ conn' = conn /\ rpc' = [rpc EXCEPT !.at = "started"] /\ rpc.at = "start"
        /\ jm' = [jm EXCEPT !.pending = 0]
    BY <1>6 DEF HandleStart, netVars
  <2>2. jm'.id = jm.id /\ rpc'.at = "started"
    BY <1>0, <2>1 DEF JmTypes
  <2>3. QED
    BY <1>0, <2>1, <2>2 DEF Asked
<1>7. CASE Reconnect
  <2>1. /\ restart' = [Idle EXCEPT !.at = "stat"] /\ conn' = conn + 1 /\ rpc' = rpc /\ jm' = jm /\ restart = Idle
    BY <1>7 DEF Reconnect, jmVars
  <2>2. QED
    BY <1>0, <2>1 DEF Asked, Idle
<1>8. CASE RestartStreaming
  <2>1. conn' = conn /\ jm' = jm
    BY <1>8 DEF RestartStreaming, StatFile, CreateReader, RestartStops, RestartContinues, RestartDone,
                jmVars, netVars
  <2>2. QED
    BY <1>0, <1>8, <2>1 DEF RestartStreaming, StatFile, CreateReader, RestartStops, RestartContinues,
                            RestartDone, Asked, Idle, NoRpc
<1>9. CASE Drop
  <2>1. /\ restart' = restart /\ jm' = jm /\ conn' = conn
        /\ rpc' = IF restart.at \in {"prepare", "start"} THEN [at |-> "failed", seq |-> 0] ELSE rpc
    BY <1>9 DEF Drop, jmVars
  <2>2. QED
    BY <1>0, <2>1 DEF Asked
<1>10. CASE Crash
  <2>1. restart' = Idle /\ rpc' = NoRpc
    BY <1>10 DEF Crash
  <2>2. QED
    BY <2>1 DEF Asked, Idle, NoRpc
<1>11. CASE \/ ApplicationRuns \/ ReadLoopRuns \/ RecvAckEnds \/ SenderRuns \/ SendPacket
            \/ \E ack \in ackNet : RecvAck(ack)
            \/ ConnectConsume
            \/ \E pk \in dataNet : RecvPacket(pk)
            \/ \E id \in Streams : Loop(id)
            \/ FlushCache
  <2>1. UNCHANGED <<restart, rpc, jm, conn>>
    BY <1>11 DEF ApplicationRuns, ReadLoopRuns, RecvAckEnds, SenderRuns, SendPacket, RecvAck, ConnectConsume,
      RecvPacket, Loop, LoopTakes, LoopAppends, LoopSuperseded, LoopEnds, FlushCache, elsewhere, jmVars, netVars
  <2>2. QED
    BY <1>1, <2>1
<1>12. QED
  BY <1>1, <1>2, <1>3, <1>4, <1>5, <1>6, <1>7, <1>8, <1>9, <1>10, <1>11 DEF Next, HandleConnect, vars, jmVars, netVars

-----------------------------------------------------------------------------
(* The cork.                                                               *)

\* Only the sender's goroutine makes packets.
LEMMA SentFrame ==
  ASSUME sender'.at = "sending" => sender.at = "sending", sender'.pk = sender.pk,
         dataNet' \subseteq dataNet
  PROVE  Sent' \subseteq Sent
  BY DEF Sent

LEMMA SentStep == IInv /\ [Next]_vars => Sent' \subseteq Sent \/ SenderRuns
<1> SUFFICES ASSUME IInv, [Next]_vars, ~SenderRuns PROVE Sent' \subseteq Sent
  OBVIOUS
<1>1. CASE ApplicationRuns \/ ReadLoopRuns \/ RecvAckEnds
  <2>1. dataNet' = dataNet
    BY <1>1 DEF ApplicationRuns, ReadLoopRuns, RecvAckEnds, elsewhere, netVars
  <2>2. QED
    BY <1>1, <2>1, QuietSteps, SentFrame DEF Quiet
<1>2. CASE SendPacket
  BY <1>2, SendPacketIs DEF Sent
<1>3. CASE \E ack \in ackNet : RecvAck(ack)
  <2>1. PICK ack \in ackNet : RecvAck(ack)
    BY <1>3
  <2>2. dataNet' = dataNet
    BY <2>1 DEF RecvAck
  <2>3. QED
    BY <2>1, <2>2, AckIs, SentFrame
<1>4. CASE DisconnectOld
  <2>1. dataNet' = dataNet
    BY <1>4 DEF DisconnectOld, netVars
  <2>2. QED
    BY <1>4, <2>1, DisconnectIs, SentFrame DEF Quiet
<1>5. CASE Connected \/ HandleStart
  <2>1. dataNet' = dataNet
    BY <1>5 DEF Connected, HandleStart, netVars
  <2>2. QED
    BY <1>5, <2>1, ConnectedIs, HandleStartIs, SentFrame
<1>6. CASE ConnectNew \/ ConnectConsume \/ ConnectFails
  <2>1. dataNet' = dataNet
    BY <1>6 DEF ConnectNew, ConnectConsume, ConnectFails, netVars
  <2>2. sender' = sender
    BY <1>6, ConnectNewIs, ConnectConsumeIs, ConnectFailsIs
  <2>3. QED
    BY <2>1, <2>2, SentFrame
<1>7. CASE \/ HandlePrepare \/ (\E id \in Streams : Loop(id)) \/ RestartStreaming \/ FlushCache \/ UNCHANGED vars
  <2>1. dataNet' = dataNet /\ sender' = sender
    BY <1>7 DEF HandlePrepare, Loop, LoopTakes, LoopAppends, LoopSuperseded, LoopEnds, RestartStreaming, StatFile,
      CreateReader, RestartStops, RestartContinues, RestartDone, FlushCache, vars, smVars, netVars
  <2>2. QED
    BY <2>1, SentFrame
<1>8. CASE \/ (\E pk \in dataNet : RecvPacket(pk)) \/ Reconnect \/ Drop \/ Crash
  <2>1. dataNet' \subseteq dataNet /\ sender' = sender
    BY <1>8 DEF RecvPacket, Reconnect, Drop, Crash, smVars
  <2>2. QED
    BY <2>1, SentFrame
<1>9. QED
  BY <1>1, <1>2, <1>3, <1>4, <1>5, <1>6, <1>7, <1>8 DEF Next, HandleConnect

LEMMA CorkedFrame ==
  ASSUME IInv, sm'.streamId = sm.streamId, jm'.pending = jm.pending, attached' \subseteq attached,
         sm'.rwndSize = sm.rwndSize \/ sm.streamId \in attached,
         Sent' \subseteq Sent,
         restart'.at = "prepare" => restart.at = "prepare" /\ conn' = conn
  PROVE  Corked'
  BY DEF IInv, Corked

LEMMA CorkedStep == IInv /\ [Next]_vars => Corked'
<1> SUFFICES ASSUME IInv, [Next]_vars PROVE Corked'
  OBVIOUS
<1> USE Facts
<1>1. CASE SenderRuns
  <2>1. UNCHANGED <<dataNet, jm, attached, restart, conn>>
    BY <1>1 DEF SenderRuns, elsewhere, jmVars, netVars
  <2>2. sm'.streamId = sm.streamId /\ sm'.rwndSize = sm.rwndSize /\ Corked
    BY <1>1, SenderIs DEF IInv
  <2>3. ASSUME NEW pk \in Sent'
        PROVE  pk.id <= sm.streamId /\ (pk.data /= << >> => pk.id /= jm.pending)
    <3>1. CASE pk \in dataNet
      BY <2>2, <3>1 DEF Corked, Sent
    <3>2. CASE sender'.at = "sending" /\ pk = sender'.pk
      BY <1>1, <2>2, <3>2, SenderIs DEF Corked
    <3>3. QED
      BY <2>1, <2>3, <3>1, <3>2 DEF Sent
  <2>4. QED
    BY <2>1, <2>2, <2>3 DEF Corked
<1>2. CASE ~SenderRuns
  <2> Sent' \subseteq Sent
    BY <1>2, SentStep
  <2>1. CASE ApplicationRuns \/ ReadLoopRuns \/ RecvAckEnds
    <3>1. UNCHANGED <<jm, attached, restart, conn>>
      BY <2>1 DEF ApplicationRuns, ReadLoopRuns, RecvAckEnds, elsewhere, jmVars, netVars
    <3>2. QED
      BY <2>1, <3>1, QuietSteps, CorkedFrame DEF Quiet
  <2>2. CASE \E ack \in ackNet : RecvAck(ack)
    <3>1. PICK ack \in ackNet : RecvAck(ack)
      BY <2>2
    <3>2. jm' = jm /\ attached' \subseteq attached /\ UNCHANGED <<restart, conn>>
      BY <3>1 DEF RecvAck
    <3>3. QED
      BY <3>1, <3>2, AckIs, CorkedFrame
  <2>3. CASE SendPacket
    <3>1. UNCHANGED <<jm, attached, restart, conn>> /\ sm' = sm
      BY <2>3, SendPacketIs DEF SendPacket, jmVars
    <3>2. QED
      BY <3>1, CorkedFrame
  <2>4. CASE DisconnectOld
    <3>1. jm'.pending = jm.pending /\ UNCHANGED <<attached, restart, conn>>
      BY <2>4 DEF DisconnectOld, netVars, JmTypes
    <3>2. QED
      BY <2>4, <3>1, DisconnectIs, CorkedFrame DEF Quiet
  <2>5. CASE HandlePrepare \/ ConnectNew \/ ConnectConsume \/ ConnectFails
    <3>1. jm'.pending = jm.pending /\ UNCHANGED <<attached, restart, conn>>
      BY <2>5 DEF HandlePrepare, ConnectNew, ConnectConsume, ConnectFails, jmVars, netVars, JmTypes
    <3>2. sm' = sm
      BY <2>5, ConnectNewIs, ConnectConsumeIs, ConnectFailsIs DEF HandlePrepare, smVars
    <3>3. QED
      BY <3>1, <3>2, CorkedFrame
  <2>6. CASE Connected
    <3>1. UNCHANGED <<attached, restart, conn>> /\ jm'.pending = jm.id
      BY <2>6 DEF Connected, netVars, JmTypes
    <3>2. /\ lockHeld.by \in P!Connecting /\ jm.step = "connecting" /\ lockHeld.id = jm.id /\ lockHeld.rwnd = 0
          /\ sm'.streamId = jm.id /\ sm'.rwndSize = 0
      BY <2>6, ConnectedIs DEF IInv, Turns
    <3>3. sm.streamId < jm.id /\ jm.id \notin attached
      BY <3>2 DEF IInv, Turns
    <3>4. ASSUME NEW pk \in Sent
          PROVE  pk.id < jm.id
      <4>1. pk.id <= sm.streamId /\ pk.id \in Nat
        BY DEF IInv, Corked, Contents, Whole, Packets, Streams
      <4>2. QED
        BY <3>3, <4>1
    <3>5. \A pk \in Sent : pk.id <= jm.id /\ pk.id /= jm.id
      <4>1. \A pk \in Sent : pk.id \in Nat
        BY DEF IInv, Contents, Whole, Packets, Streams
      <4>2. QED
        BY <3>4, <4>1
    <3>6. QED
      BY <3>1, <3>2, <3>3, <3>5 DEF Corked
  <2>7. CASE HandleStart
    <3>1. /\ UNCHANGED <<restart, conn>> /\ jm'.pending = 0 /\ rpc.at = "start"
          /\ attached' = attached \cup {jm.pending} /\ jm.pending /= 0
      BY <2>7 DEF HandleStart, netVars, JmTypes
    <3>2. sm'.streamId = sm.streamId
      BY <2>7, HandleStartIs
    <3>3. restart.at /= "prepare"
      BY <3>1 DEF IInv, Asked
    <3>4. 0 \notin attached /\ sm.streamId /= 0
      BY DEF Streams
    <3>5. \A pk \in Sent : pk.id /= 0 /\ pk.id <= sm.streamId
      BY DEF IInv, Corked, Contents, Whole, Packets, Streams
    <3>6. QED
      BY <3>1, <3>2, <3>3, <3>4, <3>5 DEF Corked
  <2>8. CASE CreateReader
    <3>1. UNCHANGED <<sm, jm, attached, conn>> /\ restart.at = "create"
      BY <2>8 DEF CreateReader, smVars, jmVars, netVars
    <3>2. sm.streamId < conn
      BY <3>1 DEF IInv, Asked, Turns
    <3>3. QED
      BY <3>1, <3>2 DEF IInv, Corked
  <2>9. CASE \/ (\E pk \in dataNet : RecvPacket(pk)) \/ (\E id \in Streams : Loop(id)) \/ Drop \/ FlushCache
             \/ UNCHANGED vars
    <3>1. UNCHANGED <<sm, jm, attached, restart, conn>>
      BY <2>9 DEF RecvPacket, Loop, LoopTakes, LoopAppends, LoopSuperseded, LoopEnds, Drop, FlushCache, vars,
        smVars, jmVars, netVars
    <3>2. QED
      BY <3>1, CorkedFrame
  <2>10. CASE Reconnect \/ Crash \/ StatFile \/ RestartStops \/ RestartContinues \/ RestartDone
    <3>1. UNCHANGED <<sm, jm, attached>> /\ restart'.at /= "prepare"
      BY <2>10 DEF Reconnect, Crash, StatFile, RestartStops, RestartContinues, RestartDone, Idle, smVars, jmVars
    <3>2. QED
      BY <3>1, CorkedFrame
  <2>11. QED
    BY <1>2, <2>1, <2>2, <2>3, <2>4, <2>5, <2>6, <2>7, <2>8, <2>9, <2>10 DEF Next, HandleConnect, RestartStreaming
<1>3. QED
  BY <1>1, <1>2

-----------------------------------------------------------------------------
(* What the reader's methods leave.                                        *)

WholeHeld(rd) == \A pk \in rd.oooPackets : Whole(pk)

LEMMA WholeIs ==
  ASSUME NEW pk, Whole(pk)
  PROVE  /\ pk \in Packets /\ pk.seq \in Nat /\ pk.data \in Seq(Nat) /\ Len(pk.data) \in Nat
         /\ PacketEnd(pk) \in Nat /\ pk.seq <= PacketEnd(pk) /\ PacketEnd(pk) <= MaxTotal
         /\ pk.data = Bytes(pk.seq, PacketEnd(pk)) /\ pk.eof \in BOOLEAN /\ pk.error \in BOOLEAN
         /\ pk.id \in Streams
<1>1. /\ pk \in Packets /\ pk.seq \in Nat /\ pk.data \in Seq(Nat) /\ pk.eof \in BOOLEAN /\ pk.error \in BOOLEAN
      /\ pk.id \in Streams
  BY DEF Whole, Packets
<1>2. Len(pk.data) \in Nat
  BY <1>1
<1>3. QED
  BY <1>1, <1>2 DEF Whole, PacketEnd

\* The packets held reach up to some first byte that none of them covers.
LEMMA DrainEndIs ==
  ASSUME NEW rd \in Readers, WholeHeld(rd)
  PROVE  /\ DrainEnd(rd) \in Nat /\ rd.nextSeq <= DrainEnd(rd)
         /\ \A pos \in rd.nextSeq .. DrainEnd(rd) - 1 : IsHeld(rd, pos)
<1> DEFINE last == rd.nextSeq + MaxTotal
           Reached(e) == \A pos \in rd.nextSeq .. e - 1 : IsHeld(rd, pos)
           E == {e \in rd.nextSeq .. last : Reached(e)}
           Ends == {rd.nextSeq} \cup {PacketEnd(pk) : pk \in rd.oooPackets}
           Is(e) == e >= rd.nextSeq /\ ~IsHeld(rd, e) /\ Reached(e)
<1>1. rd.nextSeq \in Nat /\ last \in Nat /\ rd.nextSeq <= last /\ MaxTotal <= last
  BY Sizes DEF Readers
<1> HIDE DEF last
<1>2. E \subseteq Nat /\ \A e \in E : e <= last
  BY <1>1
<1>3. rd.nextSeq \in E
  BY <1>1
<1>4. PICK e \in E : \A x \in E : x <= e
  BY <1>1, <1>2, <1>3, GreatestNatural
<1>5. e \in Nat /\ rd.nextSeq <= e /\ e <= last /\ Reached(e)
  BY <1>1, <1>4
<1> HIDE DEF E
<1>6. ~IsHeld(rd, e)
  <2> SUFFICES ASSUME IsHeld(rd, e) PROVE FALSE
    OBVIOUS
  <2>1. PICK pk \in rd.oooPackets : e < PacketEnd(pk)
    BY DEF IsHeld, Covers
  <2>2. PacketEnd(pk) \in Nat /\ PacketEnd(pk) <= MaxTotal
    BY WholeIs DEF WholeHeld
  <2>3. e + 1 <= last
    BY <1>1, <1>5, <2>1, <2>2, Sizes
  <2>4. Reached(e + 1)
    BY <1>1, <1>5
  <2>5. e + 1 \in E
    BY <1>1, <1>5, <2>3, <2>4 DEF E
  <2>6. QED
    BY <1>4, <1>5, <2>5
<1>7. e \in Ends
  <2>1. CASE e = rd.nextSeq
    BY <2>1
  <2>2. CASE e # rd.nextSeq
    <3>1. e - 1 \in rd.nextSeq .. e - 1
      BY <1>1, <1>5, <2>2
    <3>2. PICK pk \in rd.oooPackets : Covers(pk, e - 1)
      BY <1>5, <3>1 DEF IsHeld
    <3>3. ~Covers(pk, e)
      BY <1>6 DEF IsHeld
    <3>4. pk.seq \in Nat /\ PacketEnd(pk) \in Nat
      BY WholeIs DEF WholeHeld
    <3>5. e = PacketEnd(pk)
      BY <1>5, <3>2, <3>3, <3>4 DEF Covers
    <3>6. QED
      BY <3>5
  <2>3. QED
    BY <2>1, <2>2
<1>8. \E x \in Ends : Is(x)
  BY <1>5, <1>6, <1>7
<1>9. DrainEnd(rd) = CHOOSE x \in Ends : Is(x)
  BY DEF DrainEnd
<1>10. DrainEnd(rd) \in Ends /\ Is(DrainEnd(rd))
  BY <1>8, <1>9
<1>11. \A x \in Ends : x \in Nat
  BY <1>1, WholeIs DEF WholeHeld
<1>12. QED
  BY <1>10, <1>11

LEMMA HeldByteIs ==
  ASSUME NEW rd, WholeHeld(rd), NEW pos \in Nat, IsHeld(rd, pos)
  PROVE  HeldByte(rd, pos) = pos
<1> DEFINE pk == CHOOSE pk \in rd.oooPackets : Covers(pk, pos)
<1>1. pk \in rd.oooPackets /\ Covers(pk, pos)
  BY DEF IsHeld
<1>2. HeldByte(rd, pos) = pk.data[pos - pk.seq + 1]
  BY DEF HeldByte
<1> HIDE DEF pk
<1>3. /\ pk.seq \in Nat /\ PacketEnd(pk) \in Nat /\ pk.data = Bytes(pk.seq, PacketEnd(pk))
      /\ pk.seq <= pos /\ pos < PacketEnd(pk)
  BY <1>1, WholeIs DEF WholeHeld, Covers
<1> DEFINE i == pos - pk.seq + 1
<1>4. i \in 1 .. PacketEnd(pk) - pk.seq /\ pk.seq <= PacketEnd(pk)
  BY <1>3
<1>5. pk.seq + i - 1 = pos
  BY <1>3
<1> HIDE DEF i
<1>6. Bytes(pk.seq, PacketEnd(pk))[i] = pk.seq + i - 1
  BY <1>4 DEF Bytes
<1>7. QED
  BY <1>2, <1>3, <1>5, <1>6 DEF i

LEMMA DrainIs ==
  ASSUME NEW rd \in Readers, WholeHeld(rd)
  PROVE  /\ Drain(rd) \in Readers
         /\ Drain(rd).nextSeq \in Nat /\ rd.nextSeq <= Drain(rd).nextSeq
         /\ Drain(rd).buffer = rd.buffer \o Bytes(rd.nextSeq, Drain(rd).nextSeq)
         /\ Drain(rd).eof => rd.eof \/ \E pk \in rd.oooPackets : pk.eof
         /\ Drain(rd).oooPackets \subseteq rd.oooPackets
         /\ Drain(rd).id = rd.id /\ Drain(rd).err = rd.err
         /\ (\A pk \in rd.oooPackets : pk.data = << >>) => Drain(rd).nextSeq = rd.nextSeq
<1> DEFINE end == DrainEnd(rd)
           bytes == [i \in 1 .. end - rd.nextSeq |-> HeldByte(rd, rd.nextSeq + i - 1)]
           eof == \E pk \in rd.oooPackets : pk.eof /\ pk.seq = end
           rest == {pk \in rd.oooPackets : pk.seq > end}
<1>1. /\ end \in Nat /\ rd.nextSeq <= end
      /\ \A pos \in rd.nextSeq .. end - 1 : IsHeld(rd, pos)
  BY DrainEndIs
<1>2. rd.nextSeq \in Nat /\ rd.buffer \in Seq(Nat) /\ rd.eof \in BOOLEAN
  BY DEF Readers
<1> HIDE DEF end
<1>3. bytes = Bytes(rd.nextSeq, end)
  <2>1. ASSUME NEW i \in 1 .. end - rd.nextSeq
        PROVE  HeldByte(rd, rd.nextSeq + i - 1) = rd.nextSeq + i - 1
    <3>1. rd.nextSeq + i - 1 \in rd.nextSeq .. end - 1 /\ rd.nextSeq + i - 1 \in Nat
      BY <1>1, <1>2
    <3>2. QED
      BY <1>1, <3>1, HeldByteIs
  <2>2. QED
    BY <2>1 DEF Bytes
<1>4. Drain(rd) = [rd EXCEPT !.buffer = @ \o bytes, !.nextSeq = end, !.eof = @ \/ eof, !.oooPackets = rest]
  BY DEF Drain, end
<1> HIDE DEF bytes
<1>5. rd.buffer \o bytes \in Seq(Nat)
  <2>1. bytes \in Seq(Nat)
    BY <1>1, <1>2, <1>3, BytesNat
  <2>2. QED
    BY <1>2, <2>1, ConcatProperties
<1>6. eof \in BOOLEAN
  OBVIOUS
<1>7. rest \subseteq rd.oooPackets
  OBVIOUS
<1> HIDE DEF eof, rest
<1>8. /\ Drain(rd).nextSeq = end
      /\ Drain(rd).buffer = rd.buffer \o bytes
      /\ Drain(rd).eof = (rd.eof \/ eof)
      /\ Drain(rd).oooPackets = rest
      /\ Drain(rd).err = rd.err /\ Drain(rd).id = rd.id
  BY <1>4 DEF Readers
<1>9. Drain(rd) \in Readers
  BY <1>1, <1>4, <1>5, <1>6, <1>7 DEF Readers
<1>10. ASSUME \A pk \in rd.oooPackets : pk.data = << >> PROVE end = rd.nextSeq
  <2> SUFFICES ASSUME end /= rd.nextSeq PROVE FALSE
    OBVIOUS
  <2>1. rd.nextSeq \in rd.nextSeq .. end - 1
    BY <1>1, <1>2
  <2>2. PICK pk \in rd.oooPackets : Covers(pk, rd.nextSeq)
    BY <1>1, <2>1 DEF IsHeld
  <2>3. PacketEnd(pk) = pk.seq /\ pk.seq \in Nat
    BY <1>10, WholeIs DEF WholeHeld, PacketEnd
  <2>4. QED
    BY <1>2, <2>2, <2>3 DEF Covers
<1>11. QED
  BY <1>1, <1>2, <1>3, <1>7, <1>8, <1>9, <1>10 DEF eof

LEMMA AckedIs ==
  ASSUME NEW rd \in Readers
  PROVE  /\ Acked(rd) \in Readers /\ Acked(rd).id = rd.id /\ Acked(rd).err = rd.err
         /\ Acked(rd).nextSeq = rd.nextSeq /\ Acked(rd).buffer = rd.buffer
         /\ Acked(rd).eof = rd.eof /\ Acked(rd).oooPackets = rd.oooPackets
<1>1. RWnd(rd) \in Nat
  BY ReaderAssumption DEF RWnd, Readers
<1>2. QED
  BY <1>1 DEF Acked, Readers

LEMMA FromIs ==
  ASSUME NEW rd, NEW from, Received(rd, from)
  PROVE  /\ from \in Nat /\ rd.nextSeq \in Nat /\ from <= rd.nextSeq
         /\ Len(rd.buffer) = rd.nextSeq - from /\ rd.nextSeq - Len(rd.buffer) = from
<1>1. rd.nextSeq \in Nat /\ from \in Nat /\ from <= rd.nextSeq /\ rd.buffer = Bytes(from, rd.nextSeq)
  BY DEF Received, Readers
<1>2. PICK next \in Nat : next = rd.nextSeq
  BY <1>1
<1>3. Len(Bytes(from, next)) = next - from
  BY <1>1, <1>2 DEF Bytes
<1>4. QED
  BY <1>1, <1>2, <1>3

LEMMA AckPacketIs ==
  ASSUME NEW rd \in Readers, NEW fin \in BOOLEAN, NEW cancel \in BOOLEAN
  PROVE  /\ AckPacket(rd, fin, cancel) \in Acks
         /\ AckPacket(rd, fin, cancel).fin = fin
         /\ AckPacket(rd, fin, cancel).seq = rd.nextSeq
<1>1. RWnd(rd) \in 0 .. ReadWindow
  BY ReaderAssumption DEF RWnd, Readers
<1>2. QED
  BY <1>1 DEF AckPacket, Acks, Readers

LEMMA RecvDataIs ==
  ASSUME NEW rd, NEW from, Received(rd, from), WholeHeld(rd), NEW pk, Whole(pk)
  PROVE  LET after == RecvData(rd, pk)
         IN  /\ Received(after, from) /\ rd.nextSeq <= after.nextSeq /\ after.id = rd.id
             /\ after.oooPackets \subseteq rd.oooPackets \cup {pk}
             /\ after.err /= "none" => rd.err /= "none" \/ pk.error
             /\ after.eof => rd.eof \/ pk.eof \/ \E q \in rd.oooPackets : q.eof
             /\ pk.data = << >> /\ (\A q \in rd.oooPackets : q.data = << >>) =>
                  after.nextSeq = rd.nextSeq
<1>1. /\ rd \in Readers /\ rd.nextSeq \in Nat /\ rd.buffer \in Seq(Nat) /\ rd.eof \in BOOLEAN
      /\ from \in Nat /\ from <= rd.nextSeq /\ rd.buffer = Bytes(from, rd.nextSeq)
  <2>1. rd \in Readers /\ rd.buffer = Bytes(from, rd.nextSeq)
    BY DEF Received
  <2>2. rd.buffer \in Seq(Nat) /\ rd.eof \in BOOLEAN
    BY <2>1 DEF Readers
  <2>3. QED
    BY <2>1, <2>2, FromIs
<1>2. /\ pk \in Packets /\ pk.seq \in Nat /\ pk.data \in Seq(Nat) /\ PacketEnd(pk) \in Nat
      /\ pk.seq <= PacketEnd(pk) /\ pk.data = Bytes(pk.seq, PacketEnd(pk))
      /\ pk.eof \in BOOLEAN
  BY WholeIs
<1>3. CASE RecvData(rd, pk) = rd
  BY <1>1, <1>3
<1>4. CASE ~Ignores(rd, pk) /\ pk.error
  <2> DEFINE new == [rd EXCEPT !.err = "stream"]
  <2>1. RecvData(rd, pk) = Acked(new)
    BY <1>4 DEF RecvData
  <2>2. /\ new \in Readers /\ new.nextSeq = rd.nextSeq /\ new.buffer = rd.buffer /\ new.id = rd.id
        /\ new.eof = rd.eof /\ new.oooPackets = rd.oooPackets
    BY <1>1 DEF Readers
  <2> HIDE DEF new
  <2>3. QED
    BY <1>1, <1>4, <2>1, <2>2, AckedIs DEF Received
<1>5. CASE ~Ignores(rd, pk) /\ ~pk.error /\ pk.seq > rd.nextSeq
  <2>1. RecvData(rd, pk) = AddOOO(rd, pk)
    <3>1. ~(pk.seq < rd.nextSeq) /\ ~(pk.seq = rd.nextSeq)
      BY <1>1, <1>2, <1>5
    <3>2. QED
      BY <1>5, <3>1 DEF RecvData
  <2>2. /\ AddOOO(rd, pk) \in Readers /\ AddOOO(rd, pk).nextSeq = rd.nextSeq
        /\ AddOOO(rd, pk).buffer = rd.buffer /\ AddOOO(rd, pk).id = rd.id /\ AddOOO(rd, pk).err = rd.err
        /\ AddOOO(rd, pk).eof = rd.eof /\ AddOOO(rd, pk).oooPackets \subseteq rd.oooPackets \cup {pk}
    BY <1>1, <1>2 DEF Readers, AddOOO
  <2>3. QED
    BY <1>1, <2>1, <2>2 DEF Received
<1>6. CASE ~Ignores(rd, pk) /\ ~pk.error /\ pk.seq = rd.nextSeq
  <2> DEFINE new == Accept(rd, pk)
             end == PacketEnd(pk)
  <2>1. RecvData(rd, pk) = Acked(Drain(new))
    BY <1>1, <1>6 DEF RecvData
  <2>2. end \in Nat /\ rd.nextSeq <= end /\ pk.data = Bytes(rd.nextSeq, end)
    BY <1>2, <1>6
  <2>3. pk.data = << >> => end = rd.nextSeq
    BY <1>2, <1>6 DEF PacketEnd
  <2> HIDE DEF end
  <2>4. /\ new \in Readers /\ new.nextSeq = end /\ new.buffer = rd.buffer \o pk.data /\ new.id = rd.id
        /\ new.eof = (rd.eof \/ pk.eof) /\ new.oooPackets = rd.oooPackets /\ new.err = rd.err
    <3>1. rd.buffer \o pk.data \in Seq(Nat)
      BY <1>1, <1>2, ConcatProperties
    <3>2. new = [rd EXCEPT !.buffer = rd.buffer \o pk.data, !.nextSeq = end, !.eof = rd.eof \/ pk.eof]
      BY DEF Accept, end
    <3>3. QED
      BY <1>1, <1>2, <2>2, <3>1, <3>2 DEF Readers
  <2>5. new.buffer = Bytes(from, end)
    <3>1. from \in Int /\ rd.nextSeq \in Int /\ end \in Int /\ from <= rd.nextSeq /\ rd.nextSeq <= end
      BY <1>1, <2>2
    <3>2. Bytes(from, rd.nextSeq) \o Bytes(rd.nextSeq, end) = Bytes(from, end)
      BY ONLY <3>1, BytesConcat, Zenon
    <3>3. QED
      BY <1>1, <2>2, <2>4, <3>2
  <2> HIDE DEF new
  <2>6. WholeHeld(new)
    BY <2>4 DEF WholeHeld
  <2>7. /\ Drain(new) \in Readers
        /\ Drain(new).nextSeq \in Nat /\ end <= Drain(new).nextSeq
        /\ Drain(new).buffer = new.buffer \o Bytes(end, Drain(new).nextSeq)
        /\ Drain(new).eof => new.eof \/ \E q \in new.oooPackets : q.eof
        /\ Drain(new).oooPackets \subseteq new.oooPackets
        /\ Drain(new).id = new.id /\ Drain(new).err = new.err
        /\ (\A q \in new.oooPackets : q.data = << >>) => Drain(new).nextSeq = end
    BY <2>4, <2>6, DrainIs
  <2>8. Drain(new).buffer = Bytes(from, Drain(new).nextSeq)
    <3>1. from \in Int /\ Drain(new).nextSeq \in Int /\ end \in Int /\ from <= end /\ end <= Drain(new).nextSeq
      BY <1>1, <2>2, <2>7
    <3>2. Bytes(from, end) \o Bytes(end, Drain(new).nextSeq) = Bytes(from, Drain(new).nextSeq)
      BY ONLY <3>1, BytesConcat, Zenon
    <3>3. QED
      BY <2>5, <2>7, <3>2
  <2>9. Received(Drain(new), from) /\ rd.nextSeq <= Drain(new).nextSeq
    BY <1>1, <2>2, <2>7, <2>8 DEF Received
  <2>10. QED
    BY <1>1, <2>1, <2>3, <2>4, <2>7, <2>9, AckedIs DEF Received
<1>7. \/ RecvData(rd, pk) = rd
      \/ ~Ignores(rd, pk) /\ (pk.error \/ pk.seq > rd.nextSeq \/ pk.seq = rd.nextSeq)
  <2>1. pk.seq < rd.nextSeq \/ pk.seq > rd.nextSeq \/ pk.seq = rd.nextSeq
    BY <1>1, <1>2
  <2>2. CASE Ignores(rd, pk)
    BY <2>2 DEF RecvData
  <2>3. CASE ~Ignores(rd, pk) /\ ~pk.error /\ pk.seq < rd.nextSeq
    BY <2>3, <1>1, <1>2 DEF RecvData
  <2>4. QED
    BY <2>1, <2>2, <2>3
<1>8. QED
  BY <1>3, <1>4, <1>5, <1>6, <1>7

LEMMA ReadIs ==
  ASSUME NEW rd, NEW from, Received(rd, from), NEW n \in Nat
  PROVE  \E k \in Nat :
           /\ from + k <= rd.nextSeq
           /\ rd.buffer /= << >> /\ n > 0 => k > 0
           /\ Taken(rd, n) = Bytes(from, from + k)
           /\ Received(AfterTaking(rd, n), from + k)
           /\ AfterTaking(rd, n).nextSeq = rd.nextSeq /\ AfterTaking(rd, n).id = rd.id
           /\ AfterTaking(rd, n).oooPackets = rd.oooPackets
           /\ AfterTaking(rd, n).eof = rd.eof /\ AfterTaking(rd, n).err = rd.err
<1>1. /\ rd \in Readers /\ rd.nextSeq \in Nat /\ rd.buffer \in Seq(Nat)
      /\ rd.buffer = Bytes(from, rd.nextSeq) /\ from \in Nat /\ from <= rd.nextSeq
  <2>1. rd \in Readers /\ rd.buffer = Bytes(from, rd.nextSeq)
    BY DEF Received
  <2>2. rd.buffer \in Seq(Nat)
    BY <2>1 DEF Readers
  <2>3. QED
    BY <2>1, <2>2, FromIs
<1> DEFINE end == rd.nextSeq
           len == end - from
           k == IF n <= len THEN n ELSE len
<1>2. len \in Nat /\ k \in Nat /\ k <= len /\ from + len = end /\ from + 0 = from /\ from + k \in Nat
      /\ from \in Int /\ end \in Int /\ 0 \in Nat /\ 0 <= k /\ len <= len /\ from + k <= end
      /\ from <= from + k /\ (n > 0 /\ len > 0 => k > 0)
  BY <1>1
<1>3. Len(rd.buffer) = len
  BY FromIs
<1> HIDE DEF end, len
<1>4. Taken(rd, n) = SubSeq(Bytes(from, end), 1, k)
  BY <1>1, <1>3 DEF Taken, end
<1> HIDE DEF k
<1>5. SubSeq(Bytes(from, end), 0 + 1, k) = Bytes(from + 0, from + k)
  BY ONLY <1>2, len = end - from, BytesSub, Zenon DEF len
<1>6. Taken(rd, n) = Bytes(from, from + k)
  BY <1>2, <1>4, <1>5
<1>7. Len(Bytes(from, from + k)) = k
  <2>1. PICK next \in Nat : next = from + k
    BY <1>2
  <2>2. Len(Bytes(from, next)) = next - from /\ next - from = k
    BY <1>2, <2>1 DEF Bytes
  <2>3. QED
    BY <2>1, <2>2
<1>8. SubSeq(Bytes(from, end), k + 1, len) = Bytes(from + k, from + len)
  BY ONLY <1>2, len = end - from, BytesSub, Zenon DEF len
<1>9. AfterTaking(rd, n) = [rd EXCEPT !.buffer = Bytes(from + k, end)]
  BY <1>1, <1>2, <1>3, <1>6, <1>7, <1>8 DEF AfterTaking, end
<1>10. Bytes(from + k, end) \in Seq(Nat)
  <2>1. end \in Nat
    BY <1>1 DEF end
  <2>2. QED
    BY <1>2, <2>1, BytesNat
<1>11. /\ AfterTaking(rd, n) \in Readers
       /\ AfterTaking(rd, n).buffer = Bytes(from + k, end)
       /\ AfterTaking(rd, n).nextSeq = end /\ AfterTaking(rd, n).eof = rd.eof
       /\ AfterTaking(rd, n).id = rd.id /\ AfterTaking(rd, n).err = rd.err
       /\ AfterTaking(rd, n).oooPackets = rd.oooPackets
  BY <1>1, <1>9, <1>10 DEF Readers, end
<1>12. Received(AfterTaking(rd, n), from + k)
  BY <1>1, <1>2, <1>11 DEF Received, end
<1>13. rd.buffer /= << >> => len > 0
  BY <1>1, <1>2, <1>3
<1>14. QED
  BY <1>2, <1>6, <1>11, <1>12, <1>13 DEF end

-----------------------------------------------------------------------------
(* Who uses a reader has one.                                              *)

LoopStates == [at : {"none", "reading", "appending"}, hand : Seq(Nat)]

LEMMA ServiceTypes ==
  ASSUME IInv
  PROVE  /\ readers \in [Streams -> Readers \cup {NoReader}]
         /\ loops \in [Streams -> LoopStates] /\ known \subseteq Streams
         /\ conn \in Streams
  BY DEF IInv, TypeOK, LoopTypes, LinkTypes, LoopStates

LEMMA ReaderIs ==
  ASSUME IInv, NEW id \in Streams, HasReader(id)
  PROVE  /\ readers[id] \in Readers /\ readers[id].id = id
         /\ Received(readers[id], From(id))
         /\ WholeHeld(readers[id])
         /\ loops[id].hand = Bytes(Start(id), From(id)) /\ 0 <= Start(id)
         /\ From(id) \in Nat /\ Start(id) \in Nat /\ Start(id) <= From(id) /\ From(id) <= readers[id].nextSeq
<1>1. Received(readers[id], From(id)) /\ loops[id].hand = Bytes(Start(id), From(id)) /\ 0 <= Start(id)
  BY DEF IInv, Runs
<1>2. readers[id] \in Readers
  BY <1>1 DEF Received
<1>3. From(id) \in Nat /\ From(id) <= readers[id].nextSeq
  BY <1>1, FromIs
<1>4. Len(loops[id].hand) \in Nat
  BY ServiceTypes DEF LoopStates
<1>5. Start(id) \in Nat /\ Start(id) <= From(id)
  BY <1>1, <1>3, <1>4 DEF Start
<1>6. QED
  BY <1>1, <1>2, <1>3, <1>5 DEF IInv, Contents, WholeHeld, Held

LEMMA RecvPacketIs ==
  ASSUME IInv, NEW pk \in dataNet, RecvPacket(pk)
  PROVE  /\ Whole(pk) /\ pk.id \in Streams /\ (pk.eof \/ pk.error => EndReached)
         /\ \/ readers' = readers /\ known' = known /\ ackNet' \subseteq ackNet \cup {CancelUnknown(pk)}
            \/ /\ pk.id \in known /\ HasReader(pk.id)
               /\ readers' = [readers EXCEPT ![pk.id] = RecvData(readers[pk.id], pk)]
               /\ readers'[pk.id] = RecvData(readers[pk.id], pk)
               /\ known' \subseteq known
               /\ ackNet' \subseteq ackNet \cup {DataAck(readers[pk.id], pk)}
<1>1. Whole(pk) /\ (pk.eof \/ pk.error => EndReached)
  BY DEF IInv, Contents, Sent
<1>2. pk.id \in Streams
  BY <1>1, WholeIs
<1>3. CASE RecvKnown(pk)
  <2>1. pk.id \in known /\ HasReader(pk.id)
    BY <1>3 DEF RecvKnown, IInv, Service
  <2>2. readers' = [readers EXCEPT ![pk.id] = RecvData(readers[pk.id], pk)]
    BY <1>3 DEF RecvKnown
  <2>3. known' \subseteq known /\ ackNet' \subseteq ackNet \cup {DataAck(readers[pk.id], pk)}
    BY <1>3 DEF RecvKnown
  <2>4. QED
    BY <1>1, <1>2, <2>1, <2>2, <2>3, ServiceTypes
<1>4. CASE RecvUnknown(pk)
  BY <1>1, <1>2, <1>4 DEF RecvUnknown
<1>5. QED
  BY <1>3, <1>4 DEF RecvPacket

\* The reader that is left when the loop has taken its bytes.
LEMMA TakesIs ==
  ASSUME IInv, NEW id \in Streams, LoopTakes(id)
  PROVE  /\ HasReader(id) /\ loops[id].at = "reading" /\ loops[id].hand = << >> /\ Start(id) = From(id)
         /\ readers' = [readers EXCEPT ![id] = Read(readers[id], MaxWrite)]
         /\ loops' = [loops EXCEPT ![id] = [at |-> "appending", hand |-> Taken(readers[id], MaxWrite)]]
         /\ \E k \in Nat :
              LET after == Read(readers[id], MaxWrite)
              IN  /\ k > 0 /\ From(id) + k <= readers[id].nextSeq
                  /\ Taken(readers[id], MaxWrite) = Bytes(From(id), From(id) + k)
                  /\ Received(after, From(id) + k)
                  /\ after.nextSeq = readers[id].nextSeq /\ after.id = readers[id].id
                  /\ after.oooPackets = readers[id].oooPackets
                  /\ after.eof = readers[id].eof /\ after.err = readers[id].err
<1>1. loops[id].at = "reading" /\ readers[id].buffer /= << >>
      /\ readers' = [readers EXCEPT ![id] = Read(readers[id], MaxWrite)]
      /\ loops' = [loops EXCEPT ![id] = [at |-> "appending", hand |-> Taken(readers[id], MaxWrite)]]
  BY DEF LoopTakes, ReadsBytes
<1>2. HasReader(id) /\ loops[id].hand = << >>
  BY <1>1 DEF IInv, Service
<1>3. Received(readers[id], From(id)) /\ From(id) \in Nat
  BY <1>2, ReaderIs
<1>4. MaxWrite \in Nat /\ MaxWrite > 0
  BY Sizes
<1>5. PICK k \in Nat :
        /\ From(id) + k <= readers[id].nextSeq
        /\ k > 0
        /\ Taken(readers[id], MaxWrite) = Bytes(From(id), From(id) + k)
        /\ Received(AfterTaking(readers[id], MaxWrite), From(id) + k)
        /\ AfterTaking(readers[id], MaxWrite).nextSeq = readers[id].nextSeq
        /\ AfterTaking(readers[id], MaxWrite).id = readers[id].id
        /\ AfterTaking(readers[id], MaxWrite).oooPackets = readers[id].oooPackets
        /\ AfterTaking(readers[id], MaxWrite).eof = readers[id].eof
        /\ AfterTaking(readers[id], MaxWrite).err = readers[id].err
  BY <1>1, <1>3, <1>4, ReadIs
<1> DEFINE taken == AfterTaking(readers[id], MaxWrite)
<1>6. Read(readers[id], MaxWrite) \in {taken, Acked(taken)}
  BY DEF Read
<1>7. taken \in Readers
  BY <1>5 DEF Received
<1> HIDE DEF taken
<1>8. /\ Acked(taken).nextSeq = taken.nextSeq /\ Acked(taken).id = taken.id /\ Acked(taken).buffer = taken.buffer
      /\ Acked(taken).oooPackets = taken.oooPackets /\ Acked(taken).eof = taken.eof
      /\ Acked(taken).err = taken.err /\ Acked(taken) \in Readers
  BY <1>7, AckedIs
<1>9. Received(taken, From(id) + k)
  BY <1>5 DEF taken
<1>10. Received(Acked(taken), From(id) + k)
  BY <1>8, <1>9 DEF Received
<1>11. Start(id) = From(id)
  BY <1>2, <1>3 DEF Start
<1>12. /\ Received(Read(readers[id], MaxWrite), From(id) + k)
       /\ Read(readers[id], MaxWrite).nextSeq = readers[id].nextSeq
       /\ Read(readers[id], MaxWrite).id = readers[id].id
       /\ Read(readers[id], MaxWrite).oooPackets = readers[id].oooPackets
       /\ Read(readers[id], MaxWrite).eof = readers[id].eof
       /\ Read(readers[id], MaxWrite).err = readers[id].err
  <2>1. CASE Read(readers[id], MaxWrite) = taken
    BY <1>5, <2>1 DEF taken
  <2>2. CASE Read(readers[id], MaxWrite) = Acked(taken)
    BY <1>5, <1>8, <1>10, <2>2 DEF taken
  <2>3. QED
    BY <1>6, <2>1, <2>2
<1>13. QED
  BY <1>1, <1>2, <1>5, <1>11, <1>12

LEMMA CancelFromIs ==
  ASSUME NEW rd \in Readers
  PROVE  /\ CancelFrom(Close(rd)) \in Acks /\ ~CancelFrom(Close(rd)).fin
         /\ CancelFrom(Close(rd)).seq = rd.nextSeq
<1> DEFINE closed == [rd EXCEPT !.closed = TRUE, !.err = IF @ = "none" THEN "closed" ELSE @]
<1>1. Close(rd) = Acked(closed)
  BY DEF Close, Readers
<1>2. closed.id \in Streams /\ closed.nextSeq = rd.nextSeq /\ closed.nextSeq \in Nat /\ closed.buffer \in Seq(Nat)
  BY DEF Readers
<1>3. Acked(closed).id = closed.id /\ Acked(closed).nextSeq = closed.nextSeq /\ Acked(closed).buffer = closed.buffer
  BY DEF Acked, Readers
<1> HIDE DEF closed
<1>4. RWnd(Acked(closed)) \in 0 .. ReadWindow
  BY <1>2, <1>3, ReaderAssumption DEF RWnd
<1>5. QED
  BY <1>1, <1>2, <1>3, <1>4 DEF CancelFrom, AckPacket, Acks

\* The loop that ends closes its reader.
LEMMA ClosesIs ==
  ASSUME IInv, NEW id \in Streams, LoopSuperseded(id) \/ LoopEnds(id)
  PROVE  /\ loops[id].at = "reading" /\ HasReader(id) /\ readers[id] \in Readers
         /\ readers' = [readers EXCEPT ![id] = NoReader]
         /\ loops' = [loops EXCEPT ![id] = NoLoop]
         /\ known' = known \ {id}
         /\ ackNet' \subseteq ackNet \cup ReadAcks(id) \cup {CancelFrom(Close(readers[id]))}
         /\ discarded' = discarded \cup Elements(readers[id].buffer)
<1>1. /\ loops[id].at = "reading"
      /\ readers' = [readers EXCEPT ![id] = NoReader]
      /\ loops' = [loops EXCEPT ![id] = NoLoop]
      /\ known' = known \ {id}
      /\ ackNet' \subseteq ackNet \cup ReadAcks(id) \cup {CancelFrom(Close(readers[id]))}
      /\ discarded' = discarded \cup Elements(readers[id].buffer)
  BY DEF LoopSuperseded, LoopEnds, CloseReader
<1>2. HasReader(id)
  BY <1>1 DEF IInv, Service
<1>3. QED
  BY <1>1, <1>2, ReaderIs

LEMMA ServiceFrame ==
  ASSUME IInv, known' \subseteq known, loops' = loops, conn' = conn, current' = current,
         restart'.at = restart.at,
         \A id \in Streams : HasReader(id) => HasReader(id)'
  PROVE  Service'
  BY ServiceTypes DEF IInv, Service

LEMMA ServiceStep == IInv /\ [Next]_vars => Service'
<1> SUFFICES ASSUME IInv, [Next]_vars PROVE Service'
  OBVIOUS
<1> USE ServiceTypes
<1>1. CASE UNCHANGED <<known, loops, readers, conn, restart, current>>
  BY <1>1, ServiceFrame DEF HasReader
<1>2. CASE \E pk \in dataNet : RecvPacket(pk)
  <2>1. PICK pk \in dataNet : RecvPacket(pk)
    BY <1>2
  <2>2. UNCHANGED <<loops, conn, restart, current>>
    BY <2>1 DEF RecvPacket
  <2>3. CASE readers' = readers /\ known' = known
    BY <2>2, <2>3, ServiceFrame DEF HasReader
  <2>4. CASE /\ pk.id \in Streams /\ HasReader(pk.id) /\ known' \subseteq known
             /\ readers' = [readers EXCEPT ![pk.id] = RecvData(readers[pk.id], pk)]
    <3>1. RecvData(readers[pk.id], pk) \in Readers
      BY <2>1, <2>4, RecvPacketIs, ReaderIs, RecvDataIs DEF Received
    <3>2. \A id \in Streams : HasReader(id) => HasReader(id)'
      BY <2>4, <3>1 DEF HasReader, Readers
    <3>3. QED
      BY <2>2, <2>4, <3>2, ServiceFrame
  <2>5. QED
    BY <2>1, <2>3, <2>4, RecvPacketIs
<1>3. CASE \E id \in Streams : LoopTakes(id)
  <2>1. PICK id \in Streams : LoopTakes(id)
    BY <1>3
  <2>2. UNCHANGED <<known, conn, restart, current>>
    BY <2>1 DEF LoopTakes
  <2>3. /\ HasReader(id) /\ loops[id].at = "reading"
        /\ readers' = [readers EXCEPT ![id] = Read(readers[id], MaxWrite)]
        /\ loops' = [loops EXCEPT ![id] = [at |-> "appending", hand |-> Taken(readers[id], MaxWrite)]]
        /\ Read(readers[id], MaxWrite) \in Readers
    BY <2>1, TakesIs DEF Received
  <2>4. \A x \in Streams : HasReader(x) => HasReader(x)'
    BY <2>3 DEF HasReader, Readers
  <2>5. \A x \in Streams : x /= id => loops'[x] = loops[x]
    BY <2>3
  <2>6. loops'[id].at = "appending"
    BY <2>3
  <2>7. ~(id > conn) /\ (restart.at /= "idle" => id /= conn)
    BY <2>3 DEF IInv, Service
  <2>8. QED
    BY <2>2, <2>3, <2>4, <2>5, <2>6, <2>7 DEF IInv, Service
<1>4. CASE \E id \in Streams : LoopAppends(id)
  <2>1. PICK id \in Streams : LoopAppends(id)
    BY <1>4
  <2>2. /\ UNCHANGED <<known, readers, conn, restart, current>> /\ loops[id].at = "appending"
        /\ loops' = [loops EXCEPT ![id] = [at |-> "reading", hand |-> << >>]]
    BY <2>1 DEF LoopAppends, netVars
  <2>3. \A x \in Streams : HasReader(x) => HasReader(x)'
    BY <2>2 DEF HasReader
  <2>4. \A x \in Streams : x /= id => loops'[x] = loops[x]
    BY <2>2
  <2>5. loops'[id] = [at |-> "reading", hand |-> << >>]
    BY <2>2
  <2>6. ~(id > conn) /\ (restart.at /= "idle" => id /= conn) /\ HasReader(id)
    BY <2>2 DEF IInv, Service
  <2>7. QED
    BY <2>2, <2>3, <2>4, <2>5, <2>6 DEF IInv, Service
<1>5. CASE \E id \in Streams : LoopSuperseded(id) \/ LoopEnds(id)
  <2>1. PICK id \in Streams : LoopSuperseded(id) \/ LoopEnds(id)
    BY <1>5
  <2>2. UNCHANGED <<conn, restart, current>>
    BY <2>1 DEF LoopSuperseded, LoopEnds
  <2>3. /\ loops[id].at = "reading"
        /\ readers' = [readers EXCEPT ![id] = NoReader]
        /\ loops' = [loops EXCEPT ![id] = NoLoop]
        /\ known' = known \ {id}
    BY <2>1, ClosesIs
  <2>4. \A x \in Streams : x /= id => (HasReader(x) => HasReader(x)') /\ loops'[x] = loops[x]
    BY <2>3 DEF HasReader
  <2>5. loops'[id] = NoLoop
    BY <2>3
  <2>6. restart.at /= "idle" => id /= conn
    BY <2>3 DEF IInv, Service
  <2>7. QED
    BY <2>2, <2>3, <2>4, <2>5, <2>6 DEF IInv, Service, NoLoop
<1>6. CASE Reconnect
  <2>1. /\ UNCHANGED <<known, readers, loops, current>> /\ conn' = conn + 1 /\ restart' = [Idle EXCEPT !.at = "stat"]
        /\ ~up
    BY <1>6 DEF Reconnect, loopVars
  <2>2. conn + 1 \in Streams /\ conn \in Nat
    BY <2>1, Sizes DEF IInv, Turns, Streams
  <2>3. \A x \in Streams : HasReader(x) => HasReader(x)'
    BY <2>1 DEF HasReader
  <2>4. loops[conn + 1].at = "none"
    BY <2>2 DEF IInv, Service
  <2>5. \A id \in Streams : id > conn + 1 => id > conn
    BY <2>2 DEF Streams
  <2>6. QED
    BY <2>1, <2>3, <2>4, <2>5 DEF IInv, Service, Idle
<1>7. CASE StatFile
  <2>1. UNCHANGED <<known, readers, loops, conn, current>> /\ restart.at = "stat" /\ restart'.at = "create"
    BY <1>7 DEF StatFile, loopVars, netVars
  <2>2. \A x \in Streams : HasReader(x) => HasReader(x)'
    BY <2>1 DEF HasReader
  <2>3. QED
    BY <2>1, <2>2 DEF IInv, Service
<1>8. CASE CreateReader
  <2>1. /\ UNCHANGED <<loops, conn>> /\ known' = known \cup {conn} /\ current' = conn /\ restart.at = "create"
        /\ readers' = [readers EXCEPT ![conn] = NewReaderWithSeq(conn, restart.seq)]
    BY <1>8 DEF CreateReader, netVars
  <2>2. \A x \in Streams : HasReader(x) => HasReader(x)'
    BY <2>1 DEF HasReader, NewReaderWithSeq
  <2>3. HasReader(conn)'
    BY <2>1 DEF HasReader, NewReaderWithSeq
  <2>4. QED
    BY <2>1, <2>2, <2>3 DEF IInv, Service
<1>9. CASE RestartStops
  <2>1. /\ UNCHANGED <<loops, conn, current>> /\ known' = known \ {conn} /\ restart.at /= "idle" /\ restart' = Idle
        /\ readers' = [readers EXCEPT ![conn] = NoReader]
    BY <1>9 DEF RestartStops, CloseReader
  <2>2. \A x \in Streams : x /= conn => (HasReader(x) => HasReader(x)')
    BY <2>1 DEF HasReader
  <2>3. QED
    BY <2>1, <2>2 DEF IInv, Service, Idle
<1>10. CASE RestartContinues
  <2>1. /\ UNCHANGED <<known, loops, conn, current>> /\ restart.at = "prepare" /\ restart'.at \in {"start", "prepare"}
        /\ readers' \in {readers, [readers EXCEPT ![conn] = UpdateNextSeq(@, rpc.seq)]}
    BY <1>10, Facts DEF RestartContinues, netVars
  <2>2. HasReader(conn) /\ readers[conn] \in Readers
    BY <2>1, ReaderIs DEF IInv, Service
  <2>3. \A x \in Streams : HasReader(x) => HasReader(x)'
    BY <2>1, <2>2 DEF HasReader, UpdateNextSeq, Readers
  <2>4. QED
    BY <2>1, <2>2, <2>3 DEF IInv, Service
<1>11. CASE RestartDone
  <2>1. /\ UNCHANGED <<known, readers, conn, current>> /\ restart.at = "start" /\ restart' = Idle
        /\ loops' = [loops EXCEPT ![conn] = [NoLoop EXCEPT !.at = "reading"]]
    BY <1>11 DEF RestartDone, netVars
  <2>2. \A x \in Streams : HasReader(x) => HasReader(x)'
    BY <2>1 DEF HasReader
  <2>3. loops'[conn] = [at |-> "reading", hand |-> << >>] /\ \A x \in Streams : x /= conn => loops'[x] = loops[x]
    BY <2>1 DEF NoLoop
  <2>4. QED
    BY <2>1, <2>2, <2>3 DEF IInv, Service, Idle, Streams
<1>12. CASE Crash
  <2>1. known' = {} /\ loops' = [id \in Streams |-> NoLoop] /\ restart' = Idle
    BY <1>12 DEF Crash
  <2>2. QED
    BY <2>1 DEF Service, NoLoop, Idle
<1>13. CASE \/ ApplicationRuns \/ ReadLoopRuns \/ RecvAckEnds \/ SenderRuns \/ SendPacket
            \/ \E ack \in ackNet : RecvAck(ack)
            \/ HandleConnect
            \/ Drop
            \/ FlushCache
            \/ UNCHANGED vars
  <2>1. UNCHANGED <<known, loops, readers, conn, restart, current>>
    BY <1>13 DEF ApplicationRuns, ReadLoopRuns, RecvAckEnds, SenderRuns, SendPacket, RecvAck, HandleConnect,
      HandlePrepare, DisconnectOld, ConnectNew, ConnectConsume, ConnectFails, Connected, HandleStart, Drop,
      FlushCache, vars, elsewhere, netVars, loopVars
  <2>2. QED
    BY <1>1, <2>1
<1>14. QED
  BY <1>2, <1>3, <1>4, <1>5, <1>6, <1>7, <1>8, <1>9, <1>10, <1>11, <1>12, <1>13 DEF Next, Loop, RestartStreaming

-----------------------------------------------------------------------------
(* The packets are whole, and nobody speaks of the end before it is there. *)

\* See StreamManagerProofs: neither the output nor what was let go of it goes back.
LEMMA OnlyForward == IInv /\ [Next]_vars =>
  /\ head \in Nat /\ head' \in Nat /\ total \in Nat /\ total' \in Nat
  /\ head <= head' /\ total <= total' /\ head' <= total'
  /\ sm.terminalEvent /= "none" => total' = total /\ sm'.terminalEvent /= "none"
<1>1. IInv /\ [Next]_vars => P!IInv /\ [P!AnyNext]_(P!vars)
  BY ManagerStep DEF IInv, TypeOK
<1>2. P!IInv /\ [P!AnyNext]_(P!vars) => P!Forward
  BY Sizes, P!OnlyForward
<1>3. QED
  BY <1>1, <1>2 DEF P!Forward

LEMMA ManagerEnd == IInv /\ [Next]_vars =>
  /\ EndReached => EndReached'
  /\ sm'.terminalEventAcked => sm.terminalEventAcked \/ \E ack \in ackNet : ack.fin
<1> SUFFICES ASSUME IInv, [Next]_vars
             PROVE  sm'.terminalEventAcked => sm.terminalEventAcked \/ \E ack \in ackNet : ack.fin
  BY OnlyForward DEF EndReached
<1>1. CASE ApplicationRuns \/ ReadLoopRuns \/ RecvAckEnds
  BY <1>1, QuietSteps DEF Quiet
<1>2. CASE SenderRuns
  BY <1>2, SenderIs
<1>3. CASE \E ack \in ackNet : RecvAck(ack)
  BY <1>3, AckIs
<1>4. CASE DisconnectOld
  BY <1>4, DisconnectIs DEF Quiet
<1>5. CASE Connected \/ HandleStart
  BY <1>5, ConnectedIs, HandleStartIs
<1>6. CASE \/ SendPacket \/ HandlePrepare \/ ConnectNew \/ ConnectConsume \/ ConnectFails
           \/ (\E pk \in dataNet : RecvPacket(pk)) \/ (\E id \in Streams : Loop(id)) \/ Reconnect
           \/ RestartStreaming \/ Drop \/ FlushCache \/ Crash \/ UNCHANGED vars
  <2>1. sm' = sm
    BY <1>6, SendPacketIs, ConnectNewIs, ConnectConsumeIs, ConnectFailsIs
    DEF HandlePrepare, RecvPacket, Loop, LoopTakes, LoopAppends, LoopSuperseded, LoopEnds, Reconnect, RestartStreaming,
      StatFile, CreateReader, RestartStops, RestartContinues, RestartDone, Drop, FlushCache, Crash, vars, smVars
  <2>2. QED
    BY <2>1
<1>7. QED
  BY <1>1, <1>2, <1>3, <1>4, <1>5, <1>6 DEF Next, HandleConnect

LEMMA SentContents == IInv /\ [Next]_vars => \A pk \in Sent' : Whole(pk) /\ (pk.eof \/ pk.error => EndReached')
<1> SUFFICES ASSUME IInv, [Next]_vars, NEW pk \in Sent' PROVE Whole(pk) /\ (pk.eof \/ pk.error => EndReached')
  OBVIOUS
<1>1. CASE pk \in Sent
  BY <1>1, ManagerEnd DEF IInv, Contents
<1>2. CASE SenderRuns
  <2>1. dataNet' = dataNet
    BY <1>2 DEF SenderRuns, elsewhere, netVars
  <2>2. pk \in Sent \/ (sender'.at = "sending" /\ pk = sender'.pk)
    BY <2>1 DEF Sent
  <2>3. QED
    BY <1>1, <1>2, <2>2, SenderIs, ManagerEnd
<1>3. QED
  BY <1>1, <1>2, SentStep

LEMMA DataAckIs ==
  ASSUME IInv, NEW pk \in dataNet, RecvPacket(pk), pk.id \in Streams, HasReader(pk.id)
  PROVE  /\ DataAck(readers[pk.id], pk) \in Acks
         /\ DataAck(readers[pk.id], pk).fin => EndReached
         /\ DataAck(readers[pk.id], pk).seq = RecvData(readers[pk.id], pk).nextSeq
<1> DEFINE after == RecvData(readers[pk.id], pk)
<1>1. /\ after \in Readers /\ after.eof \in BOOLEAN
      /\ after.eof => readers[pk.id].eof \/ pk.eof \/ \E q \in Held(pk.id) : q.eof
  BY RecvPacketIs, ReaderIs, RecvDataIs DEF Received, Readers, Held
<1>2. (pk.eof \/ pk.error => EndReached) /\ pk.error \in BOOLEAN
  BY RecvPacketIs, WholeIs
<1>3. after.eof => EndReached
  BY <1>1, <1>2 DEF IInv, Contents
<1>4. DataAck(readers[pk.id], pk) = AckPacket(after, pk.error \/ after.eof, FALSE)
  BY DEF DataAck
<1> HIDE DEF after
<1>5. /\ AckPacket(after, pk.error \/ after.eof, FALSE) \in Acks
      /\ AckPacket(after, pk.error \/ after.eof, FALSE).fin = (pk.error \/ after.eof)
      /\ AckPacket(after, pk.error \/ after.eof, FALSE).seq = after.nextSeq
  BY <1>1, <1>2, AckPacketIs
<1>6. QED
  BY <1>2, <1>3, <1>4, <1>5 DEF after

LEMMA ReadAcksIs ==
  ASSUME IInv, NEW id \in Streams, HasReader(id)
  PROVE  \A ack \in ReadAcks(id) : ack \in Acks /\ ~ack.fin /\ ack.seq = readers[id].nextSeq
<1>1. AfterTaking(readers[id], MaxWrite) \in Readers
      /\ AfterTaking(readers[id], MaxWrite).nextSeq = readers[id].nextSeq
  <2>1. Received(readers[id], From(id)) /\ MaxWrite \in Nat
    BY ReaderIs, Sizes
  <2>2. PICK k \in Nat :
          /\ Received(AfterTaking(readers[id], MaxWrite), From(id) + k)
          /\ AfterTaking(readers[id], MaxWrite).nextSeq = readers[id].nextSeq
    BY <2>1, ReadIs
  <2>3. QED
    BY <2>2 DEF Received
<1>2. QED
  BY <1>1, AckPacketIs DEF ReadAcks

\* Every ack that is new, with what it acknowledges.
LEMMA NewAcks == IInv /\ [Next]_vars =>
  \A ack \in ackNet' :
    ack \in ackNet \/ (ack \in Acks /\ (ack.fin => EndReached))
<1> SUFFICES ASSUME IInv, [Next]_vars, NEW ack \in ackNet', ack \notin ackNet
             PROVE  ack \in Acks /\ (ack.fin => EndReached)
  OBVIOUS
<1>1. CASE \E pk \in dataNet : RecvPacket(pk)
  <2>1. PICK pk \in dataNet : RecvPacket(pk)
    BY <1>1
  <2>2. Whole(pk) /\ pk.id \in Streams
    BY <2>1, RecvPacketIs
  <2>3. CASE ack = CancelUnknown(pk)
    BY <2>2, <2>3, WholeIs, Sizes DEF CancelUnknown, Acks
  <2>4. CASE HasReader(pk.id) /\ ack = DataAck(readers[pk.id], pk)
    BY <2>1, <2>2, <2>4, DataAckIs
  <2>5. QED
    BY <2>1, <2>3, <2>4, RecvPacketIs
<1>2. CASE \E id \in Streams : LoopTakes(id)
  <2>1. PICK id \in Streams : LoopTakes(id)
    BY <1>2
  <2>2. ack \in ReadAcks(id) /\ HasReader(id)
    BY <2>1, TakesIs DEF LoopTakes
  <2>3. QED
    BY <2>2, ReadAcksIs
<1>3. CASE \E id \in Streams : LoopSuperseded(id) \/ LoopEnds(id)
  <2>1. PICK id \in Streams : LoopSuperseded(id) \/ LoopEnds(id)
    BY <1>3
  <2>2. HasReader(id) /\ readers[id] \in Readers /\ (ack \in ReadAcks(id) \/ ack = CancelFrom(Close(readers[id])))
    BY <2>1, ClosesIs
  <2>3. QED
    BY <2>2, ReadAcksIs, CancelFromIs
<1>4. CASE RestartStops
  <2>1. ack = CancelFrom(Close(readers[conn])) /\ restart.at \in {"prepare", "start"}
    BY <1>4 DEF RestartStops, CloseReader
  <2>2. readers[conn] \in Readers
    BY <2>1, ReaderIs, ServiceTypes DEF IInv, Service
  <2>3. QED
    BY <2>1, <2>2, CancelFromIs
<1>5. CASE \/ ApplicationRuns \/ ReadLoopRuns \/ RecvAckEnds \/ SenderRuns \/ SendPacket
           \/ (\E a \in ackNet : RecvAck(a))
           \/ HandleConnect
           \/ (\E id \in Streams : LoopAppends(id))
           \/ Reconnect \/ StatFile \/ CreateReader \/ RestartContinues \/ RestartDone
           \/ Drop \/ FlushCache \/ Crash \/ UNCHANGED vars
  <2>1. ackNet' \subseteq ackNet
    BY <1>5 DEF ApplicationRuns, ReadLoopRuns, RecvAckEnds, SenderRuns, SendPacket, RecvAck, HandleConnect,
      HandlePrepare, DisconnectOld, ConnectNew, ConnectConsume, ConnectFails, Connected, HandleStart,
      LoopAppends, Reconnect, StatFile, CreateReader, RestartContinues, RestartDone, Drop, FlushCache, Crash,
      vars, elsewhere, netVars
  <2>2. QED
    BY <2>1
<1>6. QED
  BY <1>1, <1>2, <1>3, <1>4, <1>5 DEF Next, Loop, RestartStreaming

LEMMA DoneContents == IInv /\ [Next]_vars => (sm'.terminalEventAcked \/ rpc'.at = "streamDone" => EndReached')
<1> SUFFICES ASSUME IInv, [Next]_vars PROVE (sm'.terminalEventAcked \/ rpc'.at = "streamDone" => EndReached')
  OBVIOUS
<1>1. sm'.terminalEventAcked => EndReached'
  BY ManagerEnd DEF IInv, Contents
<1>2. rpc'.at = "streamDone" => rpc.at = "streamDone" \/ sm.terminalEventAcked
  <2>1. CASE rpc' = rpc
    BY <2>1
  <2>2. CASE HandlePrepare
    BY <2>2 DEF HandlePrepare
  <2>3. CASE ConnectFails \/ Connected
    BY <2>3 DEF ConnectFails, Connected, Answer
  <2>4. CASE HandleStart
    BY <2>4, Facts DEF HandleStart
  <2>5. CASE RestartStreaming
    BY <2>5 DEF RestartStreaming, StatFile, CreateReader, RestartStops, RestartContinues, RestartDone, NoRpc
  <2>6. CASE Drop \/ Crash
    BY <2>6 DEF Drop, Crash, NoRpc
  <2>7. QED
    BY <2>1, <2>2, <2>3, <2>4, <2>5, <2>6 DEF Next, ApplicationRuns, ReadLoopRuns, RecvAckEnds, SenderRuns, SendPacket,
      RecvAck, HandleConnect, DisconnectOld, ConnectNew, ConnectConsume, RecvPacket, Loop, LoopTakes, LoopAppends,
      LoopSuperseded, LoopEnds, Reconnect, FlushCache, vars, elsewhere
<1>3. QED
  BY <1>1, <1>2, ManagerEnd DEF IInv, Contents

\* Each reader of the next state is an old one, a new one, or what a method left
\* of an old one.
LEMMA ReaderSteps ==
  ASSUME IInv, [Next]_vars, NEW id \in Streams, HasReader(id)'
  PROVE  \/ HasReader(id) /\ readers'[id] = readers[id]
         \/ \E pk \in dataNet : HasReader(id) /\ RecvPacket(pk) /\ pk.id = id /\ readers'[id] = RecvData(readers[id], pk)
         \/ LoopTakes(id)
         \/ id = conn /\ CreateReader /\ readers'[id] = NewReaderWithSeq(id, restart.seq)
         \/ id = conn /\ RestartContinues /\ HasReader(id) /\ readers'[id] = UpdateNextSeq(readers[id], rpc.seq)
<1> USE ServiceTypes
<1>1. CASE readers' = readers
  BY <1>1 DEF HasReader
<1>2. CASE \E pk \in dataNet : RecvPacket(pk)
  <2>1. PICK pk \in dataNet : RecvPacket(pk)
    BY <1>2
  <2>2. CASE readers' = readers
    BY <2>2 DEF HasReader
  <2>3. CASE /\ pk.id \in Streams /\ HasReader(pk.id)
             /\ readers' = [readers EXCEPT ![pk.id] = RecvData(readers[pk.id], pk)]
    <3>1. CASE pk.id = id
      BY <2>1, <2>3, <3>1
    <3>2. CASE pk.id /= id
      BY <2>3, <3>2 DEF HasReader
    <3>3. QED
      BY <3>1, <3>2
  <2>4. QED
    BY <2>1, <2>2, <2>3, RecvPacketIs
<1>3. CASE \E x \in Streams : LoopTakes(x)
  <2>1. PICK x \in Streams : LoopTakes(x)
    BY <1>3
  <2>2. readers' = [readers EXCEPT ![x] = Read(readers[x], MaxWrite)]
    BY <2>1, TakesIs
  <2>3. QED
    BY <2>1, <2>2 DEF HasReader
<1>4. CASE \E x \in Streams : LoopSuperseded(x) \/ LoopEnds(x)
  <2>1. PICK x \in Streams : readers' = [readers EXCEPT ![x] = NoReader]
    BY <1>4, ClosesIs
  <2>2. QED
    BY <2>1 DEF HasReader, NoReader
<1>5. CASE RestartStops
  <2>1. readers' = [readers EXCEPT ![conn] = NoReader]
    BY <1>5 DEF RestartStops, CloseReader
  <2>2. QED
    BY <2>1 DEF HasReader, NoReader
<1>6. CASE CreateReader
  <2>1. readers' = [readers EXCEPT ![conn] = NewReaderWithSeq(conn, restart.seq)]
    BY <1>6 DEF CreateReader
  <2>2. QED
    BY <1>6, <2>1 DEF HasReader
<1>7. CASE RestartContinues
  <2>1. restart.at = "prepare" /\ readers' \in {readers, [readers EXCEPT ![conn] = UpdateNextSeq(readers[conn], rpc.seq)]}
    BY <1>7 DEF RestartContinues
  <2>2. HasReader(conn)
    BY <2>1 DEF IInv, Service
  <2>3. QED
    BY <1>7, <2>1, <2>2 DEF HasReader
<1>8. CASE Crash
  BY <1>8 DEF Crash, HasReader, NoReader
<1>9. QED
  BY <1>1, <1>2, <1>3, <1>4, <1>5, <1>6, <1>7, <1>8 DEF Next, ApplicationRuns, ReadLoopRuns, RecvAckEnds, SenderRuns,
    SendPacket, RecvAck, HandleConnect, HandlePrepare, DisconnectOld, ConnectNew, ConnectConsume, ConnectFails, Connected,
    HandleStart, Loop, LoopAppends, Reconnect, RestartStreaming, StatFile, RestartDone, Drop, FlushCache, vars,
    elsewhere, loopVars

\* What every reader of the next state is.
LEMMA ReaderContents ==
  ASSUME IInv, [Next]_vars, NEW id \in Streams, HasReader(id)'
  PROVE  /\ readers'[id] \in Readers /\ readers'[id].id = id
         /\ \A pk \in readers'[id].oooPackets : Whole(pk) /\ (pk.eof \/ pk.error => EndReached)
         /\ readers'[id].eof \/ readers'[id].err /= "none" => EndReached
<1> DEFINE Is(rd) == /\ rd \in Readers /\ rd.id = id
                     /\ \A pk \in rd.oooPackets : Whole(pk) /\ (pk.eof \/ pk.error => EndReached)
                     /\ rd.eof \/ rd.err /= "none" => EndReached
<1>1. HasReader(id) => Is(readers[id])
  BY ReaderIs DEF IInv, Contents, Held
<1>2. CASE HasReader(id) /\ readers'[id] = readers[id]
  BY <1>1, <1>2
<1>3. CASE \E pk \in dataNet : HasReader(id) /\ RecvPacket(pk) /\ pk.id = id /\ readers'[id] = RecvData(readers[id], pk)
  <2>1. PICK pk \in dataNet : HasReader(id) /\ RecvPacket(pk) /\ pk.id = id /\ readers'[id] = RecvData(readers[id], pk)
    BY <1>3
  <2>2. Whole(pk) /\ (pk.eof \/ pk.error => EndReached)
    BY <2>1, RecvPacketIs
  <2>3. Received(readers[id], From(id)) /\ WholeHeld(readers[id])
    BY <2>1, ReaderIs
  <2> DEFINE after == RecvData(readers[id], pk)
  <2>4. /\ Received(after, From(id)) /\ after.id = readers[id].id
        /\ after.oooPackets \subseteq readers[id].oooPackets \cup {pk}
        /\ after.err /= "none" => readers[id].err /= "none" \/ pk.error
        /\ after.eof => readers[id].eof \/ pk.eof \/ \E q \in readers[id].oooPackets : q.eof
    BY <2>2, <2>3, RecvDataIs
  <2> HIDE DEF after
  <2>5. Is(after)
    BY <1>1, <2>1, <2>2, <2>4 DEF Received
  <2>6. QED
    BY <2>1, <2>5 DEF after
<1>4. CASE LoopTakes(id)
  <2>1. /\ HasReader(id) /\ readers'[id] = Read(readers[id], MaxWrite)
    BY <1>4, TakesIs, ServiceTypes
  <2>2. PICK k \in Nat :
          /\ Received(Read(readers[id], MaxWrite), From(id) + k)
          /\ Read(readers[id], MaxWrite).id = readers[id].id
          /\ Read(readers[id], MaxWrite).oooPackets = readers[id].oooPackets
          /\ Read(readers[id], MaxWrite).eof = readers[id].eof
          /\ Read(readers[id], MaxWrite).err = readers[id].err
    BY <1>4, TakesIs
  <2>3. QED
    BY <1>1, <2>1, <2>2 DEF Received
<1>5. CASE id = conn /\ CreateReader /\ readers'[id] = NewReaderWithSeq(id, restart.seq)
  BY <1>5, Facts, Sizes DEF NewReaderWithSeq, Readers
<1>6. CASE id = conn /\ RestartContinues /\ HasReader(id) /\ readers'[id] = UpdateNextSeq(readers[id], rpc.seq)
  <2>1. rpc.seq \in Nat
    BY Facts
  <2>2. /\ UpdateNextSeq(readers[id], rpc.seq) \in Readers
        /\ UpdateNextSeq(readers[id], rpc.seq).id = readers[id].id
        /\ UpdateNextSeq(readers[id], rpc.seq).oooPackets = readers[id].oooPackets
        /\ UpdateNextSeq(readers[id], rpc.seq).eof = readers[id].eof
        /\ UpdateNextSeq(readers[id], rpc.seq).err = readers[id].err
    BY <1>1, <1>6, <2>1 DEF UpdateNextSeq, Readers
  <2>3. QED
    BY <1>1, <1>6, <2>2
<1>7. QED
  BY <1>2, <1>3, <1>4, <1>5, <1>6, ReaderSteps

LEMMA ContentsStep == IInv /\ [Next]_vars => Contents'
<1> SUFFICES ASSUME IInv, [Next]_vars PROVE Contents'
  OBVIOUS
<1>1. EndReached => EndReached'
  BY ManagerEnd
<1>2. \A pk \in Sent' : Whole(pk) /\ (pk.eof \/ pk.error => EndReached')
  BY SentContents
<1>3. ASSUME NEW id \in Streams, HasReader(id)'
      PROVE  /\ readers'[id].id = id
             /\ \A pk \in Held(id)' : Whole(pk) /\ (pk.eof \/ pk.error => EndReached')
             /\ readers'[id].eof \/ readers'[id].err /= "none" => EndReached'
  BY <1>1, <1>3, ReaderContents DEF Held
<1>4. \A ack \in ackNet' : ack.fin => EndReached'
  BY <1>1, NewAcks DEF IInv, Contents
<1>5. sm'.terminalEventAcked \/ rpc'.at = "streamDone" => EndReached'
  BY DoneContents
<1>6. QED
  BY <1>2, <1>3, <1>4, <1>5 DEF Contents, Whole

-----------------------------------------------------------------------------
(* What a reader and its loop hold is one run of bytes.                    *)

LEMMA RunIs ==
  ASSUME NEW id, NEW start \in Nat, NEW from \in Nat, start <= from,
         Received(readers'[id], from), loops'[id].hand = Bytes(start, from)
  PROVE  From(id)' = from /\ Start(id)' = start
<1>1. readers'[id].nextSeq - Len(readers'[id].buffer) = from
  BY FromIs
<1>2. From(id)' = from
  BY <1>1 DEF From
<1>3. Len(Bytes(start, from)) = from - start
  BY BytesIsSeq
<1>4. QED
  BY <1>2, <1>3 DEF Start

LEMMA HandSteps ==
  ASSUME IInv, [Next]_vars, NEW id \in Streams
  PROVE  loops'[id].hand = loops[id].hand \/ loops'[id].hand = << >> \/ LoopTakes(id)
<1> USE ServiceTypes
<1>1. CASE loops' = loops
  BY <1>1
<1>2. CASE \E x \in Streams : LoopTakes(x)
  <2>1. PICK x \in Streams : LoopTakes(x)
    BY <1>2
  <2>2. loops' = [loops EXCEPT ![x] = [at |-> "appending", hand |-> Taken(readers[x], MaxWrite)]]
    BY <2>1, TakesIs
  <2>3. QED
    BY <2>1, <2>2
<1>3. CASE \E x \in Streams : LoopAppends(x)
  BY <1>3 DEF LoopAppends
<1>4. CASE \E x \in Streams : LoopSuperseded(x) \/ LoopEnds(x)
  <2>1. PICK x \in Streams : loops' = [loops EXCEPT ![x] = NoLoop]
    BY <1>4, ClosesIs
  <2>2. QED
    BY <2>1 DEF NoLoop
<1>5. CASE RestartDone
  BY <1>5 DEF RestartDone, NoLoop
<1>6. CASE Crash
  BY <1>6 DEF Crash, NoLoop
<1>7. QED
  BY <1>1, <1>2, <1>3, <1>4, <1>5, <1>6 DEF Next, ApplicationRuns, ReadLoopRuns, RecvAckEnds, SenderRuns,
    SendPacket, RecvAck, HandleConnect, HandlePrepare, DisconnectOld, ConnectNew, ConnectConsume, ConnectFails, Connected,
    HandleStart, Loop, RecvPacket, Reconnect, RestartStreaming, StatFile, CreateReader, RestartStops, RestartContinues,
    Drop, FlushCache, vars, elsewhere, loopVars

\* Nothing has come for a stream that is not started.
LEMMA NothingComes ==
  ASSUME IInv, restart.at = "prepare", NEW pk \in Sent, pk.id = conn
  PROVE  pk.data = << >>
<1>1. pk.id <= sm.streamId /\ sm.streamId <= conn /\ sm.streamId \in Nat /\ conn \in Nat
  BY Facts DEF IInv, Corked, Turns
<1>2. sm.streamId = conn
  BY <1>1
<1>3. QED
  BY <1>2 DEF IInv, Corked

\* A step's effect on one reader and the bytes its loop has in hand.
LEMMA RunSteps ==
  ASSUME IInv, [Next]_vars, NEW id \in Streams, HasReader(id)'
  PROVE  \E start \in Nat, from \in Nat :
           /\ start <= from
           /\ Received(readers'[id], from)
           /\ loops'[id].hand = Bytes(start, from)
<1>1. CASE HasReader(id) /\ readers'[id] = readers[id] /\ ~LoopTakes(id)
  <2>1. Received(readers'[id], From(id)) /\ loops[id].hand = Bytes(Start(id), From(id))
        /\ From(id) \in Nat /\ Start(id) \in Nat /\ Start(id) <= From(id) /\ From(id) <= From(id)
    BY <1>1, ReaderIs
  <2>2. CASE loops'[id].hand = loops[id].hand
    BY <2>1, <2>2
  <2>3. CASE loops'[id].hand = << >>
    <3>1. Bytes(From(id), From(id)) = << >>
      BY <2>1, NoBytes
    <3>2. QED
      BY <2>1, <2>3, <3>1
  <2>4. QED
    BY <1>1, <2>2, <2>3, HandSteps
<1>2. CASE \E pk \in dataNet : HasReader(id) /\ RecvPacket(pk) /\ pk.id = id /\ readers'[id] = RecvData(readers[id], pk)
  <2>1. PICK pk \in dataNet : HasReader(id) /\ RecvPacket(pk) /\ pk.id = id /\ readers'[id] = RecvData(readers[id], pk)
    BY <1>2
  <2>2. Whole(pk) /\ Received(readers[id], From(id)) /\ WholeHeld(readers[id])
    BY <2>1, RecvPacketIs, ReaderIs
  <2>3. Received(RecvData(readers[id], pk), From(id))
    BY <2>2, RecvDataIs
  <2>4. loops' = loops
    BY <2>1 DEF RecvPacket
  <2>5. QED
    BY <2>1, <2>3, <2>4, ReaderIs
<1>3. CASE LoopTakes(id)
  <2>1. /\ HasReader(id) /\ readers'[id] = Read(readers[id], MaxWrite)
        /\ loops'[id].hand = Taken(readers[id], MaxWrite)
    BY <1>3, TakesIs, ServiceTypes
  <2>2. PICK k \in Nat :
          /\ Taken(readers[id], MaxWrite) = Bytes(From(id), From(id) + k)
          /\ Received(Read(readers[id], MaxWrite), From(id) + k)
    BY <1>3, TakesIs
  <2>3. From(id) \in Nat
    BY <2>1, ReaderIs
  <2>4. From(id) + k \in Nat /\ From(id) <= From(id) + k
    BY <2>3
  <2>5. QED
    BY <2>1, <2>2, <2>3, <2>4
<1>4. CASE id = conn /\ CreateReader /\ readers'[id] = NewReaderWithSeq(id, restart.seq)
  <2>1. loops' = loops /\ restart.at = "create" /\ restart.seq \in Nat
    BY <1>4, Facts DEF CreateReader
  <2>2. loops[id].hand = << >>
    BY <1>4, <2>1 DEF IInv, Service
  <2>3. readers'[id] \in Readers /\ readers'[id].nextSeq = restart.seq /\ readers'[id].buffer = << >>
    BY <1>4, ReaderContents DEF NewReaderWithSeq
  <2>4. Bytes(restart.seq, restart.seq) = << >>
    BY <2>1, NoBytes
  <2>5. Received(readers'[id], restart.seq) /\ loops'[id].hand = Bytes(restart.seq, restart.seq)
        /\ restart.seq <= restart.seq
    BY <2>1, <2>2, <2>3, <2>4 DEF Received
  <2>6. QED
    BY <2>1, <2>5
<1>5. CASE id = conn /\ RestartContinues /\ HasReader(id) /\ readers'[id] = UpdateNextSeq(readers[id], rpc.seq)
  <2>1. loops' = loops /\ restart.at = "prepare" /\ rpc.seq \in Nat
    BY <1>5, Facts DEF RestartContinues
  <2>2. loops[id].hand = << >> /\ readers[id].buffer = << >>
    BY <1>5, <2>1 DEF IInv, Service, Runs
  <2>3. readers'[id] \in Readers /\ readers'[id].nextSeq = rpc.seq /\ readers'[id].buffer = << >>
    BY <1>5, <2>1, <2>2, ReaderContents, ReaderIs DEF UpdateNextSeq, Readers
  <2>4. Bytes(rpc.seq, rpc.seq) = << >>
    BY <2>1, NoBytes
  <2>5. Received(readers'[id], rpc.seq) /\ loops'[id].hand = Bytes(rpc.seq, rpc.seq)
        /\ rpc.seq <= rpc.seq
    BY <2>1, <2>2, <2>3, <2>4 DEF Received
  <2>6. QED
    BY <2>1, <2>5
<1>6. QED
  BY <1>1, <1>2, <1>3, <1>4, <1>5, ReaderSteps

LEMMA PrepareStep ==
  ASSUME IInv, [Next]_vars, restart'.at = "prepare"
  PROVE  /\ readers'[conn'].buffer = << >>
         /\ readers'[conn'].nextSeq = restart'.seq
         /\ \A pk \in readers'[conn'].oooPackets : pk.data = << >>
<1> USE ServiceTypes
<1>1. CASE CreateReader
  <2>1. readers'[conn] = NewReaderWithSeq(conn, restart.seq) /\ conn' = conn /\ restart'.seq = restart.seq
    BY <1>1, Facts DEF CreateReader, netVars
  <2>2. QED
    BY <2>1 DEF NewReaderWithSeq
<1>2. CASE ~CreateReader
  <2>1. restart' = restart /\ conn' = conn
    <3>1. CASE Reconnect \/ StatFile \/ RestartStops \/ RestartContinues \/ RestartDone \/ Crash
      BY <3>1, Facts DEF Reconnect, StatFile, RestartStops, RestartContinues, RestartDone, Crash, Idle
    <3>2. QED
      BY <1>2, <3>1 DEF Next, ApplicationRuns, ReadLoopRuns, RecvAckEnds, SenderRuns,
        SendPacket, RecvAck, HandleConnect, HandlePrepare, DisconnectOld, ConnectNew, ConnectConsume, ConnectFails,
        Connected, HandleStart, Loop, RecvPacket, LoopTakes, LoopAppends, LoopSuperseded, LoopEnds, RestartStreaming,
        Drop, FlushCache, vars, elsewhere, netVars
  <2>2. /\ restart.at = "prepare" /\ HasReader(conn) /\ loops[conn].at = "none"
        /\ readers[conn].buffer = << >> /\ readers[conn].nextSeq = restart.seq
        /\ \A pk \in Held(conn) : pk.data = << >>
    BY <2>1 DEF IInv, Service, Runs
  <2>3. ~readers'[conn].closed
    BY <2>1, <2>2, ServiceStep DEF Service, HasReader
  <2>4. CASE readers'[conn] = readers[conn]
    BY <2>1, <2>2, <2>4 DEF Held
  <2>5. CASE \E pk \in dataNet : RecvPacket(pk) /\ pk.id = conn /\ readers'[conn] = RecvData(readers[conn], pk)
    <3>1. PICK pk \in dataNet : RecvPacket(pk) /\ pk.id = conn /\ readers'[conn] = RecvData(readers[conn], pk)
      BY <2>5
    <3>2. Whole(pk) /\ Received(readers[conn], From(conn)) /\ WholeHeld(readers[conn])
      BY <2>2, <3>1, RecvPacketIs, ReaderIs
    <3>3. pk \in Sent
      BY DEF Sent
    <3>4. pk.data = << >>
      BY <2>2, <3>1, <3>3, NothingComes
    <3> DEFINE after == RecvData(readers[conn], pk)
    <3>5. /\ Received(after, From(conn)) /\ after.oooPackets \subseteq readers[conn].oooPackets \cup {pk}
          /\ after.nextSeq = readers[conn].nextSeq
      BY <2>2, <3>2, <3>4, RecvDataIs DEF Held
    <3> HIDE DEF after
    <3>6. Len(after.buffer) = Len(readers[conn].buffer)
      <4>1. Len(after.buffer) = after.nextSeq - From(conn) /\ Len(readers[conn].buffer) = readers[conn].nextSeq - From(conn)
        BY <3>2, <3>5, FromIs
      <4>2. QED
        BY <3>5, <4>1
    <3>7. after.buffer = << >>
      <4>1. after.buffer \in Seq(Nat)
        BY <3>5 DEF Received, Readers
      <4>2. Len(readers[conn].buffer) = 0
        BY <2>2
      <4>3. QED
        BY <3>6, <4>1, <4>2
    <3>8. QED
      BY <2>1, <2>2, <3>1, <3>4, <3>5, <3>7 DEF after, Held
  <2>6. ~LoopTakes(conn) /\ ~RestartContinues
    BY <2>1, <2>2, Facts DEF LoopTakes, RestartContinues
  <2>7. PICK c \in Streams : c = conn
    OBVIOUS
  <2>8. HasReader(c)'
    BY <2>3, <2>7 DEF HasReader
  <2>9. QED
    BY <1>2, <2>4, <2>5, <2>6, <2>7, <2>8, ReaderSteps
<1>3. QED
  BY <1>1, <1>2

LEMMA RunsStep == IInv /\ [Next]_vars => Runs'
<1> SUFFICES ASSUME IInv, [Next]_vars PROVE Runs'
  OBVIOUS
<1>1. ASSUME NEW id \in Streams, HasReader(id)'
      PROVE  Received(readers'[id], From(id)') /\ 0 <= Start(id)' /\ loops'[id].hand = Bytes(Start(id)', From(id)')
  <2>1. PICK start \in Nat, from \in Nat :
           /\ start <= from
           /\ Received(readers'[id], from)
           /\ loops'[id].hand = Bytes(start, from)
    BY <1>1, RunSteps
  <2>2. From(id)' = from /\ Start(id)' = start
    BY <2>1, RunIs
  <2>3. QED
    BY <2>1, <2>2
<1>2. restart'.at = "prepare" => /\ readers'[conn'].buffer = << >>
                                 /\ readers'[conn'].nextSeq = restart'.seq
                                 /\ \A pk \in readers'[conn'].oooPackets : pk.data = << >>
  BY PrepareStep
<1>3. QED
  BY <1>1, <1>2 DEF Runs, Received, Held

-----------------------------------------------------------------------------
(* Types.                                                                  *)

LEMMA JmStepIs == IInv /\ [Next]_vars => jm' \in JmTypes /\ attached' \subseteq Streams
<1> SUFFICES ASSUME IInv, [Next]_vars PROVE jm' \in JmTypes /\ attached' \subseteq Streams
  OBVIOUS
<1> USE Facts
<1>0. jm.id \in 0 .. MaxStreams /\ jm.pending \in 0 .. MaxStreams /\ 0 \in 0 .. MaxStreams
  BY Sizes DEF JmTypes, Streams
<1>1. CASE \E ack \in ackNet : RecvAck(ack)
  BY <1>1 DEF RecvAck
<1>2. CASE HandlePrepare
  BY <1>2 DEF HandlePrepare, JmTypes
<1>3. CASE DisconnectOld \/ ConnectNew \/ ConnectFails
  BY <1>0, <1>3 DEF DisconnectOld, ConnectNew, ConnectFails, JmTypes
<1>4. CASE Connected
  BY <1>0, <1>4 DEF Connected, JmTypes
<1>5. CASE HandleStart
  <2>1. jm.pending \in Streams
    BY <1>0, <1>5, Sizes DEF HandleStart, Streams
  <2>2. QED
    BY <1>0, <1>5, <2>1 DEF HandleStart, JmTypes
<1>6. CASE jm' = jm /\ attached' = attached
  BY <1>6
<1>7. QED
  BY <1>1, <1>2, <1>3, <1>4, <1>5, <1>6 DEF Next, ApplicationRuns, ReadLoopRuns, RecvAckEnds, SenderRuns, SendPacket,
    HandleConnect, ConnectConsume, RecvPacket, Loop, LoopTakes, LoopAppends, LoopSuperseded, LoopEnds, Reconnect,
    RestartStreaming, StatFile, CreateReader, RestartStops, RestartContinues, RestartDone, Drop, FlushCache, Crash,
    vars, elsewhere, jmVars

RpcTypes ==
  [at : {"none", "prepare", "prepared", "refused", "streamDone", "start", "started", "failed"}, seq : Nat]

RestartTypes == [at : {"idle", "stat", "create", "prepare", "start"}, seq : Nat]

LEMMA PositionIs ==
  ASSUME IInv
  PROVE  /\ Position \in Nat /\ Len(file) \in Nat /\ totalGap \in Nat /\ file \in Seq(Nat)
         /\ Position = Len(file) + totalGap
BY DEF IInv, TypeOK, FileTypes, Position

LEMMA StartSeqIs ==
  ASSUME IInv, Connected
  PROVE  SM!StartSeq \in Nat
<1>1. lockHeld \in P!LockStates /\ lockHeld.by \in P!Connecting
  BY ConnectedIs DEF IInv, P!IInv, P!Shapes
<1>2. lockHeld \in [by : P!Connecting, id : P!StreamIds, rwnd : 0 .. ReadWindow, clientSeq : Nat, headPos : Nat]
  BY <1>1 DEF P!LockStates, P!Free, P!Connecting
<1>3. QED
  BY <1>2 DEF SM!StartSeq, SM!Buf!Larger

LEMMA RpcStepIs == IInv /\ [Next]_vars => rpc' \in RpcTypes /\ restart' \in RestartTypes
<1> SUFFICES ASSUME IInv, [Next]_vars PROVE rpc' \in RpcTypes /\ restart' \in RestartTypes
  OBVIOUS
<1>0. rpc \in RpcTypes /\ restart \in RestartTypes
  BY DEF IInv, TypeOK, LinkTypes, RpcTypes, RestartTypes
<1>1. CASE HandlePrepare
  BY <1>0, <1>1 DEF HandlePrepare, RpcTypes
<1>2. CASE ConnectFails
  BY <1>0, <1>2 DEF ConnectFails, Answer, RpcTypes
<1>3. CASE Connected
  <2>1. SM!StartSeq \in Nat
    BY <1>3, StartSeqIs
  <2>2. restart' = restart /\ (rpc' = rpc \/ rpc' = [at |-> "prepared", seq |-> SM!StartSeq])
    BY <1>3 DEF Connected, Answer
  <2>3. QED
    BY <1>0, <2>1, <2>2 DEF RpcTypes
<1>4. CASE HandleStart
  BY <1>0, <1>4 DEF HandleStart, RpcTypes
<1>5. CASE Reconnect
  BY <1>0, <1>5 DEF Reconnect, Idle, RestartTypes
<1>6. CASE StatFile
  BY <1>0, <1>6, PositionIs DEF StatFile, RestartTypes
<1>7. CASE CreateReader
  BY <1>0, <1>7 DEF CreateReader, RpcTypes, RestartTypes
<1>8. CASE RestartStops \/ RestartContinues \/ RestartDone
  BY <1>0, <1>8 DEF RestartStops, RestartContinues, RestartDone, NoRpc, Idle, RpcTypes, RestartTypes
<1>9. CASE Drop \/ Crash
  BY <1>0, <1>9 DEF Drop, Crash, NoRpc, Idle, RpcTypes, RestartTypes
<1>10. CASE rpc' = rpc /\ restart' = restart
  BY <1>0, <1>10
<1>11. QED
  BY <1>1, <1>2, <1>3, <1>4, <1>5, <1>6, <1>7, <1>8, <1>9, <1>10 DEF Next, ApplicationRuns, ReadLoopRuns, RecvAckEnds,
    SenderRuns, SendPacket, RecvAck, HandleConnect, DisconnectOld, ConnectNew, ConnectConsume, RecvPacket, Loop,
    LoopTakes, LoopAppends, LoopSuperseded, LoopEnds, RestartStreaming, FlushCache, vars, elsewhere

LEMMA LinkStep == IInv /\ [Next]_vars => LinkTypes'
<1> SUFFICES ASSUME IInv, [Next]_vars PROVE LinkTypes'
  OBVIOUS
<1>1. up' \in BOOLEAN /\ conn' \in Streams
  <2>1. up \in BOOLEAN /\ conn \in Streams /\ (~up => conn < MaxStreams) /\ MaxStreams \in Nat
    BY Facts DEF IInv, Turns, TypeOK, LinkTypes
  <2>2. CASE Reconnect
    BY <2>1, <2>2 DEF Reconnect, Streams
  <2>3. CASE Drop \/ Crash
    BY <2>1, <2>3 DEF Drop, Crash
  <2>4. CASE up' = up /\ conn' = conn
    BY <2>1, <2>4
  <2>5. QED
    BY <2>2, <2>3, <2>4 DEF Next, ApplicationRuns, ReadLoopRuns, RecvAckEnds, SenderRuns, SendPacket, RecvAck,
      HandleConnect, HandlePrepare, DisconnectOld, ConnectNew, ConnectConsume, ConnectFails, Connected, HandleStart,
      RecvPacket, Loop, LoopTakes, LoopAppends, LoopSuperseded, LoopEnds, RestartStreaming, StatFile, CreateReader,
      RestartStops, RestartContinues, RestartDone, FlushCache, vars, elsewhere, netVars
<1>2. dataNet' \subseteq Packets
  BY SentContents DEF Sent, Whole
<1>3. ackNet' \subseteq Acks
  BY NewAcks, Facts
<1>4. QED
  BY <1>1, <1>2, <1>3, JmStepIs, RpcStepIs DEF LinkTypes, JmTypes, RpcTypes, RestartTypes

LEMMA ReadersStep == IInv /\ [Next]_vars => readers' \in [Streams -> Readers \cup {NoReader}]
<1> SUFFICES ASSUME IInv, [Next]_vars PROVE readers' \in [Streams -> Readers \cup {NoReader}]
  OBVIOUS
<1> USE ServiceTypes
<1>1. CASE readers' = readers
  BY <1>1
<1>2. CASE \E pk \in dataNet : RecvPacket(pk)
  <2>1. PICK pk \in dataNet : RecvPacket(pk)
    BY <1>2
  <2>2. CASE HasReader(pk.id) /\ readers' = [readers EXCEPT ![pk.id] = RecvData(readers[pk.id], pk)]
    <3>1. Whole(pk) /\ pk.id \in Streams
      BY <2>1, RecvPacketIs
    <3>2. Received(readers[pk.id], From(pk.id)) /\ WholeHeld(readers[pk.id])
      BY <2>2, <3>1, ReaderIs
    <3>3. Received(RecvData(readers[pk.id], pk), From(pk.id))
      BY <3>1, <3>2, RecvDataIs
    <3>4. RecvData(readers[pk.id], pk) \in Readers
      BY <3>3 DEF Received
    <3>5. QED
      BY <2>2, <3>4
  <2>3. QED
    BY <1>1, <2>1, <2>2, RecvPacketIs
<1>3. CASE \E x \in Streams : LoopTakes(x)
  <2>1. PICK x \in Streams : LoopTakes(x)
    BY <1>3
  <2>2. readers' = [readers EXCEPT ![x] = Read(readers[x], MaxWrite)] /\ Read(readers[x], MaxWrite) \in Readers
    BY <2>1, TakesIs DEF Received
  <2>3. QED
    BY <2>2
<1>4. CASE \E x \in Streams : LoopSuperseded(x) \/ LoopEnds(x)
  BY <1>4, ClosesIs
<1>5. CASE RestartStops
  BY <1>5 DEF RestartStops, CloseReader
<1>6. CASE CreateReader
  <2>1. NewReaderWithSeq(conn, restart.seq) \in Readers
    BY Facts, Sizes DEF NewReaderWithSeq, Readers
  <2>2. QED
    BY <1>6, <2>1 DEF CreateReader
<1>7. CASE RestartContinues
  <2>1. restart.at = "prepare" /\ rpc.seq \in Nat
    BY <1>7, Facts DEF RestartContinues
  <2>2. HasReader(conn)
    BY <2>1 DEF IInv, Service
  <2>3. readers[conn] \in Readers
    BY <2>2, ReaderIs
  <2>4. UpdateNextSeq(readers[conn], rpc.seq) \in Readers
    BY <2>1, <2>3 DEF UpdateNextSeq, Readers
  <2>5. QED
    BY <1>7, <2>4 DEF RestartContinues
<1>8. CASE Crash
  BY <1>8 DEF Crash
<1>9. QED
  BY <1>1, <1>2, <1>3, <1>4, <1>5, <1>6, <1>7, <1>8 DEF Next, ApplicationRuns, ReadLoopRuns, RecvAckEnds, SenderRuns,
    SendPacket, RecvAck, HandleConnect, HandlePrepare, DisconnectOld, ConnectNew, ConnectConsume, ConnectFails, Connected,
    HandleStart, Loop, LoopAppends, Reconnect, RestartStreaming, StatFile, RestartDone, Drop, FlushCache, vars,
    elsewhere, loopVars

LEMMA LoopsStep == IInv /\ [Next]_vars => loops' \in [Streams -> LoopStates]
<1> SUFFICES ASSUME IInv, [Next]_vars PROVE loops' \in [Streams -> LoopStates]
  OBVIOUS
<1> USE ServiceTypes
<1>0. << >> \in Seq(Nat) /\ NoLoop \in LoopStates /\ [NoLoop EXCEPT !.at = "reading"] \in LoopStates
  <2>1. << >> \in Seq(Nat)
    OBVIOUS
  <2>2. NoLoop = [at |-> "none", hand |-> << >>]
        /\ [NoLoop EXCEPT !.at = "reading"] = [at |-> "reading", hand |-> << >>]
    BY DEF NoLoop
  <2>3. \A at \in {"none", "reading"}, hand \in Seq(Nat) : [at |-> at, hand |-> hand] \in LoopStates
    BY DEF LoopStates
  <2>4. QED
    BY <2>1, <2>2, <2>3
<1>1. CASE loops' = loops
  BY <1>1
<1>2. CASE \E x \in Streams : LoopTakes(x)
  <2>1. PICK x \in Streams : LoopTakes(x)
    BY <1>2
  <2>2. readers[x] \in Readers /\ loops' = [loops EXCEPT ![x] = [at |-> "appending", hand |-> Taken(readers[x], MaxWrite)]]
    BY <2>1, TakesIs, ReaderIs
  <2>3. PICK k \in Nat : From(x) \in Nat /\ Taken(readers[x], MaxWrite) = Bytes(From(x), From(x) + k)
    BY <2>1, TakesIs, ReaderIs
  <2>4. Taken(readers[x], MaxWrite) \in Seq(Nat)
    BY <2>3, BytesNat
  <2>5. QED
    BY <2>2, <2>4 DEF LoopStates
<1>3. CASE \E x \in Streams : LoopAppends(x)
  BY <1>0, <1>3 DEF LoopAppends, LoopStates
<1>4. CASE \E x \in Streams : LoopSuperseded(x) \/ LoopEnds(x)
  BY <1>0, <1>4, ClosesIs
<1>5. CASE RestartDone
  BY <1>0, <1>5 DEF RestartDone
<1>6. CASE Crash
  BY <1>0, <1>6 DEF Crash
<1>7. QED
  BY <1>1, <1>2, <1>3, <1>4, <1>5, <1>6 DEF Next, ApplicationRuns, ReadLoopRuns, RecvAckEnds, SenderRuns,
    SendPacket, RecvAck, HandleConnect, HandlePrepare, DisconnectOld, ConnectNew, ConnectConsume, ConnectFails, Connected,
    HandleStart, Loop, RecvPacket, Reconnect, RestartStreaming, StatFile, CreateReader, RestartStops, RestartContinues,
    Drop, FlushCache, vars, elsewhere, loopVars

LEMMA KnownStep == IInv /\ [Next]_vars => known' \subseteq Streams /\ current' \in 0 .. MaxStreams
<1> SUFFICES ASSUME IInv, [Next]_vars PROVE known' \subseteq Streams /\ current' \in 0 .. MaxStreams
  OBVIOUS
<1>0. known \subseteq Streams /\ current \in 0 .. MaxStreams /\ conn \in Streams /\ conn \in 0 .. MaxStreams
      /\ 0 \in 0 .. MaxStreams
  BY Sizes DEF IInv, TypeOK, LoopTypes, LinkTypes, Streams
<1>1. CASE known' \subseteq known /\ current' = current
  BY <1>0, <1>1
<1>2. CASE \E pk \in dataNet : RecvPacket(pk)
  <2>1. PICK pk \in dataNet : RecvPacket(pk)
    BY <1>2
  <2>2. known' \subseteq known /\ current' = current
    BY <2>1, RecvPacketIs DEF RecvPacket
  <2>3. QED
    BY <1>1, <2>2
<1>3. CASE \E x \in Streams : LoopSuperseded(x) \/ LoopEnds(x)
  <2>1. known' \subseteq known /\ current' = current
    BY <1>3 DEF LoopSuperseded, LoopEnds, CloseReader
  <2>2. QED
    BY <1>1, <2>1
<1>4. CASE CreateReader
  BY <1>0, <1>4 DEF CreateReader
<1>5. CASE RestartStops
  BY <1>0, <1>5 DEF RestartStops, CloseReader
<1>6. CASE Crash
  BY <1>0, <1>6 DEF Crash
<1>7. QED
  BY <1>0, <1>1, <1>2, <1>3, <1>4, <1>5, <1>6 DEF Next, ApplicationRuns, ReadLoopRuns, RecvAckEnds, SenderRuns,
    SendPacket, RecvAck, HandleConnect, HandlePrepare, DisconnectOld, ConnectNew, ConnectConsume, ConnectFails, Connected,
    HandleStart, Loop, LoopTakes, LoopAppends, Reconnect, RestartStreaming, StatFile, RestartContinues, RestartDone,
    Drop, FlushCache, vars, elsewhere, loopVars

LEMMA LoopStep == IInv /\ [Next]_vars => LoopTypes'
BY ReadersStep, LoopsStep, KnownStep DEF LoopTypes, LoopStates

LEMMA ElementsNat ==
  ASSUME NEW s \in Seq(Nat)
  PROVE  Elements(s) \subseteq Nat
BY DEF Elements

LEMMA HistoryStep == IInv /\ [Next]_vars => dropped' \subseteq Nat /\ discarded' \subseteq Nat
<1> SUFFICES ASSUME IInv, [Next]_vars PROVE dropped' \subseteq Nat /\ discarded' \subseteq Nat
  OBVIOUS
<1>0. dropped \subseteq Nat /\ discarded \subseteq Nat /\ head \in Nat /\ jm.seq \in Nat
  <2>1. dropped \subseteq Nat /\ discarded \subseteq Nat
    BY DEF IInv, TypeOK, FileTypes
  <2>2. head \in Nat
    BY DEF IInv, P!IInv, P!TypeOK
  <2>3. jm.seq \in Nat
    BY Facts DEF JmTypes
  <2>4. QED
    BY <2>1, <2>2, <2>3
<1>1. head' \in Nat
  BY ManagerInv DEF IInv, TypeOK, P!IInv, P!TypeOK
<1>2. dropped' \subseteq Nat
  <2>1. ASSUME NEW seq \in Nat, Drops(seq)
        PROVE  dropped' \subseteq Nat
    <3>1. PICK from \in Nat : from = SM!Buf!Larger(head, seq)
      BY <1>0, <2>1 DEF SM!Buf!Larger
    <3>2. \A i \in from .. head' - 1 : i \in Nat
      BY <1>1, <3>1
    <3>3. dropped' = dropped \cup (from .. head' - 1)
      BY <2>1, <3>1 DEF Drops
    <3>4. QED
      BY <1>0, <3>2, <3>3
  <2>2. CASE ReadLoopRuns
    BY <1>0, <2>1, <2>2 DEF ReadLoopRuns
  <2>3. CASE DisconnectOld
    BY <1>0, <2>1, <2>3 DEF DisconnectOld
  <2>4. CASE ConnectConsume
    BY <1>0, <2>1, <2>4 DEF ConnectConsume
  <2>5. CASE dropped' = dropped
    BY <1>0, <2>5
  <2>6. QED
    BY <2>2, <2>3, <2>4, <2>5 DEF Next, ApplicationRuns, RecvAckEnds, SenderRuns, SendPacket, RecvAck, HandleConnect,
      HandlePrepare, ConnectNew, ConnectFails, Connected, HandleStart, Loop, LoopTakes, LoopAppends, LoopSuperseded,
      LoopEnds, RecvPacket, Reconnect, RestartStreaming, StatFile, CreateReader, RestartStops, RestartContinues,
      RestartDone, Drop, FlushCache, Crash, vars, elsewhere, history
<1>3. discarded' \subseteq Nat
  <2>1. CASE \E x \in Streams : LoopSuperseded(x) \/ LoopEnds(x)
    <3>1. PICK x \in Streams : LoopSuperseded(x) \/ LoopEnds(x)
      BY <2>1
    <3>2. readers[x] \in Readers /\ discarded' = discarded \cup Elements(readers[x].buffer)
      BY <3>1, ClosesIs
    <3>3. Elements(readers[x].buffer) \subseteq Nat
      BY <3>2, ElementsNat DEF Readers
    <3>4. QED
      BY <1>0, <3>2, <3>3
  <2>2. CASE RestartStops
    <3>1. restart.at \in {"prepare", "start"} /\ discarded' = discarded \cup Elements(readers[conn].buffer)
      BY <2>2 DEF RestartStops, CloseReader
    <3>2. HasReader(conn) /\ conn \in Streams
      BY <3>1, Facts DEF IInv, Service
    <3>3. readers[conn] \in Readers
      BY <3>2, ReaderIs
    <3>4. Elements(readers[conn].buffer) \subseteq Nat
      BY <3>3, ElementsNat DEF Readers
    <3>5. QED
      BY <1>0, <3>1, <3>4
  <2>3. CASE Crash
    <3>1. discarded' \subseteq discarded \cup OnTheWay \cup Elements(file)
      BY <2>3 DEF Crash
    <3>2. Elements(file) \subseteq Nat
      BY PositionIs, ElementsNat
    <3>3. ASSUME NEW id \in Streams
          PROVE  Elements(loops[id].hand) \cup (IF readers[id] = NoReader THEN {} ELSE Elements(readers[id].buffer))
                   \subseteq Nat
      <4>1. Elements(loops[id].hand) \subseteq Nat
        BY ServiceTypes, ElementsNat DEF LoopStates
      <4>2. CASE readers[id] /= NoReader
        <5>1. readers[id].buffer \in Seq(Nat)
          BY <4>2, ServiceTypes DEF Readers
        <5>2. QED
          BY <4>1, <5>1, ElementsNat
      <4>3. QED
        BY <4>1, <4>2
    <3>4. OnTheWay \subseteq Nat
      BY <3>3 DEF OnTheWay
    <3>5. QED
      BY <1>0, <3>1, <3>2, <3>4
  <2>4. CASE discarded' = discarded
    BY <1>0, <2>4
  <2>5. QED
    BY <2>1, <2>2, <2>3, <2>4 DEF Next, ApplicationRuns, ReadLoopRuns, RecvAckEnds, SenderRuns, SendPacket, RecvAck,
      HandleConnect, HandlePrepare, DisconnectOld, ConnectNew, ConnectConsume, ConnectFails, Connected, HandleStart,
      Loop, LoopTakes, LoopAppends, RecvPacket, Reconnect, RestartStreaming, StatFile, CreateReader, RestartContinues,
      RestartDone, Drop, FlushCache, vars, elsewhere, history
<1>4. QED
  BY <1>2, <1>3

\* What a step does to the file, and to what is on disk of it.
LEMMA FileSteps == IInv /\ [Next]_vars =>
  \/ UNCHANGED <<file, totalGap, flushed>>
  \/ /\ FlushCache /\ UNCHANGED <<file, totalGap>>
     /\ flushed' = [size |-> Len(file), gap |-> totalGap]
  \/ \E id \in Streams :
       LoopAppends(id) /\ file' = file \o loops[id].hand /\ UNCHANGED <<totalGap, flushed>>
  \/ /\ RestartContinues /\ rpc.seq > restart.seq /\ totalGap' = totalGap + (rpc.seq - restart.seq)
     /\ UNCHANGED <<file, flushed>>
  \/ Crash /\ file' = SubSeq(file, 1, flushed.size) /\ totalGap' = flushed.gap /\ flushed' = flushed
BY DEF Next, ApplicationRuns, ReadLoopRuns, RecvAckEnds, SenderRuns, SendPacket, RecvAck,
      HandleConnect, HandlePrepare, DisconnectOld, ConnectNew, ConnectConsume, ConnectFails, Connected, HandleStart,
      Loop, LoopTakes, LoopAppends, LoopSuperseded, LoopEnds, RecvPacket, Reconnect, RestartStreaming, StatFile,
      CreateReader, RestartStops, RestartContinues, GapAfter,
      RestartDone, Drop, FlushCache, Crash, vars, elsewhere, fileVars, crashVars

LEMMA FileStep == IInv /\ [Next]_vars => FileTypes'
<1> SUFFICES ASSUME IInv, [Next]_vars PROVE FileTypes'
  OBVIOUS
<1>0. /\ file \in Seq(Nat) /\ Len(file) \in Nat /\ totalGap \in Nat /\ flushed \in [size : 0 .. Len(file), gap : Nat]
      /\ streamDone \in {"no", "eof", "error"} /\ crashes \in 0 .. MaxCrashes /\ MaxCrashes \in Nat
  BY Sizes DEF IInv, TypeOK, FileTypes
<1>1. file' \in Seq(Nat) /\ totalGap' \in Nat /\ flushed' \in [size : 0 .. Len(file'), gap : Nat]
  <2>1. CASE UNCHANGED <<file, totalGap, flushed>>
    BY <1>0, <2>1
  <2>2. CASE UNCHANGED <<file, totalGap>> /\ flushed' = [size |-> Len(file), gap |-> totalGap]
    BY <1>0, <2>2
  <2>3. CASE \E id \in Streams : file' = file \o loops[id].hand /\ UNCHANGED <<totalGap, flushed>>
    <3>1. PICK id \in Streams : file' = file \o loops[id].hand /\ UNCHANGED <<totalGap, flushed>>
      BY <2>3
    <3>2. loops[id].hand \in Seq(Nat)
      BY ServiceTypes DEF LoopStates
    <3>3. file' \in Seq(Nat) /\ Len(file') = Len(file) + Len(loops[id].hand) /\ Len(loops[id].hand) \in Nat
      BY <1>0, <3>1, <3>2, ConcatProperties
    <3>4. 0 .. Len(file) \subseteq 0 .. Len(file')
      BY <1>0, <3>3
    <3>5. QED
      BY <1>0, <3>1, <3>3, <3>4
  <2>4. CASE /\ rpc.seq > restart.seq /\ totalGap' = totalGap + (rpc.seq - restart.seq)
             /\ UNCHANGED <<file, flushed>>
    <3>1. totalGap' \in Nat
      BY <1>0, <2>4, Facts
    <3>2. QED
      BY <1>0, <2>4, <3>1
  <2>5. CASE file' = SubSeq(file, 1, flushed.size) /\ totalGap' = flushed.gap /\ flushed' = flushed
    <3>1. flushed.size \in 0 .. Len(file) /\ flushed.gap \in Nat /\ flushed = [size |-> flushed.size, gap |-> flushed.gap]
      BY <1>0
    <3>2. \A i \in 1 .. flushed.size : file[i] \in Nat
      BY <1>0, <3>1
    <3>3. file' \in Seq(Nat) /\ Len(file') = flushed.size
      BY <1>0, <2>5, <3>1, <3>2, SubSeqProperties
    <3>4. QED
      BY <2>5, <3>1, <3>3
  <2>6. QED
    BY <2>1, <2>2, <2>3, <2>4, <2>5, FileSteps
<1>2. streamDone' \in {"no", "eof", "error"}
  <2>1. sm.terminalEvent \in {"none", "eof", "error"}
    BY Facts DEF P!SmFields
  <2>2. CASE RestartStops
    <3>1. rpc.at = "streamDone" => sm.terminalEvent /= "none"
      BY DEF IInv, Contents, EndReached
    <3>2. QED
      BY <1>0, <2>1, <2>2, <3>1 DEF RestartStops
  <2>3. CASE \E id \in Streams : LoopEnds(id)
    BY <2>3 DEF LoopEnds
  <2>4. CASE streamDone' = streamDone
    BY <1>0, <2>4
  <2>5. QED
    BY <2>2, <2>3, <2>4 DEF Next, ApplicationRuns, ReadLoopRuns, RecvAckEnds, SenderRuns, SendPacket, RecvAck,
      HandleConnect, HandlePrepare, DisconnectOld, ConnectNew, ConnectConsume, ConnectFails, Connected, HandleStart,
      Loop, LoopTakes, LoopAppends, LoopSuperseded, RecvPacket, Reconnect, RestartStreaming, StatFile,
      CreateReader, RestartContinues, RestartDone, Drop, FlushCache, Crash, vars, elsewhere, fileVars
<1>3. crashes' \in 0 .. MaxCrashes
  <2>1. CASE Crash
    BY <1>0, <2>1 DEF Crash
  <2>2. CASE crashes' = crashes
    BY <1>0, <2>2
  <2>3. QED
    BY <2>1, <2>2 DEF Next, ApplicationRuns, ReadLoopRuns, RecvAckEnds, SenderRuns, SendPacket, RecvAck,
      HandleConnect, HandlePrepare, DisconnectOld, ConnectNew, ConnectConsume, ConnectFails, Connected, HandleStart,
      Loop, LoopTakes, LoopAppends, LoopSuperseded, LoopEnds, RecvPacket, Reconnect, RestartStreaming, StatFile,
      CreateReader, RestartStops, RestartContinues, RestartDone, Drop, FlushCache, vars, elsewhere, crashVars
<1>4. QED
  BY <1>1, <1>2, <1>3, HistoryStep DEF FileTypes

LEMMA TypeStep == IInv /\ [Next]_vars => TypeOK'
<1> SUFFICES ASSUME IInv, [Next]_vars PROVE TypeOK'
  OBVIOUS
<1>1. P!IInv'
  BY ManagerInv DEF IInv, TypeOK
<1>2. SM!TypeOK'
  BY <1>1 DEF P!IInv, P!TypeOK, SM!TypeOK
<1>3. QED
  BY <1>2, LinkStep, LoopStep, FileStep DEF TypeOK

-----------------------------------------------------------------------------
(* The theorems.                                                           *)

LEMMA InitManager == Init => P!IInv /\ SM!TypeOK
<1> SUFFICES ASSUME Init PROVE P!IInv /\ SM!TypeOK
  OBVIOUS
<1> USE Sizes
<1>1. /\ head = 0 /\ total = 0 /\ syncMode = TRUE /\ writer = "running"
      /\ sm = [streamId |-> 1, connected |-> TRUE, eofPos |-> -1, terminalEvent |-> "none",
               rwndSize |-> ReadWindow, sentNotAcked |-> 0, maxAckedSeq |-> 0,
               maxAckedRwnd |-> 0, terminalEventSent |-> FALSE, terminalEventAcked |-> FALSE]
      /\ pty = [at |-> "reading", left |-> 0]
      /\ sender = [at |-> "running", pk |-> SM!NoPacket]
      /\ lockHeld = SM!Free
      /\ windowSize = SM!EffectiveWindow(ReadWindow)
  BY DEF Init
<1>2. windowSize \in 0 .. MaxSize /\ windowSize = P!EffectiveWindow(ReadWindow)
  BY <1>1 DEF SM!EffectiveWindow, P!EffectiveWindow, SM!Buf!Smaller, P!Buf!Smaller
<1>3. SM!TypeOK
  BY <1>1, <1>2 DEF SM!TypeOK, SM!Free
<1>4. P!TypeOK
  BY <1>3 DEF SM!TypeOK, P!TypeOK
<1>5. QED
  BY <1>1, <1>2, <1>3, <1>4
  DEF P!IInv, P!Shapes, P!Connection, P!Terminal, P!InFlightIsBuffered, P!InFlightBounded,
      P!TerminalIsLast, P!Buf!Size, P!EffectiveWindow, P!Buf!Smaller, P!LockStates, P!Free, SM!Free,
      P!NoPacket, SM!NoPacket, P!Connecting

LEMMA InitIInv == Init => IInv
<1> SUFFICES ASSUME Init PROVE IInv
  OBVIOUS
<1> USE Sizes
<1>0. 1 \in Streams /\ << >> \in Seq(Nat)
  BY DEF Streams
<1>1. NewReaderWithSeq(1, 0) \in Readers
  BY <1>0 DEF NewReaderWithSeq, Readers
<1>2. /\ jm = [client |-> 1, pending |-> 0, step |-> "idle", id |-> 1, seq |-> 0]
      /\ attached = {1} /\ up = TRUE /\ conn = 1 /\ dataNet = {} /\ ackNet = {}
      /\ rpc = [at |-> "none", seq |-> 0] /\ restart = [at |-> "idle", seq |-> 0]
      /\ current = 1 /\ known = {1}
      /\ readers = [id \in Streams |-> IF id = 1 THEN NewReaderWithSeq(1, 0) ELSE NoReader]
      /\ loops = [id \in Streams |-> IF id = 1 THEN [NoLoop EXCEPT !.at = "reading"] ELSE NoLoop]
      /\ file = << >> /\ totalGap = 0 /\ streamDone = "no" /\ crashes = 0
      /\ flushed = [size |-> 0, gap |-> 0] /\ dropped = {} /\ discarded = {}
      /\ sm.streamId = 1 /\ sm.rwndSize = ReadWindow /\ ~sm.terminalEventAcked
      /\ sender.at = "running" /\ lockHeld = SM!Free
  BY DEF Init, NoRpc, Idle
<1>3. readers \in [Streams -> Readers \cup {NoReader}] /\ readers[1] = NewReaderWithSeq(1, 0)
  BY <1>0, <1>1, <1>2
<1>4. \A id \in Streams : HasReader(id) => id = 1
  BY <1>2 DEF HasReader, NoReader
<1>5. /\ [NoLoop EXCEPT !.at = "reading"] = [at |-> "reading", hand |-> << >>]
      /\ NoLoop = [at |-> "none", hand |-> << >>]
  BY DEF NoLoop
<1>6. loops \in [Streams -> LoopStates]
  <2>1. \A at \in {"none", "reading"} : [at |-> at, hand |-> << >>] \in LoopStates
    BY <1>0 DEF LoopStates
  <2>2. QED
    BY <1>2, <1>5, <2>1
<1>7. loops[1].hand = << >> /\ loops[1].at = "reading"
      /\ \A id \in Streams : loops[id].hand = << >> /\ (id # 1 => loops[id].at = "none") /\ loops[id].at # "appending"
  BY <1>0, <1>2, <1>5
<1>8. TypeOK
  <2>1. LinkTypes
    BY <1>0, <1>2 DEF LinkTypes, Streams
  <2>2. LoopTypes
    <3>1. current \in 0 .. MaxStreams /\ known \subseteq Streams
      BY <1>0, <1>2
    <3>2. QED
      BY <1>3, <1>6, <3>1, Zenon DEF LoopTypes, LoopStates
  <2>3. FileTypes
    BY <1>0, <1>2 DEF FileTypes
  <2>4. QED
    BY <2>1, <2>2, <2>3, InitManager DEF TypeOK
<1>9. Turns
  BY <1>2 DEF Turns, SM!Free, P!Connecting
<1>10. Asked
  BY <1>2 DEF Asked
<1>11. Corked
  BY <1>2 DEF Corked, Sent
<1>12. NewReaderWithSeq(1, 0).id = 1 /\ NewReaderWithSeq(1, 0).nextSeq = 0 /\ NewReaderWithSeq(1, 0).buffer = << >>
       /\ NewReaderWithSeq(1, 0).oooPackets = {} /\ ~NewReaderWithSeq(1, 0).eof /\ NewReaderWithSeq(1, 0).err = "none"
       /\ ~NewReaderWithSeq(1, 0).closed
  BY DEF NewReaderWithSeq
<1>13. Contents
  BY <1>2, <1>3, <1>4, <1>12 DEF Contents, Sent, Held
<1>14. Service
  BY <1>2, <1>3, <1>4, <1>7, <1>12 DEF Service, HasReader, Streams
<1>15. Bytes(0, 0) = << >>
  BY NoBytes
<1>16. From(1) = 0 /\ Start(1) = 0
  BY <1>3, <1>7, <1>12 DEF From, Start
<1>17. Received(readers[1], 0)
  BY <1>1, <1>3, <1>12, <1>15 DEF Received
<1>18. Runs
  BY <1>2, <1>4, <1>7, <1>15, <1>16, <1>17 DEF Runs
<1>19. QED
  BY <1>8, <1>9, <1>10, <1>11, <1>13, <1>14, <1>18, InitManager DEF IInv

LEMMA StepIInv == IInv /\ [Next]_vars => IInv'
<1> SUFFICES ASSUME IInv, [Next]_vars PROVE IInv'
  OBVIOUS
<1>1. P!IInv'
  BY ManagerInv DEF IInv, TypeOK
<1>2. QED
  BY <1>1, TypeStep, TurnsStep, AskedStep, CorkedStep, ContentsStep, ServiceStep, RunsStep DEF IInv

LEMMA Inductive == Spec => []IInv
<1>1. Init => IInv
  BY InitIInv
<1>2. IInv /\ [Next]_vars => IInv'
  BY StepIInv
<1>3. QED
  BY <1>1, <1>2, PTL DEF Spec

(* Every variable of the composition keeps its type, whatever the sizes and *)
(* the number of reconnects and crashes: the readers' buffers, what is in    *)
(* flight and the positions both sides exchange.                             *)
THEOREM TypeCorrect == Spec => []TypeOK
<1>1. IInv => TypeOK
  BY DEF IInv
<1>2. QED
  BY <1>1, Inductive, PTL

(* No output of a stream travels before StartStream has attached the writer  *)
(* its acks need: the window that connectToStreamHelper connects with is 0   *)
(* and nothing opens it, late acks of other streams included.                *)
THEOREM CorkKept == Spec => []CorkHolds
<1>1. IInv => CorkHolds
  BY DEF IInv, Corked, CorkHolds, Sent
<1>2. QED
  BY <1>1, Inductive, PTL

-----------------------------------------------------------------------------
(* The file is in order.                                                   *)

\* The current stream's reader and loop, when neither is touched.
LEMMA AlignedFrame ==
  ASSUME IInv, Aligned, NEW id \in Streams, HasReader(id), id = current,
         readers'[id] = readers[id], loops'[id].hand = loops[id].hand, Position' = Position
  PROVE  Start(id)' = Position'
BY DEF Aligned, Start, From

LEMMA AppendIs ==
  ASSUME IInv, Aligned, NEW id \in Streams, LoopAppends(id)
  PROVE  /\ HasReader(id) /\ id = current /\ Start(id) = Position
         /\ loops[id].hand = Bytes(Position, From(id)) /\ From(id) \in Nat /\ Position <= From(id)
         /\ file' = file \o loops[id].hand /\ totalGap' = totalGap /\ flushed' = flushed
         /\ Len(loops[id].hand) = From(id) - Position
         /\ Position' = From(id)
<1>1. loops[id].at = "appending"
  BY DEF LoopAppends
<1>2. HasReader(id) /\ id = current
  BY <1>1 DEF IInv, Service, Aligned
<1>3. Start(id) = Position
  BY <1>2 DEF Aligned
<1>4. loops[id].hand = Bytes(Position, From(id)) /\ From(id) \in Nat /\ Position <= From(id) /\ Position \in Nat
  BY <1>2, <1>3, ReaderIs
<1>5. Len(loops[id].hand) = From(id) - Position
  <2>1. Position \in Int /\ From(id) \in Int
    BY <1>4
  <2>2. Len(Bytes(Position, From(id))) = From(id) - Position
    BY <1>4, <2>1, BytesIsSeq, Zenon
  <2>3. QED
    BY <1>4, <2>2
<1>6. file' = file \o loops[id].hand /\ totalGap' = totalGap /\ flushed' = flushed
  BY DEF LoopAppends, crashVars
<1>7. loops[id].hand \in Seq(Nat)
  BY ServiceTypes DEF LoopStates
<1>8. Len(file') = Len(file) + Len(loops[id].hand)
  BY <1>6, <1>7, PositionIs, ConcatProperties
<1>9. Position' = From(id)
  <2>1. PICK from \in Nat, len \in Nat, gap \in Nat, n \in Nat :
          from = From(id) /\ len = Len(file) /\ gap = totalGap /\ n = Len(loops[id].hand)
    BY <1>4, <1>7, PositionIs
  <2>2. Len(file') = len + n /\ totalGap' = gap /\ n = from - (len + gap)
    BY <1>5, <1>6, <1>8, <2>1 DEF Position
  <2>3. (len + n) + gap = from
    <3>1. n = from - (len + gap)
      BY <2>2
    <3>2. QED
      BY <3>1
  <2>4. Len(file') + totalGap' = (len + n) + gap
    BY <2>2, Zenon
  <2>5. QED
    BY <2>1, <2>3, <2>4, Zenon DEF Position
<1>10. QED
  BY <1>2, <1>3, <1>4, <1>5, <1>6, <1>9

LEMMA NoHand ==
  ASSUME IInv, NEW id \in Streams, HasReader(id), loops[id].at /= "appending"
  PROVE  loops[id].hand = << >> /\ Start(id) = From(id)
<1>1. loops[id].hand = << >>
  BY DEF IInv, Service
<1>2. QED
  BY <1>1, ReaderIs DEF Start

\* What moves the position of the file.
LEMMA PositionSteps ==
  ASSUME IInv, [Next]_vars
  PROVE  \/ Position' = Position
         \/ \E id \in Streams : LoopAppends(id)
         \/ RestartContinues
         \/ Crash
BY FileSteps DEF Position

LEMMA CurrentSteps ==
  ASSUME IInv, [Next]_vars
  PROVE  current' = current \/ CreateReader \/ Crash
BY DEF Next, ApplicationRuns, ReadLoopRuns, RecvAckEnds, SenderRuns, SendPacket, RecvAck,
      HandleConnect, HandlePrepare, DisconnectOld, ConnectNew, ConnectConsume, ConnectFails, Connected, HandleStart,
      Loop, LoopTakes, LoopAppends, LoopSuperseded, LoopEnds, RecvPacket, Reconnect, RestartStreaming, StatFile,
      RestartStops, RestartContinues, RestartDone, Drop, FlushCache, vars, elsewhere, loopVars

\* The hand of a loop that neither takes nor appends.
LEMMA HandFrame ==
  ASSUME IInv, [Next]_vars, NEW id \in Streams, HasReader(id)', ~LoopTakes(id), ~LoopAppends(id), ~Crash
  PROVE  loops'[id].hand = loops[id].hand /\ loops'[id].at \in {loops[id].at, "reading"}
         /\ (loops'[id].at /= loops[id].at => RestartDone /\ id = conn)
<1> USE ServiceTypes
<1>1. CASE loops' = loops
  BY <1>1
<1>2. CASE \E x \in Streams : LoopTakes(x)
  <2>1. PICK x \in Streams : LoopTakes(x)
    BY <1>2
  <2>2. loops' = [loops EXCEPT ![x] = [at |-> "appending", hand |-> Taken(readers[x], MaxWrite)]] /\ x /= id
    BY <2>1, TakesIs
  <2>3. QED
    BY <2>2
<1>3. CASE \E x \in Streams : LoopAppends(x)
  BY <1>3 DEF LoopAppends
<1>4. CASE \E x \in Streams : LoopSuperseded(x) \/ LoopEnds(x)
  <2>1. PICK x \in Streams : loops' = [loops EXCEPT ![x] = NoLoop] /\ readers' = [readers EXCEPT ![x] = NoReader]
    BY <1>4, ClosesIs
  <2>2. x /= id
    BY <2>1 DEF HasReader, NoReader
  <2>3. QED
    BY <2>1, <2>2
<1>5. CASE RestartDone
  <2>1. loops' = [loops EXCEPT ![conn] = [NoLoop EXCEPT !.at = "reading"]] /\ restart.at = "start"
    BY <1>5 DEF RestartDone
  <2>2. loops[conn].at = "none" /\ loops[conn].hand = << >>
    BY <2>1 DEF IInv, Service
  <2>3. QED
    BY <1>5, <2>1, <2>2 DEF NoLoop
<1>6. QED
  BY <1>1, <1>2, <1>3, <1>4, <1>5 DEF Next, ApplicationRuns, ReadLoopRuns, RecvAckEnds, SenderRuns,
    SendPacket, RecvAck, HandleConnect, HandlePrepare, DisconnectOld, ConnectNew, ConnectConsume, ConnectFails, Connected,
    HandleStart, Loop, RecvPacket, Reconnect, RestartStreaming, StatFile, CreateReader, RestartStops, RestartContinues,
    Drop, FlushCache, vars, elsewhere, loopVars

LEMMA ContinuesIs ==
  ASSUME IInv, Aligned, RestartContinues
  PROVE  /\ current = conn /\ HasReader(conn) /\ loops' = loops /\ loops[conn].hand = << >>
         /\ readers[conn].buffer = << >> /\ readers[conn].nextSeq = Position /\ Position \in Nat
         /\ \/ readers' = readers /\ Position' = Position
            \/ /\ readers' = [readers EXCEPT ![conn] = UpdateNextSeq(readers[conn], rpc.seq)]
               /\ rpc.seq \in Nat /\ rpc.seq > Position /\ Position' = rpc.seq
<1>1. restart.at = "prepare"
  BY DEF RestartContinues
<1>2. current = conn /\ HasReader(conn) /\ loops[conn].hand = << >> /\ conn \in Streams
  BY <1>1, Facts DEF IInv, Service
<1>3. readers[conn].buffer = << >> /\ readers[conn].nextSeq = restart.seq
  BY <1>1 DEF IInv, Runs
<1>4. readers[conn].nextSeq \in Nat /\ From(conn) = readers[conn].nextSeq
  <2>1. readers[conn] \in Readers
    BY <1>2, ReaderIs
  <2>2. readers[conn].nextSeq \in Nat /\ Len(readers[conn].buffer) = 0
    BY <1>3, <2>1 DEF Readers
  <2>3. QED
    BY <2>2 DEF From
<1>5. Start(conn) = From(conn)
  BY <1>2, <1>4 DEF Start
<1>6. Start(conn) = Position
  BY <1>2 DEF Aligned
<1>7. restart.seq = Position /\ Position \in Nat
  BY <1>3, <1>4, <1>5, <1>6
<1>8. CASE rpc.seq > restart.seq
  <2>1. file' = file /\ totalGap' = totalGap + (rpc.seq - restart.seq) /\ rpc.seq \in Nat
    BY <1>8, Facts DEF RestartContinues, GapAfter
  <2>2. Position = Len(file) + totalGap /\ Len(file) \in Nat /\ totalGap \in Nat
    BY PositionIs
  <2>3. Len(file) + (totalGap + (rpc.seq - restart.seq)) = rpc.seq
    BY <1>7, <2>1, <2>2
  <2>4. Position' = rpc.seq
    BY <2>1, <2>3 DEF Position
  <2>5. QED
    BY <1>2, <1>3, <1>4, <1>7, <1>8, <2>1, <2>4 DEF RestartContinues
<1>9. CASE ~(rpc.seq > restart.seq)
  BY <1>2, <1>3, <1>4, <1>7, <1>9 DEF RestartContinues, Position
<1>10. QED
  BY <1>8, <1>9

LEMMA StartStep ==
  ASSUME IInv, Aligned, [Next]_vars, NEW id \in Streams, id = current', HasReader(id)'
  PROVE  Start(id)' = Position'
<1> USE ServiceTypes
<1>1. CASE CreateReader
  <2>1. /\ id = conn /\ readers'[id] = NewReaderWithSeq(id, restart.seq) /\ loops' = loops
        /\ restart.at = "create" /\ Position' = Position
    BY <1>1 DEF CreateReader, fileVars, Position
  <2>2. loops[id].hand = << >> /\ restart.seq = Position /\ Position \in Nat
    BY <2>1, PositionIs DEF IInv, Service, Aligned
  <2>3. readers'[id].nextSeq = restart.seq /\ readers'[id].buffer = << >>
    BY <2>1 DEF NewReaderWithSeq
  <2>4. QED
    BY <2>1, <2>2, <2>3 DEF Start, From
<1>2. CASE Crash
  BY <1>2 DEF Crash, HasReader, NoReader
<1>3. CASE LoopTakes(id)
  <2>1. /\ HasReader(id) /\ readers'[id] = Read(readers[id], MaxWrite) /\ Start(id) = From(id)
        /\ loops'[id].hand = Taken(readers[id], MaxWrite)
    BY <1>3, TakesIs
  <2>2. PICK k \in Nat :
          /\ Taken(readers[id], MaxWrite) = Bytes(From(id), From(id) + k)
          /\ Received(Read(readers[id], MaxWrite), From(id) + k)
    BY <1>3, TakesIs
  <2>3. From(id) \in Nat /\ From(id) + k \in Nat /\ From(id) <= From(id) + k
    BY <2>1, ReaderIs
  <2>4. PICK start \in Nat : start = From(id)
    BY <2>3
  <2>5. Start(id)' = start
    BY <2>1, <2>2, <2>3, <2>4, RunIs
  <2>6. Position' = Position /\ current' = current
    BY <1>3 DEF LoopTakes, fileVars, Position
  <2>7. QED
    BY <2>1, <2>4, <2>5, <2>6 DEF Aligned
<1>4. CASE LoopAppends(id)
  <2>1. readers' = readers /\ loops' = [loops EXCEPT ![id] = [at |-> "reading", hand |-> << >>]]
    BY <1>4 DEF LoopAppends
  <2>2. Position' = From(id) /\ From(id) \in Nat
    BY <1>4, AppendIs
  <2>3. From(id)' = From(id) /\ loops'[id].hand = << >>
    BY <2>1 DEF From
  <2>4. QED
    BY <2>2, <2>3 DEF Start
<1>5. CASE RestartContinues
  <2>1. id = conn
    BY <1>5, ContinuesIs DEF RestartContinues
  <2>2. CASE readers' = readers /\ Position' = Position
    BY <1>5, <2>1, <2>2, ContinuesIs, AlignedFrame
  <2>3. CASE /\ readers' = [readers EXCEPT ![conn] = UpdateNextSeq(readers[conn], rpc.seq)]
             /\ rpc.seq \in Nat /\ Position' = rpc.seq
    <3>1. readers[conn] \in Readers
      BY <1>5, ContinuesIs, ReaderIs
    <3>2. readers'[id].nextSeq = rpc.seq /\ readers'[id].buffer = << >> /\ loops'[id].hand = << >>
      BY <1>5, <2>1, <2>3, <3>1, ContinuesIs DEF UpdateNextSeq, Readers
    <3>3. QED
      BY <2>3, <3>2 DEF Start, From
  <2>4. QED
    BY <1>5, <2>2, <2>3, ContinuesIs
<1>6. CASE ~CreateReader /\ ~Crash /\ ~LoopTakes(id) /\ ~LoopAppends(id) /\ ~RestartContinues
  <2>1. current' = current
    BY <1>6, CurrentSteps
  <2>2. loops'[id].hand = loops[id].hand
    BY <1>6, HandFrame
  <2>3. Position' = Position
    <3>1. ~\E x \in Streams : LoopAppends(x)
      BY <1>6, <2>1, AppendIs
    <3>2. QED
      BY <1>6, <3>1, PositionSteps
  <2>4. CASE HasReader(id) /\ readers'[id] = readers[id]
    BY <2>1, <2>2, <2>3, <2>4, AlignedFrame
  <2>5. CASE \E pk \in dataNet : HasReader(id) /\ RecvPacket(pk) /\ pk.id = id /\ readers'[id] = RecvData(readers[id], pk)
    <3>1. PICK pk \in dataNet : HasReader(id) /\ RecvPacket(pk) /\ pk.id = id /\ readers'[id] = RecvData(readers[id], pk)
      BY <2>5
    <3>2. Whole(pk) /\ Received(readers[id], From(id)) /\ WholeHeld(readers[id])
      BY <3>1, RecvPacketIs, ReaderIs
    <3>3. Received(readers'[id], From(id))
      BY <3>1, <3>2, RecvDataIs
    <3>4. /\ From(id) \in Nat /\ Start(id) \in Nat /\ Start(id) <= From(id)
          /\ loops'[id].hand = Bytes(Start(id), From(id))
      BY <2>2, <3>1, ReaderIs
    <3>5. PICK start \in Nat, from \in Nat : start = Start(id) /\ from = From(id)
      BY <3>4
    <3>6. Start(id)' = start
      BY <3>3, <3>4, <3>5, RunIs
    <3>7. QED
      BY <2>1, <2>3, <3>1, <3>5, <3>6 DEF Aligned
  <2>6. QED
    BY <1>6, <2>4, <2>5, ReaderSteps
<1>7. QED
  BY <1>1, <1>2, <1>3, <1>4, <1>5, <1>6

\* Only the loop of the current stream has bytes in hand.
LEMMA AppendingStep ==
  ASSUME IInv, Aligned, [Next]_vars, NEW id \in Streams, loops'[id].at = "appending"
  PROVE  id = current'
<1> USE ServiceTypes
<1>1. CASE LoopTakes(id)
  BY <1>1 DEF LoopTakes
<1>2. CASE LoopAppends(id)
  BY <1>2 DEF LoopAppends
<1>3. CASE Crash
  BY <1>3 DEF Crash, NoLoop
<1>4. CASE ~LoopTakes(id) /\ ~LoopAppends(id) /\ ~Crash
  <2>1. HasReader(id)'
    BY ServiceStep DEF Service
  <2>2. loops[id].at = "appending"
    BY <1>4, <2>1, HandFrame
  <2>3. id = current /\ ~NoneAppending
    BY <2>2 DEF Aligned, NoneAppending
  <2>4. CASE CreateReader
    <3>1. restart.at = "create"
      BY <2>4 DEF CreateReader
    <3>2. QED
      BY <2>3, <3>1 DEF Aligned
  <2>5. QED
    BY <1>4, <2>3, <2>4, CurrentSteps
<1>5. QED
  BY <1>1, <1>2, <1>3, <1>4

LEMMA RestartSteps ==
  ASSUME IInv, [Next]_vars, restart'.at = "create"
  PROVE  StatFile \/ (restart' = restart /\ conn' = conn /\ ~CreateReader /\ ~RestartContinues /\ ~RestartDone /\ ~Crash)
<1>1. CASE Reconnect \/ CreateReader \/ RestartStops \/ RestartContinues \/ RestartDone \/ Crash
  BY <1>1, Facts DEF Reconnect, CreateReader, RestartStops, RestartContinues, RestartDone, Crash, Idle
<1>2. CASE ~(Reconnect \/ CreateReader \/ RestartStops \/ RestartContinues \/ RestartDone \/ Crash)
  BY <1>2 DEF Next, ApplicationRuns, ReadLoopRuns, RecvAckEnds, SenderRuns, SendPacket, RecvAck,
      HandleConnect, HandlePrepare, DisconnectOld, ConnectNew, ConnectConsume, ConnectFails, Connected, HandleStart,
      Loop, LoopTakes, LoopAppends, LoopSuperseded, LoopEnds, RecvPacket, RestartStreaming,
      Drop, FlushCache, vars, elsewhere, netVars
<1>3. QED
  BY <1>1, <1>2

\* Nothing is sent over a connection before the job manager serves it.
LEMMA NothingSent ==
  ASSUME IInv, [Next]_vars, restart.at \in {"stat", "create"}
  PROVE  dataNet' \subseteq dataNet
<1>1. CASE SendPacket
  <2>1. sender.at = "sending" /\ dataNet' = IF up /\ sender.pk.id = conn THEN dataNet \cup {sender.pk} ELSE dataNet
    BY <1>1, SendPacketIs DEF SendPacket
  <2>2. sender.pk.id <= sm.streamId /\ sender.pk \in Sent
    BY <2>1 DEF IInv, Corked, Sent
  <2>3. sender.pk.id \in Streams
    BY <2>2, WholeIs DEF IInv, Contents
  <2>4. sm.streamId <= jm.id /\ jm.id < conn
    <3>1. sm.streamId \in 0 .. (IF jm.step = "idle" THEN jm.id ELSE jm.id - 1)
      BY DEF IInv, Turns
    <3>2. jm.id < conn
      BY DEF IInv, Asked
    <3>3. QED
      BY <3>1, <3>2, Facts
  <2>5. sender.pk.id /= conn
    BY <2>2, <2>3, <2>4, Facts DEF Streams
  <2>6. QED
    BY <2>1, <2>5
<1>2. CASE ~SendPacket
  BY <1>2 DEF Next, ApplicationRuns, ReadLoopRuns, RecvAckEnds, SenderRuns, RecvAck,
      HandleConnect, HandlePrepare, DisconnectOld, ConnectNew, ConnectConsume, ConnectFails, Connected, HandleStart,
      Loop, LoopTakes, LoopAppends, LoopSuperseded, LoopEnds, RecvPacket, Reconnect, RestartStreaming, StatFile,
      CreateReader, RestartStops, RestartContinues, RestartDone,
      Drop, FlushCache, Crash, vars, elsewhere, netVars
<1>3. QED
  BY <1>1, <1>2

\* The position that was read stays what it was until the reader is made.
LEMMA StatStep ==
  ASSUME IInv, OldLoop \in {"settles", "pauses"}, Aligned, [Next]_vars, restart'.at = "create"
  PROVE  restart'.seq = Position' /\ NoneAppending' /\ (OldLoop = "settles" => Settled')
<1> USE ServiceTypes
<1>1. CASE StatFile
  <2>1. restart' = [at |-> "create", seq |-> Position] /\ Position' = Position
        /\ UNCHANGED <<dataNet, loops, readers, current>>
    BY <1>1 DEF StatFile, fileVars, Position, netVars, loopVars
  <2>2. NoneAppending /\ (OldLoop = "settles" => Settled)
    BY <1>1 DEF StatFile, Settled
  <2>3. restart'.seq = Position'
    BY <2>1
  <2>4. NoneAppending' /\ (OldLoop = "settles" => Settled')
    BY <2>1, <2>2 DEF NoneAppending, Settled
  <2>5. QED
    BY <2>3, <2>4
<1>2. CASE restart' = restart /\ conn' = conn /\ ~CreateReader /\ ~RestartContinues /\ ~RestartDone /\ ~Crash
  <2>1. restart.at = "create" /\ restart.seq = Position /\ NoneAppending /\ (OldLoop = "settles" => Settled)
    BY <1>2 DEF Aligned
  <2>2. \A id \in Streams : ~LoopAppends(id)
    BY <2>1 DEF NoneAppending, LoopAppends
  <2>3. \A id \in Streams : ~LoopTakes(id)
    <3>1. CASE OldLoop = "pauses"
      BY <2>1, <3>1 DEF LoopTakes
    <3>2. CASE OldLoop = "settles"
      BY <2>1, <3>2 DEF Settled, LoopTakes, ReadsBytes, Readable
    <3>3. QED
      BY <3>1, <3>2
  <2>4. Position' = Position
    BY <1>2, <2>2, PositionSteps
  <2>5. ASSUME NEW id \in Streams, loops'[id].at /= "none"
        PROVE  HasReader(id)' /\ loops'[id].at = loops[id].at
    <3>1. HasReader(id)'
      BY <2>5, ServiceStep DEF Service
    <3>2. QED
      BY <1>2, <2>2, <2>3, <3>1, HandFrame
  <2>6. NoneAppending'
    BY <2>1, <2>5 DEF NoneAppending
  <2>7. CASE OldLoop = "settles"
    <3>1. dataNet = {} /\ dataNet' = {}
      BY <2>1, <2>7, NothingSent DEF Settled
    <3>2. current' = current
      BY <1>2, CurrentSteps
    <3>3. ASSUME NEW id \in Streams, loops'[id].at = "reading", current' = id
          PROVE  ~Readable(readers'[id])
      <4>1. HasReader(id)' /\ loops[id].at = "reading" /\ current = id
        BY <2>5, <3>2, <3>3
      <4>2. ~Readable(readers[id])
        BY <2>1, <2>7, <4>1 DEF Settled
      <4>3. readers'[id] = readers[id]
        BY <1>2, <2>3, <3>1, <4>1, ReaderSteps
      <4>4. QED
        BY <4>2, <4>3
    <3>4. QED
      BY <2>1, <2>4, <2>6, <3>1, <3>3, <1>2 DEF Settled, NoneAppending
  <2>8. QED
    BY <1>2, <2>1, <2>4, <2>6, <2>7
<1>3. QED
  BY <1>1, <1>2, RestartSteps

LEMMA AlignedStep ==
  ASSUME IInv, OldLoop \in {"settles", "pauses"}, Aligned, [Next]_vars
  PROVE  Aligned'
<1>1. ASSUME NEW id \in Streams
      PROVE  /\ loops'[id].at = "appending" => id = current'
             /\ id = current' /\ HasReader(id)' => Start(id)' = Position'
  BY AppendingStep, StartStep
<1>2. QED
  BY <1>1, StatStep DEF Aligned

LEMMA AppendsBelow ==
  ASSUME IInv, Aligned, Below, NEW x \in Streams, LoopAppends(x)
  PROVE  Below'
<1> DEFINE hand == loops[x].hand
<1>1. /\ hand = Bytes(Position, From(x)) /\ From(x) \in Nat /\ Position <= From(x)
      /\ file' = file \o hand /\ totalGap' = totalGap /\ flushed' = flushed
      /\ Len(hand) = From(x) - Position /\ Position' = From(x)
  BY AppendIs
<1>2. file \in Seq(Nat) /\ Len(file) \in Nat /\ Position \in Nat /\ flushed.size \in 0 .. Len(file) /\ flushed.gap \in Nat
  BY PositionIs DEF IInv, TypeOK, FileTypes
<1>3. hand \in Seq(Nat)
  BY ServiceTypes DEF LoopStates
<1> HIDE DEF hand
<1>4. PICK pos \in Nat, from \in Nat, len \in Nat, n \in Nat :
        pos = Position /\ from = From(x) /\ len = Len(file) /\ n = Len(hand)
  <2>1. Len(hand) \in Nat
    BY <1>3
  <2>2. QED
    BY <1>1, <1>2, <2>1, Zenon
<1>5. n = from - pos /\ pos <= from /\ hand = Bytes(pos, from)
  BY <1>1, <1>4
<1>6. \A i \in 1 .. n : hand[i] = pos + i - 1
  <2>1. pos \in Int /\ from \in Int /\ pos <= from
    BY <1>5
  <2>2. \A i \in 1 .. from - pos : Bytes(pos, from)[i] = pos + i - 1
    BY <2>1, BytesIsSeq
  <2>3. QED
    BY <1>5, <2>2, Zenon
<1>7. /\ Len(file') = len + n
      /\ \A i \in 1 .. len + n : file'[i] = IF i <= len THEN file[i] ELSE hand[i - len]
  BY <1>1, <1>2, <1>3, <1>4, ConcatProperties
<1>8. \A i \in 1 .. len : file[i] \in Nat /\ file[i] < pos /\ file'[i] = file[i]
  <2>1. \A i \in 1 .. len : file[i] \in Nat /\ file[i] < pos
    BY <1>2, <1>4 DEF Below
  <2>2. QED
    BY <1>7, <2>1
<1>9. ASSUME NEW i \in 1 .. len + n, i > len
      PROVE  file'[i] = pos + (i - len) - 1
  <2>1. i - len \in 1 .. n
    BY <1>9
  <2>2. hand[i - len] = pos + (i - len) - 1
    BY <1>6, <2>1
  <2>3. QED
    BY <1>7, <1>9, <2>2
<1>10. \A i \in 1 .. Len(file') : file'[i] < Position'
  <2>1. ASSUME NEW i \in 1 .. len + n
        PROVE  file'[i] < from
    <3>1. CASE i <= len
      BY <1>5, <1>8, <3>1
    <3>2. CASE i > len
      BY <1>5, <1>9, <3>2
    <3>3. QED
      BY <3>1, <3>2
  <2>2. QED
    BY <1>1, <1>4, <1>7, <2>1
<1>11. FileInOrder'
  <2>1. ASSUME NEW i \in 1 .. (len + n) - 1
        PROVE  file'[i] < file'[i + 1]
    <3>1. i \in 1 .. len + n /\ i + 1 \in 1 .. len + n
      OBVIOUS
    <3>2. CASE i + 1 <= len
      <4>1. i \in 1 .. len - 1 /\ i \in 1 .. len /\ i + 1 \in 1 .. len
        BY <3>2
      <4>2. file[i] < file[i + 1]
        BY <1>4, <4>1 DEF Below, FileInOrder
      <4>3. QED
        BY <1>8, <4>1, <4>2
    <3>3. CASE i = len
      <4>1. i \in 1 .. len /\ i + 1 > len
        BY <3>3
      <4>2. file'[i + 1] = pos + ((i + 1) - len) - 1
        BY <1>9, <3>1, <4>1
      <4>3. file'[i] = file[i] /\ file[i] < pos /\ file[i] \in Nat
        BY <1>8, <4>1
      <4>4. QED
        BY <3>3, <4>2, <4>3
    <3>4. CASE i > len
      <4>1. file'[i] = pos + (i - len) - 1
        BY <1>9, <3>1, <3>4
      <4>2. file'[i + 1] = pos + ((i + 1) - len) - 1
        BY <1>9, <3>1, <3>4
      <4>3. QED
        BY <4>1, <4>2
    <3>5. QED
      BY <3>2, <3>3, <3>4
  <2>2. QED
    BY <1>7, <2>1 DEF FileInOrder
<1>12. \A i \in 1 .. flushed'.size : file'[i] < flushed'.size + flushed'.gap
  <2>1. \A i \in 1 .. flushed.size : i \in 1 .. len /\ file[i] < flushed.size + flushed.gap
    BY <1>2, <1>4 DEF Below
  <2>2. QED
    BY <1>1, <1>8, <2>1
<1>13. QED
  BY <1>10, <1>11, <1>12 DEF Below

LEMMA CrashBelow ==
  ASSUME IInv, Below, Crash
  PROVE  Below'
<1>1. file' = SubSeq(file, 1, flushed.size) /\ totalGap' = flushed.gap /\ flushed' = flushed
  BY DEF Crash
<1>2. file \in Seq(Nat) /\ Len(file) \in Nat /\ flushed.size \in 0 .. Len(file) /\ flushed.gap \in Nat
  BY PositionIs DEF IInv, TypeOK, FileTypes
<1>3. PICK size \in Nat, gap \in Nat, len \in Nat : size = flushed.size /\ gap = flushed.gap /\ len = Len(file) /\ size <= len
  BY <1>2
<1>4. \A i \in 1 .. size : file[i] \in Nat /\ file[i] < size + gap
  BY <1>2, <1>3 DEF Below
<1>5. Len(file') = size /\ \A i \in 1 .. size : file'[i] = file[i]
  <2>1. \A i \in 1 .. size : file[i] \in Nat
    BY <1>4
  <2>2. file' = SubSeq(file, 1, size) /\ 1 \in Int /\ size \in Int
    BY <1>1, <1>3
  <2>3. /\ Len(file') = IF 1 <= size THEN size - 1 + 1 ELSE 0
        /\ \A i \in 1 .. size - 1 + 1 : file'[i] = file[1 + i - 1]
    BY <2>1, <2>2, SubSeqProperties
  <2>4. QED
    BY <2>3
<1>6. Position' = size + gap
  BY <1>1, <1>3, <1>5 DEF Position
<1>7. FileInOrder'
  <2>1. ASSUME NEW i \in 1 .. size - 1
        PROVE  file'[i] < file'[i + 1]
    <3>1. i \in 1 .. size /\ i + 1 \in 1 .. size /\ i \in 1 .. len - 1
      BY <1>3
    <3>2. file[i] < file[i + 1]
      BY <1>3, <3>1 DEF Below, FileInOrder
    <3>3. QED
      BY <1>5, <3>1, <3>2
  <2>2. QED
    BY <1>5, <2>1 DEF FileInOrder
<1>8. \A i \in 1 .. Len(file') : file'[i] < Position'
  BY <1>4, <1>5, <1>6
<1>9. \A i \in 1 .. flushed'.size : file'[i] < flushed'.size + flushed'.gap
  BY <1>1, <1>3, <1>4, <1>5
<1>10. QED
  BY <1>7, <1>8, <1>9 DEF Below

LEMMA BelowStep ==
  ASSUME IInv, Aligned, Below, [Next]_vars
  PROVE  Below'
<1>1. CASE UNCHANGED <<file, totalGap, flushed>>
  BY <1>1 DEF Below, Position, FileInOrder
<1>2. CASE UNCHANGED <<file, totalGap>> /\ flushed' = [size |-> Len(file), gap |-> totalGap]
  <2>1. flushed'.size = Len(file) /\ flushed'.gap = totalGap
    BY <1>2
  <2>2. QED
    BY <1>2, <2>1 DEF Below, Position, FileInOrder
<1>3. CASE \E id \in Streams : LoopAppends(id)
  BY <1>3, AppendsBelow
<1>4. CASE /\ RestartContinues /\ rpc.seq > restart.seq /\ totalGap' = totalGap + (rpc.seq - restart.seq)
           /\ UNCHANGED <<file, flushed>>
  <2>1. Position \in Nat /\ Position' \in Nat /\ Position <= Position'
    BY <1>4, ContinuesIs
  <2>2. \A i \in 1 .. Len(file) : file[i] \in Nat /\ file[i] < Position
    BY PositionIs DEF Below
  <2>3. \A i \in 1 .. Len(file') : file'[i] < Position'
    BY <1>4, <2>1, <2>2
  <2>4. QED
    BY <1>4, <2>3 DEF Below, FileInOrder
<1>5. CASE Crash
  BY <1>5, CrashBelow
<1>6. QED
  BY <1>1, <1>2, <1>3, <1>4, <1>5, FileSteps

LEMMA InitFileInv == Init => FileInv
<1> SUFFICES ASSUME Init PROVE Aligned /\ Below
  BY DEF FileInv
<1>1. /\ restart.at = "idle" /\ current = 1 /\ file = << >> /\ totalGap = 0 /\ flushed.size = 0
      /\ readers = [id \in Streams |-> IF id = 1 THEN NewReaderWithSeq(1, 0) ELSE NoReader]
      /\ loops = [id \in Streams |-> IF id = 1 THEN [NoLoop EXCEPT !.at = "reading"] ELSE NoLoop]
  BY DEF Init, Idle
<1>2. \A id \in Streams : loops[id].at /= "appending" /\ loops[id].hand = << >>
  BY <1>1 DEF NoLoop
<1>3. \A id \in Streams : HasReader(id) => id = 1 /\ readers[id].nextSeq = 0 /\ readers[id].buffer = << >>
  BY <1>1 DEF HasReader, NoReader, NewReaderWithSeq
<1>4. Position = 0
  BY <1>1 DEF Position
<1>5. \A id \in Streams : HasReader(id) => Start(id) = 0
  BY <1>2, <1>3 DEF Start, From
<1>6. Aligned
  BY <1>1, <1>2, <1>4, <1>5 DEF Aligned
<1>7. Below
  BY <1>1 DEF Below, FileInOrder
<1>8. QED
  BY <1>6, <1>7

LEMMA FileInvStep == IInv /\ FileInv /\ [Next]_vars => FileInv'
<1> SUFFICES ASSUME IInv, FileInv, [Next]_vars, OldLoop /= "races" PROVE Aligned' /\ Below'
  BY DEF FileInv
<1>1. OldLoop \in {"settles", "pauses"} /\ Aligned /\ Below
  BY DurableAssumption DEF FileInv
<1>2. QED
  BY <1>1, AlignedStep, BelowStep

LEMMA FileInvHolds == Spec => []FileInv
<1>1. Init => IInv /\ FileInv
  BY InitIInv, InitFileInv
<1>2. IInv /\ FileInv /\ [Next]_vars => (IInv /\ FileInv)'
  BY StepIInv, FileInvStep
<1>3. QED
  BY <1>1, <1>2, PTL DEF Spec

(* Whatever is lost, resent or truncated, the file holds the output in its   *)
(* order, each byte at most once, as long as the output loop of the old      *)
(* connection appends nothing between restartStreaming's Stat of the file    *)
(* and its Set of jobStreamIds.                                              *)
THEOREM FileOrdered == OldLoop /= "races" => (Spec => []FileInOrder)
<1> SUFFICES ASSUME OldLoop /= "races" PROVE Spec => []FileInOrder
  OBVIOUS
<1>1. FileInv => FileInOrder
  BY DEF FileInv, Below
<1>2. QED
  BY <1>1, FileInvHolds, PTL

-----------------------------------------------------------------------------
(* Nothing is let go of before the main server has it, when a connection    *)
(* lasts until restartStreaming is over and the old output loop has settled *)
(* by then.                                                                 *)

Kept == Elements(file) \cup OnTheWay \cup dropped \cup discarded

\* Every byte before this position is the main server's, or was lost.
Upto(pos) == 0 .. pos - 1 \subseteq Kept

\* The packets that can still arrive.
Travelling == dataNet \cup {pk \in {sender.pk} : sender.at = "sending" /\ up /\ pk.id = conn}

\* A stream has no reader before restartStreaming creates it.
Fresh ==
  \A id \in Streams :
    HasReader(id) => id <= conn /\ (id = conn => restart.at \notin {"stat", "create"})

\* Nothing comes between the steps of restartStreaming.
Undisturbed ==
  /\ restart.at /= "idle" => up
  /\ rpc.at /= "failed"
  /\ up /\ restart.at \notin {"stat", "create"} => current = conn
  /\ up /\ jm.step /= "idle" /\ jm.id = conn => rpc.at = "prepare"
  /\ rpc.at = "refused" => sm.streamId < conn

\* Whatever arrives is for the current stream, whose reader is known until its end.
Served ==
  /\ restart.at \in {"prepare", "start"} \/ (up /\ sm.streamId = conn) =>
       conn \in known \/ EndReached
  /\ \A pk \in dataNet : pk.id = current
  /\ \A pk \in Sent : pk.seq <= total

\* What the two sides tell each other to have.
Claims ==
  /\ Upto(head)
  /\ \A id \in Streams : HasReader(id) => Upto(readers[id].nextSeq)
  /\ \A ack \in ackNet : Upto(ack.seq)
  /\ restart.at \in {"create", "prepare"} => Upto(restart.seq)
  /\ rpc.at \in {"prepare", "prepared"} => Upto(rpc.seq)
  /\ jm.step /= "idle" => Upto(jm.seq)
  /\ \A pk \in Travelling : pk.id \in known \/ Upto(pk.seq)

LockIs ==
  lockHeld.by \in P!Connecting => lockHeld.clientSeq = jm.seq /\ lockHeld.headPos <= head

OnDisk == {file[i] : i \in 1 .. flushed.size}

DiskPosition == flushed.size + flushed.gap

\* The position counts what is in the file or lost, on disk too.
Exact == PositionIsExact /\ 0 .. DiskPosition - 1 \subseteq OnDisk \cup Lost

\* What the position does not count when the end is recorded is lost.
Ended == streamDone /= "no" => EndReached /\ Position .. total - 1 \subseteq Lost

\* The old loop has settled before the file's Stat, and a connection lasts until
\* restartStreaming is over.
Calm == OldLoop = "settles" /\ RestartsFinish

KeepInv ==
  Calm => Fresh /\ Undisturbed /\ Served /\ Claims /\ LockIs /\ Exact /\ Ended

-----------------------------------------------------------------------------

\* The steps that change where the connection and restartStreaming are.
LEMMA LinkSteps ==
  ASSUME [Next]_vars
  PROVE  \/ UNCHANGED <<up, conn, restart, rpc, jm, current>>
         \/ HandlePrepare \/ DisconnectOld \/ ConnectNew \/ ConnectFails \/ Connected \/ HandleStart
         \/ Reconnect \/ StatFile \/ CreateReader \/ RestartStops \/ RestartContinues \/ RestartDone
         \/ Drop \/ Crash
BY DEF Next, ApplicationRuns, ReadLoopRuns, RecvAckEnds, SenderRuns, SendPacket, RecvAck, HandleConnect,
      ConnectConsume, Loop, LoopTakes, LoopAppends, LoopSuperseded, LoopEnds, RecvPacket, RestartStreaming,
      FlushCache, vars, elsewhere, netVars, jmVars, loopVars

LEMMA FreshStep == IInv /\ Fresh /\ [Next]_vars => Fresh'
<1> SUFFICES ASSUME IInv, Fresh, [Next]_vars, NEW id \in Streams, HasReader(id)'
             PROVE  id <= conn' /\ (id = conn' => restart'.at \notin {"stat", "create"})
  BY DEF Fresh
<1> id \in Nat /\ conn \in Nat /\ restart = [at |-> restart.at, seq |-> restart.seq]
  BY Facts DEF Streams
<1>1. HasReader(id) \/ (id = conn /\ CreateReader)
  BY ReaderSteps, TakesIs
<1>2. CASE CreateReader
  <2>1. conn' = conn /\ restart'.at = "prepare"
    BY <1>2 DEF CreateReader, netVars
  <2>2. QED
    BY <1>1, <2>1 DEF Fresh
<1>3. CASE Reconnect
  <2>1. conn' = conn + 1 /\ ~CreateReader
    BY <1>3 DEF Reconnect, CreateReader, Idle
  <2>2. QED
    BY <1>1, <2>1 DEF Fresh
<1>4. CASE ~CreateReader /\ ~Reconnect
  <2>1. CASE StatFile \/ RestartStops \/ RestartContinues \/ RestartDone \/ Crash
    <3>1. conn' = conn /\ (restart'.at \in {"stat", "create"} => restart.at \in {"stat", "create"})
      BY <2>1 DEF StatFile, RestartStops, RestartContinues, RestartDone, Crash, Idle, netVars
    <3>2. QED
      BY <1>1, <1>4, <3>1 DEF Fresh
  <2>2. CASE restart' = restart /\ conn' = conn
    BY <1>1, <1>4, <2>2 DEF Fresh
  <2>3. QED
    BY <1>4, <2>1, <2>2, LinkSteps DEF HandlePrepare, DisconnectOld, ConnectNew, ConnectFails, Connected, HandleStart,
      Drop, netVars
<1>5. QED
  BY <1>2, <1>3, <1>4

\* What the job manager connects to changes when it is connected.
LEMMA StreamIdSteps ==
  ASSUME IInv, [Next]_vars
  PROVE  sm'.streamId = sm.streamId \/ (Connected /\ sm'.streamId = jm.id /\ jm.step /= "idle")
<1>1. CASE ApplicationRuns \/ ReadLoopRuns \/ RecvAckEnds
  BY <1>1, QuietSteps DEF Quiet
<1>2. CASE SenderRuns
  BY <1>2, SenderIs
<1>3. CASE \E ack \in ackNet : RecvAck(ack)
  BY <1>3, AckIs
<1>4. CASE DisconnectOld
  BY <1>4, DisconnectIs DEF Quiet
<1>5. CASE HandleStart
  BY <1>5, HandleStartIs
<1>6. CASE Connected
  BY <1>6, ConnectedIs DEF IInv, Turns
<1>7. CASE SendPacket \/ ConnectNew \/ ConnectConsume \/ ConnectFails
  BY <1>7, SendPacketIs, ConnectNewIs, ConnectConsumeIs, ConnectFailsIs
<1>8. CASE \/ HandlePrepare \/ (\E pk \in dataNet : RecvPacket(pk)) \/ (\E id \in Streams : Loop(id)) \/ Reconnect
           \/ RestartStreaming \/ Drop \/ FlushCache \/ Crash \/ UNCHANGED vars
  <2>1. sm' = sm
    BY <1>8 DEF HandlePrepare, RecvPacket, Loop, LoopTakes, LoopAppends, LoopSuperseded, LoopEnds, Reconnect,
      RestartStreaming, StatFile, CreateReader, RestartStops, RestartContinues, RestartDone, Drop, FlushCache, Crash, vars,
      smVars
  <2>2. QED
    BY <2>1
<1>9. QED
  BY <1>1, <1>2, <1>3, <1>4, <1>5, <1>6, <1>7, <1>8 DEF Next, HandleConnect

LEMMA UndisturbedStep ==
  ASSUME IInv, Undisturbed, RestartsFinish, [Next]_vars
  PROVE  Undisturbed'
<1> USE Facts
<1>1. CASE UNCHANGED <<up, conn, restart, rpc, jm, current>>
  <2>1. sm'.streamId = sm.streamId
    BY <1>1, StreamIdSteps DEF Connected, JmTypes
  <2>2. QED
    BY <1>1, <2>1 DEF Undisturbed
<1>2. CASE HandlePrepare
  <2>1. /\ UNCHANGED <<up, conn, restart, current, sm>> /\ rpc.at = "prepare" /\ rpc'.at \in {"prepare", "streamDone"}
        /\ jm' = jm \/ (rpc' = rpc /\ jm'.step = "disconnect")
        /\ jm.step = "idle"
    BY <1>2 DEF HandlePrepare, netVars, loopVars, smVars, JmTypes
  <2>2. QED
    BY <2>1 DEF Undisturbed
<1>3. CASE DisconnectOld \/ ConnectNew
  <2>1. /\ UNCHANGED <<up, conn, restart, current, rpc>> /\ jm.step /= "idle" /\ jm'.id = jm.id
    BY <1>3 DEF DisconnectOld, ConnectNew, netVars, loopVars, JmTypes
  <2>2. sm'.streamId = sm.streamId
    BY <1>3, DisconnectIs, ConnectNewIs DEF Quiet
  <2>3. QED
    BY <2>1, <2>2 DEF Undisturbed
<1>4. CASE ConnectFails
  <2>1. /\ UNCHANGED <<up, conn, restart, current, sm>> /\ jm.step /= "idle" /\ jm'.step = "idle"
        /\ rpc' = rpc \/ (rpc'.at = "refused" /\ jm.id = conn)
    BY <1>4 DEF ConnectFails, SM!ConnectRefused, Answer, netVars, loopVars, JmTypes, smVars, IInv, Turns, P!Connecting
  <2>2. sm.streamId \in 0 .. jm.id - 1
    BY <2>1 DEF IInv, Turns
  <2>3. QED
    BY <2>1, <2>2 DEF Undisturbed
<1>5. CASE Connected
  <2>1. /\ UNCHANGED <<up, conn, restart, current>> /\ jm'.step = "idle"
        /\ rpc' = rpc \/ rpc'.at = "prepared"
    BY <1>5 DEF Connected, Answer, netVars, loopVars, JmTypes
  <2>2. sm'.streamId = jm.id /\ jm.step /= "idle" /\ jm.id <= conn
    BY <1>5, ConnectedIs DEF IInv, Turns
  <2>3. rpc.at = "refused" => restart.at = "prepare" /\ up
    BY DEF IInv, Asked, Undisturbed, LinkTypes, TypeOK
  <2>4. rpc'.at = "refused" => jm.id < conn
    BY <2>1, <2>2, <2>3 DEF Undisturbed
  <2>5. QED
    BY <2>1, <2>2, <2>4 DEF Undisturbed
<1>6. CASE HandleStart
  <2>1. /\ UNCHANGED <<up, conn, restart, current>> /\ jm'.step = "idle" /\ rpc'.at = "started"
    BY <1>6 DEF HandleStart, netVars, loopVars, JmTypes
  <2>2. QED
    BY <2>1 DEF Undisturbed
<1>7. CASE Reconnect
  <2>1. /\ UNCHANGED <<rpc, jm, current, sm>> /\ up' /\ conn' = conn + 1 /\ restart'.at = "stat"
        /\ restart.at = "idle"
    BY <1>7 DEF Reconnect, Idle, smVars, jmVars, loopVars
  <2>2. jm.id <= conn /\ rpc.at = "none"
    BY <2>1 DEF IInv, Turns, Asked
  <2>3. QED
    BY <2>1, <2>2 DEF Undisturbed
<1>8. CASE StatFile \/ RestartContinues \/ RestartDone \/ RestartStops
  <2>1. /\ UNCHANGED <<up, conn, jm, current, sm>> /\ restart.at /= "idle"
        /\ rpc' = rpc \/ rpc'.at \in {"none", "start"}
        /\ rpc'.at = "prepare" <=> rpc.at = "prepare"
        /\ restart'.at \notin {"stat", "create"} => restart.at \notin {"stat", "create"}
    BY <1>8 DEF StatFile, RestartContinues, RestartDone, RestartStops, Idle, NoRpc, smVars, jmVars, loopVars, netVars
  <2>2. QED
    BY <2>1 DEF Undisturbed
<1>9. CASE CreateReader
  <2>1. /\ UNCHANGED <<up, conn, jm, sm>> /\ restart.at = "create" /\ current' = conn
        /\ rpc'.at = IF up THEN "prepare" ELSE "failed"
    BY <1>9 DEF CreateReader, smVars, jmVars, netVars
  <2>2. up
    BY <2>1 DEF Undisturbed
  <2>3. QED
    BY <2>1, <2>2 DEF Undisturbed
<1>10. CASE Drop \/ Crash
  <2>1. /\ UNCHANGED <<conn, jm, sm>> /\ up' = FALSE /\ restart'.at = "idle" /\ (rpc' = rpc \/ rpc'.at = "none")
    BY <1>10 DEF Drop, Crash, Idle, NoRpc, smVars, jmVars
  <2>2. QED
    BY <2>1 DEF Undisturbed
<1>11. QED
  BY <1>1, <1>2, <1>3, <1>4, <1>5, <1>6, <1>7, <1>8, <1>9, <1>10, LinkSteps

-----------------------------------------------------------------------------
(* What is kept stays kept.                                                *)

LEMMA ElementsBytes ==
  ASSUME NEW a \in Nat, NEW b \in Nat, a <= b
  PROVE  Elements(Bytes(a, b)) = a .. b - 1
<1>1. Len(Bytes(a, b)) = b - a /\ \A i \in 1 .. b - a : Bytes(a, b)[i] = a + i - 1
  BY BytesIsSeq
<1>2. Elements(Bytes(a, b)) = {a + i - 1 : i \in 1 .. b - a}
  BY <1>1 DEF Elements
<1>3. ASSUME NEW x \in a .. b - 1
      PROVE  x \in {a + i - 1 : i \in 1 .. b - a}
  <2>1. x - a + 1 \in 1 .. b - a /\ a + (x - a + 1) - 1 = x
    OBVIOUS
  <2>2. QED
    BY <2>1
<1>4. QED
  BY <1>2, <1>3

\* Who holds a byte that is on its way.
LEMMA WayIs ==
  \A x : x \in OnTheWay <=>
    \E id \in Streams :
      \/ x \in Elements(loops[id].hand)
      \/ readers[id] /= NoReader /\ x \in Elements(readers[id].buffer)
BY DEF OnTheWay

LEMMA WayIsNext ==
  \A x : x \in OnTheWay' <=>
    \E id \in Streams :
      \/ x \in Elements(loops'[id].hand)
      \/ readers'[id] /= NoReader /\ x \in Elements(readers'[id].buffer)
BY DEF OnTheWay, Elements

LEMMA NoReaderIs ==
  ASSUME IInv, NEW id \in Streams
  PROVE  readers[id] /= NoReader <=> HasReader(id)
<1>1. NoReader.closed = TRUE
  BY DEF NoReader
<1>2. CASE readers[id] \in Readers
  <2>1. readers[id].closed = FALSE
    BY <1>2 DEF Readers
  <2>2. QED
    BY <1>1, <2>1 DEF HasReader
<1>3. CASE readers[id] = NoReader
  BY <1>1, <1>3 DEF HasReader
<1>4. QED
  BY <1>2, <1>3, ServiceTypes

\* The steps that change who holds which bytes.
LEMMA HoldSteps ==
  ASSUME IInv, [Next]_vars
  PROVE  \/ UNCHANGED <<readers, loops, current, file, discarded>>
         \/ \E pk \in dataNet : RecvPacket(pk)
         \/ \E id \in Streams : Loop(id)
         \/ CreateReader \/ RestartStops \/ RestartContinues \/ RestartDone \/ Crash
<1>1. CASE \/ ApplicationRuns \/ ReadLoopRuns \/ RecvAckEnds \/ SenderRuns \/ SendPacket
           \/ (\E ack \in ackNet : RecvAck(ack)) \/ HandleConnect
  BY <1>1 DEF ApplicationRuns, ReadLoopRuns, RecvAckEnds, SenderRuns, SendPacket, RecvAck, HandleConnect,
      HandlePrepare, DisconnectOld, ConnectNew, ConnectConsume, ConnectFails, Connected, HandleStart,
      elsewhere, loopVars, fileVars, history
<1>2. CASE Reconnect \/ StatFile \/ Drop \/ FlushCache \/ UNCHANGED vars
  BY <1>2 DEF Reconnect, StatFile, Drop, FlushCache, vars, loopVars, fileVars, history
<1>3. QED
  BY <1>1, <1>2 DEF Next, RestartStreaming

LEMMA HistoryGrows ==
  ASSUME IInv, [Next]_vars
  PROVE  dropped \subseteq dropped' /\ discarded \subseteq discarded'
<1>1. CASE ReadLoopRuns \/ DisconnectOld \/ ConnectConsume
  BY <1>1 DEF ReadLoopRuns, DisconnectOld, ConnectConsume, Drops, elsewhere
<1>2. CASE ~(ReadLoopRuns \/ DisconnectOld \/ ConnectConsume)
  BY <1>2 DEF Next, ApplicationRuns, RecvAckEnds, SenderRuns, SendPacket, RecvAck, HandleConnect,
      HandlePrepare, ConnectNew, ConnectFails, Connected, HandleStart, Loop, LoopTakes, LoopAppends, LoopSuperseded,
      LoopEnds, CloseReader, RecvPacket, Reconnect, RestartStreaming, StatFile, CreateReader, RestartStops,
      RestartContinues, RestartDone, Drop, FlushCache, Crash, vars, elsewhere, history
<1>3. QED
  BY <1>1, <1>2

\* A step moves the bytes of a reader on: into another hand, the file or the history.
LEMMA Moves ==
  ASSUME IInv, Fresh, [Next]_vars, NEW id \in Streams
  PROVE  /\ \A x \in Elements(loops[id].hand) :
              x \in Elements(loops'[id].hand) \cup Elements(file') \cup discarded'
         /\ HasReader(id) =>
              \A x \in Elements(readers[id].buffer) :
                \/ x \in Elements(loops'[id].hand) /\ LoopTakes(id)
                \/ HasReader(id)' /\ x \in Elements(readers'[id].buffer)
                \/ x \in discarded'
<1> USE ServiceTypes
<1>1. CASE UNCHANGED <<readers, loops, current, file, discarded>>
  BY <1>1 DEF HasReader
<1>2. CASE \E pk \in dataNet : RecvPacket(pk)
  <2>1. PICK pk \in dataNet : RecvPacket(pk)
    BY <1>2
  <2>2. loops' = loops
    BY <2>1 DEF RecvPacket
  <2>3. CASE readers'[id] = readers[id]
    BY <2>2, <2>3 DEF HasReader
  <2>4. CASE HasReader(id) /\ pk.id = id /\ readers'[id] = RecvData(readers[id], pk)
    <3>1. Received(readers'[id], From(id)) /\ readers[id].nextSeq <= readers'[id].nextSeq
      BY <2>1, <2>4, RecvPacketIs, ReaderIs, RecvDataIs
    <3>2. /\ From(id) \in Nat /\ readers[id].nextSeq \in Nat /\ readers'[id].nextSeq \in Nat
          /\ From(id) <= readers[id].nextSeq
          /\ readers[id].buffer = Bytes(From(id), readers[id].nextSeq)
          /\ readers'[id].buffer = Bytes(From(id), readers'[id].nextSeq)
          /\ HasReader(id)'
      BY <2>4, <3>1, ReaderIs DEF Received, Readers, HasReader
    <3>3. Elements(readers[id].buffer) \subseteq Elements(readers'[id].buffer)
      <4>1. PICK from \in Nat, old \in Nat, new \in Nat :
              from = From(id) /\ old = readers[id].nextSeq /\ new = readers'[id].nextSeq /\ from <= old /\ old <= new
        BY <3>1, <3>2
      <4>2. Elements(Bytes(from, old)) = from .. old - 1 /\ Elements(Bytes(from, new)) = from .. new - 1
        BY <4>1, ElementsBytes
      <4>3. from .. old - 1 \subseteq from .. new - 1
        BY <4>1
      <4>4. QED
        BY <3>2, <4>1, <4>2, <4>3
    <3>4. QED
      BY <2>2, <3>2, <3>3
  <2>5. QED
    BY <2>1, <2>3, <2>4, RecvPacketIs
<1>3. CASE \E x \in Streams : LoopTakes(x)
  <2>1. PICK x \in Streams : LoopTakes(x)
    BY <1>3
  <2>2. /\ readers' = [readers EXCEPT ![x] = Read(readers[x], MaxWrite)]
        /\ loops' = [loops EXCEPT ![x] = [at |-> "appending", hand |-> Taken(readers[x], MaxWrite)]]
        /\ HasReader(x) /\ loops[x].hand = << >>
    BY <2>1, TakesIs
  <2>3. CASE id /= x
    BY <2>2, <2>3 DEF HasReader
  <2>4. CASE id = x
    <3>1. PICK k \in Nat :
            /\ From(id) + k <= readers[id].nextSeq
            /\ Taken(readers[id], MaxWrite) = Bytes(From(id), From(id) + k)
            /\ Received(Read(readers[id], MaxWrite), From(id) + k)
            /\ Read(readers[id], MaxWrite).nextSeq = readers[id].nextSeq
      BY <2>1, <2>4, TakesIs
    <3>2. From(id) \in Nat /\ readers[id].nextSeq \in Nat /\ readers[id].buffer = Bytes(From(id), readers[id].nextSeq)
      BY <2>2, <2>4, ReaderIs DEF Received, Readers
    <3>3. PICK from \in Nat, mid \in Nat, next \in Nat :
            from = From(id) /\ mid = From(id) + k /\ next = readers[id].nextSeq /\ from <= mid /\ mid <= next
      BY <3>1, <3>2
    <3>4. /\ Elements(Bytes(from, next)) = from .. next - 1 /\ Elements(Bytes(from, mid)) = from .. mid - 1
          /\ Elements(Bytes(mid, next)) = mid .. next - 1
      BY <3>3, ElementsBytes
    <3>5. /\ readers'[id].buffer = Bytes(mid, next) /\ loops'[id].hand = Bytes(from, mid)
          /\ readers[id].buffer = Bytes(from, next) /\ HasReader(id)'
      BY <2>2, <2>4, <3>1, <3>2, <3>3 DEF Received, Readers, HasReader
    <3>6. \A y \in from .. next - 1 : y \in from .. mid - 1 \/ y \in mid .. next - 1
      BY <3>3
    <3>7. Elements(loops[id].hand) = {}
      BY <2>2, <2>4 DEF Elements
    <3>8. QED
      BY <2>1, <2>4, <3>4, <3>5, <3>6, <3>7
  <2>5. QED
    BY <2>3, <2>4
<1>4. CASE \E x \in Streams : LoopAppends(x)
  <2>1. PICK x \in Streams : LoopAppends(x)
    BY <1>4
  <2>2. /\ file' = file \o loops[x].hand /\ readers' = readers
        /\ loops' = [loops EXCEPT ![x] = [at |-> "reading", hand |-> << >>]]
    BY <2>1 DEF LoopAppends
  <2>3. Elements(loops[x].hand) \subseteq Elements(file')
    <3>1. PICK s \in Seq(Nat), t \in Seq(Nat) : s = file /\ t = loops[x].hand
      BY PositionIs DEF LoopStates
    <3>2. Elements(t) \subseteq Elements(s \o t)
      <4>1. ASSUME NEW i \in 1 .. Len(t)
            PROVE  t[i] \in Elements(s \o t)
        <5>1. /\ Len(s) \in Nat /\ Len(t) \in Nat /\ Len(s \o t) = Len(s) + Len(t)
              /\ Len(s) + i \in 1 .. Len(s \o t)
          BY ConcatProperties
        <5>2. (s \o t)[Len(s) + i] = t[i]
          BY <5>1, ConcatProperties
        <5>3. QED
          BY <5>1, <5>2 DEF Elements
      <4>2. QED
        BY <4>1 DEF Elements
    <3>3. QED
      BY <2>2, <3>1, <3>2
  <2>4. CASE id = x
    BY <2>2, <2>3, <2>4 DEF HasReader
  <2>5. CASE id /= x
    BY <2>2, <2>5 DEF HasReader
  <2>6. QED
    BY <2>4, <2>5
<1>5. CASE \E x \in Streams : LoopSuperseded(x) \/ LoopEnds(x)
  <2>1. PICK x \in Streams : LoopSuperseded(x) \/ LoopEnds(x)
    BY <1>5
  <2>2. /\ loops[x].at = "reading" /\ readers' = [readers EXCEPT ![x] = NoReader]
        /\ loops' = [loops EXCEPT ![x] = NoLoop]
        /\ discarded' = discarded \cup Elements(readers[x].buffer)
    BY <2>1, ClosesIs
  <2>3. loops[x].hand = << >>
    BY <2>2 DEF IInv, Service
  <2>4. Elements(loops[x].hand) = {}
    BY <2>3 DEF Elements
  <2>5. QED
    BY <2>2, <2>4 DEF HasReader
<1>6. CASE CreateReader
  <2>1. /\ readers' = [readers EXCEPT ![conn] = NewReaderWithSeq(conn, restart.seq)] /\ loops' = loops
        /\ restart.at = "create"
    BY <1>6 DEF CreateReader
  <2>2. ~HasReader(conn)
    BY <2>1 DEF Fresh
  <2>3. QED
    BY <2>1, <2>2 DEF HasReader
<1>7. CASE RestartStops
  <2>1. /\ readers' = [readers EXCEPT ![conn] = NoReader] /\ loops' = loops
        /\ discarded' = discarded \cup Elements(readers[conn].buffer)
    BY <1>7 DEF RestartStops, CloseReader
  <2>2. QED
    BY <2>1 DEF HasReader
<1>8. CASE RestartContinues
  <2>1. /\ readers' \in {readers, [readers EXCEPT ![conn] = UpdateNextSeq(readers[conn], rpc.seq)]} /\ loops' = loops
        /\ restart.at = "prepare"
    BY <1>8 DEF RestartContinues
  <2>2. readers[conn].buffer = << >>
    BY <2>1 DEF IInv, Runs
  <2>3. Elements(readers[conn].buffer) = {}
    BY <2>2 DEF Elements
  <2>4. QED
    BY <2>1, <2>3 DEF HasReader
<1>9. CASE RestartDone
  <2>1. /\ loops' = [loops EXCEPT ![conn] = [NoLoop EXCEPT !.at = "reading"]] /\ readers' = readers
        /\ restart.at = "start"
    BY <1>9 DEF RestartDone
  <2>2. loops[conn].hand = << >>
    BY <2>1 DEF IInv, Service
  <2>3. Elements(loops[conn].hand) = {}
    BY <2>2 DEF Elements
  <2>4. QED
    BY <2>1, <2>3 DEF HasReader
<1>10. CASE Crash
  <2>1. OnTheWay \subseteq discarded'
    BY <1>10 DEF Crash
  <2>2. QED
    BY <2>1, WayIs, NoReaderIs
<1>11. QED
  BY <1>1, <1>2, <1>3, <1>4, <1>5, <1>6, <1>7, <1>8, <1>9, <1>10, HoldSteps DEF Loop

LEMMA FileGrows ==
  ASSUME IInv, [Next]_vars
  PROVE  Elements(file) \subseteq Elements(file') \cup discarded'
<1>1. CASE file' = file
  BY <1>1 DEF Elements
<1>2. CASE \E id \in Streams : file' = file \o loops[id].hand
  <2>1. PICK id \in Streams : file' = file \o loops[id].hand
    BY <1>2
  <2>2. PICK s \in Seq(Nat), t \in Seq(Nat) : s = file /\ t = loops[id].hand
    BY PositionIs, ServiceTypes DEF LoopStates
  <2>3. ASSUME NEW i \in 1 .. Len(s)
        PROVE  s[i] \in Elements(s \o t)
    <3>1. Len(s) \in Nat /\ Len(t) \in Nat /\ Len(s \o t) = Len(s) + Len(t) /\ i \in 1 .. Len(s \o t)
      BY ConcatProperties
    <3>2. (s \o t)[i] = s[i]
      BY <3>1, ConcatProperties
    <3>3. QED
      BY <3>1, <3>2 DEF Elements
  <2>4. QED
    BY <2>1, <2>2, <2>3 DEF Elements
<1>3. CASE Crash
  BY <1>3 DEF Crash
<1>4. QED
  BY <1>1, <1>2, <1>3, FileSteps

LEMMA KeptGrows ==
  ASSUME IInv, Fresh, [Next]_vars
  PROVE  Kept \subseteq Kept'
<1>1. Kept' = Elements(file') \cup OnTheWay' \cup dropped' \cup discarded'
  BY DEF Kept, Elements
<1>2. ASSUME NEW x \in OnTheWay
      PROVE  x \in Kept'
  <2>1. PICK id \in Streams :
          \/ x \in Elements(loops[id].hand)
          \/ readers[id] /= NoReader /\ x \in Elements(readers[id].buffer)
    BY <1>2, WayIs
  <2>2. CASE x \in Elements(loops[id].hand)
    <3>1. x \in Elements(loops'[id].hand) \cup Elements(file') \cup discarded'
      BY <2>2, Moves
    <3>2. QED
      BY <1>1, <3>1, WayIsNext
  <2>3. CASE HasReader(id) /\ x \in Elements(readers[id].buffer)
    <3>1. \/ x \in Elements(loops'[id].hand)
          \/ HasReader(id)' /\ x \in Elements(readers'[id].buffer)
          \/ x \in discarded'
      BY <2>3, Moves
    <3>2. HasReader(id)' => readers'[id] /= NoReader
      BY DEF HasReader, NoReader
    <3>3. QED
      BY <1>1, <3>1, <3>2, WayIsNext
  <2>4. QED
    BY <2>1, <2>2, <2>3, NoReaderIs
<1>3. QED
  BY <1>1, <1>2, HistoryGrows, FileGrows DEF Kept

\* What a reader that is no longer the current one holds is lost, when its loop runs.
LEMMA SupersededIs ==
  \A x : x \in Superseded <=>
    \E id \in Streams \ {current} : readers[id] /= NoReader /\ x \in Elements(readers[id].buffer)
BY DEF Superseded

LEMMA SupersededNext ==
  \A x : x \in Superseded' <=>
    \E id \in Streams \ {current'} : readers'[id] /= NoReader /\ x \in Elements(readers'[id].buffer)
BY DEF Superseded, Elements

LEMMA LostGrows ==
  ASSUME IInv, Fresh, [Next]_vars
  PROVE  Lost \subseteq Lost'
<1>1. Lost' = dropped' \cup discarded' \cup Superseded'
  BY DEF Lost
<1>2. ASSUME NEW x \in Superseded
      PROVE  x \in Lost'
  <2>1. PICK id \in Streams \ {current} : HasReader(id) /\ x \in Elements(readers[id].buffer)
    BY <1>2, SupersededIs, NoReaderIs
  <2>2. ~LoopTakes(id)
    BY <2>1 DEF LoopTakes
  <2>3. (HasReader(id)' /\ x \in Elements(readers'[id].buffer)) \/ x \in discarded'
    BY <2>1, <2>2, Moves
  <2>4. id /= current' \/ Crash
    <3>1. CASE CreateReader
      <4>1. current' = conn /\ restart.at = "create"
        BY <3>1 DEF CreateReader
      <4>2. QED
        BY <2>1, <4>1 DEF Fresh
    <3>2. QED
      BY <2>1, <3>1, CurrentSteps
  <2>5. HasReader(id)' => readers'[id] /= NoReader /\ ~Crash
    BY DEF HasReader, NoReader, Crash
  <2>6. QED
    BY <1>1, <2>3, <2>4, <2>5, SupersededNext
<1>3. QED
  BY <1>1, <1>2, HistoryGrows DEF Lost

\* What is kept is in the file or lost, or it is the current stream's, behind the
\* file's position.
LEMMA KeptIs ==
  ASSUME IInv, Aligned, NEW x \in Kept, x \notin Elements(file), x \notin Lost
  PROVE  /\ current \in Streams /\ HasReader(current)
         /\ x \in Position .. readers[current].nextSeq - 1
         /\ x \in Elements(loops[current].hand) \/ x \in Elements(readers[current].buffer)
<1>1. PICK id \in Streams :
        \/ x \in Elements(loops[id].hand)
        \/ readers[id] /= NoReader /\ x \in Elements(readers[id].buffer)
  BY WayIs DEF Kept, Lost
<1>2. CASE x \in Elements(loops[id].hand)
  <2>1. loops[id].hand /= << >>
    BY <1>2 DEF Elements
  <2>2. loops[id].at = "appending"
    BY <2>1 DEF IInv, Service
  <2>3. id = current /\ HasReader(id)
    BY <2>2 DEF IInv, Service, Aligned
  <2>4. Start(id) = Position
    BY <2>3 DEF Aligned
  <2>5. /\ loops[id].hand = Bytes(Start(id), From(id)) /\ Start(id) \in Nat /\ From(id) \in Nat /\ Start(id) <= From(id)
        /\ From(id) <= readers[id].nextSeq /\ readers[id].nextSeq \in Nat
    BY <2>3, ReaderIs DEF Readers
  <2>6. x \in Start(id) .. From(id) - 1
    <3>1. PICK a \in Nat, b \in Nat : a = Start(id) /\ b = From(id) /\ a <= b
      BY <2>5
    <3>2. QED
      BY <1>2, <2>5, <3>1, ElementsBytes
  <2>7. QED
    BY <1>2, <2>3, <2>4, <2>5, <2>6
<1>3. CASE HasReader(id) /\ x \in Elements(readers[id].buffer)
  <2>1. id = current
    BY <1>1, <1>3, SupersededIs, NoReaderIs DEF Lost
  <2>2. Start(id) = Position
    BY <1>3, <2>1 DEF Aligned
  <2>3. /\ readers[id].buffer = Bytes(From(id), readers[id].nextSeq) /\ readers[id].nextSeq \in Nat /\ From(id) \in Nat
        /\ Start(id) \in Nat /\ Start(id) <= From(id) /\ From(id) <= readers[id].nextSeq
    BY <1>3, ReaderIs DEF Received, Readers
  <2>4. x \in From(id) .. readers[id].nextSeq - 1
    <3>1. PICK a \in Nat, b \in Nat : a = From(id) /\ b = readers[id].nextSeq /\ a <= b
      BY <2>3
    <3>2. QED
      BY <1>3, <2>3, <3>1, ElementsBytes
  <2>5. QED
    BY <1>3, <2>1, <2>2, <2>3, <2>4
<1>4. QED
  BY <1>1, <1>2, <1>3, NoReaderIs

LEMMA LostIsKept == IInv => Lost \subseteq Kept
<1> SUFFICES ASSUME IInv, NEW x \in Superseded PROVE x \in OnTheWay
  BY DEF Lost, Kept
<1>1. QED
  BY SupersededIs, WayIs

\* A reader holds the bytes from where it started in the next state too.
LEMMA HeldIsKept ==
  ASSUME IInv, NEW id \in Streams, HasReader(id), NEW x \in From(id) .. readers[id].nextSeq - 1
  PROVE  x \in Kept
<1>1. /\ readers[id].buffer = Bytes(From(id), readers[id].nextSeq) /\ readers[id].nextSeq \in Nat /\ From(id) \in Nat
      /\ From(id) <= readers[id].nextSeq
  BY ReaderIs DEF Received, Readers
<1>2. PICK a \in Nat, b \in Nat : a = From(id) /\ b = readers[id].nextSeq /\ a <= b
  BY <1>1
<1>3. x \in Elements(readers[id].buffer)
  BY <1>1, <1>2, ElementsBytes
<1>4. QED
  BY <1>3, WayIs, NoReaderIs DEF Kept

-----------------------------------------------------------------------------
(* What arrives, and for whom.                                             *)

LEMMA LockIsStep ==
  ASSUME IInv, LockIs, [Next]_vars
  PROVE  LockIs'
<1> USE Facts
<1>0. head \in Nat /\ head' \in Nat /\ head <= head' /\ (lockHeld.by \in P!Connecting => lockHeld.headPos \in Nat)
  <2>1. lockHeld \in P!LockStates
    BY DEF IInv, P!IInv, P!Shapes
  <2>2. lockHeld.by \in P!Connecting => lockHeld.headPos \in Nat
    BY <2>1 DEF P!LockStates, P!Free, P!Connecting
  <2>3. QED
    BY <2>2, OnlyForward
<1>1. CASE lockHeld' = lockHeld /\ jm'.seq = jm.seq
  BY <1>0, <1>1 DEF LockIs
<1>2. CASE lockHeld'.by \notin P!Connecting
  BY <1>2 DEF LockIs
<1>3. CASE ConnectNew
  <2>1. /\ jm' = [jm EXCEPT !.step = "connecting"] /\ head' = head
        /\ lockHeld'.clientSeq = jm.seq /\ lockHeld'.headPos = head
    BY <1>3 DEF ConnectNew, SM!ConnectReadHead, SM!bufVars
  <2>2. QED
    BY <1>0, <2>1 DEF LockIs, JmTypes
<1>4. CASE ConnectConsume
  <2>1. lockHeld \in [by : P!Connecting, id : P!StreamIds, rwnd : 0 .. ReadWindow, clientSeq : Nat, headPos : Nat]
    BY <1>4, ConnectConsumeIs DEF IInv, P!IInv, P!Shapes, P!LockStates, P!Free, P!Connecting
  <2>2. /\ jm' = jm
        /\ \/ lockHeld' = [lockHeld EXCEPT !.by = "ConnectReread"]
           \/ lockHeld' = [lockHeld EXCEPT !.by = "ConnectEnter", !.headPos = head]
    BY <1>4 DEF ConnectConsume, SM!ConnectConsume, SM!ConnectReread, jmVars
  <2>3. lockHeld.by \in P!Connecting /\ lockHeld'.clientSeq = lockHeld.clientSeq
        /\ lockHeld'.headPos \in {lockHeld.headPos, head}
    BY <2>1, <2>2
  <2>4. QED
    BY <1>0, <2>2, <2>3 DEF LockIs
<1>5. CASE ApplicationRuns \/ ReadLoopRuns \/ RecvAckEnds
  <2>1. jm' = jm
    BY <1>5 DEF ApplicationRuns, ReadLoopRuns, RecvAckEnds, elsewhere, jmVars
  <2>2. QED
    BY <1>1, <1>2, <1>5, <2>1, QuietSteps DEF Quiet
<1>6. CASE DisconnectOld
  <2>1. jm'.seq = jm.seq
    BY <1>6 DEF DisconnectOld, JmTypes
  <2>2. QED
    BY <1>1, <1>2, <1>6, <2>1, DisconnectIs DEF Quiet
<1>7. CASE \E ack \in ackNet : RecvAck(ack)
  <2>1. jm' = jm
    BY <1>7 DEF RecvAck
  <2>2. QED
    BY <1>1, <1>2, <1>7, <2>1, AckIs
<1>8. CASE HandlePrepare
  <2>1. lockHeld' = SM!Free
    BY <1>8 DEF HandlePrepare, smVars
  <2>2. QED
    BY <1>2, <2>1 DEF SM!Free, P!Connecting
<1>9. CASE ConnectFails \/ Connected
  <2>1. lockHeld' = P!Free
    BY <1>9, ConnectFailsIs, ConnectedIs
  <2>2. QED
    BY <1>2, <2>1 DEF P!Free, P!Connecting
<1>10. CASE HandleStart
  <2>1. lockHeld' = lockHeld /\ jm'.seq = jm.seq
    BY <1>10, HandleStartIs DEF HandleStart, JmTypes
  <2>2. QED
    BY <1>1, <2>1
<1>11. CASE SenderRuns \/ SendPacket
  <2>1. lockHeld' = lockHeld /\ jm' = jm
    BY <1>11, SenderIs, SendPacketIs DEF SenderRuns, SendPacket, elsewhere, jmVars
  <2>2. QED
    BY <1>1, <2>1
<1>12. CASE \/ (\E pk \in dataNet : RecvPacket(pk)) \/ (\E id \in Streams : Loop(id)) \/ Reconnect
            \/ RestartStreaming \/ Drop \/ FlushCache \/ Crash \/ UNCHANGED vars
  <2>1. lockHeld' = lockHeld /\ jm' = jm
    BY <1>12 DEF RecvPacket, Loop, LoopTakes, LoopAppends, LoopSuperseded, LoopEnds, Reconnect,
      RestartStreaming, StatFile, CreateReader, RestartStops, RestartContinues, RestartDone, Drop, FlushCache, Crash, vars,
      smVars, jmVars
  <2>2. QED
    BY <1>1, <2>1
<1>13. QED
  BY <1>3, <1>4, <1>5, <1>6, <1>7, <1>8, <1>9, <1>10, <1>11, <1>12 DEF Next, HandleConnect

\* A stream is forgotten at its end, or by who closes its reader.
LEMMA ForgetIs ==
  ASSUME IInv, Undisturbed, [Next]_vars, NEW id \in known, id \notin known'
  PROVE  \/ EndReached
         \/ LoopSuperseded(id) /\ id /= current
         \/ RestartStops /\ id = conn /\ rpc.at = "refused"
         \/ Crash
<1>1. CASE \E pk \in dataNet : RecvPacket(pk)
  <2>1. PICK pk \in dataNet : RecvPacket(pk)
    BY <1>1
  <2>2. pk.id \in Streams /\ RecvKnown(pk)
    BY <2>1, RecvPacketIs DEF RecvPacket, RecvUnknown
  <2>3. HasReader(pk.id) /\ DataAck(readers[pk.id], pk).fin
    BY <2>2 DEF RecvKnown, IInv, Service
  <2>4. QED
    BY <2>1, <2>2, <2>3, DataAckIs
<1>2. CASE \E x \in Streams : LoopSuperseded(x)
  <2>1. PICK x \in Streams : LoopSuperseded(x)
    BY <1>2
  <2>2. known' = known \ {x} /\ current /= x
    BY <2>1 DEF LoopSuperseded, CloseReader
  <2>3. QED
    BY <2>1, <2>2
<1>3. CASE \E x \in Streams : LoopEnds(x)
  <2>1. PICK x \in Streams : LoopEnds(x)
    BY <1>3
  <2>2. HasReader(x)
    BY <2>1, ClosesIs
  <2>3. readers[x].eof \/ readers[x].err /= "none"
    BY <2>1, <2>2 DEF LoopEnds, Readable, ReadsBytes, HasReader
  <2>4. QED
    BY <2>2, <2>3 DEF IInv, Contents
<1>4. CASE RestartStops
  <2>1. known' = known \ {conn} /\ rpc.at \in {"failed", "refused", "streamDone"}
    BY <1>4 DEF RestartStops, CloseReader
  <2>2. QED
    BY <1>4, <2>1 DEF Undisturbed, IInv, Contents
<1>5. CASE \/ ApplicationRuns \/ ReadLoopRuns \/ RecvAckEnds \/ SenderRuns \/ SendPacket
           \/ (\E ack \in ackNet : RecvAck(ack)) \/ HandleConnect
           \/ (\E x \in Streams : LoopTakes(x) \/ LoopAppends(x))
           \/ Reconnect \/ StatFile \/ CreateReader \/ RestartContinues \/ RestartDone
           \/ Drop \/ FlushCache \/ UNCHANGED vars
  <2>1. known \subseteq known'
    BY <1>5 DEF ApplicationRuns, ReadLoopRuns, RecvAckEnds, SenderRuns, SendPacket, RecvAck, HandleConnect,
      HandlePrepare, DisconnectOld, ConnectNew, ConnectConsume, ConnectFails, Connected, HandleStart, LoopTakes, LoopAppends,
      Reconnect, StatFile, CreateReader, RestartContinues, RestartDone, Drop, FlushCache, vars, elsewhere, loopVars
  <2>2. QED
    BY <2>1
<1>6. QED
  BY <1>1, <1>2, <1>3, <1>4, <1>5 DEF Next, Loop, RestartStreaming

\* No packet names a stream that the job manager does not serve yet.
LEMMA SentBefore ==
  ASSUME IInv, NEW pk \in Sent
  PROVE  pk.id \in Nat /\ pk.id <= sm.streamId /\ pk.seq \in Nat
BY WholeIs DEF IInv, Corked, Contents, Streams

\* While restartStreaming waits, the job manager serves an earlier connection.
LEMMA NotServed ==
  ASSUME IInv, restart.at \in {"stat", "create"}
  PROVE  sm.streamId < conn
<1>1. sm.streamId \in 0 .. (IF jm.step = "idle" THEN jm.id ELSE jm.id - 1)
  BY DEF IInv, Turns
<1>2. jm.id < conn
  BY DEF IInv, Asked
<1>3. QED
  BY <1>1, <1>2, Facts

LEMMA AtMostConn ==
  ASSUME IInv
  PROVE  sm.streamId <= conn
<1>1. sm.streamId \in 0 .. (IF jm.step = "idle" THEN jm.id ELSE jm.id - 1) /\ jm.id <= conn
  BY DEF IInv, Turns
<1>2. QED
  BY <1>1, Facts

\* The stream that is served stays known.
LEMMA ServedKnown ==
  ASSUME IInv, Undisturbed, Served, [Next]_vars,
         restart'.at \in {"prepare", "start"} \/ (up' /\ sm'.streamId = conn')
  PROVE  conn' \in known' \/ EndReached'
<1> USE Facts
<1>1. CASE CreateReader
  BY <1>1 DEF CreateReader, netVars
<1>2. CASE Reconnect
  <2>1. conn' = conn + 1 /\ sm' = sm /\ restart'.at = "stat"
    BY <1>2 DEF Reconnect, smVars, Idle
  <2>2. QED
    BY <2>1, AtMostConn
<1>3. CASE Crash \/ Drop
  <2>1. up' = FALSE /\ restart'.at \in {"idle", restart.at} /\ (Drop => up)
    BY <1>3 DEF Crash, Drop, Idle
  <2>2. CASE Crash
    BY <2>1, <2>2 DEF Crash, Idle
  <2>3. CASE Drop
    <3>1. /\ restart' = restart /\ UNCHANGED <<conn, known>>
      BY <2>3 DEF Drop, loopVars
    <3>2. QED
      BY <2>1, <3>1, ManagerEnd DEF Served
  <2>4. QED
    BY <1>3, <2>2, <2>3
<1>4. CASE ~CreateReader /\ ~Reconnect /\ ~Crash /\ ~Drop
  <2>1. conn' = conn /\ up' = up /\ (restart'.at \in {"prepare", "start"} => restart.at \in {"prepare", "start"})
    <3>1. CASE StatFile \/ RestartStops \/ RestartContinues \/ RestartDone
      BY <3>1 DEF StatFile, RestartStops, RestartContinues, RestartDone, Idle, netVars
    <3>2. CASE HandlePrepare \/ DisconnectOld \/ ConnectNew \/ ConnectFails \/ Connected \/ HandleStart
      BY <3>2 DEF HandlePrepare, DisconnectOld, ConnectNew, ConnectFails, Connected, HandleStart, netVars
    <3>3. QED
      BY <1>4, <3>1, <3>2, LinkSteps
  <2>2. restart.at \in {"prepare", "start"} \/ (up /\ sm.streamId = conn)
    <3>1. CASE sm'.streamId /= sm.streamId
      <4>1. (jm.id = conn /\ jm.step /= "idle") \/ restart'.at \in {"prepare", "start"}
        BY <2>1, <3>1, StreamIdSteps
      <4>2. CASE up /\ jm.id = conn /\ jm.step /= "idle"
        <5>1. rpc.at = "prepare"
          BY <4>2 DEF Undisturbed
        <5>2. restart.at = "prepare"
          BY <5>1 DEF IInv, Asked, TypeOK, LinkTypes
        <5>3. QED
          BY <5>2
      <4>3. QED
        BY <2>1, <3>1, <4>1, <4>2, StreamIdSteps
    <3>2. QED
      BY <2>1, <3>1
  <2>3. conn \in known \/ EndReached
    BY <2>2 DEF Served
  <2>4. CASE EndReached
    BY <2>4, ManagerEnd
  <2>5. CASE conn \in known /\ conn \notin known' /\ ~EndReached
    <3>1. \/ LoopSuperseded(conn) /\ conn /= current
          \/ RestartStops /\ rpc.at = "refused"
      BY <1>4, <2>5, ForgetIs
    <3>2. CASE LoopSuperseded(conn) /\ conn /= current
      <4>1. restart.at \notin {"prepare", "start"}
        BY <3>2 DEF IInv, Service
      <4>2. restart.at \in {"stat", "create"} /\ sm.streamId = conn
        BY <2>2, <3>2, <4>1 DEF Undisturbed
      <4>3. QED
        BY <4>2, NotServed
    <3>3. CASE RestartStops /\ rpc.at = "refused"
      <4>1. sm' = sm /\ restart'.at = "idle" /\ sm.streamId < conn
        BY <3>3 DEF RestartStops, Idle, smVars, Undisturbed
      <4>2. QED
        BY <2>1, <4>1
    <3>4. QED
      BY <3>1, <3>2, <3>3
  <2>6. QED
    BY <2>1, <2>3, <2>4, <2>5
<1>5. QED
  BY <1>1, <1>2, <1>3, <1>4

\* A packet arrives while its stream is the current one: the old loop has settled.
LEMMA ServedCurrent ==
  ASSUME IInv, Aligned, Undisturbed, Served, OldLoop = "settles", [Next]_vars, NEW pk \in dataNet'
  PROVE  pk.id = current'
<1>1. CASE CreateReader
  <2>1. dataNet' = dataNet /\ restart.at = "create"
    BY <1>1 DEF CreateReader, netVars
  <2>2. dataNet = {}
    BY <2>1 DEF Aligned, Settled
  <2>3. QED
    BY <2>1, <2>2
<1>2. CASE Crash
  BY <1>2 DEF Crash
<1>3. CASE ~CreateReader /\ ~Crash
  <2>1. current' = current
    BY <1>3, CurrentSteps
  <2>2. CASE pk \in dataNet
    BY <2>1, <2>2 DEF Served
  <2>3. CASE SendPacket /\ pk \notin dataNet
    <3>1. up /\ pk.id = conn
      BY <2>3 DEF SendPacket
    <3>2. restart.at \notin {"stat", "create"}
      BY <2>3, NothingSent
    <3>3. QED
      BY <2>1, <3>1, <3>2 DEF Undisturbed
  <2>4. CASE ~SendPacket
    <3>1. dataNet' \subseteq dataNet
      BY <2>4 DEF Next, ApplicationRuns, ReadLoopRuns, RecvAckEnds, SenderRuns, RecvAck,
        HandleConnect, HandlePrepare, DisconnectOld, ConnectNew, ConnectConsume, ConnectFails, Connected, HandleStart,
        Loop, LoopTakes, LoopAppends, LoopSuperseded, LoopEnds, RecvPacket, Reconnect, RestartStreaming, StatFile,
        CreateReader, RestartStops, RestartContinues, RestartDone,
        Drop, FlushCache, Crash, vars, elsewhere, netVars
    <3>2. QED
      BY <2>2, <3>1
  <2>5. QED
    BY <2>2, <2>3, <2>4
<1>4. QED
  BY <1>1, <1>2, <1>3

LEMMA ServedStep ==
  ASSUME IInv, Aligned, Undisturbed, Served, OldLoop = "settles", [Next]_vars
  PROVE  Served'
<1>1. ASSUME NEW pk \in Sent'
      PROVE  pk.seq <= total'
  <2>1. total \in Nat /\ total' \in Nat /\ total <= total'
    BY OnlyForward
  <2>2. CASE pk \in Sent
    BY <2>1, <2>2, SentBefore DEF Served
  <2>3. CASE SenderRuns
    <3>1. dataNet' = dataNet /\ total' = total
      BY <2>3 DEF SenderRuns, SM!PrepareNextPacket, SM!bufVars, elsewhere, netVars
    <3>2. pk \in Sent \/ (sender'.at = "sending" /\ pk = sender'.pk)
      BY <3>1 DEF Sent
    <3>3. QED
      BY <2>2, <2>3, <3>1, <3>2, SenderIs
  <2>4. QED
    BY <2>2, <2>3, SentStep
<1>2. QED
  BY <1>1, ServedKnown, ServedCurrent DEF Served

-----------------------------------------------------------------------------
(* What each side tells the other to have is kept.                         *)

LEMMA Between ==
  /\ \A a, b, x \in Nat : x < b => x \in 0 .. a - 1 \/ x \in a .. b - 1
  /\ \A a, b, x \in Nat : a <= x /\ x < b => x \in a .. b - 1 /\ a /= b
OBVIOUS

\* What the job manager lets go of: what it drops, and what it is told the main
\* server has.
LEMMA HeadSteps ==
  ASSUME IInv, [Next]_vars, NEW x \in head .. head' - 1
  PROVE  \/ x \in dropped'
         \/ jm.step /= "idle" /\ x < jm.seq
         \/ \E ack \in ackNet : x < ack.seq
<1>0. head \in Nat /\ head' \in Nat /\ x \in Nat /\ head <= x /\ x < head' /\ jm.seq \in Nat
  BY OnlyForward, Facts DEF JmTypes
<1>1. CASE ReadLoopRuns \/ DisconnectOld
  <2>1. Drops(head) \/ head' = head
    BY <1>1 DEF ReadLoopRuns, DisconnectOld, SM!SignalWritten, SM!bufVars, smVars
  <2>2. SM!Buf!Larger(head, head) = head
    BY DEF SM!Buf!Larger
  <2>3. x \in head .. head' - 1 /\ head' /= head
    BY <1>0, Between
  <2>4. QED
    BY <2>1, <2>2, <2>3 DEF Drops
<1>2. CASE ConnectConsume
  <2>1. Drops(jm.seq) /\ jm.step /= "idle"
    BY <1>2, ConnectConsumeIs DEF ConnectConsume, IInv, Turns
  <2>2. PICK from \in Nat : from = SM!Buf!Larger(head, jm.seq) /\ from \in {head, jm.seq}
    BY <1>0 DEF SM!Buf!Larger
  <2>3. dropped' = dropped \cup (from .. head' - 1)
    BY <2>1, <2>2 DEF Drops
  <2>4. x < jm.seq \/ x \in from .. head' - 1
    <3>1. from = head \/ from = jm.seq
      BY <2>2
    <3>2. from <= x \/ x < jm.seq
      BY <1>0, <3>1
    <3>3. QED
      BY <1>0, <3>2, Between
  <2>5. QED
    BY <2>1, <2>3, <2>4
<1>3. CASE \E ack \in ackNet : RecvAck(ack)
  <2>1. PICK ack \in ackNet : RecvAck(ack)
    BY <1>3
  <2>2. SM!RecvAckConsume(ack)
    BY <1>0, <2>1 DEF RecvAck, smVars, SM!RecvAck, SM!RecvFin, SM!RecvAckOutside, SM!RecvAckIgnored, SM!bufVars, SM!vars
  <2>3. ack.seq \in Nat
    BY <2>1, Facts DEF Acks
  <2>4. head' = head + (ack.seq - head) \/ head' = head
    BY <2>2 DEF SM!RecvAckConsume, SM!AckedBytes, SM!Buf!Consume, SM!bufVars
  <2>5. QED
    BY <1>0, <2>3, <2>4
<1>4. CASE \/ ApplicationRuns \/ RecvAckEnds \/ SenderRuns \/ SendPacket
           \/ HandlePrepare \/ ConnectNew \/ ConnectFails
  <2>1. head' = head
    BY <1>4 DEF ApplicationRuns, RecvAckEnds, SenderRuns, SendPacket, HandlePrepare, ConnectNew, ConnectFails,
      SM!ReadPty, SM!HandleTerminalEvent, SM!RecvAckResize, SM!PrepareNextPacket, SM!SendPacket,
      SM!ConnectReadHead, SM!ConnectRefused, SM!Buf!SetEffectiveWindow, SM!bufVars, smVars
  <2>2. QED
    BY <1>0, <2>1
<1>5. CASE Connected \/ HandleStart
  <2>1. head' = head
    BY <1>5 DEF Connected, HandleStart, SM!ConnectEnter, SM!SetRwndSize, SM!Buf!SetEffectiveWindow
  <2>2. QED
    BY <1>0, <2>1
<1>6. CASE \/ (\E pk \in dataNet : RecvPacket(pk)) \/ (\E id \in Streams : Loop(id)) \/ Reconnect
           \/ RestartStreaming \/ Drop \/ FlushCache \/ Crash \/ UNCHANGED vars
  <2>1. head' = head
    BY <1>6 DEF RecvPacket, Loop, LoopTakes, LoopAppends, LoopSuperseded, LoopEnds, Reconnect,
      RestartStreaming, StatFile, CreateReader, RestartStops, RestartContinues, RestartDone, Drop, FlushCache, Crash, vars,
      smVars
  <2>2. QED
    BY <1>0, <2>1
<1>7. QED
  BY <1>1, <1>2, <1>3, <1>4, <1>5, <1>6 DEF Next, HandleConnect

LEMMA UptoStep ==
  ASSUME IInv, Fresh, [Next]_vars, NEW pos, Upto(pos)
  PROVE  0 .. pos - 1 \subseteq Kept'
BY KeptGrows DEF Upto

LEMMA UptoLess ==
  ASSUME NEW pos \in Nat, Upto(pos), NEW x \in Nat, x <= pos
  PROVE  Upto(x)
BY DEF Upto

LEMMA HeadClaim ==
  ASSUME IInv, Fresh, Claims, [Next]_vars
  PROVE  0 .. head' - 1 \subseteq Kept'
<1> SUFFICES ASSUME NEW x \in 0 .. head' - 1 PROVE x \in Kept'
  OBVIOUS
<1>0. head \in Nat /\ head' \in Nat /\ jm.seq \in Nat /\ x \in Nat /\ x < head' /\ \A ack \in ackNet : ack.seq \in Nat
  BY OnlyForward, Facts DEF JmTypes, Acks
<1>1. CASE x \in 0 .. head - 1
  BY <1>1, UptoStep DEF Claims
<1>2. CASE x \in head .. head' - 1
  <2>1. CASE x \in dropped'
    BY <2>1 DEF Kept
  <2>2. CASE jm.step /= "idle" /\ x < jm.seq
    <3>1. x \in 0 .. jm.seq - 1
      BY <1>0, <2>2
    <3>2. QED
      BY <2>2, <3>1, UptoStep DEF Claims
  <2>3. CASE \E ack \in ackNet : x < ack.seq
    <3>1. PICK ack \in ackNet : x < ack.seq
      BY <2>3
    <3>2. x \in 0 .. ack.seq - 1
      BY <1>0, <3>1
    <3>3. QED
      BY <3>2, UptoStep DEF Claims
  <2>4. QED
    BY <1>2, <2>1, <2>2, <2>3, HeadSteps
<1>3. x \in 0 .. head - 1 \/ x \in head .. head' - 1
  BY <1>0, Between
<1>4. QED
  BY <1>1, <1>2, <1>3

LEMMA ReaderClaim ==
  ASSUME IInv, Fresh, Claims, [Next]_vars, NEW id \in Streams, HasReader(id)'
  PROVE  0 .. readers'[id].nextSeq - 1 \subseteq Kept'
<1>1. CASE HasReader(id) /\ readers'[id].nextSeq = readers[id].nextSeq
  BY <1>1, UptoStep DEF Claims
<1>2. CASE \E pk \in dataNet : HasReader(id) /\ RecvPacket(pk) /\ pk.id = id /\ readers'[id] = RecvData(readers[id], pk)
  <2>1. Received(readers'[id], From(id)) /\ HasReader(id)
    BY <1>2, RecvPacketIs, ReaderIs, RecvDataIs
  <2>2. /\ From(id) \in Nat /\ From(id) <= readers[id].nextSeq /\ readers[id].nextSeq \in Nat
        /\ readers'[id].buffer = Bytes(From(id), readers'[id].nextSeq) /\ readers'[id].nextSeq \in Nat
        /\ From(id) <= readers'[id].nextSeq
    <3>1. /\ From(id) \in Nat /\ readers[id] \in Readers /\ readers'[id] \in Readers
          /\ From(id) <= readers[id].nextSeq /\ From(id) \in 0 .. readers'[id].nextSeq
          /\ readers'[id].buffer = Bytes(From(id), readers'[id].nextSeq)
      BY <2>1, ReaderIs DEF Received
    <3>2. readers[id].nextSeq \in Nat /\ readers'[id].nextSeq \in Nat
      BY <3>1 DEF Readers
    <3>3. QED
      BY <3>1, <3>2
  <2>3. readers'[id] /= NoReader
    BY DEF HasReader, NoReader
  <2>4. PICK from \in Nat, next \in Nat : from = From(id) /\ next = readers'[id].nextSeq /\ from <= next
    BY <2>2
  <2>5. from .. next - 1 \subseteq OnTheWay'
    BY <2>2, <2>3, <2>4, ElementsBytes, WayIsNext
  <2>6. ASSUME NEW x \in 0 .. next - 1
        PROVE  x \in Kept'
    <3>1. CASE x \in 0 .. readers[id].nextSeq - 1
      BY <2>1, <3>1, UptoStep DEF Claims
    <3>2. CASE x \in from .. next - 1
      BY <2>5, <3>2 DEF Kept
    <3>3. QED
      BY <2>2, <2>4, <3>1, <3>2
  <2>7. QED
    BY <2>4, <2>6
<1>3. CASE LoopTakes(id)
  BY <1>1, <1>3, TakesIs, ServiceTypes
<1>4. CASE id = conn /\ CreateReader /\ readers'[id] = NewReaderWithSeq(id, restart.seq)
  <2>1. readers'[id].nextSeq = restart.seq /\ restart.at = "create"
    BY <1>4 DEF NewReaderWithSeq, CreateReader
  <2>2. QED
    BY <2>1, UptoStep DEF Claims
<1>5. CASE id = conn /\ RestartContinues /\ HasReader(id) /\ readers'[id] = UpdateNextSeq(readers[id], rpc.seq)
  <2>1. rpc.at = "prepared" /\ readers[id] \in Readers
    BY <1>5, ReaderIs DEF RestartContinues
  <2>2. readers'[id].nextSeq = rpc.seq
    BY <1>5, <2>1 DEF UpdateNextSeq, Readers
  <2>3. QED
    BY <2>1, <2>2, UptoStep DEF Claims
<1>6. QED
  BY <1>1, <1>2, <1>3, <1>4, <1>5, ReaderSteps

LEMMA AckClaim ==
  ASSUME IInv, Fresh, Claims, [Next]_vars, NEW ack \in ackNet'
  PROVE  0 .. ack.seq - 1 \subseteq Kept'
<1>1. CASE ack \in ackNet
  BY <1>1, UptoStep DEF Claims
<1>2. CASE \E id \in Streams : HasReader(id) /\ ack.seq = readers[id].nextSeq
  BY <1>2, UptoStep DEF Claims
<1>3. CASE \E pk \in dataNet : RecvPacket(pk)
  <2>1. PICK pk \in dataNet : RecvPacket(pk)
    BY <1>3
  <2>2. pk.id \in Streams
    BY <2>1, RecvPacketIs
  <2>3. CASE RecvUnknown(pk)
    <3>1. pk.id \notin known /\ ack \in ackNet \cup {CancelUnknown(pk)}
      BY <2>3 DEF RecvUnknown
    <3>2. Upto(pk.seq)
      BY <3>1 DEF Claims, Travelling
    <3>3. ack \in ackNet \/ ack.seq = pk.seq
      BY <3>1 DEF CancelUnknown
    <3>4. QED
      BY <1>1, <3>2, <3>3, UptoStep
  <2>4. CASE RecvKnown(pk) /\ ack \notin ackNet
    <3>1. /\ HasReader(pk.id) /\ readers' = [readers EXCEPT ![pk.id] = RecvData(readers[pk.id], pk)]
          /\ ack = DataAck(readers[pk.id], pk)
      BY <2>4 DEF RecvKnown, IInv, Service
    <3>2. readers'[pk.id] = RecvData(readers[pk.id], pk) /\ HasReader(pk.id)'
      <4>1. readers'[pk.id] = RecvData(readers[pk.id], pk)
        BY <2>2, <3>1, ServiceTypes
      <4>2. RecvData(readers[pk.id], pk) \in Readers
        BY <2>1, <2>2, <3>1, RecvPacketIs, ReaderIs, RecvDataIs DEF Received
      <4>3. QED
        BY <4>1, <4>2 DEF HasReader, Readers
    <3>3. ack.seq = readers'[pk.id].nextSeq
      BY <2>1, <2>2, <3>1, <3>2, DataAckIs
    <3>4. QED
      BY <2>2, <3>2, <3>3, ReaderClaim
  <2>5. QED
    BY <1>1, <2>1, <2>3, <2>4 DEF RecvPacket
<1>4. CASE \E id \in Streams : LoopTakes(id)
  <2>1. PICK id \in Streams : LoopTakes(id)
    BY <1>4
  <2>2. ack \in ackNet \cup ReadAcks(id) /\ HasReader(id)
    BY <2>1, TakesIs DEF LoopTakes
  <2>3. QED
    BY <1>1, <1>2, <2>2, ReadAcksIs
<1>5. CASE \E id \in Streams : LoopSuperseded(id) \/ LoopEnds(id)
  <2>1. PICK id \in Streams : LoopSuperseded(id) \/ LoopEnds(id)
    BY <1>5
  <2>2. /\ HasReader(id) /\ readers[id] \in Readers
        /\ ack \in ackNet \/ ack \in ReadAcks(id) \/ ack = CancelFrom(Close(readers[id]))
    BY <2>1, ClosesIs
  <2>3. QED
    BY <1>1, <1>2, <2>2, ReadAcksIs, CancelFromIs
<1>6. CASE RestartStops
  <2>1. ack \in ackNet \/ ack = CancelFrom(Close(readers[conn]))
    BY <1>6 DEF RestartStops, CloseReader
  <2>2. HasReader(conn) /\ conn \in Streams /\ readers[conn] \in Readers
    BY <1>6, ReaderIs, ServiceTypes DEF RestartStops, IInv, Service
  <2>3. QED
    BY <1>1, <1>2, <2>1, <2>2, CancelFromIs
<1>7. CASE \/ ApplicationRuns \/ ReadLoopRuns \/ RecvAckEnds \/ SenderRuns \/ SendPacket
           \/ (\E a \in ackNet : RecvAck(a))
           \/ HandleConnect
           \/ (\E id \in Streams : LoopAppends(id))
           \/ Reconnect \/ StatFile \/ CreateReader \/ RestartContinues \/ RestartDone
           \/ Drop \/ FlushCache \/ Crash \/ UNCHANGED vars
  <2>1. ackNet' \subseteq ackNet
    BY <1>7 DEF ApplicationRuns, ReadLoopRuns, RecvAckEnds, SenderRuns, SendPacket, RecvAck, HandleConnect,
      HandlePrepare, DisconnectOld, ConnectNew, ConnectConsume, ConnectFails, Connected, HandleStart,
      LoopAppends, Reconnect, StatFile, CreateReader, RestartContinues, RestartDone, Drop, FlushCache, Crash,
      vars, elsewhere, netVars
  <2>2. QED
    BY <1>1, <2>1
<1>8. QED
  BY <1>3, <1>4, <1>5, <1>6, <1>7 DEF Next, Loop, RestartStreaming
LEMMA PositionClaim ==
  ASSUME IInv, PositionIsExact
  PROVE  Upto(Position)
BY LostIsKept DEF PositionIsExact, Upto, Kept

LEMMA RestartClaim ==
  ASSUME IInv, Fresh, Claims, PositionIsExact, [Next]_vars, restart'.at \in {"create", "prepare"}
  PROVE  0 .. restart'.seq - 1 \subseteq Kept'
<1>1. CASE StatFile
  <2>1. restart'.seq = Position
    BY <1>1 DEF StatFile
  <2>2. 0 .. Position - 1 \subseteq Kept'
    BY PositionClaim, UptoStep
  <2>3. QED
    BY <2>1, <2>2
<1>2. CASE CreateReader
  <2>1. restart.at = "create" /\ restart'.seq = restart.seq
    BY <1>2, Facts DEF CreateReader
  <2>2. QED
    BY <2>1, UptoStep DEF Claims
<1>3. CASE Reconnect \/ RestartStops \/ RestartContinues \/ RestartDone \/ Crash
  BY <1>3, Facts DEF Reconnect, RestartStops, RestartContinues, RestartDone, Crash, Idle
<1>4. CASE restart' = restart
  BY <1>4, UptoStep DEF Claims
<1>5. QED
  BY <1>1, <1>2, <1>3, <1>4, LinkSteps DEF HandlePrepare, DisconnectOld, ConnectNew, ConnectFails, Connected, HandleStart,
    Drop

LEMMA RpcClaim ==
  ASSUME IInv, Fresh, Claims, LockIs, [Next]_vars, rpc'.at \in {"prepare", "prepared"}
  PROVE  0 .. rpc'.seq - 1 \subseteq Kept'
<1>1. CASE CreateReader
  <2>1. restart.at = "create" /\ rpc'.seq = restart.seq
    BY <1>1 DEF CreateReader
  <2>2. QED
    BY <2>1, UptoStep DEF Claims
<1>2. CASE Connected /\ rpc' /= rpc
  <2>1. rpc' = [at |-> "prepared", seq |-> SM!StartSeq]
    BY <1>2 DEF Connected, Answer
  <2>2. lockHeld \in P!LockStates /\ lockHeld.by \in P!Connecting
    BY <1>2, ConnectedIs DEF IInv, P!IInv, P!Shapes
  <2>3. lockHeld \in [by : P!Connecting, id : P!StreamIds, rwnd : 0 .. ReadWindow, clientSeq : Nat, headPos : Nat]
    BY <2>2 DEF P!LockStates, P!Free, P!Connecting
  <2>4. lockHeld.clientSeq = jm.seq /\ lockHeld.headPos <= head /\ jm.step /= "idle"
    BY <2>2 DEF LockIs, IInv, Turns
  <2>5. Upto(jm.seq) /\ Upto(head)
    BY <2>4 DEF Claims
  <2>6. Upto(lockHeld.headPos) /\ Upto(lockHeld.clientSeq)
    BY <2>3, <2>4, <2>5, UptoLess, OnlyForward
  <2>7. SM!StartSeq \in {lockHeld.headPos, lockHeld.clientSeq}
    BY DEF SM!StartSeq, SM!Buf!Larger
  <2>8. 0 .. SM!StartSeq - 1 \subseteq Kept'
    BY <2>6, <2>7, UptoStep
  <2>9. QED
    BY <2>1, <2>8
<1>3. CASE \/ HandlePrepare \/ ConnectFails \/ HandleStart \/ RestartStops \/ RestartContinues \/ RestartDone
           \/ Drop \/ Crash
  <2>1. rpc' = rpc \/ rpc'.at \notin {"prepare", "prepared"}
    BY <1>3, Facts DEF HandlePrepare, ConnectFails, Answer, HandleStart, RestartStops, RestartContinues, RestartDone,
      Drop, Crash, NoRpc
  <2>2. QED
    BY <2>1, UptoStep DEF Claims
<1>4. CASE rpc' = rpc
  BY <1>4, UptoStep DEF Claims
<1>5. QED
  BY <1>1, <1>2, <1>3, <1>4, LinkSteps DEF DisconnectOld, ConnectNew, Reconnect, StatFile

LEMMA JmClaim ==
  ASSUME IInv, Fresh, Claims, [Next]_vars, jm'.step /= "idle"
  PROVE  0 .. jm'.seq - 1 \subseteq Kept'
<1> jm \in JmTypes
  BY Facts
<1>1. CASE HandlePrepare /\ jm' /= jm
  <2>1. jm'.seq = rpc.seq /\ rpc.at = "prepare"
    BY <1>1 DEF HandlePrepare, JmTypes
  <2>2. QED
    BY <2>1, UptoStep DEF Claims
<1>2. CASE DisconnectOld \/ ConnectNew
  <2>1. jm'.seq = jm.seq /\ jm.step /= "idle"
    BY <1>2 DEF DisconnectOld, ConnectNew, JmTypes
  <2>2. QED
    BY <2>1, UptoStep DEF Claims
<1>3. CASE ConnectFails \/ Connected \/ HandleStart
  BY <1>3 DEF ConnectFails, Connected, HandleStart, JmTypes
<1>4. CASE jm' = jm
  BY <1>4, UptoStep DEF Claims
<1>5. QED
  BY <1>1, <1>2, <1>3, <1>4, LinkSteps DEF Reconnect, StatFile, CreateReader, RestartStops, RestartContinues, RestartDone,
    Drop, Crash, jmVars

-----------------------------------------------------------------------------
(* A packet for a stream that is forgotten says nothing that is not kept.  *)

LEMMA NetSteps ==
  ASSUME IInv, [Next]_vars
  PROVE  dataNet' \subseteq dataNet \/ SendPacket
BY DEF Next, ApplicationRuns, ReadLoopRuns, RecvAckEnds, SenderRuns, RecvAck,
      HandleConnect, HandlePrepare, DisconnectOld, ConnectNew, ConnectConsume, ConnectFails, Connected, HandleStart,
      Loop, LoopTakes, LoopAppends, LoopSuperseded, LoopEnds, RecvPacket, Reconnect, RestartStreaming, StatFile,
      CreateReader, RestartStops, RestartContinues, RestartDone,
      Drop, FlushCache, Crash, vars, elsewhere, netVars

LEMMA UpSteps ==
  ASSUME IInv, [Next]_vars
  PROVE  Reconnect \/ (conn' = conn /\ (up' => up))
<1>1. CASE UNCHANGED <<up, conn>>
  BY <1>1
<1>2. CASE \/ HandlePrepare \/ DisconnectOld \/ ConnectNew \/ ConnectFails \/ Connected \/ HandleStart
           \/ StatFile \/ CreateReader \/ RestartStops \/ RestartContinues \/ RestartDone
  BY <1>2 DEF HandlePrepare, DisconnectOld, ConnectNew, ConnectFails, Connected, HandleStart,
    StatFile, CreateReader, RestartStops, RestartContinues, RestartDone, netVars
<1>3. CASE Drop \/ Crash
  BY <1>3 DEF Drop, Crash
<1>4. QED
  BY <1>1, <1>2, <1>3, LinkSteps

LEMMA TravelSteps ==
  ASSUME IInv, [Next]_vars, ~SenderRuns
  PROVE  Travelling' \subseteq Travelling
<1> SUFFICES ASSUME NEW pk \in Travelling' PROVE pk \in Travelling
  OBVIOUS
<1>1. pk \in Sent' /\ (pk \in dataNet' \/ (up' /\ pk.id = conn'))
  BY DEF Travelling, Sent
<1>2. pk \in Sent
  BY <1>1, SentStep
<1>3. CASE pk \in dataNet
  BY <1>3 DEF Travelling
<1>4. CASE pk \notin dataNet
  <2>1. sender.at = "sending" /\ pk = sender.pk
    BY <1>2, <1>4 DEF Sent
  <2>2. CASE pk \in dataNet'
    <3>1. SendPacket
      BY <1>4, <2>2, NetSteps
    <3>2. up /\ pk.id = conn
      BY <1>4, <2>1, <2>2, <3>1 DEF SendPacket
    <3>3. QED
      BY <2>1, <3>2 DEF Travelling
  <2>3. CASE up' /\ pk.id = conn' /\ ~Reconnect
    BY <2>1, <2>3, UpSteps DEF Travelling
  <2>4. CASE pk.id = conn' /\ Reconnect
    <3>1. conn' = conn + 1 /\ conn \in Nat
      BY <2>4, Facts DEF Reconnect
    <3>2. pk.id \in Nat /\ pk.id <= sm.streamId /\ sm.streamId \in Nat /\ sm.streamId <= conn
      BY <1>2, SentBefore, AtMostConn, Facts
    <3>3. QED
      BY <2>4, <3>1, <3>2
  <2>5. QED
    BY <1>1, <2>2, <2>3, <2>4
<1>5. QED
  BY <1>3, <1>4

\* At the end all of the output is kept.
LEMMA EndClaim ==
  ASSUME IInv, Claims, EndReached, [Next]_vars, NEW pos \in Nat, pos <= total
  PROVE  Upto(pos)
<1>1. Upto(head) /\ head \in Nat /\ head = total
  BY OnlyForward DEF Claims, EndReached
<1>2. QED
  BY <1>1, UptoLess

LEMMA TravelClaim ==
  ASSUME IInv, Fresh, Undisturbed, Served, Claims, [Next]_vars, NEW pk \in Travelling'
  PROVE  pk.id \in known' \/ 0 .. pk.seq - 1 \subseteq Kept'
<1> USE Facts
<1> SUFFICES ASSUME pk.id \notin known' PROVE 0 .. pk.seq - 1 \subseteq Kept'
  OBVIOUS
<1>1. CASE pk \in Travelling /\ pk.id \notin known
  <2>1. Upto(pk.seq)
    BY <1>1 DEF Claims
  <2>2. QED
    BY <2>1, UptoStep
<1>2. CASE pk \in Travelling /\ pk.id \in known
  <2>1. /\ pk \in Sent /\ pk.id \in Nat /\ pk.id <= sm.streamId /\ pk.seq \in Nat /\ pk.seq <= total
    BY <1>2, SentBefore DEF Travelling, Sent, Served
  <2>2. CASE EndReached
    <3>1. Upto(pk.seq)
      BY <2>1, <2>2, EndClaim
    <3>2. QED
      BY <3>1, UptoStep
  <2>3. CASE LoopSuperseded(pk.id) /\ pk.id /= current
    <3>1. pk \notin dataNet
      BY <2>3 DEF Served
    <3>2. up /\ pk.id = conn
      BY <1>2, <3>1 DEF Travelling
    <3>3. restart.at \in {"stat", "create"}
      BY <2>3, <3>2 DEF Undisturbed
    <3>4. sm.streamId < conn
      BY <3>3, NotServed
    <3>5. QED
      BY <2>1, <3>2, <3>4
  <2>4. CASE RestartStops /\ pk.id = conn /\ rpc.at = "refused"
    <3>1. sm.streamId < conn
      BY <2>4 DEF Undisturbed
    <3>2. QED
      BY <2>1, <2>4, <3>1
  <2>5. CASE Crash
    BY <2>5 DEF Crash, Travelling
  <2>6. QED
    BY <1>2, <2>2, <2>3, <2>4, <2>5, ForgetIs
<1>3. CASE pk \notin Travelling
  <2>1. SenderRuns
    BY <1>3, TravelSteps
  <2>2. UNCHANGED <<up, conn, dataNet, known>> /\ total' = total
    BY <2>1 DEF SenderRuns, SM!PrepareNextPacket, SM!bufVars, elsewhere, netVars, loopVars
  <2>3. pk = sender'.pk /\ sender'.at = "sending" /\ up /\ pk.id = conn
    BY <1>3, <2>2 DEF Travelling
  <2>4. pk.id = sm.streamId /\ pk.seq <= total /\ Whole(pk)
    BY <2>1, <2>3, SenderIs
  <2>5. EndReached
    BY <2>2, <2>3, <2>4 DEF Served
  <2>6. Upto(pk.seq)
    BY <2>4, <2>5, EndClaim, WholeIs
  <2>7. QED
    BY <2>6, UptoStep
<1>4. QED
  BY <1>1, <1>2, <1>3

LEMMA ClaimsStep ==
  ASSUME IInv, Fresh, Undisturbed, Served, Claims, LockIs, PositionIsExact, [Next]_vars
  PROVE  Claims'
BY HeadClaim, ReaderClaim, AckClaim, RestartClaim, RpcClaim, JmClaim, TravelClaim DEF Claims, Upto
-----------------------------------------------------------------------------
(* The position counts every byte.                                         *)

\* The file after a crash is what was flushed.
LEMMA CrashFile ==
  ASSUME IInv, Crash
  PROVE  /\ Len(file') = flushed.size /\ \A i \in 1 .. flushed.size : file'[i] = file[i]
         /\ flushed' = flushed /\ Position' = DiskPosition
<1>1. file' = SubSeq(file, 1, flushed.size) /\ totalGap' = flushed.gap /\ flushed' = flushed
  BY DEF Crash
<1>2. file \in Seq(Nat) /\ Len(file) \in Nat /\ flushed.size \in 0 .. Len(file) /\ flushed.gap \in Nat
  BY PositionIs DEF IInv, TypeOK, FileTypes
<1>3. PICK size \in Nat, gap \in Nat, len \in Nat : size = flushed.size /\ gap = flushed.gap /\ len = Len(file) /\ size <= len
  BY <1>2
<1>4. Len(file') = size /\ \A i \in 1 .. size : file'[i] = file[i]
  <2>1. \A i \in 1 .. size : file[i] \in Nat
    BY <1>2, <1>3
  <2>2. file' = SubSeq(file, 1, size) /\ 1 \in Int /\ size \in Int
    BY <1>1, <1>3
  <2>3. /\ Len(file') = IF 1 <= size THEN size - 1 + 1 ELSE 0
        /\ \A i \in 1 .. size - 1 + 1 : file'[i] = file[1 + i - 1]
    BY <2>1, <2>2, SubSeqProperties
  <2>4. QED
    BY <2>3
<1>5. Position' = size + gap
  BY <1>1, <1>3, <1>4 DEF Position
<1>6. QED
  BY <1>1, <1>3, <1>4, <1>5 DEF DiskPosition

\* What is on disk stays there.
LEMMA OnDiskIs ==
  ASSUME IInv, [Next]_vars
  PROVE  (UNCHANGED flushed /\ OnDisk' = OnDisk) \/ FlushCache
<1>1. CASE UNCHANGED <<file, flushed>>
  BY <1>1 DEF OnDisk
<1>2. CASE \E id \in Streams : file' = file \o loops[id].hand /\ flushed' = flushed
  <2>1. PICK id \in Streams : file' = file \o loops[id].hand /\ flushed' = flushed
    BY <1>2
  <2>2. PICK s \in Seq(Nat), t \in Seq(Nat) : s = file /\ t = loops[id].hand
    BY PositionIs, ServiceTypes DEF LoopStates
  <2>3. flushed.size \in 0 .. Len(s)
    BY <2>2 DEF IInv, TypeOK, FileTypes
  <2>4. \A i \in 1 .. flushed.size : (s \o t)[i] = s[i]
    <3>1. \A i \in 1 .. Len(s) : (s \o t)[i] = s[i]
      BY ConcatProperties
    <3>2. Len(s) \in Nat
      BY <2>2
    <3>3. QED
      BY <2>3, <3>1, <3>2
  <2>5. QED
    BY <2>1, <2>2, <2>4 DEF OnDisk
<1>3. CASE Crash
  BY <1>3, CrashFile DEF OnDisk
<1>4. QED
  BY <1>1, <1>2, <1>3, FileSteps

LEMMA DiskStep ==
  ASSUME IInv, Fresh, Exact, [Next]_vars
  PROVE  (0 .. DiskPosition - 1 \subseteq OnDisk \cup Lost)'
<1>1. CASE UNCHANGED flushed /\ OnDisk' = OnDisk
  BY <1>1, LostGrows DEF Exact, DiskPosition
<1>2. CASE FlushCache
  <2>1. flushed' = [size |-> Len(file), gap |-> totalGap] /\ file' = file
    BY <1>2 DEF FlushCache, fileVars
  <2>2. OnDisk' = Elements(file) /\ DiskPosition' = Position
    BY <2>1 DEF OnDisk, Elements, Position, DiskPosition
  <2>3. 0 .. Position - 1 \subseteq OnDisk' \cup Lost'
    BY <2>2, LostGrows DEF Exact, PositionIsExact
  <2>4. QED
    BY <2>2, <2>3
<1>3. QED
  BY <1>1, <1>2, OnDiskIs

LEMMA PositionStep ==
  ASSUME IInv, Aligned, Fresh, Claims, Exact, [Next]_vars
  PROVE  PositionIsExact'
<1> SUFFICES ASSUME NEW x \in 0 .. Position' - 1 PROVE x \in Elements(file') \cup Lost'
  BY DEF PositionIsExact, Elements
<1>0. discarded' \subseteq Lost'
  BY DEF Lost
<1>1. CASE x \in 0 .. Position - 1 /\ ~Crash
  BY <1>0, <1>1, FileGrows, LostGrows DEF Exact, PositionIsExact
<1>2. CASE Crash
  <2>1. Elements(file') = OnDisk /\ Position' = DiskPosition
    BY <1>2, CrashFile DEF Elements, OnDisk
  <2>2. 0 .. Position' - 1 \subseteq OnDisk \cup Lost
    BY <2>1 DEF Exact
  <2>3. QED
    BY <2>1, <2>2, LostGrows
<1>3. CASE \E id \in Streams : LoopAppends(id) /\ x \notin 0 .. Position - 1
  <2>1. PICK id \in Streams : LoopAppends(id)
    BY <1>3
  <2>2. PICK from \in Nat, next \in Nat :
          from = Position /\ next = Position' /\ from <= next /\ loops[id].hand = Bytes(from, next)
    BY <2>1, AppendIs, PositionIs
  <2>3. x \in from .. next - 1
    <3>1. x \in 0 .. next - 1 /\ x \notin 0 .. from - 1
      BY <1>3, <2>2
    <3>2. QED
      BY <3>1
  <2>4. x \in Elements(loops[id].hand)
    BY <2>2, <2>3, ElementsBytes
  <2>5. loops'[id].hand = << >>
    BY <2>1, ServiceTypes DEF LoopAppends
  <2>6. Elements(loops'[id].hand) = {}
    BY <2>5 DEF Elements
  <2>7. QED
    BY <1>0, <2>4, <2>6, Moves
<1>4. CASE RestartContinues /\ x \notin 0 .. Position - 1
  <2>1. /\ current = conn /\ loops[conn].hand = << >> /\ readers[conn].buffer = << >>
        /\ Position' = Position \/ Position' = rpc.seq
    BY <1>4, ContinuesIs
  <2>2. rpc.at = "prepared" /\ file' = file
    BY <1>4 DEF RestartContinues
  <2>3. x \in 0 .. rpc.seq - 1
    BY <1>4, <2>1
  <2>4. x \in Kept
    BY <2>2, <2>3 DEF Claims, Upto
  <2>5. Elements(loops[current].hand) = {} /\ Elements(readers[current].buffer) = {}
    BY <2>1 DEF Elements
  <2>6. x \in Elements(file) \/ x \in Lost
    BY <2>4, <2>5, KeptIs
  <2>7. QED
    BY <1>0, <2>6, FileGrows, LostGrows
<1>5. QED
  BY <1>1, <1>2, <1>3, <1>4, PositionSteps

-----------------------------------------------------------------------------
(* The end is recorded when nothing is missing.                            *)

LEMMA DoneSteps ==
  ASSUME IInv, [Next]_vars
  PROVE  \/ streamDone' = streamDone
         \/ \E id \in Streams : LoopEnds(id)
         \/ RestartStops /\ rpc.at = "streamDone"
BY DEF Next, ApplicationRuns, ReadLoopRuns, RecvAckEnds, SenderRuns, SendPacket, RecvAck,
      HandleConnect, HandlePrepare, DisconnectOld, ConnectNew, ConnectConsume, ConnectFails, Connected, HandleStart,
      Loop, LoopTakes, LoopAppends, LoopSuperseded, RecvPacket, Reconnect, RestartStreaming, StatFile,
      CreateReader, RestartStops, RestartContinues,
      RestartDone, Drop, FlushCache, Crash, vars, elsewhere, fileVars

\* Whoever records the end throws away what the current reader still holds.
LEMMA EndDiscards ==
  ASSUME IInv, Claims, [Next]_vars, streamDone' /= streamDone
  PROVE  /\ EndReached
         /\ Position' = Position
         /\ current \in Streams =>
              loops[current].hand = << >> /\ Elements(readers[current].buffer) \subseteq discarded'
<1>1. CASE \E id \in Streams : LoopEnds(id)
  <2>1. PICK id \in Streams : LoopEnds(id)
    BY <1>1
  <2>2. /\ HasReader(id) /\ loops[id].at = "reading" /\ Elements(readers[id].buffer) \subseteq discarded'
    BY <2>1, ClosesIs
  <2>3. readers[id].eof \/ readers[id].err /= "none"
    BY <2>1, <2>2 DEF LoopEnds, Readable, ReadsBytes, HasReader
  <2>4. EndReached
    BY <2>2, <2>3 DEF IInv, Contents
  <2>5. current = id /\ Position' = Position
    BY <2>1 DEF LoopEnds, Position
  <2>6. loops[id].hand = << >>
    BY <2>2 DEF IInv, Service
  <2>7. QED
    BY <2>2, <2>4, <2>5, <2>6
<1>2. CASE RestartStops /\ rpc.at = "streamDone"
  <2>1. /\ restart.at \in {"prepare", "start"} /\ Position' = Position
        /\ discarded' = discarded \cup Elements(readers[conn].buffer)
    BY <1>2 DEF RestartStops, CloseReader, Position
  <2>2. current = conn /\ loops[conn].hand = << >>
    BY <2>1, ServiceTypes DEF IInv, Service
  <2>3. EndReached
    BY <1>2 DEF IInv, Contents
  <2>4. QED
    BY <2>1, <2>2, <2>3
<1>3. QED
  BY <1>1, <1>2, DoneSteps

LEMMA EndedStep ==
  ASSUME IInv, Aligned, Below, Fresh, Claims, Ended, [Next]_vars
  PROVE  Ended'
<1> SUFFICES ASSUME streamDone' /= "no", NEW x \in Position' .. total' - 1
             PROVE  EndReached' /\ x \in Lost'
  <2>1. CASE streamDone' /= "no" /\ Position' .. total' - 1 = {}
    <3>1. EndReached
      BY <2>1, EndDiscards DEF Ended
    <3>2. QED
      BY <2>1, <3>1, ManagerEnd DEF Ended
  <2>2. QED
    BY <2>1 DEF Ended
<1>1. EndReached
  BY EndDiscards DEF Ended
<1>2. EndReached' /\ total' = total /\ head = total /\ total \in Nat
  BY <1>1, ManagerEnd, OnlyForward DEF EndReached
<1>3. Position \in Nat /\ Position' \in Nat /\ x \in Nat /\ Position' <= x /\ x < total
  <2>1. Position' \in Nat
    BY FileStep DEF FileTypes, Position
  <2>2. QED
    BY <1>2, <2>1, PositionIs
<1>4. x \in Kept
  <2>1. x \in 0 .. head - 1
    BY <1>2, <1>3
  <2>2. QED
    BY <2>1 DEF Claims, Upto
<1>5. CASE Crash
  <2>1. x \notin Elements(file')
    <3>1. \A i \in 1 .. Len(file') : file'[i] \in Nat /\ file'[i] < Position'
      BY <1>3, BelowStep, FileStep DEF Below, FileTypes
    <3>2. QED
      BY <1>3, <3>1 DEF Elements
  <2>2. QED
    BY <1>2, <1>4, <1>5, <2>1 DEF Crash, Kept, Lost
<1>6. CASE ~Crash
  <2>1. Position <= Position'
    BY <1>3, <1>6, PositionSteps, AppendIs, ContinuesIs
  <2>2. x \notin Elements(file)
    <3>1. \A i \in 1 .. Len(file) : file[i] \in Nat /\ file[i] < Position
      BY PositionIs DEF Below
    <3>2. QED
      BY <1>3, <2>1, <3>1 DEF Elements
  <2>3. CASE x \in Lost
    BY <1>2, <2>3, LostGrows
  <2>4. CASE x \notin Lost
    <3>1. current \in Streams /\ (x \in Elements(loops[current].hand) \/ x \in Elements(readers[current].buffer))
      BY <1>4, <2>2, <2>4, KeptIs
    <3>2. streamDone = "no"
      <4>1. CASE streamDone /= "no"
        <5>1. x \in Position .. total - 1
          BY <1>2, <1>3, <2>1
        <5>2. QED
          BY <2>4, <4>1, <5>1 DEF Ended
      <4>2. QED
        BY <4>1
    <3>3. loops[current].hand = << >> /\ Elements(readers[current].buffer) \subseteq discarded'
      BY <3>1, <3>2, EndDiscards
    <3>4. Elements(loops[current].hand) = {}
      BY <3>3 DEF Elements
    <3>5. QED
      BY <1>2, <3>1, <3>3, <3>4 DEF Lost
  <2>5. QED
    BY <2>3, <2>4
<1>7. QED
  BY <1>5, <1>6

-----------------------------------------------------------------------------

LEMMA InitKeepInv == Init => KeepInv
<1> SUFFICES ASSUME Init
             PROVE  Fresh /\ Undisturbed /\ Served /\ Claims /\ LockIs /\ Exact /\ Ended
  BY DEF KeepInv
<1>1. /\ restart.at = "idle" /\ rpc.at = "none" /\ current = 1 /\ conn = 1 /\ known = {1} /\ dataNet = {} /\ ackNet = {}
      /\ head = 0 /\ total = 0 /\ jm.step = "idle" /\ sender.at = "running" /\ lockHeld = SM!Free /\ streamDone = "no"
      /\ file = << >> /\ totalGap = 0 /\ flushed.size = 0 /\ flushed.gap = 0
      /\ readers = [id \in Streams |-> IF id = 1 THEN NewReaderWithSeq(1, 0) ELSE NoReader]
  BY DEF Init, Idle, NoRpc
<1>2. \A id \in Streams : HasReader(id) => id = 1 /\ readers[id].nextSeq = 0
  BY <1>1 DEF HasReader, NoReader, NewReaderWithSeq
<1>3. Upto(0)
  BY DEF Upto
<1>4. Sent = {} /\ Travelling = {}
  BY <1>1 DEF Sent, Travelling
<1>5. Position = 0
  BY <1>1 DEF Position
<1>6. Fresh /\ Undisturbed /\ Served /\ Ended
  BY <1>1, <1>2, <1>4 DEF Fresh, Undisturbed, Served, Ended
<1>7. Claims
  BY <1>1, <1>2, <1>3, <1>4 DEF Claims
<1>8. LockIs
  BY <1>1 DEF LockIs, SM!Free, P!Connecting
<1>9. Exact
  BY <1>1, <1>5 DEF Exact, PositionIsExact, DiskPosition
<1>10. QED
  BY <1>6, <1>7, <1>8, <1>9

LEMMA KeepInvStep == IInv /\ FileInv /\ KeepInv /\ [Next]_vars => KeepInv'
<1> SUFFICES ASSUME IInv, FileInv, KeepInv, [Next]_vars, Calm
             PROVE  (Fresh /\ Undisturbed /\ Served /\ Claims /\ LockIs /\ Exact /\ Ended)'
  BY DEF KeepInv, Calm
<1>1. OldLoop = "settles" /\ RestartsFinish /\ Aligned /\ Below
  BY DEF Calm, FileInv
<1>2. Fresh /\ Undisturbed /\ Served /\ Claims /\ LockIs /\ Exact /\ Ended
  BY DEF KeepInv
<1>3. PositionIsExact
  BY <1>2 DEF Exact
<1>4. Fresh' /\ Undisturbed'
  BY <1>1, <1>2, FreshStep, UndisturbedStep
<1>5. Served' /\ LockIs'
  BY <1>1, <1>2, ServedStep, LockIsStep
<1>6. Claims'
  BY <1>2, <1>3, ClaimsStep
<1>7. Exact'
  BY <1>1, <1>2, PositionStep, DiskStep DEF Exact
<1>8. Ended'
  BY <1>1, <1>2, EndedStep
<1>9. QED
  BY <1>4, <1>5, <1>6, <1>7, <1>8

LEMMA KeepInvHolds == Spec => []KeepInv
<1>1. Init => IInv /\ FileInv /\ KeepInv
  BY InitIInv, InitFileInv, InitKeepInv
<1>2. IInv /\ FileInv /\ KeepInv /\ [Next]_vars => (IInv /\ FileInv /\ KeepInv)'
  BY StepIInv, FileInvStep, KeepInvStep
<1>3. QED
  BY <1>1, <1>2, PTL DEF Spec

(* The job manager lets go of no byte of the output that the main server     *)
(* does not have: whatever it acknowledges, cancels or asks to start from is *)
(* in the file, on its way there, or lost and known to be.                   *)
THEOREM HeldBeforeReleased ==
  OldLoop = "settles" /\ RestartsFinish => (Spec => []ReleasedOnlyWhenHeld)
<1> SUFFICES ASSUME Calm PROVE Spec => []ReleasedOnlyWhenHeld
  BY DEF Calm
<1>1. KeepInv => ReleasedOnlyWhenHeld
  BY DEF KeepInv, Claims, Upto, Kept, ReleasedOnlyWhenHeld
<1>2. QED
  BY <1>1, KeepInvHolds, PTL

(* The position restartStreaming resumes from, the file's size and the gap,  *)
(* counts every byte before it, across reconnects and the crashes that bring *)
(* back what was last flushed.                                               *)
THEOREM PositionExact ==
  OldLoop = "settles" /\ RestartsFinish => (Spec => []PositionIsExact)
<1> SUFFICES ASSUME Calm PROVE Spec => []PositionIsExact
  BY DEF Calm
<1>1. KeepInv => PositionIsExact
  BY DEF KeepInv, Exact
<1>2. QED
  BY <1>1, KeepInvHolds, PTL

(* When the main server records the clean end of the stream, every byte      *)
(* behind its position was lost, to an overrun, to the loop of a superseded  *)
(* stream, or in a crash: none is still on its way, and where nothing was    *)
(* lost the file and the gaps are the whole output.                          *)
THEOREM EndComplete ==
  OldLoop = "settles" /\ RestartsFinish => (Spec => []EofMeansComplete)
<1> SUFFICES ASSUME Calm PROVE Spec => []EofMeansComplete
  BY DEF Calm
<1>1. KeepInv => EofMeansComplete
  BY DEF KeepInv, Ended, EofMeansComplete
<1>2. QED
  BY <1>1, KeepInvHolds, PTL

=============================================================================
