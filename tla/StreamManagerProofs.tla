------------------------- MODULE StreamManagerProofs -------------------------
(***************************************************************************)
(* Proofs about StreamManager, for every buffer size, window and number of *)
(* connections: the windows are kept, what is in flight is buffered, the   *)
(* sender never misses a wake-up, the terminal event comes last, and no    *)
(* byte is sent twice or left out within a connection.                     *)
(***************************************************************************)
EXTENDS StreamManager, SequenceTheorems, WellFoundedInduction, TLAPS

-----------------------------------------------------------------------------
(* Runs of bytes; DurableStreamProofs takes these lemmas from here.          *)

LEMMA BytesIsSeq ==
  ASSUME NEW a \in Int, NEW b \in Int, a <= b
  PROVE  /\ Bytes(a, b) \in Seq(Int)
         /\ Len(Bytes(a, b)) = b - a
         /\ \A i \in 1 .. b - a : Bytes(a, b)[i] = a + i - 1
  <1>. DEFINE n == b - a
  <1>1. n \in Nat /\ Bytes(a, b) = [i \in 1 .. n |-> a + i - 1]
    BY DEF Bytes
  <1>2. [i \in 1 .. n |-> a + i - 1] \in [1 .. n -> Int]
    BY <1>1
  <1>. QED  BY <1>1, <1>2

LEMMA NoBytes ==
  ASSUME NEW a \in Int, NEW b \in Int, b <= a
  PROVE  Bytes(a, b) = << >>
  BY DEF Bytes

LEMMA BytesEmpty ==
  ASSUME NEW a \in Int, NEW b \in Int
  PROVE  Bytes(a, b) = << >> <=> b <= a
  <1>1. CASE b <= a
    BY <1>1, NoBytes
  <1>2. CASE a < b
    <2>1. Len(Bytes(a, b)) = b - a
      BY <1>2, BytesIsSeq
    <2>. QED  BY <1>2, <2>1
  <1>. QED  BY <1>1, <1>2

LEMMA BytesConcat ==
  ASSUME NEW a \in Int, NEW b \in Int, NEW c \in Int, a <= b, b <= c
  PROVE  Bytes(a, b) \o Bytes(b, c) = Bytes(a, c)
  <1>1. /\ Bytes(a, b) \in Seq(Int) /\ Len(Bytes(a, b)) = b - a
        /\ Bytes(b, c) \in Seq(Int) /\ Len(Bytes(b, c)) = c - b
        /\ Bytes(a, c) \in Seq(Int) /\ Len(Bytes(a, c)) = c - a
    BY BytesIsSeq
  <1>2. Len(Bytes(a, b)) + Len(Bytes(b, c)) = c - a
    BY <1>1
  <1>3. Bytes(a, b) \o Bytes(b, c) \in Seq(Int)
    BY <1>1, ConcatProperties
  <1>4. Len(Bytes(a, b) \o Bytes(b, c)) = c - a
    BY <1>1, <1>2, ConcatProperties
  <1>5. ASSUME NEW i \in 1 .. c - a
        PROVE  (Bytes(a, b) \o Bytes(b, c))[i] = Bytes(a, c)[i]
    <2>1. (Bytes(a, b) \o Bytes(b, c))[i] =
            IF i <= Len(Bytes(a, b)) THEN Bytes(a, b)[i]
                                     ELSE Bytes(b, c)[i - Len(Bytes(a, b))]
      BY <1>1, <1>2, ConcatProperties
    <2>2. (Bytes(a, b) \o Bytes(b, c))[i] =
            IF i <= b - a THEN Bytes(a, b)[i] ELSE Bytes(b, c)[i - (b - a)]
      BY <1>1, <2>1
    <2>. a <= c
      OBVIOUS
    <2>3. Bytes(a, c)[i] = a + i - 1
      BY BytesIsSeq
    <2>4. CASE i <= b - a
      <3>1. i \in 1 .. b - a
        BY <2>4
      <3>2. Bytes(a, b)[i] = a + i - 1
        BY <3>1, BytesIsSeq
      <3>. QED  BY <2>2, <2>3, <2>4, <3>2
    <2>5. CASE ~(i <= b - a)
      <3>1. i - (b - a) \in 1 .. c - b
        BY <2>5
      <3>2. Bytes(b, c)[i - (b - a)] = b + (i - (b - a)) - 1
        BY <3>1, BytesIsSeq
      <3>. QED  BY <2>2, <2>3, <2>5, <3>2
    <2>. QED  BY <2>4, <2>5
  <1>. QED  BY <1>1, <1>3, <1>4, <1>5, SeqEqual

LEMMA BytesSub ==
  ASSUME NEW a \in Int, NEW b \in Int, NEW m \in Nat, NEW n \in Nat,
         m <= n, n <= b - a
  PROVE  SubSeq(Bytes(a, b), m + 1, n) = Bytes(a + m, a + n)
  <1>. DEFINE s == SubSeq(Bytes(a, b), m + 1, n)
  <1>. /\ a <= b
       /\ a + m \in Int
       /\ a + n \in Int
       /\ a + m <= a + n
    OBVIOUS
  <1>1. \A i \in 1 .. b - a : Bytes(a, b)[i] = a + i - 1
    BY BytesIsSeq
  <1>2. \A i \in m + 1 .. n : Bytes(a, b)[i] = a + i - 1
    BY <1>1
  <1>3. \A i \in m + 1 .. n : Bytes(a, b)[i] \in Int
    BY <1>2
  <1>4. s \in Seq(Int)
    BY <1>3, SubSeqProperties
  <1>5. Len(s) = n - m
    <2>1. Len(s) = IF m + 1 <= n THEN n - (m + 1) + 1 ELSE 0
      BY <1>3, SubSeqProperties
    <2>. QED  BY <2>1
  <1>6. Bytes(a + m, a + n) \in Seq(Int) /\ Len(Bytes(a + m, a + n)) = (a + n) - (a + m)
    BY BytesIsSeq
  <1>7. ASSUME NEW i \in 1 .. n - m
        PROVE  s[i] = Bytes(a + m, a + n)[i]
    <2>1. i \in 1 .. n - (m + 1) + 1 /\ (m + 1) + i - 1 = m + i /\ m + i \in m + 1 .. n
      OBVIOUS
    <2>2. s[i] = Bytes(a, b)[(m + 1) + i - 1]
      BY <1>3, <2>1, SubSeqProperties
    <2>3. Bytes(a, b)[m + i] = a + (m + i) - 1
      BY <1>2, <2>1
    <2>4. i \in 1 .. (a + n) - (a + m)
      OBVIOUS
    <2>5. Bytes(a + m, a + n)[i] = (a + m) + i - 1
      BY <2>4, BytesIsSeq
    <2>. QED  BY <2>1, <2>2, <2>3, <2>5
  <1>. HIDE DEF s
  <1>8. s = Bytes(a + m, a + n)
    BY <1>4, <1>5, <1>6, <1>7, SeqEqual
  <1>. QED  BY <1>8 DEF s

LEMMA BytesNat ==
  ASSUME NEW a \in Nat, NEW b \in Nat
  PROVE  Bytes(a, b) \in Seq(Nat)
  <1>1. CASE b <= a
    <2>1. Bytes(a, b) = << >>
      BY <1>1, NoBytes
    <2>. QED  BY <2>1
  <1>2. CASE a <= b
    <2>. DEFINE n == b - a
    <2>1. n \in Nat /\ Bytes(a, b) = [i \in 1 .. n |-> a + i - 1]
      BY <1>2 DEF Bytes
    <2>2. \A i \in 1 .. n : a + i - 1 \in Nat
      OBVIOUS
    <2>3. [i \in 1 .. n |-> a + i - 1] \in [1 .. n -> Nat]
      BY <2>2
    <2>. QED  BY <2>1, <2>3
  <1>. QED  BY <1>1, <1>2

-----------------------------------------------------------------------------
(* Extremes of sets of numbers.                                            *)

LEMMA LeastNatural ==
  ASSUME NEW T, T \subseteq Nat, T # {}
  PROVE  \E x \in T : \A y \in T : x <= y
  <1>. DEFINE R == {ss \in Nat \X Nat : ss[1] < ss[2]}
  <1>1. IsWellFoundedOn(R, Nat)
    BY NatLessThanWellFounded DEF OpToRel
  <1>. HIDE DEF R
  <1>2. PICK x \in T : \A y \in T : ~(<<y, x>> \in R)
    BY <1>1, WFMin
  <1>3. ASSUME NEW y \in T
        PROVE  x <= y
    <2>1. x \in Nat /\ y \in Nat
      OBVIOUS
    <2>2. y < x => <<y, x>> \in R
      BY <2>1 DEF R
    <2>. QED  BY <1>2, <2>1, <2>2
  <1>. QED  BY <1>3

LEMMA GreatestNatural ==
  ASSUME NEW T, T \subseteq Nat, T # {}, NEW bound \in Nat, \A x \in T : x <= bound
  PROVE  \E x \in T : \A y \in T : y <= x
  <1>. DEFINE U == {bound - x : x \in T}
  <1>1. U \subseteq Nat
    <2>1. ASSUME NEW x \in T
          PROVE  bound - x \in Nat
      OBVIOUS
    <2>. QED  BY <2>1
  <1>2. U # {}
    <2>1. PICK x \in T : TRUE
      OBVIOUS
    <2>2. bound - x \in U
      BY <2>1
    <2>. QED  BY <2>2
  <1>3. PICK u \in U : \A y \in U : u <= y
    BY <1>1, <1>2, LeastNatural
  <1>4. PICK x \in T : u = bound - x
    BY <1>3
  <1>5. ASSUME NEW y \in T
        PROVE  y <= x
    <2>1. u <= bound - y
      BY <1>3
    <2>. QED  BY <1>4, <2>1
  <1>. QED  BY <1>5

-----------------------------------------------------------------------------

Connecting == {"ConnectConsume", "ConnectReread", "ConnectEnter"}

\* What lockHeld holds in the middle of each method.
LockStates ==
  {Free}
    \cup [by : Connecting, id : StreamIds, rwnd : 0 .. MaxRwnd, clientSeq : Nat,
          headPos : Nat]
    \cup [by : {"RecvAck"}, signals : BOOLEAN]

Shapes ==
  /\ sender = [at |-> sender.at, pk |-> sender.pk]
  /\ lockHeld \in LockStates
  /\ lockHeld.by = "ConnectConsume" => lockHeld.headPos <= lockHeld.clientSeq

\* What the state of the connection says about the buffer and the windows.
Connection ==
  /\ sm.connected => syncMode /\ sm.rwndSize <= MaxRwnd
  /\ ~sm.connected => sm.sentNotAcked = 0
  /\ ~sm.connected /\ sm.streamId /= 0 => ~syncMode /\ writer = "running"
  /\ lockHeld.by \in Connecting => ~sm.connected
  /\ lockHeld.by = "RecvAck" => sm.connected

\* What the PTY's goroutine says about the terminal event.
Terminal ==
  /\ sm.terminalEvent /= "none" <=> pty.at = "done"
  /\ pty.at = "done" => sm.eofPos = total

IInv ==
  /\ TypeOK
  /\ Shapes
  /\ Connection
  /\ Terminal
  /\ InFlightIsBuffered
  /\ InFlightBounded
  /\ TerminalIsLast

\* What the proofs need of an ack; Acks says more.
IsAck(ack) == ack.seq \in Nat /\ ack.rwnd \in 0 .. MaxRwnd

\* Any calls of a connection: ClientStep without its limits on the numbers.
AnyCall ==
  \/ \E id \in StreamIds, rwnd \in 0 .. MaxRwnd, clientSeq \in Nat :
       ConnectReadHead(id, rwnd, clientSeq)
  \/ ClientDisconnected
  \/ \E ack : IsAck(ack) /\ RecvAck(ack)
  \/ \E rwnd \in 0 .. MaxRwnd : SetRwndSize(rwnd)

AnyNext == Internal \/ SendPacket \/ AnyCall

SmFields ==
  [streamId : 0 .. MaxStreams, connected : BOOLEAN, eofPos : -1 .. MaxTotal,
   terminalEvent : {"none", "eof", "error"}, rwndSize : Nat,
   sentNotAcked : Nat, maxAckedSeq : Nat, maxAckedRwnd : Nat,
   terminalEventSent : BOOLEAN, terminalEventAcked : BOOLEAN]

LEMMA NextIsAny == IInv /\ [Next]_vars => [AnyNext]_vars
  <1>. SUFFICES ASSUME IInv, ClientStep PROVE AnyCall
    BY DEF Next, AnyNext
  <1>1. \A ack \in Acks : IsAck(ack)
    BY StreamManagerAssumption DEF IInv, TypeOK, Acks, IsAck
  <1>2. 0 .. total + 1 \subseteq Nat
    BY DEF IInv, TypeOK
  <1>. QED  BY <1>1, <1>2 DEF ClientStep, AnyCall

LEMMA InitIInv == Init => IInv
  BY StreamManagerAssumption
  DEF Init, IInv, TypeOK, Shapes, Connection, Terminal, InFlightIsBuffered,
      InFlightBounded, TerminalIsLast, Buf!Init, Buf!Size, EffectiveWindow,
      Buf!Smaller, LockStates, Free, NoPacket, Connecting

-----------------------------------------------------------------------------
(* The PTY's goroutine.                                                    *)

LEMMA ReadPtyKeeps ==
  ASSUME IInv, NEW n \in 1 .. MaxWrite, ReadPty(n)
  PROVE  IInv'
  BY StreamManagerAssumption
  DEF IInv, TypeOK, Shapes, Connection, Terminal, InFlightIsBuffered, InFlightBounded,
      TerminalIsLast, ReadPty, bufVars, Buf!Size, EffectiveWindow, Buf!Smaller

\* In async mode nothing is in flight, so what is overwritten was not sent.
LEMMA WritePtyKeeps ==
  ASSUME IInv, WritePty
  PROVE  IInv'
  BY StreamManagerAssumption
  DEF IInv, TypeOK, Shapes, Connection, Terminal, InFlightIsBuffered, InFlightBounded,
      TerminalIsLast, WritePty, Buf!WriteAvailable, Buf!WriteSync, Buf!WriteBlocks,
      Buf!WriteAsync, Buf!Full, Buf!Size, Buf!Smaller, Buf!Larger, EffectiveWindow

LEMMA SignalWrittenKeeps ==
  ASSUME IInv, SignalWritten
  PROVE  IInv'
  BY StreamManagerAssumption
  DEF IInv, TypeOK, Shapes, Connection, Terminal, InFlightIsBuffered, InFlightBounded,
      TerminalIsLast, SignalWritten, SignalDrain, bufVars, Buf!Size, Buf!Smaller,
      EffectiveWindow

LEMMA HandleTerminalEventKeeps ==
  ASSUME IInv, NEW event \in {"eof", "error"}, HandleTerminalEvent(event)
  PROVE  IInv'
  <1>1. TypeOK'
    <2>1. sm \in SmFields /\ total \in 0 .. MaxTotal /\ MaxTotal \in Nat
      BY StreamManagerAssumption DEF IInv, TypeOK, SmFields
    <2>2. sm' = [sm EXCEPT !.eofPos = total, !.terminalEvent = event]
      BY DEF HandleTerminalEvent
    <2>3. sm' \in SmFields
      <3>1. total \in -1 .. MaxTotal /\ event \in {"none", "eof", "error"}
        BY <2>1
      <3>. QED  BY <2>1, <2>2, <3>1 DEF SmFields
    <2>4. pty' \in [at : {"reading", "writing", "signalling", "done"}, left : 0 .. MaxWrite]
      BY DEF IInv, TypeOK, HandleTerminalEvent
    <2>5. sender'.at \in {"running", "waiting", "sending", "done"}
      BY DEF IInv, TypeOK, Shapes, HandleTerminalEvent, SignalDrain
    <2>6. UNCHANGED <<bufVars, lockHeld>>
      BY DEF HandleTerminalEvent
    <2>. QED  BY <2>3, <2>4, <2>5, <2>6 DEF IInv, TypeOK, SmFields, bufVars
  <1>2. Shapes' /\ Connection' /\ Terminal'
    BY DEF IInv, TypeOK, Shapes, Connection, Terminal, HandleTerminalEvent, SignalDrain, bufVars
  <1>3. InFlightIsBuffered' /\ InFlightBounded' /\ TerminalIsLast'
    BY DEF IInv, TypeOK, Terminal, InFlightIsBuffered, InFlightBounded, TerminalIsLast,
           HandleTerminalEvent, bufVars, Buf!Size, EffectiveWindow, Buf!Smaller
  <1>. QED  BY <1>1, <1>2, <1>3 DEF IInv

-----------------------------------------------------------------------------
(* The sender's goroutine.                                                 *)

\* A packet holds what is buffered and not yet sent, up to the window.
LEMMA NextDataSize ==
  ASSUME IInv
  PROVE  /\ HasData <=> /\ Buf!Size > sm.sentNotAcked
                        /\ AvailableToSend > 0
         /\ HasData => /\ Len(NextData) \in 1 .. AvailableToSend
                       /\ sm.sentNotAcked + Len(NextData) <= Buf!Size
  <1>. DEFINE from == head + sm.sentNotAcked
              n == Buf!Smaller(AvailableToSend, MaxWrite)
              to == Buf!Smaller(from + n, Buf!Larger(total, from))
  <1>1. /\ head \in Nat /\ total \in Nat /\ sm.sentNotAcked \in Nat
        /\ sm.sentNotAcked <= total - head
        /\ AvailableToSend \in Int /\ MaxWrite \in Nat \ {0}
    BY StreamManagerAssumption
    DEF IInv, TypeOK, InFlightIsBuffered, Buf!Size, AvailableToSend, EffectiveWindow, Buf!Smaller
  <1>2. from \in Int /\ n \in Int /\ to \in Int
    BY <1>1 DEF Buf!Smaller, Buf!Larger
  <1>3. NextData = Bytes(from, to)
    BY DEF NextData, Buf!PeekDataAt, Buf!Bytes, Bytes
  <1>4. /\ AvailableToSend > 0 => (to > from <=> total > from)
        /\ AvailableToSend > 0 => to <= from + AvailableToSend /\ to <= total
    BY <1>1 DEF Buf!Smaller, Buf!Larger
  <1>5. NextData = << >> <=> to <= from
    BY <1>2, <1>3, BytesEmpty
  <1>6. HasData <=> Buf!Size > sm.sentNotAcked /\ AvailableToSend > 0
    BY <1>1, <1>2, <1>4, <1>5 DEF HasData, Buf!Size
  <1>7. ASSUME HasData
        PROVE  /\ Len(NextData) \in 1 .. AvailableToSend
               /\ sm.sentNotAcked + Len(NextData) <= Buf!Size
    <2>1. AvailableToSend > 0 /\ to > from
      BY <1>2, <1>5, <1>7 DEF HasData
    <2>2. Len(Bytes(from, to)) = to - from
      <3>. HIDE DEF from, to
      <3>. QED  BY <1>2, <2>1, BytesIsSeq
    <2>3. Len(NextData) = to - from
      BY <1>3, <2>2
    <2>. HIDE DEF to, n
    <2>. QED  BY <1>1, <1>2, <1>4, <2>1, <2>3 DEF Buf!Size
  <1>. QED  BY <1>6, <1>7

LEMMA PrepareDataKeeps ==
  ASSUME IInv, PrepareNextPacket, PrepareData, sm.connected
  PROVE  IInv'
  <1>. DEFINE n == Len(NextData)
  <1>1. /\ n \in 1 .. AvailableToSend
        /\ sm.sentNotAcked + n <= Buf!Size
        /\ Buf!Size > sm.sentNotAcked
    BY NextDataSize DEF PrepareData
  <1>. HIDE DEF n
  <1>2. /\ sm' = [sm EXCEPT !.sentNotAcked = @ + n]
        /\ sender' = [at |-> "sending", pk |-> sender'.pk]
        /\ UNCHANGED <<bufVars, pty, lockHeld>>
    BY DEF PrepareNextPacket, PrepareData, n
  <1>3. sm.sentNotAcked \in Nat /\ sm \in SmFields
    BY DEF IInv, TypeOK, SmFields
  <1>4. sm.sentNotAcked + n <= EffectiveWindow(MaxRwnd)
    BY <1>1, <1>3, StreamManagerAssumption
    DEF IInv, TypeOK, Connection, AvailableToSend, EffectiveWindow, Buf!Smaller
  <1>5. sm' \in SmFields
    BY <1>1, <1>2, <1>3 DEF SmFields
  <1>6. TypeOK'
    BY <1>2, <1>5 DEF IInv, TypeOK, SmFields, bufVars
  <1>7. Shapes' /\ Connection' /\ Terminal'
    BY <1>2, <1>3 DEF IInv, Shapes, Connection, Terminal, SmFields, bufVars
  <1>8. InFlightIsBuffered' /\ InFlightBounded'
    BY <1>1, <1>2, <1>3, <1>4
    DEF InFlightIsBuffered, InFlightBounded, SmFields, bufVars, Buf!Size, EffectiveWindow,
        Buf!Smaller
  <1>9. TerminalIsLast'
    BY <1>1, <1>2, <1>3 DEF IInv, TypeOK, TerminalIsLast, SmFields, bufVars, Buf!Size
  <1>. QED  BY <1>6, <1>7, <1>8, <1>9 DEF IInv

LEMMA PrepareTerminalPacketKeeps ==
  ASSUME IInv, PrepareNextPacket, PrepareTerminalPacket
  PROVE  IInv'
  <1>1. /\ sm' = [sm EXCEPT !.terminalEventSent = TRUE]
        /\ sender' = [at |-> "sending", pk |-> sender'.pk]
        /\ UNCHANGED <<bufVars, pty, lockHeld>>
        /\ Buf!Size = 0 /\ sm.terminalEvent /= "none"
    BY DEF PrepareNextPacket, PrepareTerminalPacket, HasTerminal
  <1>2. sm \in SmFields
    BY DEF IInv, TypeOK, SmFields
  <1>3. sm' \in SmFields
    BY <1>1, <1>2 DEF SmFields
  <1>4. TypeOK'
    BY <1>1, <1>3 DEF IInv, TypeOK, SmFields, bufVars
  <1>5. Shapes' /\ Connection' /\ Terminal'
    BY <1>1, <1>2 DEF IInv, Shapes, Connection, Terminal, SmFields, bufVars
  <1>6. InFlightIsBuffered' /\ InFlightBounded'
    BY <1>1, <1>2
    DEF IInv, InFlightIsBuffered, InFlightBounded, SmFields, bufVars, Buf!Size,
        EffectiveWindow, Buf!Smaller
  <1>7. TerminalIsLast'
    BY <1>1, <1>2 DEF IInv, TypeOK, Terminal, TerminalIsLast, SmFields, bufVars, Buf!Size
  <1>. QED  BY <1>4, <1>5, <1>6, <1>7 DEF IInv

LEMMA PrepareNextPacketKeeps ==
  ASSUME IInv, PrepareNextPacket
  PROVE  IInv'
  <1>1. CASE sm.connected /\ PrepareTerminalPacket
    BY <1>1, PrepareTerminalPacketKeeps
  <1>2. CASE sm.connected /\ PrepareData
    BY <1>2, PrepareDataKeeps
  <1>3. CASE sm.terminalEventAcked \/ WaitForDrain
    <2>1. UNCHANGED <<sm, bufVars, pty, lockHeld>>
      BY <1>3 DEF PrepareNextPacket, WaitForDrain
    <2>. QED
      BY <1>3, <2>1
      DEF PrepareNextPacket, WaitForDrain, IInv, TypeOK, Shapes, Connection, Terminal,
          InFlightIsBuffered, InFlightBounded, TerminalIsLast, bufVars, Buf!Size,
          EffectiveWindow, Buf!Smaller
  <1>. QED  BY <1>1, <1>2, <1>3 DEF PrepareNextPacket

LEMMA SendPacketKeeps ==
  ASSUME IInv, SendPacket
  PROVE  IInv'
  BY DEF IInv, TypeOK, Shapes, Connection, Terminal, InFlightIsBuffered, InFlightBounded,
         TerminalIsLast, SendPacket, NoPacket, bufVars, Buf!Size, EffectiveWindow, Buf!Smaller

-----------------------------------------------------------------------------
(* The calls of the connection.                                            *)

LEMMA ConnectReadHeadKeeps ==
  ASSUME IInv, NEW id \in StreamIds, NEW rwnd \in 0 .. MaxRwnd,
         NEW clientSeq \in Nat, ConnectReadHead(id, rwnd, clientSeq)
  PROVE  IInv'
  BY DEF IInv, TypeOK, Shapes, Connection, Terminal, InFlightIsBuffered, InFlightBounded,
         TerminalIsLast, ConnectReadHead, Connectable, LockStates, Connecting, bufVars,
         Buf!Size, EffectiveWindow, Buf!Smaller

LEMMA ConnectRefusedKeeps ==
  ASSUME IInv, ConnectRefused
  PROVE  IInv'
  BY DEF IInv, TypeOK, Shapes, Connection, Terminal, InFlightIsBuffered, InFlightBounded,
         TerminalIsLast, ConnectRefused, LockStates, Free, Connecting, bufVars, Buf!Size,
         EffectiveWindow, Buf!Smaller

LEMMA ConnectConsumeKeeps ==
  ASSUME IInv, ConnectConsume
  PROVE  IInv'
  BY DEF IInv, TypeOK, Shapes, Connection, Terminal, InFlightIsBuffered, InFlightBounded,
         TerminalIsLast, ConnectConsume, BytesToConsume, Buf!Consume, LockStates, Free,
         Connecting, Buf!Size, EffectiveWindow, Buf!Smaller

LEMMA ConnectRereadKeeps ==
  ASSUME IInv, ConnectReread
  PROVE  IInv'
  <1>1. /\ lockHeld' = [lockHeld EXCEPT !.by = "ConnectEnter", !.headPos = head]
        /\ UNCHANGED <<bufVars, sm, pty, sender>>
        /\ lockHeld.by = "ConnectReread"
    BY DEF ConnectReread
  <1>2. /\ lockHeld \in [by : Connecting, id : StreamIds, rwnd : 0 .. MaxRwnd,
                         clientSeq : Nat, headPos : Nat]
        /\ head \in Nat
    BY <1>1 DEF IInv, TypeOK, Shapes, LockStates, Free, Connecting
  <1>3. /\ lockHeld' \in [by : Connecting, id : StreamIds, rwnd : 0 .. MaxRwnd,
                          clientSeq : Nat, headPos : Nat]
        /\ lockHeld'.by = "ConnectEnter"
    BY <1>1, <1>2 DEF Connecting
  <1>4. TypeOK' /\ Shapes'
    BY <1>1, <1>3 DEF IInv, TypeOK, Shapes, LockStates, bufVars
  <1>5. Connection' /\ Terminal'
    BY <1>1, <1>3 DEF IInv, Connection, Terminal, Connecting, bufVars
  <1>6. InFlightIsBuffered' /\ InFlightBounded' /\ TerminalIsLast'
    BY <1>1 DEF IInv, InFlightIsBuffered, InFlightBounded, TerminalIsLast, bufVars,
                Buf!Size, EffectiveWindow, Buf!Smaller
  <1>. QED  BY <1>4, <1>5, <1>6 DEF IInv

LEMMA ConnectEnterKeeps ==
  ASSUME IInv, ConnectEnter
  PROVE  IInv'
  <1>1. /\ sm' = [sm EXCEPT !.streamId = lockHeld.id, !.connected = TRUE,
                            !.rwndSize = lockHeld.rwnd, !.sentNotAcked = 0]
        /\ lockHeld' = Free
        /\ syncMode' = TRUE
        /\ UNCHANGED <<head, total, pty>>
    BY DEF ConnectEnter, Buf!SetEffectiveWindow
  <1>2. /\ sm \in SmFields
        /\ lockHeld.id \in 0 .. MaxStreams
        /\ lockHeld.rwnd \in 0 .. MaxRwnd
    BY StreamManagerAssumption
    DEF IInv, TypeOK, Shapes, LockStates, Free, StreamIds, ConnectEnter, SmFields
  <1>3. sm' \in SmFields
    <2>1. lockHeld.rwnd \in Nat
      BY <1>2, StreamManagerAssumption
    <2>. QED  BY <1>1, <1>2, <2>1 DEF SmFields
  <1>4. windowSize' \in 0 .. MaxSize /\ writer' \in {"running", "waiting"}
    BY <1>2, StreamManagerAssumption
    DEF IInv, TypeOK, ConnectEnter, Buf!SetEffectiveWindow, EffectiveWindow, Buf!Smaller
  <1>5. /\ sender'.at \in {"running", "waiting", "sending", "done"}
        /\ sender' = [at |-> sender'.at, pk |-> sender'.pk]
    BY DEF IInv, TypeOK, Shapes, ConnectEnter, SignalDrain
  <1>6. TypeOK'
    BY <1>1, <1>3, <1>4, <1>5 DEF IInv, TypeOK, SmFields, Free
  <1>7. Shapes' /\ Connection' /\ Terminal'
    BY <1>1, <1>2, <1>5, StreamManagerAssumption
    DEF IInv, Shapes, Connection, Terminal, LockStates, Free, Connecting, SmFields
  <1>8. InFlightIsBuffered' /\ InFlightBounded' /\ TerminalIsLast'
    BY <1>1, <1>2, StreamManagerAssumption
    DEF IInv, TypeOK, InFlightIsBuffered, InFlightBounded, TerminalIsLast, Buf!Size,
        EffectiveWindow, Buf!Smaller, SmFields
  <1>. QED  BY <1>6, <1>7, <1>8 DEF IInv

LEMMA ClientDisconnectedKeeps ==
  ASSUME IInv, ClientDisconnected
  PROVE  IInv'
  <1>1. /\ sm' = [sm EXCEPT !.connected = FALSE, !.sentNotAcked = 0,
                            !.maxAckedSeq = 0, !.maxAckedRwnd = 0,
                            !.terminalEventSent = @ /\ sm.terminalEventAcked]
        /\ sm.connected /\ lockHeld = Free
        /\ UNCHANGED <<pty, lockHeld>>
    BY DEF ClientDisconnected
  <1>2. /\ sm \in SmFields /\ syncMode
        /\ head \in 0 .. total /\ total \in 0 .. MaxTotal
    BY <1>1 DEF IInv, TypeOK, Connection, SmFields
  <1>3. /\ syncMode' = FALSE /\ windowSize' = MaxSize /\ writer' = "running"
        /\ head' = Buf!Larger(head, total - MaxSize) /\ total' = total
    BY <1>2, StreamManagerAssumption
    DEF ClientDisconnected, Buf!SetEffectiveWindow, Buf!Smaller
  <1>4. sm' \in SmFields
    BY <1>1, <1>2 DEF SmFields
  <1>5. /\ sender'.at \in {"running", "waiting", "sending", "done"}
        /\ sender' = [at |-> sender'.at, pk |-> sender'.pk]
    BY DEF IInv, TypeOK, Shapes, ClientDisconnected, SignalDrain
  <1>6. head' \in 0 .. total'
    BY <1>2, <1>3, StreamManagerAssumption DEF Buf!Larger
  <1>7. TypeOK'
    <2>1. MaxSize \in 0 .. MaxSize
      BY StreamManagerAssumption
    <2>2. total' \in 0 .. MaxTotal
      BY <1>2, <1>3
    <2>. QED  BY <1>1, <1>3, <1>4, <1>5, <1>6, <2>1, <2>2 DEF IInv, TypeOK, SmFields, Free
  <1>8. Shapes' /\ Connection' /\ Terminal'
    BY <1>1, <1>2, <1>3, <1>5 DEF IInv, Shapes, Connection, Terminal, Free, Connecting, SmFields
  <1>9. InFlightIsBuffered' /\ InFlightBounded'
    <2>1. sm'.sentNotAcked = 0
      BY <1>1, <1>2 DEF SmFields
    <2>2. head' \in Int /\ total' \in Int /\ 0 <= total' - head'
      BY <1>2, <1>3, <1>6, StreamManagerAssumption
    <2>3. InFlightIsBuffered'
      BY <2>1, <2>2 DEF InFlightIsBuffered, Buf!Size
    <2>4. InFlightBounded'
      BY <2>1, StreamManagerAssumption DEF InFlightBounded, EffectiveWindow, Buf!Smaller
    <2>. QED  BY <2>3, <2>4
  <1>10. TerminalIsLast'
    BY <1>1, <1>2, <1>3, StreamManagerAssumption DEF IInv, TerminalIsLast, SmFields, Buf!Larger
  <1>. QED  BY <1>7, <1>8, <1>9, <1>10 DEF IInv

LEMMA RecvFinKeeps ==
  ASSUME IInv, NEW ack, RecvFin(ack)
  PROVE  IInv'
  <1>1. /\ sm' = [sm EXCEPT !.terminalEventAcked = TRUE]
        /\ UNCHANGED <<bufVars, pty, lockHeld>>
    BY DEF RecvFin
  <1>2. sm \in SmFields
    BY DEF IInv, TypeOK, SmFields
  <1>3. sm' \in SmFields
    BY <1>1, <1>2 DEF SmFields
  <1>4. /\ sender'.at \in {"running", "waiting", "sending", "done"}
        /\ sender' = [at |-> sender'.at, pk |-> sender'.pk]
    BY DEF IInv, TypeOK, Shapes, RecvFin, SignalDrain
  <1>5. TypeOK'
    BY <1>1, <1>3, <1>4 DEF IInv, TypeOK, SmFields, bufVars
  <1>6. Shapes' /\ Connection' /\ Terminal'
    BY <1>1, <1>2, <1>4 DEF IInv, Shapes, Connection, Terminal, SmFields, bufVars
  <1>7. InFlightIsBuffered' /\ InFlightBounded' /\ TerminalIsLast'
    BY <1>1, <1>2
    DEF IInv, InFlightIsBuffered, InFlightBounded, TerminalIsLast, SmFields, bufVars,
        Buf!Size, EffectiveWindow, Buf!Smaller
  <1>. QED  BY <1>5, <1>6, <1>7 DEF IInv

LEMMA RecvAckOutsideKeeps ==
  ASSUME IInv, NEW ack, IsAck(ack), RecvAckOutside(ack)
  PROVE  IInv'
  <1>1. /\ sm' = [sm EXCEPT !.maxAckedSeq = ack.seq, !.maxAckedRwnd = ack.rwnd]
        /\ UNCHANGED <<bufVars, pty, sender, lockHeld>>
    BY DEF RecvAckOutside
  <1>2. /\ sm \in SmFields
        /\ ack.seq \in Nat /\ ack.rwnd \in Nat
    BY StreamManagerAssumption DEF IInv, TypeOK, SmFields, IsAck
  <1>3. sm' \in SmFields
    BY <1>1, <1>2 DEF SmFields
  <1>4. TypeOK'
    BY <1>1, <1>3 DEF IInv, TypeOK, SmFields, bufVars
  <1>5. Shapes' /\ Connection' /\ Terminal'
    BY <1>1, <1>2 DEF IInv, Shapes, Connection, Terminal, SmFields, bufVars
  <1>6. InFlightIsBuffered' /\ InFlightBounded' /\ TerminalIsLast'
    BY <1>1, <1>2
    DEF IInv, InFlightIsBuffered, InFlightBounded, TerminalIsLast, SmFields, bufVars,
        Buf!Size, EffectiveWindow, Buf!Smaller
  <1>. QED  BY <1>4, <1>5, <1>6 DEF IInv

\* Once the terminal event is sent nothing is buffered, so nothing is consumed.
LEMMA RecvAckConsumeKeeps ==
  ASSUME IInv, NEW ack, IsAck(ack), RecvAckConsume(ack)
  PROVE  IInv'
  <1>. DEFINE n == AckedBytes(ack)
  <1>1. /\ sm' = [sm EXCEPT !.maxAckedSeq = ack.seq, !.maxAckedRwnd = ack.rwnd,
                            !.sentNotAcked = @ - n, !.rwndSize = ack.rwnd]
        /\ lockHeld' = [by |-> "RecvAck", signals |-> ack.rwnd > sm.rwndSize \/ n > 0]
        /\ n \in 0 .. sm.sentNotAcked
        /\ sm.connected
        /\ UNCHANGED <<pty, sender>>
    BY DEF RecvAckConsume, IgnoresAck
  <1>2. /\ sm \in SmFields
        /\ ack.seq \in Nat /\ ack.rwnd \in 0 .. MaxRwnd
        /\ head \in 0 .. total /\ total \in 0 .. MaxTotal
        /\ sm.sentNotAcked <= total - head
    BY StreamManagerAssumption DEF IInv, TypeOK, InFlightIsBuffered, Buf!Size, SmFields, IsAck
  <1>. HIDE DEF n
  <1>3. n \in Nat /\ sm.sentNotAcked - n \in Nat /\ ack.rwnd \in Nat
    BY <1>1, <1>2, StreamManagerAssumption DEF SmFields
  <1>4. /\ head' = head + n
        /\ UNCHANGED <<total, syncMode, windowSize>>
        /\ writer' \in {"running", "waiting"}
    BY <1>1, <1>2, <1>3
    DEF RecvAckConsume, Buf!Consume, bufVars, IInv, TypeOK, n
  <1>5. sm' \in SmFields
    BY <1>1, <1>2, <1>3 DEF SmFields
  <1>6. TypeOK'
    BY <1>1, <1>2, <1>3, <1>4, <1>5 DEF IInv, TypeOK, SmFields
  <1>7. Shapes'
    BY <1>1 DEF IInv, Shapes, LockStates
  <1>8. Connection' /\ Terminal'
    BY <1>1, <1>2, <1>3, <1>4 DEF IInv, Connection, Terminal, SmFields, Connecting
  <1>9. InFlightIsBuffered' /\ InFlightBounded'
    BY <1>1, <1>2, <1>3, <1>4, StreamManagerAssumption
    DEF IInv, InFlightIsBuffered, InFlightBounded, SmFields, Buf!Size, EffectiveWindow,
        Buf!Smaller
  <1>10. ASSUME sm.terminalEventSent
         PROVE  n = 0
    BY <1>1, <1>2, <1>3, <1>10 DEF IInv, TerminalIsLast, SmFields
  <1>11. TerminalIsLast'
    BY <1>1, <1>2, <1>3, <1>4, <1>10 DEF IInv, TerminalIsLast, SmFields
  <1>. QED  BY <1>6, <1>7, <1>8, <1>9, <1>11 DEF IInv

LEMMA RecvAckResizeKeeps ==
  ASSUME IInv, RecvAckResize
  PROVE  IInv'
  BY StreamManagerAssumption
  DEF IInv, TypeOK, Shapes, Connection, Terminal, InFlightIsBuffered, InFlightBounded,
      TerminalIsLast, RecvAckResize, SignalDrain, Buf!SetEffectiveWindow, LockStates, Free,
      Connecting, Buf!Size, EffectiveWindow, Buf!Smaller

LEMMA SetRwndSizeKeeps ==
  ASSUME IInv, NEW rwnd \in 0 .. MaxRwnd, SetRwndSize(rwnd)
  PROVE  IInv'
  BY StreamManagerAssumption
  DEF IInv, TypeOK, Shapes, Connection, Terminal, InFlightIsBuffered, InFlightBounded,
      TerminalIsLast, SetRwndSize, SignalDrain, Buf!SetEffectiveWindow, LockStates, Free,
      Connecting, Buf!Size, EffectiveWindow, Buf!Smaller

LEMMA StutterKeeps ==
  ASSUME IInv, UNCHANGED vars
  PROVE  IInv'
  BY DEF IInv, TypeOK, Shapes, Connection, Terminal, InFlightIsBuffered, InFlightBounded,
         TerminalIsLast, vars, bufVars, Buf!Size, EffectiveWindow, Buf!Smaller

LEMMA StepIInv == IInv /\ [AnyNext]_vars => IInv'
  <1>. SUFFICES ASSUME IInv, [AnyNext]_vars PROVE IInv'
    OBVIOUS
  <1>1. CASE Internal
    BY <1>1, ReadPtyKeeps, WritePtyKeeps, SignalWrittenKeeps, HandleTerminalEventKeeps,
       PrepareNextPacketKeeps, ConnectRefusedKeeps, ConnectConsumeKeeps, ConnectRereadKeeps,
       ConnectEnterKeeps, RecvAckResizeKeeps
    DEF Internal
  <1>2. CASE SendPacket
    BY <1>2, SendPacketKeeps
  <1>3. CASE AnyCall
    BY <1>3, ConnectReadHeadKeeps, ClientDisconnectedKeeps, RecvFinKeeps, RecvAckOutsideKeeps,
       RecvAckConsumeKeeps, StutterKeeps, SetRwndSizeKeeps
    DEF AnyCall, RecvAck, RecvAckIgnored
  <1>4. CASE UNCHANGED vars
    BY <1>4, StutterKeeps
  <1>. QED  BY <1>1, <1>2, <1>3, <1>4 DEF AnyNext

\* The inductive invariant holds in every reachable state.
THEOREM Invariance == Spec => []IInv
  BY InitIInv, NextIsAny, StepIInv, PTL DEF Spec

\* Every field stays in its type: the positions never run ahead of the output
\* and the counters never go negative (streammanager.go's guards suffice).
THEOREM TypeCorrect == Spec => []TypeOK
  BY Invariance, PTL DEF IInv

\* What is in flight can be sent again after a reconnect, and handleAck's
\* Consume never fails.
THEOREM InFlightBuffered == Spec => []InFlightIsBuffered
  BY Invariance, PTL DEF IInv

\* Neither acks nor window updates let more than the window be in flight.
THEOREM InFlightInWindow == Spec => []InFlightBounded
  BY Invariance, PTL DEF IInv

\* A client that has the terminal packet has missed nothing.
THEOREM TerminalLast == Spec => []TerminalIsLast
  BY Invariance, PTL DEF IInv

\* The PTY is blocked only on behalf of a connected client.
THEOREM BlocksConnected == Spec => []BlocksOnlyConnected
  <1>1. IInv => BlocksOnlyConnected
    BY DEF IInv, Connection, BlocksOnlyConnected
  <1>. QED  BY <1>1, Invariance, PTL

-----------------------------------------------------------------------------
(* No wake-up is lost.                                                     *)

ToSend == Buf!Size > sm.sentNotAcked /\ AvailableToSend > 0

\* SleepsOnlyIdle, without the packet that NextData builds.
IdleSleep ==
  (sender.at = "waiting" /\ sm.connected /\ (ToSend \/ HasTerminal)) =>
    \/ pty.at = "signalling"
    \/ lockHeld.by = "RecvAck" /\ lockHeld.signals

LEMMA IdleSleepIs == IInv => (IdleSleep <=> SleepsOnlyIdle)
  BY NextDataSize DEF IdleSleep, SleepsOnlyIdle, ToSend

LEMMA SignalDrainWakes ==
  ASSUME IInv, SignalDrain
  PROVE  sender'.at /= "waiting"
  BY DEF IInv, Shapes, SignalDrain

\* The PTY's goroutine signals after each write.
LEMMA PtyWakes ==
  ASSUME IInv, IdleSleep,
         \/ \E n \in 1 .. MaxWrite : ReadPty(n)
         \/ WritePty
         \/ SignalWritten
         \/ \E event \in {"eof", "error"} : HandleTerminalEvent(event)
  PROVE  IdleSleep'
  <1>1. CASE \E n \in 1 .. MaxWrite : ReadPty(n)
    BY <1>1 DEF IdleSleep, ReadPty, bufVars, ToSend, HasTerminal, Buf!Size, AvailableToSend,
                EffectiveWindow, Buf!Smaller
  <1>2. CASE WritePty /\ sm.connected
    <2>1. syncMode /\ pty.at = "writing" /\ UNCHANGED <<head, sm, sender, lockHeld>>
      BY <1>2 DEF IInv, Connection, WritePty, Buf!WriteAvailable, Buf!WriteSync,
                  Buf!WriteBlocks, Buf!WriteAsync
    <2>2. CASE total' > total
      BY <1>2, <2>2 DEF WritePty, IdleSleep
    <2>3. CASE ~(total' > total)
      <3>1. total' = total
        <4>1. /\ pty.left \in Nat /\ total \in Nat /\ head \in Nat /\ windowSize \in Nat
          BY StreamManagerAssumption DEF IInv, TypeOK
        <4>2. CASE Buf!WriteSync(pty.left)
          BY <2>3, <4>1, <4>2 DEF Buf!WriteSync, Buf!Smaller, Buf!Full, Buf!Size
        <4>3. CASE Buf!WriteBlocks
          BY <4>3 DEF Buf!WriteBlocks
        <4>. QED  BY <1>2, <2>1, <4>2, <4>3 DEF WritePty, Buf!WriteAvailable, Buf!WriteAsync
      <3>2. UNCHANGED pty
        BY <1>2, <2>3 DEF WritePty
      <3>. QED
        BY <2>1, <3>1, <3>2
        DEF IdleSleep, ToSend, HasTerminal, Buf!Size, AvailableToSend, EffectiveWindow,
            Buf!Smaller
    <2>. QED  BY <2>2, <2>3
  <1>3. CASE WritePty /\ ~sm.connected
    BY <1>3 DEF WritePty, IdleSleep
  <1>4. CASE SignalWritten \/ \E event \in {"eof", "error"} : HandleTerminalEvent(event)
    BY <1>4, SignalDrainWakes DEF SignalWritten, HandleTerminalEvent, IdleSleep
  <1>. QED  BY <1>1, <1>2, <1>3, <1>4

\* The sender goes to sleep under sm.lock, having looked.
LEMMA SenderWakes ==
  ASSUME IInv, PrepareNextPacket \/ SendPacket
  PROVE  IdleSleep'
  <1>1. CASE SendPacket
    BY <1>1 DEF SendPacket, IdleSleep
  <1>2. CASE PrepareNextPacket /\ WaitForDrain
    <2>1. UNCHANGED <<sm, bufVars, pty, lockHeld>>
      BY <1>2 DEF PrepareNextPacket, WaitForDrain
    <2>2. ~sm.connected \/ ~(HasTerminal \/ ToSend)
      BY <1>2, NextDataSize DEF WaitForDrain, ToSend
    <2>. QED
      BY <2>1, <2>2 DEF IdleSleep, ToSend, HasTerminal, bufVars, Buf!Size, AvailableToSend,
                        EffectiveWindow, Buf!Smaller
  <1>3. CASE PrepareNextPacket /\ ~WaitForDrain
    <2>1. sender'.at /= "waiting"
      BY <1>3 DEF PrepareNextPacket, PrepareTerminalPacket, PrepareData, IInv, Shapes
    <2>. QED  BY <2>1 DEF IdleSleep
  <1>. QED  BY <1>1, <1>2, <1>3

\* A connection starts with a signal, and has none to give before.
LEMMA ConnectWakes ==
  ASSUME IInv,
         \/ \E id \in StreamIds, rwnd \in 0 .. MaxRwnd, clientSeq \in Nat :
              ConnectReadHead(id, rwnd, clientSeq)
         \/ ConnectRefused \/ ConnectConsume \/ ConnectReread \/ ConnectEnter
         \/ ClientDisconnected
  PROVE  IdleSleep'
  <1>1. CASE ConnectEnter
    BY <1>1, SignalDrainWakes DEF ConnectEnter, IdleSleep
  <1>2. CASE ~ConnectEnter
    <2>1. ~sm'.connected
      BY <1>2 DEF ConnectReadHead, Connectable, ConnectRefused, ConnectConsume, ConnectReread,
                  ClientDisconnected, IInv, TypeOK, Connection, Connecting
    <2>. QED  BY <2>1 DEF IdleSleep
  <1>. QED  BY <1>1, <1>2

\* An ack that makes room signals once it has resized the window.
LEMMA AckWakes ==
  ASSUME IInv, IdleSleep, NEW ack, IsAck(ack), RecvAck(ack)
  PROVE  IdleSleep'
  <1>1. CASE RecvFin(ack)
    BY <1>1, SignalDrainWakes DEF RecvFin, IdleSleep
  <1>2. CASE RecvAckOutside(ack)
    <2>1. /\ sm' = [sm EXCEPT !.maxAckedSeq = ack.seq, !.maxAckedRwnd = ack.rwnd]
          /\ UNCHANGED <<bufVars, pty, sender, lockHeld>>
          /\ sm \in SmFields
      BY <1>2 DEF RecvAckOutside, IInv, TypeOK, SmFields
    <2>. QED
      BY <2>1 DEF IdleSleep, ToSend, HasTerminal, bufVars, Buf!Size, AvailableToSend,
                  EffectiveWindow, Buf!Smaller, SmFields
  <1>3. CASE RecvAckConsume(ack)
    <2>. DEFINE n == AckedBytes(ack)
    <2>1. /\ sm' = [sm EXCEPT !.maxAckedSeq = ack.seq, !.maxAckedRwnd = ack.rwnd,
                              !.sentNotAcked = @ - n, !.rwndSize = ack.rwnd]
          /\ lockHeld' = [by |-> "RecvAck", signals |-> ack.rwnd > sm.rwndSize \/ n > 0]
          /\ n \in 0 .. sm.sentNotAcked
          /\ lockHeld = Free
          /\ UNCHANGED <<pty, sender>>
          /\ n = 0 => UNCHANGED bufVars
          /\ sm \in SmFields
          /\ ack.rwnd \in 0 .. MaxRwnd
      BY <1>3 DEF RecvAckConsume, IInv, TypeOK, SmFields, IsAck
    <2>. HIDE DEF n
    <2>2. CASE lockHeld'.signals
      BY <2>1, <2>2 DEF IdleSleep
    <2>3. CASE ~lockHeld'.signals
      <3>1. ~(ack.rwnd > sm.rwndSize) /\ ~(n > 0)
        BY <2>1, <2>3
      <3>2. sm.sentNotAcked \in Nat /\ sm.rwndSize \in Nat /\ ack.rwnd \in Nat /\ n = 0
        BY <2>1, <3>1, StreamManagerAssumption DEF SmFields
      <3>3. /\ sm'.sentNotAcked = sm.sentNotAcked /\ sm'.rwndSize <= sm.rwndSize
            /\ sm'.rwndSize = ack.rwnd
            /\ sm'.connected = sm.connected /\ sm'.terminalEvent = sm.terminalEvent
            /\ sm'.terminalEventSent = sm.terminalEventSent
        BY <2>1, <3>1, <3>2 DEF SmFields
      <3>4. ToSend' => ToSend
        BY <2>1, <3>2, <3>3, StreamManagerAssumption
        DEF ToSend, bufVars, Buf!Size, AvailableToSend, EffectiveWindow, Buf!Smaller
      <3>5. HasTerminal' <=> HasTerminal
        BY <2>1, <3>2, <3>3 DEF HasTerminal, bufVars, Buf!Size
      <3>. QED  BY <2>1, <3>3, <3>4, <3>5 DEF IdleSleep, Free
    <2>. QED  BY <2>2, <2>3
  <1>4. CASE RecvAckIgnored(ack)
    BY <1>4 DEF RecvAckIgnored, vars, bufVars, IdleSleep, ToSend, HasTerminal, Buf!Size,
                AvailableToSend, EffectiveWindow, Buf!Smaller
  <1>. QED  BY <1>1, <1>2, <1>3, <1>4 DEF RecvAck

LEMMA ResizeWakes ==
  ASSUME IInv, IdleSleep, RecvAckResize
  PROVE  IdleSleep'
  <1>1. CASE lockHeld.signals
    BY <1>1, SignalDrainWakes DEF RecvAckResize, IdleSleep
  <1>2. CASE ~lockHeld.signals
    <2>1. UNCHANGED <<head, total, sm, pty, sender>>
      BY <1>2 DEF RecvAckResize, Buf!SetEffectiveWindow
    <2>. QED
      BY <1>2, <2>1 DEF IdleSleep, ToSend, HasTerminal, Buf!Size, AvailableToSend,
                        EffectiveWindow, Buf!Smaller
  <1>. QED  BY <1>1, <1>2

LEMMA StepIdleSleep == IInv /\ IdleSleep /\ [AnyNext]_vars => IdleSleep'
  <1>. SUFFICES ASSUME IInv, IdleSleep, [AnyNext]_vars PROVE IdleSleep'
    OBVIOUS
  <1>1. CASE Internal
    BY <1>1, PtyWakes, SenderWakes, ConnectWakes, ResizeWakes DEF Internal
  <1>2. CASE SendPacket
    BY <1>2, SenderWakes
  <1>3. CASE AnyCall
    <2>1. CASE \E rwnd \in 0 .. MaxRwnd : SetRwndSize(rwnd)
      BY <2>1, SignalDrainWakes DEF SetRwndSize, IdleSleep
    <2>. QED  BY <1>3, <2>1, ConnectWakes, AckWakes DEF AnyCall
  <1>4. CASE UNCHANGED vars
    BY <1>4 DEF vars, bufVars, IdleSleep, ToSend, HasTerminal, Buf!Size, AvailableToSend,
                EffectiveWindow, Buf!Smaller
  <1>. QED  BY <1>1, <1>2, <1>3, <1>4 DEF AnyNext

\* drainCond loses no wake-up although the PTY writes outside sm.lock: the
\* sender sleeps on work only while somebody is about to signal it.
THEOREM NoLostWakeup == Spec => []SleepsOnlyIdle
  <1>1. Init => IdleSleep
    BY DEF Init, IdleSleep
  <1>2. Spec => []IdleSleep
    BY <1>1, NextIsAny, StepIdleSleep, Invariance, PTL DEF Spec
  <1>. QED  BY <1>2, IdleSleepIs, Invariance, PTL

-----------------------------------------------------------------------------
(* The packets of one connection neither overlap nor leave a hole.         *)

Next2Send == head + sm.sentNotAcked

EveryByteOnce ==
  (sm.connected /\ sm'.connected) =>
    LET next == head + sm.sentNotAcked
    IN  head' + sm'.sentNotAcked =
          IF sender'.at = "sending" /\ sender.at = "running" /\ sender'.pk.seq = next
            THEN next + Len(sender'.pk.data)
            ELSE next

\* A step that prepares no packet leaves the next position where it is.
LEMMA KeepsNext ==
  ASSUME Next2Send' = Next2Send,
         ~(sender'.at = "sending" /\ sender.at = "running")
  PROVE  EveryByteOnce
  BY DEF EveryByteOnce, Next2Send

LEMMA SignalDrainPrepares ==
  ASSUME IInv, SignalDrain
  PROVE  ~(sender'.at = "sending" /\ sender.at = "running")
  BY DEF IInv, Shapes, SignalDrain

LEMMA PtySendsOnce ==
  ASSUME IInv,
         \/ \E n \in 1 .. MaxWrite : ReadPty(n)
         \/ WritePty
         \/ SignalWritten
         \/ \E event \in {"eof", "error"} : HandleTerminalEvent(event)
  PROVE  EveryByteOnce
  <1>1. CASE \E n \in 1 .. MaxWrite : ReadPty(n)
    BY <1>1, KeepsNext DEF ReadPty, bufVars, Next2Send
  <1>2. CASE WritePty
    <2>1. sm.connected => head' = head
      BY <1>2 DEF IInv, Connection, WritePty, Buf!WriteAvailable, Buf!WriteSync,
                  Buf!WriteBlocks, Buf!WriteAsync
    <2>. QED  BY <1>2, <2>1 DEF WritePty, EveryByteOnce
  <1>3. CASE SignalWritten
    BY <1>3, KeepsNext, SignalDrainPrepares DEF SignalWritten, bufVars, Next2Send
  <1>4. CASE \E event \in {"eof", "error"} : HandleTerminalEvent(event)
    <2>1. /\ head' = head /\ SignalDrain
          /\ sm'.sentNotAcked = sm.sentNotAcked
      BY <1>4 DEF HandleTerminalEvent, bufVars, IInv, TypeOK
    <2>. QED  BY <2>1, KeepsNext, SignalDrainPrepares DEF Next2Send
  <1>. QED  BY <1>1, <1>2, <1>3, <1>4

LEMMA SenderSendsOnce ==
  ASSUME IInv, PrepareNextPacket \/ SendPacket
  PROVE  EveryByteOnce
  <1>. head \in Nat /\ sm \in SmFields /\ sm.sentNotAcked \in Nat
    BY DEF IInv, TypeOK, SmFields
  <1>1. CASE SendPacket
    BY <1>1, KeepsNext DEF SendPacket, bufVars, Next2Send
  <1>2. CASE PrepareNextPacket /\ PrepareData
    <2>. DEFINE n == Len(NextData)
    <2>1. n \in Nat
      BY <1>2, NextDataSize DEF PrepareData, IInv, TypeOK, AvailableToSend, EffectiveWindow,
                                Buf!Smaller
    <2>2. /\ sender' = [at |-> "sending",
                        pk |-> DataPacket(sm.streamId, Next2Send, NextData)]
          /\ sm' = [sm EXCEPT !.sentNotAcked = @ + n]
          /\ sender.at = "running" /\ head' = head
      BY <1>2 DEF PrepareNextPacket, PrepareData, bufVars, Next2Send
    <2>3. sender'.pk.seq = Next2Send /\ Len(sender'.pk.data) = n /\ sender'.at = "sending"
      BY <2>2 DEF DataPacket, Packet
    <2>. HIDE DEF n
    <2>4. head' + sm'.sentNotAcked = head + sm.sentNotAcked + n
      BY <2>1, <2>2 DEF SmFields
    <2>. QED  BY <2>2, <2>3, <2>4 DEF EveryByteOnce, Next2Send
  <1>3. CASE PrepareNextPacket /\ PrepareTerminalPacket
    <2>1. /\ sm' = [sm EXCEPT !.terminalEventSent = TRUE] /\ head' = head
          /\ Len(sender'.pk.data) = 0
      BY <1>3 DEF PrepareNextPacket, PrepareTerminalPacket, Packet, bufVars
    <2>. QED  BY <2>1 DEF EveryByteOnce, SmFields
  <1>4. CASE PrepareNextPacket /\ (sm.terminalEventAcked \/ WaitForDrain)
    <2>1. UNCHANGED <<head, sm>> /\ sender'.at /= "sending"
      BY <1>4 DEF PrepareNextPacket, WaitForDrain, bufVars, IInv, Shapes
    <2>. QED  BY <2>1, KeepsNext DEF Next2Send
  <1>. QED  BY <1>1, <1>2, <1>3, <1>4 DEF PrepareNextPacket

LEMMA ConnectSendsOnce ==
  ASSUME IInv,
         \/ \E id \in StreamIds, rwnd \in 0 .. MaxRwnd, clientSeq \in Nat :
              ConnectReadHead(id, rwnd, clientSeq)
         \/ ConnectRefused \/ ConnectConsume \/ ConnectReread \/ ConnectEnter
         \/ ClientDisconnected
  PROVE  EveryByteOnce
  <1>1. ~(sm.connected /\ sm'.connected)
    BY DEF ConnectReadHead, Connectable, ConnectRefused, ConnectConsume, ConnectReread,
           ConnectEnter, ClientDisconnected, IInv, TypeOK, Connection, Connecting
  <1>. QED  BY <1>1 DEF EveryByteOnce

LEMMA AckSendsOnce ==
  ASSUME IInv, NEW ack, IsAck(ack), RecvAck(ack)
  PROVE  EveryByteOnce
  <1>. /\ head \in Nat /\ sm \in SmFields /\ sm.sentNotAcked \in Nat
       /\ ack.seq \in Nat /\ ack.rwnd \in Nat
    BY StreamManagerAssumption DEF IInv, TypeOK, SmFields, IsAck
  <1>1. CASE RecvFin(ack)
    <2>1. /\ head' = head /\ SignalDrain
          /\ sm'.sentNotAcked = sm.sentNotAcked
      BY <1>1 DEF RecvFin, bufVars, SmFields
    <2>. QED  BY <2>1, KeepsNext, SignalDrainPrepares DEF Next2Send
  <1>2. CASE RecvAckOutside(ack)
    <2>1. head' = head /\ sender' = sender /\ sm'.sentNotAcked = sm.sentNotAcked
      BY <1>2 DEF RecvAckOutside, bufVars, SmFields
    <2>. QED  BY <2>1, KeepsNext DEF Next2Send
  <1>3. CASE RecvAckConsume(ack)
    <2>. DEFINE n == AckedBytes(ack)
    <2>1. /\ n \in 0 .. sm.sentNotAcked
          /\ sender' = sender
          /\ sm' = [sm EXCEPT !.maxAckedSeq = ack.seq, !.maxAckedRwnd = ack.rwnd,
                              !.sentNotAcked = @ - n, !.rwndSize = ack.rwnd]
      BY <1>3 DEF RecvAckConsume
    <2>. HIDE DEF n
    <2>2. head' = head + n
      BY <1>3, <2>1 DEF RecvAckConsume, Buf!Consume, bufVars, n
    <2>3. Next2Send' = Next2Send
      BY <2>1, <2>2 DEF Next2Send, SmFields
    <2>. QED  BY <2>1, <2>3, KeepsNext
  <1>4. CASE RecvAckIgnored(ack)
    BY <1>4, KeepsNext DEF RecvAckIgnored, vars, bufVars, Next2Send
  <1>. QED  BY <1>1, <1>2, <1>3, <1>4 DEF RecvAck

LEMMA WindowSendsOnce ==
  ASSUME IInv, RecvAckResize \/ \E rwnd \in 0 .. MaxRwnd : SetRwndSize(rwnd)
  PROVE  EveryByteOnce
  <1>1. /\ head' = head
        /\ sender' = sender \/ SignalDrain
        /\ sm'.sentNotAcked = sm.sentNotAcked
    BY DEF RecvAckResize, SetRwndSize, Buf!SetEffectiveWindow, IInv, TypeOK
  <1>. QED  BY <1>1, KeepsNext, SignalDrainPrepares DEF Next2Send

LEMMA StepSendsOnce == IInv /\ [AnyNext]_vars => EveryByteOnce \/ UNCHANGED vars
  <1>. SUFFICES ASSUME IInv, AnyNext PROVE EveryByteOnce
    OBVIOUS
  <1>1. CASE Internal
    BY <1>1, PtySendsOnce, SenderSendsOnce, ConnectSendsOnce, WindowSendsOnce DEF Internal
  <1>2. CASE SendPacket
    BY <1>2, SenderSendsOnce
  <1>3. CASE AnyCall
    BY <1>3, ConnectSendsOnce, AckSendsOnce, WindowSendsOnce DEF AnyCall
  <1>. QED  BY <1>1, <1>2, <1>3 DEF AnyNext

\* While a connection lasts, the packets the sender prepares follow each other
\* without overlap or hole, whatever the client acks.
THEOREM SentOnce == Spec => SendsEveryByteOnce
  <1>1. IInv /\ [Next]_vars =>
          [(sm.connected /\ sm'.connected) =>
             LET next == head + sm.sentNotAcked
             IN  head' + sm'.sentNotAcked =
                   IF sender'.at = "sending" /\ sender.at = "running" /\ sender'.pk.seq = next
                     THEN next + Len(sender'.pk.data)
                     ELSE next]_vars
    BY NextIsAny, StepSendsOnce DEF EveryByteOnce
  <1>. QED  BY <1>1, Invariance, PTL DEF Spec, SendsEveryByteOnce

-----------------------------------------------------------------------------
(* Nothing is taken back: neither output nor what was let go of it, and once *)
(* the PTY's end is known there is no more output.                           *)
Forward ==
  /\ head \in Nat /\ head' \in Nat /\ total \in Nat /\ total' \in Nat
  /\ head <= head' /\ total <= total' /\ head' <= total'
  /\ sm.terminalEvent /= "none" => total' = total /\ sm'.terminalEvent /= "none"

LEMMA SameBuffer ==
  ASSUME IInv, head' = head, total' = total, sm'.terminalEvent = sm.terminalEvent
  PROVE  Forward
  BY StreamManagerAssumption DEF IInv, TypeOK, Forward

LEMMA OnlyForward == IInv /\ [AnyNext]_vars => Forward
  <1>. SUFFICES ASSUME IInv, [AnyNext]_vars PROVE Forward
    OBVIOUS
  <1>. /\ head \in Nat /\ total \in Nat /\ head <= total /\ windowSize \in Nat
       /\ sm \in SmFields /\ MaxSize \in Nat
    BY StreamManagerAssumption DEF IInv, TypeOK, SmFields
  <1>1. CASE \E n \in 1 .. MaxWrite : ReadPty(n)
    BY <1>1, SameBuffer DEF ReadPty, bufVars
  <1>2. CASE WritePty
    <2>1. pty.at /= "done" /\ sm' = sm /\ pty.left \in Nat
      BY <1>2, StreamManagerAssumption DEF WritePty, IInv, TypeOK
    <2>2. sm.terminalEvent = "none"
      BY <2>1 DEF IInv, Terminal
    <2>3. /\ total' \in Nat /\ total <= total'
          /\ head' = head \/ (head' \in Nat /\ head <= head')
          /\ head' <= total'
      BY <1>2, <2>1 DEF WritePty, Buf!WriteAvailable, Buf!WriteSync, Buf!WriteBlocks, Buf!WriteAsync,
                        Buf!Full, Buf!Size, Buf!Smaller, Buf!Larger
    <2>. QED  BY <2>2, <2>3 DEF Forward
  <1>3. CASE SignalWritten
    BY <1>3, SameBuffer DEF SignalWritten, bufVars
  <1>4. CASE \E event \in {"eof", "error"} : HandleTerminalEvent(event)
    <2>1. /\ pty.at = "reading" /\ head' = head /\ total' = total
          /\ sm'.terminalEvent /= "none"
      BY <1>4 DEF HandleTerminalEvent, bufVars, SmFields
    <2>. QED  BY <2>1 DEF Forward
  <1>5. CASE PrepareNextPacket \/ SendPacket
    <2>1. head' = head /\ total' = total
      BY <1>5 DEF PrepareNextPacket, SendPacket, bufVars
    <2>2. sm'.terminalEvent = sm.terminalEvent
      BY <1>5 DEF PrepareNextPacket, PrepareData, PrepareTerminalPacket, WaitForDrain, SendPacket,
                  SmFields
    <2>. QED  BY <2>1, <2>2, SameBuffer
  <1>6. CASE ConnectRefused \/ ConnectReread
             \/ \E id \in StreamIds, rwnd \in 0 .. MaxRwnd, clientSeq \in Nat :
                  ConnectReadHead(id, rwnd, clientSeq)
    BY <1>6, SameBuffer DEF ConnectRefused, ConnectReread, ConnectReadHead, bufVars
  <1>7. CASE ConnectConsume
    <2>1. BytesToConsume \in Nat
      BY <1>7 DEF ConnectConsume, BytesToConsume, IInv, Shapes, LockStates, Free, Connecting
    <2>2. head' = head + BytesToConsume /\ BytesToConsume <= total - head /\ total' = total /\ sm' = sm
      BY <1>7 DEF ConnectConsume, Buf!Consume, Buf!Size
    <2>. QED  BY <2>1, <2>2 DEF Forward
  <1>8. CASE ConnectEnter \/ RecvAckResize \/ \E rwnd \in 0 .. MaxRwnd : SetRwndSize(rwnd)
    <2>1. head' = head /\ total' = total
      BY <1>8 DEF ConnectEnter, RecvAckResize, SetRwndSize, Buf!SetEffectiveWindow
    <2>2. sm'.terminalEvent = sm.terminalEvent
      BY <1>8 DEF ConnectEnter, RecvAckResize, SetRwndSize, SmFields
    <2>. QED  BY <2>1, <2>2, SameBuffer
  <1>9. CASE ClientDisconnected
    <2>1. sm'.terminalEvent = sm.terminalEvent /\ total' = total
      BY <1>9 DEF ClientDisconnected, Buf!SetEffectiveWindow, SmFields
    <2>2. head' \in Nat /\ head <= head' /\ head' <= total
      BY <1>9 DEF ClientDisconnected, Buf!SetEffectiveWindow, Buf!Smaller, Buf!Larger
    <2>. QED  BY <2>1, <2>2 DEF Forward
  <1>10. CASE \E ack : IsAck(ack) /\ RecvAck(ack)
    <2>1. PICK ack : IsAck(ack) /\ RecvAck(ack)
      BY <1>10
    <2>2. CASE RecvFin(ack) \/ RecvAckOutside(ack) \/ RecvAckIgnored(ack)
      BY <2>2, SameBuffer DEF RecvFin, RecvAckOutside, RecvAckIgnored, bufVars, vars, SmFields
    <2>3. CASE RecvAckConsume(ack)
      <3>1. AckedBytes(ack) \in Nat
        BY <2>3 DEF RecvAckConsume, SmFields
      <3>2. sm'.terminalEvent = sm.terminalEvent /\ total' = total
        BY <2>3 DEF RecvAckConsume, Buf!Consume, bufVars, SmFields
      <3>3. head' = head \/ (head' = head + AckedBytes(ack) /\ AckedBytes(ack) <= total - head)
        BY <2>3 DEF RecvAckConsume, Buf!Consume, Buf!Size, bufVars
      <3>. QED  BY <3>1, <3>2, <3>3 DEF Forward
    <2>. QED  BY <2>1, <2>2, <2>3 DEF RecvAck
  <1>11. CASE UNCHANGED vars
    BY <1>11, SameBuffer DEF vars, bufVars
  <1>. QED  BY <1>1, <1>2, <1>3, <1>4, <1>5, <1>6, <1>7, <1>8, <1>9, <1>10, <1>11
            DEF AnyNext, Internal, AnyCall

=============================================================================
