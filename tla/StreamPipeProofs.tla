--------------------------- MODULE StreamPipeProofs ---------------------------
(***************************************************************************)
(* Proofs about StreamPipe, for any read window, output and chunk: the     *)
(* reader's application gets the bytes in order, flow control holds, a     *)
(* clean end is the whole stream, and a window once granted is kept.       *)
(***************************************************************************)
EXTENDS StreamPipe, SequenceTheorems, WellFoundedInduction, TLAPS

-----------------------------------------------------------------------------
(* Runs of bytes.                                                          *)

LEMMA BytesIsSeq ==
  ASSUME NEW a \in Int, NEW b \in Int, a <= b
  PROVE  /\ Bytes(a, b) \in Seq(Int)
         /\ Len(Bytes(a, b)) = b - a
         /\ \A i \in 1 .. b - a : Bytes(a, b)[i] = a + i - 1
  <1>. DEFINE n == b - a
  <1>1. n \in Nat /\ Bytes(a, b) = [i \in 1 .. n |-> a + i - 1]
    BY DEF Bytes
  <1>2. [i \in 1 .. n |-> a + i - 1] \in [1 .. n -> Int]
    BY <1>1
  <1>. QED  BY <1>1, <1>2

LEMMA NoBytes ==
  ASSUME NEW a \in Int, NEW b \in Int, b <= a
  PROVE  Bytes(a, b) = << >>
  BY DEF Bytes

LEMMA BytesConcat ==
  ASSUME NEW a \in Int, NEW b \in Int, NEW c \in Int, a <= b, b <= c
  PROVE  Bytes(a, b) \o Bytes(b, c) = Bytes(a, c)
  <1>1. /\ Bytes(a, b) \in Seq(Int) /\ Len(Bytes(a, b)) = b - a
        /\ Bytes(b, c) \in Seq(Int) /\ Len(Bytes(b, c)) = c - b
        /\ Bytes(a, c) \in Seq(Int) /\ Len(Bytes(a, c)) = c - a
    BY BytesIsSeq
  <1>2. Len(Bytes(a, b)) + Len(Bytes(b, c)) = c - a
    BY <1>1
  <1>3. Bytes(a, b) \o Bytes(b, c) \in Seq(Int)
    BY <1>1, ConcatProperties
  <1>4. Len(Bytes(a, b) \o Bytes(b, c)) = c - a
    BY <1>1, <1>2, ConcatProperties
  <1>5. ASSUME NEW i \in 1 .. c - a
        PROVE  (Bytes(a, b) \o Bytes(b, c))[i] = Bytes(a, c)[i]
    <2>1. (Bytes(a, b) \o Bytes(b, c))[i] =
            IF i <= Len(Bytes(a, b)) THEN Bytes(a, b)[i]
                                     ELSE Bytes(b, c)[i - Len(Bytes(a, b))]
      BY <1>1, <1>2, ConcatProperties
    <2>2. (Bytes(a, b) \o Bytes(b, c))[i] =
            IF i <= b - a THEN Bytes(a, b)[i] ELSE Bytes(b, c)[i - (b - a)]
      BY <1>1, <2>1
    <2>. a <= c
      OBVIOUS
    <2>3. Bytes(a, c)[i] = a + i - 1
      BY BytesIsSeq
    <2>4. CASE i <= b - a
      <3>1. i \in 1 .. b - a
        BY <2>4
      <3>2. Bytes(a, b)[i] = a + i - 1
        BY <3>1, BytesIsSeq
      <3>. QED  BY <2>2, <2>3, <2>4, <3>2
    <2>5. CASE ~(i <= b - a)
      <3>1. i - (b - a) \in 1 .. c - b
        BY <2>5
      <3>2. Bytes(b, c)[i - (b - a)] = b + (i - (b - a)) - 1
        BY <3>1, BytesIsSeq
      <3>. QED  BY <2>2, <2>3, <2>5, <3>2
    <2>. QED  BY <2>4, <2>5
  <1>. QED  BY <1>1, <1>3, <1>4, <1>5, SeqEqual

LEMMA BytesSub ==
  ASSUME NEW a \in Int, NEW b \in Int, NEW m \in Nat, NEW n \in Nat,
         m <= n, n <= b - a
  PROVE  SubSeq(Bytes(a, b), m + 1, n) = Bytes(a + m, a + n)
  <1>. DEFINE s == SubSeq(Bytes(a, b), m + 1, n)
  <1>. /\ a <= b
       /\ a + m \in Int
       /\ a + n \in Int
       /\ a + m <= a + n
    OBVIOUS
  <1>1. \A i \in 1 .. b - a : Bytes(a, b)[i] = a + i - 1
    BY BytesIsSeq
  <1>2. \A i \in m + 1 .. n : Bytes(a, b)[i] = a + i - 1
    BY <1>1
  <1>3. \A i \in m + 1 .. n : Bytes(a, b)[i] \in Int
    BY <1>2
  <1>4. s \in Seq(Int)
    BY <1>3, SubSeqProperties
  <1>5. Len(s) = n - m
    <2>1. Len(s) = IF m + 1 <= n THEN n - (m + 1) + 1 ELSE 0
      BY <1>3, SubSeqProperties
    <2>. QED  BY <2>1
  <1>6. Bytes(a + m, a + n) \in Seq(Int) /\ Len(Bytes(a + m, a + n)) = (a + n) - (a + m)
    BY BytesIsSeq
  <1>7. ASSUME NEW i \in 1 .. n - m
        PROVE  s[i] = Bytes(a + m, a + n)[i]
    <2>1. i \in 1 .. n - (m + 1) + 1 /\ (m + 1) + i - 1 = m + i /\ m + i \in m + 1 .. n
      OBVIOUS
    <2>2. s[i] = Bytes(a, b)[(m + 1) + i - 1]
      BY <1>3, <2>1, SubSeqProperties
    <2>3. Bytes(a, b)[m + i] = a + (m + i) - 1
      BY <1>2, <2>1
    <2>4. i \in 1 .. (a + n) - (a + m)
      OBVIOUS
    <2>5. Bytes(a + m, a + n)[i] = (a + m) + i - 1
      BY <2>4, BytesIsSeq
    <2>. QED  BY <2>1, <2>2, <2>3, <2>5
  <1>. HIDE DEF s
  <1>8. s = Bytes(a + m, a + n)
    BY <1>4, <1>5, <1>6, <1>7, SeqEqual
  <1>. QED  BY <1>8 DEF s

LEMMA BytesNat ==
  ASSUME NEW a \in Nat, NEW b \in Nat
  PROVE  Bytes(a, b) \in Seq(Nat)
  <1>1. CASE b <= a
    <2>1. Bytes(a, b) = << >>
      BY <1>1, NoBytes
    <2>. QED  BY <2>1
  <1>2. CASE a <= b
    <2>. DEFINE n == b - a
    <2>1. n \in Nat /\ Bytes(a, b) = [i \in 1 .. n |-> a + i - 1]
      BY <1>2 DEF Bytes
    <2>2. \A i \in 1 .. n : a + i - 1 \in Nat
      OBVIOUS
    <2>3. [i \in 1 .. n |-> a + i - 1] \in [1 .. n -> Nat]
      BY <2>2
    <2>. QED  BY <2>1, <2>3
  <1>. QED  BY <1>1, <1>2

-----------------------------------------------------------------------------
(* Extremes of sets of numbers.                                            *)

LEMMA LeastNatural ==
  ASSUME NEW T, T \subseteq Nat, T # {}
  PROVE  \E x \in T : \A y \in T : x <= y
  <1>. DEFINE R == {ss \in Nat \X Nat : ss[1] < ss[2]}
  <1>1. IsWellFoundedOn(R, Nat)
    BY NatLessThanWellFounded DEF OpToRel
  <1>. HIDE DEF R
  <1>2. PICK x \in T : \A y \in T : ~(<<y, x>> \in R)
    BY <1>1, WFMin
  <1>3. ASSUME NEW y \in T
        PROVE  x <= y
    <2>1. x \in Nat /\ y \in Nat
      OBVIOUS
    <2>2. y < x => <<y, x>> \in R
      BY <2>1 DEF R
    <2>. QED  BY <1>2, <2>1, <2>2
  <1>. QED  BY <1>3

LEMMA GreatestNatural ==
  ASSUME NEW T, T \subseteq Nat, T # {}, NEW bound \in Nat, \A x \in T : x <= bound
  PROVE  \E x \in T : \A y \in T : y <= x
  <1>. DEFINE U == {bound - x : x \in T}
  <1>1. U \subseteq Nat
    <2>1. ASSUME NEW x \in T
          PROVE  bound - x \in Nat
      OBVIOUS
    <2>. QED  BY <2>1
  <1>2. U # {}
    <2>1. PICK x \in T : TRUE
      OBVIOUS
    <2>2. bound - x \in U
      BY <2>1
    <2>. QED  BY <2>2
  <1>3. PICK u \in U : \A y \in U : u <= y
    BY <1>1, <1>2, LeastNatural
  <1>4. PICK x \in T : u = bound - x
    BY <1>3
  <1>5. ASSUME NEW y \in T
        PROVE  y <= x
    <2>1. u <= bound - y
      BY <1>3
    <2>. QED  BY <1>4, <2>1
  <1>. QED  BY <1>5

-----------------------------------------------------------------------------

(* The writer's buffer follows what it has sent, and its count of the bytes *)
(* in flight is exact.                                                      *)
Sending ==
  /\ w.buffer = Bytes(w.nextSeq, Written)
  /\ w.call # "idle" => w.buffer # << >>
  /\ w.canceled => ~writerKnown
  /\ accepted <= w.nextSeq
  /\ InFlightExact

(* A packet carries the bytes its sequence number says, and they are sent:  *)
(* one that ends the stream carries none and comes last.                    *)
Fits(pk) ==
  /\ pk.data = Bytes(pk.seq, PacketEnd(pk))
  /\ PacketEnd(pk) <= w.nextSeq
  /\ pk.eof \/ pk.error => w.closed /\ pk.seq = w.nextSeq
  /\ ~pk.eof /\ ~pk.error => pk.data # << >>

AllPackets == dataNet \cup r.oooPackets

PacketsFit == \A pk \in AllPackets : Fits(pk)

(* A byte is sent in one packet.                                            *)
Disjoint ==
  \A p, q \in AllPackets : p.seq < PacketEnd(q) /\ q.seq < PacketEnd(p) => p = q

(* The reader holds the bytes from the last one read to nextSeq.            *)
Reading ==
  /\ delivered = Bytes(0, Len(delivered))
  /\ Len(delivered) <= r.nextSeq
  /\ r.buffer = Bytes(Len(delivered), r.nextSeq)
  /\ r.nextSeq <= w.nextSeq
  /\ r.eof => w.closed /\ r.nextSeq = w.nextSeq

AllAcks == ackNet \cup {ackQueue[i] : i \in 1 .. Len(ackQueue)}

WindowAcks == {ack \in AllAcks : ~ack.cancel}

(* The first byte an ack forbids, and the first the writer may not send.    *)
Edge(ack) == ack.seq + ack.rwnd

WriterEdge == w.maxAckedSeq + w.readWindow

(* An ack grants no more than the reader can take.  Of two acks the one     *)
(* with the higher sequence number grants at least as much.                 *)
Granted ==
  /\ \A ack \in AllAcks : ack.fin => w.closed
  /\ \A ack \in WindowAcks :
       /\ ack.seq <= r.nextSeq
       /\ Edge(ack) <= Len(delivered) + ReadWindow
       /\ ack.seq = 0 => ack.rwnd = ReadWindow
       /\ ~w.closed /\ w.maxAckedSeq < ack.seq => WriterEdge <= Edge(ack)
  /\ \A a, b \in WindowAcks : a.seq < b.seq => Edge(a) <= Edge(b)

(* So does the writer's window.                                             *)
Window ==
  /\ ~w.closed => WriterEdge <= Len(delivered) + ReadWindow
  /\ ~w.closed => \/ w.readWindow = w.maxAckedRwnd
                  \/ w.maxAckedSeq = 0 /\ w.readWindow = ReadWindow
  /\ FlowControl

IInv ==
  /\ TypeOK
  /\ Sending
  /\ PacketsFit
  /\ Disjoint
  /\ Reading
  /\ Granted
  /\ Window

-----------------------------------------------------------------------------
(* The reader's out-of-order packets.                                       *)

(* A set of packets whose bytes are where their numbers say, up to last.    *)
Run(packets, last) ==
  \A pk \in packets : /\ pk.seq \in Nat /\ PacketEnd(pk) \in Nat
                      /\ pk.data = Bytes(pk.seq, PacketEnd(pk))
                      /\ PacketEnd(pk) <= last

(* The packets held reach up to some first byte that none of them covers:   *)
(* DrainEnd exists.                                                         *)
LEMMA DrainEndIs ==
  ASSUME NEW rd \in Readers, NEW last \in Nat, rd.nextSeq <= last, Run(rd.oooPackets, last)
  PROVE  /\ DrainEnd(rd) \in Nat /\ rd.nextSeq <= DrainEnd(rd) /\ DrainEnd(rd) <= last
         /\ \A pos \in rd.nextSeq .. DrainEnd(rd) - 1 : IsHeld(rd, pos)
<1> DEFINE Held(e) == \A pos \in rd.nextSeq .. e - 1 : IsHeld(rd, pos)
           E == {e \in rd.nextSeq .. last : Held(e)}
           Ends == {rd.nextSeq} \cup {PacketEnd(pk) : pk \in rd.oooPackets}
           Is(e) == e >= rd.nextSeq /\ ~IsHeld(rd, e) /\ Held(e)
<1>1. rd.nextSeq \in Nat
  BY DEF Readers
<1>2. E \subseteq Nat /\ \A e \in E : e <= last
  BY <1>1
<1>3. rd.nextSeq \in E
  BY <1>1
<1>4. PICK e \in E : \A x \in E : x <= e
  BY <1>2, <1>3, GreatestNatural
<1>5. e \in Nat /\ rd.nextSeq <= e /\ e <= last /\ Held(e)
  BY <1>1, <1>4
<1> HIDE DEF E
<1>6. ~IsHeld(rd, e)
  <2> SUFFICES ASSUME IsHeld(rd, e) PROVE FALSE
    OBVIOUS
  <2>1. PICK pk \in rd.oooPackets : e < PacketEnd(pk)
    BY DEF IsHeld, Covers
  <2>2. e + 1 <= last
    BY <1>5, <2>1 DEF Run
  <2>3. Held(e + 1)
    BY <1>1, <1>5
  <2>4. e + 1 \in E
    BY <1>1, <1>5, <2>2, <2>3 DEF E
  <2>5. QED
    BY <1>4, <1>5, <2>4
<1>7. e \in Ends
  <2>1. CASE e = rd.nextSeq
    BY <2>1
  <2>2. CASE e # rd.nextSeq
    <3>1. e - 1 \in rd.nextSeq .. e - 1
      BY <1>1, <1>5, <2>2
    <3>2. PICK pk \in rd.oooPackets : Covers(pk, e - 1)
      BY <1>5, <3>1 DEF IsHeld
    <3>3. ~Covers(pk, e)
      BY <1>6 DEF IsHeld
    <3>4. pk.seq \in Nat /\ PacketEnd(pk) \in Nat
      BY DEF Run
    <3>5. e = PacketEnd(pk)
      BY <1>5, <3>2, <3>3, <3>4 DEF Covers
    <3>6. QED
      BY <3>5
  <2>3. QED
    BY <2>1, <2>2
<1>8. \E x \in Ends : Is(x)
  BY <1>5, <1>6, <1>7
<1>9. DrainEnd(rd) = CHOOSE x \in Ends : Is(x)
  BY DEF DrainEnd
<1>10. DrainEnd(rd) \in Ends /\ Is(DrainEnd(rd))
  BY <1>8, <1>9
<1>11. \A x \in Ends : x \in Nat /\ x <= last
  BY <1>1 DEF Run
<1>12. QED
  BY <1>10, <1>11

LEMMA HeldByteIs ==
  ASSUME NEW rd, NEW last \in Nat, Run(rd.oooPackets, last), NEW pos \in Nat, IsHeld(rd, pos)
  PROVE  HeldByte(rd, pos) = pos
<1> DEFINE pk == CHOOSE pk \in rd.oooPackets : Covers(pk, pos)
<1>1. pk \in rd.oooPackets /\ Covers(pk, pos)
  BY DEF IsHeld
<1>2. HeldByte(rd, pos) = pk.data[pos - pk.seq + 1]
  BY DEF HeldByte
<1> HIDE DEF pk
<1>3. /\ pk.seq \in Nat /\ PacketEnd(pk) \in Nat /\ pk.data = Bytes(pk.seq, PacketEnd(pk))
      /\ pk.seq <= pos /\ pos < PacketEnd(pk)
  BY <1>1 DEF Run, Covers
<1> DEFINE i == pos - pk.seq + 1
<1>4. i \in 1 .. PacketEnd(pk) - pk.seq /\ pk.seq <= PacketEnd(pk)
  BY <1>3
<1>5. pk.seq + i - 1 = pos
  BY <1>3
<1> HIDE DEF i
<1>6. Bytes(pk.seq, PacketEnd(pk))[i] = pk.seq + i - 1
  BY <1>4 DEF Bytes
<1>7. QED
  BY <1>2, <1>3, <1>5, <1>6 DEF i

LEMMA DrainIs ==
  ASSUME NEW rd \in Readers, NEW last \in Nat, rd.nextSeq <= last, Run(rd.oooPackets, last)
  PROVE  /\ Drain(rd) \in Readers
         /\ Drain(rd).nextSeq \in rd.nextSeq .. last
         /\ Drain(rd).buffer = rd.buffer \o Bytes(rd.nextSeq, Drain(rd).nextSeq)
         /\ Drain(rd).eof => rd.eof \/ \E pk \in rd.oooPackets : pk.eof /\ pk.seq = Drain(rd).nextSeq
         /\ Drain(rd).oooPackets \subseteq rd.oooPackets
         /\ Drain(rd).err = rd.err /\ Drain(rd).closed = rd.closed
<1> DEFINE end == DrainEnd(rd)
           bytes == [i \in 1 .. end - rd.nextSeq |-> HeldByte(rd, rd.nextSeq + i - 1)]
           eof == \E pk \in rd.oooPackets : pk.eof /\ pk.seq = end
           rest == {pk \in rd.oooPackets : pk.seq > end}
<1>1. /\ end \in Nat /\ rd.nextSeq <= end /\ end <= last
      /\ \A pos \in rd.nextSeq .. end - 1 : IsHeld(rd, pos)
  BY DrainEndIs
<1>2. rd.nextSeq \in Nat /\ rd.buffer \in Seq(Nat) /\ rd.eof \in BOOLEAN
  BY DEF Readers
<1> HIDE DEF end
<1>3. bytes = Bytes(rd.nextSeq, end)
  <2>1. ASSUME NEW i \in 1 .. end - rd.nextSeq
        PROVE  HeldByte(rd, rd.nextSeq + i - 1) = rd.nextSeq + i - 1
    <3>1. rd.nextSeq + i - 1 \in rd.nextSeq .. end - 1 /\ rd.nextSeq + i - 1 \in Nat
      BY <1>1, <1>2
    <3>2. QED
      BY <1>1, <3>1, HeldByteIs
  <2>2. QED
    BY <2>1 DEF Bytes
<1>4. Drain(rd) = [rd EXCEPT !.buffer = @ \o bytes, !.nextSeq = end, !.eof = @ \/ eof, !.oooPackets = rest]
  BY DEF Drain, end
<1> HIDE DEF bytes
<1>5. rd.buffer \o bytes \in Seq(Nat)
  <2>1. bytes \in Seq(Nat)
    BY <1>1, <1>2, <1>3, BytesNat
  <2>2. QED
    BY <1>2, <2>1, ConcatProperties
<1>6. eof \in BOOLEAN
  OBVIOUS
<1>7. rest \subseteq rd.oooPackets
  OBVIOUS
<1> HIDE DEF eof, rest
<1>8. /\ Drain(rd).nextSeq = end
      /\ Drain(rd).buffer = rd.buffer \o bytes
      /\ Drain(rd).eof = (rd.eof \/ eof)
      /\ Drain(rd).oooPackets = rest
      /\ Drain(rd).err = rd.err /\ Drain(rd).closed = rd.closed
  BY <1>4 DEF Readers
<1>9. Drain(rd) \in Readers
  BY <1>1, <1>4, <1>5, <1>6, <1>7 DEF Readers
<1>10. QED
  BY <1>1, <1>2, <1>3, <1>7, <1>8, <1>9 DEF eof

-----------------------------------------------------------------------------
(* What the invariant says of the parts, and what leaves it alone.          *)

LEMMA Facts ==
  ASSUME IInv
  PROVE  /\ w \in Writers /\ r \in Readers /\ r.id = StreamId
         /\ w.nextSeq \in Nat /\ w.sentNotAcked \in Nat /\ w.maxAckedSeq \in Nat /\ w.maxAckedRwnd \in Nat
         /\ w.readWindow \in Nat /\ w.buffer \in Seq(Nat) /\ Len(w.buffer) \in Nat /\ Written \in Nat
         /\ w.closed \in BOOLEAN
         /\ r.nextSeq \in Nat /\ r.buffer \in Seq(Nat) /\ Len(r.buffer) \in Nat /\ r.eof \in BOOLEAN
         /\ delivered \in Seq(Nat) /\ Len(delivered) \in Nat
         /\ ReadWindow \in Nat /\ AckDivisor \in Nat
         /\ AllPackets \subseteq Packets /\ AllAcks \subseteq Acks
         /\ ackQueue \in Seq(Acks)
<1>1. w \in Writers /\ r \in Readers /\ delivered \in Seq(Nat) /\ ackQueue \in Seq(Acks)
      /\ ackNet \subseteq Acks /\ dataNet \subseteq Packets
  BY DEF IInv, TypeOK
<1>2. /\ w.nextSeq \in Nat /\ w.sentNotAcked \in Nat /\ w.maxAckedSeq \in Nat /\ w.maxAckedRwnd \in Nat
      /\ w.readWindow \in Nat /\ w.buffer \in Seq(Nat) /\ w.closed \in BOOLEAN
  BY <1>1 DEF Writers
<1>3. /\ r.id = StreamId /\ r.nextSeq \in Nat /\ r.buffer \in Seq(Nat) /\ r.eof \in BOOLEAN
      /\ r.oooPackets \subseteq Packets
  BY <1>1 DEF Readers
<1>4. Written \in Nat
  BY <1>2 DEF Written
<1>5. AllPackets \subseteq Packets /\ AllAcks \subseteq Acks
  BY <1>1, <1>3 DEF AllPackets, AllAcks
<1>6. QED
  BY <1>1, <1>2, <1>3, <1>4, <1>5, ReaderAssumption

LEMMA PacketFacts ==
  ASSUME IInv, NEW pk \in AllPackets
  PROVE  /\ pk.id = StreamId /\ pk.seq \in Nat /\ pk.data \in Seq(Nat) /\ Len(pk.data) \in Nat
         /\ PacketEnd(pk) \in Nat /\ pk.seq <= PacketEnd(pk) /\ PacketEnd(pk) <= w.nextSeq
         /\ pk.data = Bytes(pk.seq, PacketEnd(pk))
         /\ pk.eof \in BOOLEAN /\ pk.error \in BOOLEAN
<1>1. pk \in Packets
  BY Facts
<1>2. Fits(pk)
  BY DEF IInv, PacketsFit
<1>3. /\ pk.id = StreamId /\ pk.seq \in Nat /\ pk.data \in Seq(Nat) /\ pk.eof \in BOOLEAN /\ pk.error \in BOOLEAN
  BY <1>1 DEF Packets
<1>4. QED
  BY <1>2, <1>3 DEF Fits, PacketEnd

LEMMA PacketsFrame ==
  ASSUME IInv, AllPackets' \subseteq AllPackets, w'.nextSeq = w.nextSeq, w'.closed = w.closed
  PROVE  PacketsFit' /\ Disjoint'
<1>1. ASSUME NEW pk \in AllPackets' PROVE Fits(pk)'
  BY <1>1 DEF IInv, PacketsFit, Fits
<1>2. PacketsFit'
  BY <1>1 DEF PacketsFit
<1>3. Disjoint'
  BY DEF IInv, Disjoint
<1>4. QED
  BY <1>2, <1>3

(* An ack the reader makes: it grants what the application has read and a   *)
(* window more.                                                             *)
LEMMA AckIs ==
  ASSUME NEW rd \in Readers, NEW read \in Nat, read <= rd.nextSeq, rd.buffer = Bytes(read, rd.nextSeq),
         rd.nextSeq <= read + ReadWindow, NEW fin \in BOOLEAN, NEW cancel \in BOOLEAN
  PROVE  /\ RWnd(rd) \in Nat
         /\ AckPacket(rd, fin, cancel) \in Acks
         /\ AckPacket(rd, fin, cancel).seq = rd.nextSeq
         /\ Edge(AckPacket(rd, fin, cancel)) = read + ReadWindow
         /\ AckPacket(rd, fin, cancel).fin = fin /\ AckPacket(rd, fin, cancel).cancel = cancel
<1>1. rd.nextSeq \in Nat /\ rd.id = StreamId /\ ReadWindow \in Nat
  BY ReaderAssumption DEF Readers
<1>2. Len(rd.buffer) = rd.nextSeq - read
  <2>1. PICK next \in Nat : next = rd.nextSeq
    BY <1>1
  <2>2. Len(Bytes(read, next)) = next - read
    BY <2>1 DEF Bytes
  <2>3. QED
    BY <2>1, <2>2
<1>3. RWnd(rd) = ReadWindow - (rd.nextSeq - read) /\ RWnd(rd) \in Nat
  BY <1>1, <1>2 DEF RWnd
<1>4. rd.nextSeq + RWnd(rd) = read + ReadWindow
  BY <1>1, <1>3
<1>5. QED
  BY <1>1, <1>3, <1>4 DEF AckPacket, Acks, Edge

(* New acks carry the reader's latest numbers, or cancel the stream.        *)
LEMMA GrantedStep ==
  ASSUME IInv, NEW new, AllAcks' \subseteq AllAcks \cup new, UNCHANGED w,
         r.nextSeq <= r'.nextSeq, Len(delivered) <= Len(delivered'), Len(delivered') <= r'.nextSeq,
         r'.nextSeq \in Nat, Len(delivered') \in Nat,
         \A ack \in new : /\ ack \in Acks
                          /\ ack.fin => w.closed
                          /\ ack.cancel \/ (ack.seq = r'.nextSeq /\ Edge(ack) = Len(delivered') + ReadWindow)
  PROVE  Granted'
<1>0. AllAcks \subseteq Acks /\ r.nextSeq \in Nat /\ Len(delivered) \in Nat /\ ReadWindow \in Nat /\ w.closed \in BOOLEAN
      /\ w.maxAckedSeq \in Nat /\ w.readWindow \in Nat
  BY Facts
<1> DEFINE edge == Len(delivered') + ReadWindow
<1>1. \A ack \in WindowAcks' : \/ ack \in WindowAcks
                               \/ ack \in new /\ ack.seq = r'.nextSeq /\ Edge(ack) = edge
  BY DEF WindowAcks
<1>2. ASSUME NEW ack \in Acks
      PROVE  ack.seq \in Nat /\ ack.rwnd \in Nat /\ Edge(ack) \in Nat
  <2>1. ack.seq \in Nat /\ ack.rwnd \in Nat
    BY DEF Acks
  <2>2. QED
    BY <2>1 DEF Edge
<1>3. \A ack \in AllAcks' : ack.fin => w'.closed
  BY DEF IInv, Granted
<1>4. ASSUME NEW ack \in WindowAcks'
      PROVE  /\ ack \in Acks
             /\ ack.seq <= r'.nextSeq
             /\ Edge(ack) <= edge
             /\ ack.seq = 0 => ack.rwnd = ReadWindow
             /\ ~w'.closed /\ w'.maxAckedSeq < ack.seq => WriterEdge' <= Edge(ack)
  <2>1. CASE ack \in WindowAcks
    <3>1. /\ ack.seq <= r.nextSeq
          /\ Edge(ack) <= Len(delivered) + ReadWindow
          /\ ack.seq = 0 => ack.rwnd = ReadWindow
          /\ ~w.closed /\ w.maxAckedSeq < ack.seq => WriterEdge <= Edge(ack)
      BY <2>1 DEF IInv, Granted
    <3>2. ack \in Acks
      BY <1>0, <2>1 DEF WindowAcks
    <3>3. ack.seq \in Nat /\ Edge(ack) \in Nat
      BY <1>2, <3>2
    <3>4. WriterEdge' = WriterEdge
      BY DEF WriterEdge
    <3>5. ack.seq <= r'.nextSeq /\ Edge(ack) <= edge
      BY <1>0, <3>1, <3>3
    <3>6. QED
      BY <3>1, <3>2, <3>4, <3>5
  <2>2. CASE ack \in new /\ ack.seq = r'.nextSeq /\ Edge(ack) = edge
    <3>1. ack \in Acks
      BY <2>2
    <3>2. ack.seq = 0 => ack.rwnd = ReadWindow
      <4>1. ack.seq \in Nat /\ ack.rwnd \in Nat
        BY <1>2, <3>1
      <4>2. ack.seq + ack.rwnd = Len(delivered') + ReadWindow
        BY <2>2 DEF Edge
      <4>3. ack.seq = r'.nextSeq
        BY <2>2
      <4>4. QED
        BY <1>0, <4>1, <4>2, <4>3
    <3>3. ~w.closed => WriterEdge <= Len(delivered) + ReadWindow
      BY DEF IInv, Window
    <3>4. WriterEdge' = WriterEdge /\ WriterEdge \in Nat
      BY <1>0 DEF WriterEdge
    <3>5. ~w'.closed => WriterEdge' <= edge
      BY <1>0, <3>3, <3>4
    <3>6. QED
      BY <1>0, <2>2, <3>1, <3>2, <3>5
  <2>3. QED
    BY <1>1, <2>1, <2>2
<1>5. ASSUME NEW a \in WindowAcks', NEW b \in WindowAcks', a.seq < b.seq
      PROVE  Edge(a) <= Edge(b)
  <2>1. CASE a \in WindowAcks /\ b \in WindowAcks
    BY <1>5, <2>1 DEF IInv, Granted
  <2>2. CASE a.seq = r'.nextSeq
    <3>1. b.seq <= r'.nextSeq /\ b.seq \in Nat
      BY <1>2, <1>4
    <3>2. QED
      BY <1>5, <2>2, <3>1
  <2>3. CASE b \in new /\ b.seq = r'.nextSeq /\ Edge(b) = edge
    BY <1>4, <2>3
  <2>4. QED
    BY <1>1, <2>1, <2>2, <2>3
<1>6. QED
  BY <1>3, <1>4, <1>5 DEF Granted, WindowAcks, Edge

-----------------------------------------------------------------------------
(* What the reader's methods leave.                                         *)

LEMMA AckedIs ==
  ASSUME NEW rd \in Readers
  PROVE  /\ Acked(rd) \in Readers
         /\ Acked(rd).nextSeq = rd.nextSeq /\ Acked(rd).buffer = rd.buffer
         /\ Acked(rd).eof = rd.eof /\ Acked(rd).oooPackets = rd.oooPackets
<1>1. RWnd(rd) \in Nat
  BY ReaderAssumption DEF RWnd, Readers
<1>2. QED
  BY <1>1 DEF Acked, Readers

(* A reader the writer's bytes can have brought about.                      *)
Received(rd, read) ==
  /\ rd \in Readers
  /\ rd.nextSeq <= w.nextSeq
  /\ rd.buffer = Bytes(read, rd.nextSeq)
  /\ rd.eof => w.closed /\ rd.nextSeq = w.nextSeq

LEMMA RecvDataIs ==
  ASSUME IInv, NEW pk \in AllPackets
  PROVE  /\ Received(RecvData(r, pk), Len(delivered))
         /\ r.nextSeq <= RecvData(r, pk).nextSeq
         /\ RecvData(r, pk).oooPackets \subseteq r.oooPackets \cup {pk}
<1>1. /\ r \in Readers /\ r.nextSeq \in Nat /\ r.buffer \in Seq(Nat) /\ r.eof \in BOOLEAN
      /\ w.nextSeq \in Nat /\ Len(delivered) \in Nat /\ pk \in Packets
  BY Facts
<1>2. /\ Received(r, Len(delivered))
      /\ Len(delivered) <= r.nextSeq /\ r.nextSeq <= w.nextSeq
      /\ r.buffer = Bytes(Len(delivered), r.nextSeq)
      /\ r.eof => w.closed /\ r.nextSeq = w.nextSeq
  BY <1>1 DEF IInv, Reading, Received
<1>3. CASE Ignores(r, pk)
  <2>1. RecvData(r, pk) = r
    BY <1>3 DEF RecvData
  <2>2. QED
    BY <1>1, <1>2, <2>1
<1>4. CASE ~Ignores(r, pk) /\ pk.error
  <2> DEFINE rd == [r EXCEPT !.err = "stream"]
  <2>1. RecvData(r, pk) = Acked(rd)
    BY <1>4 DEF RecvData
  <2>2. /\ rd \in Readers /\ rd.nextSeq = r.nextSeq /\ rd.buffer = r.buffer
        /\ rd.eof = r.eof /\ rd.oooPackets = r.oooPackets
    BY <1>1 DEF Readers, Errors
  <2> HIDE DEF rd
  <2>3. QED
    BY <1>1, <1>2, <2>1, <2>2, AckedIs DEF Received
<1>5. CASE ~Ignores(r, pk) /\ ~pk.error /\ pk.seq < r.nextSeq
  <2>1. RecvData(r, pk) = r
    BY <1>1, <1>5, PacketFacts DEF RecvData
  <2>2. QED
    BY <1>1, <1>2, <2>1
<1>6. CASE ~Ignores(r, pk) /\ ~pk.error /\ pk.seq > r.nextSeq
  <2>1. RecvData(r, pk) = AddOOO(r, pk)
    <3>1. pk.seq \in Nat
      BY PacketFacts
    <3>2. ~(pk.seq < r.nextSeq) /\ ~(pk.seq = r.nextSeq)
      BY <1>1, <1>6, <3>1
    <3>3. QED
      BY <1>6, <3>2 DEF RecvData
  <2>2. /\ AddOOO(r, pk) \in Readers /\ AddOOO(r, pk).nextSeq = r.nextSeq /\ AddOOO(r, pk).buffer = r.buffer
        /\ AddOOO(r, pk).eof = r.eof /\ AddOOO(r, pk).oooPackets \subseteq r.oooPackets \cup {pk}
    BY <1>1 DEF Readers, AddOOO
  <2>3. QED
    BY <1>1, <1>2, <2>1, <2>2 DEF Received
<1>7. CASE ~Ignores(r, pk) /\ ~pk.error /\ pk.seq = r.nextSeq
  <2> DEFINE rd == Accept(r, pk)
             end == PacketEnd(pk)
             read == Len(delivered)
  <2>1. RecvData(r, pk) = Acked(Drain(rd))
    BY <1>1, <1>7 DEF RecvData
  <2>2. /\ end \in Nat /\ r.nextSeq <= end /\ end <= w.nextSeq /\ pk.data \in Seq(Nat)
        /\ pk.data = Bytes(r.nextSeq, end) /\ pk.eof \in BOOLEAN
    BY <1>7, PacketFacts
  <2>3. pk.eof => w.closed /\ end = w.nextSeq
    BY <1>1, <1>2, <1>7, <2>2 DEF IInv, PacketsFit, Fits
  <2> HIDE DEF end
  <2>4. /\ rd \in Readers /\ rd.nextSeq = end /\ rd.buffer = r.buffer \o pk.data
        /\ rd.eof = (r.eof \/ pk.eof) /\ rd.oooPackets = r.oooPackets
    <3>1. r.buffer \o pk.data \in Seq(Nat)
      BY <1>1, <2>2, ConcatProperties
    <3>2. rd = [r EXCEPT !.buffer = r.buffer \o pk.data, !.nextSeq = end, !.eof = r.eof \/ pk.eof]
      BY DEF Accept, end
    <3>3. QED
      BY <1>1, <2>2, <3>1, <3>2 DEF Readers
  <2>5. rd.buffer = Bytes(read, end)
    <3>1. read \in Int /\ r.nextSeq \in Int /\ end \in Int /\ read <= r.nextSeq /\ r.nextSeq <= end
      BY <1>1, <1>2, <2>2
    <3>2. Bytes(read, r.nextSeq) \o Bytes(r.nextSeq, end) = Bytes(read, end)
      BY ONLY <3>1, BytesConcat, Zenon
    <3>3. QED
      BY <1>2, <2>2, <2>4, <3>2
  <2> HIDE DEF rd
  <2>6. Run(rd.oooPackets, w.nextSeq)
    <3>1. ASSUME NEW q \in rd.oooPackets
          PROVE  q.seq \in Nat /\ PacketEnd(q) \in Nat /\ q.data = Bytes(q.seq, PacketEnd(q)) /\ PacketEnd(q) <= w.nextSeq
      <4>1. q \in AllPackets
        BY <2>4 DEF AllPackets
      <4>2. QED
        BY <4>1, PacketFacts
    <3>2. QED
      BY <3>1 DEF Run
  <2>7. /\ Drain(rd) \in Readers
        /\ Drain(rd).nextSeq \in end .. w.nextSeq
        /\ Drain(rd).buffer = rd.buffer \o Bytes(end, Drain(rd).nextSeq)
        /\ Drain(rd).eof => rd.eof \/ \E q \in rd.oooPackets : q.eof /\ q.seq = Drain(rd).nextSeq
        /\ Drain(rd).oooPackets \subseteq rd.oooPackets
    BY <1>1, <2>2, <2>4, <2>6, DrainIs
  <2>8. Drain(rd).buffer = Bytes(read, Drain(rd).nextSeq)
    <3>1. read \in Int /\ Drain(rd).nextSeq \in Int /\ end \in Int /\ read <= end /\ end <= Drain(rd).nextSeq
      BY <1>1, <1>2, <2>2, <2>7
    <3>2. Bytes(read, end) \o Bytes(end, Drain(rd).nextSeq) = Bytes(read, Drain(rd).nextSeq)
      BY ONLY <3>1, BytesConcat, Zenon
    <3>3. QED
      BY <2>5, <2>7, <3>2
  <2>9. ASSUME Drain(rd).eof PROVE w.closed /\ Drain(rd).nextSeq = w.nextSeq
    <3>1. CASE rd.eof
      BY <1>1, <1>2, <2>2, <2>3, <2>4, <2>7, <3>1
    <3>2. CASE \E q \in rd.oooPackets : q.eof /\ q.seq = Drain(rd).nextSeq
      <4>1. PICK q \in r.oooPackets : q.eof /\ q.seq = Drain(rd).nextSeq
        BY <2>4, <3>2
      <4>2. Fits(q)
        BY DEF IInv, PacketsFit, AllPackets
      <4>3. QED
        BY <4>1, <4>2 DEF Fits
    <3>3. QED
      BY <2>7, <2>9, <3>1, <3>2
  <2>10. Received(Drain(rd), read) /\ r.nextSeq <= Drain(rd).nextSeq /\ Drain(rd).oooPackets \subseteq r.oooPackets
    BY <1>1, <2>2, <2>4, <2>7, <2>8, <2>9 DEF Received
  <2>11. QED
    BY <1>1, <2>1, <2>7, <2>10, AckedIs DEF Received
<1>8. pk.seq < r.nextSeq \/ pk.seq > r.nextSeq \/ pk.seq = r.nextSeq
  BY <1>1, PacketFacts
<1>9. QED
  BY <1>3, <1>4, <1>5, <1>6, <1>7, <1>8

-----------------------------------------------------------------------------
(* The acks of the next state.                                              *)

LEMMA AckQueued ==
  ASSUME IInv, NEW ack \in Acks, ackQueue' = Append(ackQueue, ack), UNCHANGED ackNet
  PROVE  ackQueue' \in Seq(Acks) /\ AllAcks' \subseteq AllAcks \cup {ack}
<1>1. ackQueue \in Seq(Acks)
  BY Facts
<1>2. /\ Append(ackQueue, ack) \in Seq(Acks)
      /\ Len(Append(ackQueue, ack)) = Len(ackQueue) + 1
      /\ \A i \in 1 .. Len(ackQueue) : Append(ackQueue, ack)[i] = ackQueue[i]
      /\ Append(ackQueue, ack)[Len(ackQueue) + 1] = ack
  BY <1>1, AppendProperties
<1>3. ASSUME NEW i \in 1 .. Len(ackQueue')
      PROVE  ackQueue'[i] = ack \/ \E j \in 1 .. Len(ackQueue) : ackQueue'[i] = ackQueue[j]
  <2>1. Len(ackQueue) \in Nat /\ Len(ackQueue') = Len(ackQueue) + 1
    BY <1>1, <1>2
  <2>2. i \in 1 .. Len(ackQueue) \/ i = Len(ackQueue) + 1
    BY <2>1
  <2>3. QED
    BY <1>2, <2>2
<1>4. QED
  BY <1>2, <1>3 DEF AllAcks

LEMMA AckSent ==
  ASSUME IInv, ackQueue # << >>, ackQueue' = Tail(ackQueue), ackNet' = ackNet \cup {Head(ackQueue)}
  PROVE  ackQueue' \in Seq(Acks) /\ ackNet' \subseteq Acks /\ AllAcks' \subseteq AllAcks
<1>1. ackQueue \in Seq(Acks) /\ ackNet \subseteq Acks
  BY DEF IInv, TypeOK
<1>2. /\ Head(ackQueue) = ackQueue[1] /\ Tail(ackQueue) \in Seq(Acks)
      /\ Len(Tail(ackQueue)) = Len(ackQueue) - 1
      /\ \A i \in 1 .. Len(Tail(ackQueue)) : Tail(ackQueue)[i] = ackQueue[i + 1]
      /\ Len(ackQueue) \in Nat /\ Len(ackQueue) > 0
  BY <1>1, HeadTailProperties, EmptySeq
<1>3. 1 \in 1 .. Len(ackQueue) /\ ackQueue[1] \in Acks
  BY <1>1, <1>2
<1>4. ASSUME NEW i \in 1 .. Len(ackQueue')
      PROVE  \E j \in 1 .. Len(ackQueue) : ackQueue'[i] = ackQueue[j]
  <2>1. Len(ackQueue') = Len(ackQueue) - 1
    BY <1>2
  <2>2. i + 1 \in 1 .. Len(ackQueue) /\ i \in 1 .. Len(Tail(ackQueue))
    BY <1>2, <2>1
  <2>3. ackQueue'[i] = ackQueue[i + 1]
    BY <1>2, <2>2
  <2>4. QED
    BY <2>2, <2>3
<1>5. AllAcks' \subseteq AllAcks
  BY <1>2, <1>3, <1>4 DEF AllAcks
<1>6. QED
  BY <1>1, <1>2, <1>3, <1>5

-----------------------------------------------------------------------------
(* The steps of the reader's side.                                          *)

(* What an ack sent now says, if it does not cancel the stream.             *)
Acknowledges(ack, seq, read) ==
  /\ ack \in Acks
  /\ ack.fin => w.closed
  /\ ack.cancel \/ (ack.seq = seq /\ Edge(ack) = read + ReadWindow)

(* Whatever moves the reader on, with the acks it sends meanwhile.          *)
LEMMA ReaderStep ==
  ASSUME IInv, UNCHANGED <<w, writerKnown, accepted>>,
         AllPackets' \subseteq AllPackets,
         delivered' \in Seq(Nat), delivered' = Bytes(0, Len(delivered')),
         Len(delivered) <= Len(delivered'), Len(delivered') <= r'.nextSeq, r.nextSeq <= r'.nextSeq,
         Received(r', Len(delivered')),
         ackNet' \subseteq Acks, ackQueue' \in Seq(Acks),
         readerKnown' \in BOOLEAN, errorSent' \in BOOLEAN, repeats' \in 0 .. MaxRepeats,
         \A ack \in AllAcks' : ack \in AllAcks \/ Acknowledges(ack, r'.nextSeq, Len(delivered'))
  PROVE  IInv'
<1>1. /\ r' \in Readers /\ r'.nextSeq \in Nat /\ Len(delivered') \in Nat
      /\ w.nextSeq \in Nat /\ Len(delivered) \in Nat /\ ReadWindow \in Nat
      /\ w.maxAckedSeq \in Nat /\ w.readWindow \in Nat
  <2>1. r' \in Readers /\ r'.nextSeq \in Nat
    BY DEF Received, Readers
  <2>2. QED
    BY <2>1, Facts
<1>2. TypeOK'
  <2>1. dataNet' \subseteq Packets
    BY Facts DEF AllPackets
  <2>2. QED
    BY <1>1, <2>1 DEF IInv, TypeOK
<1>3. Sending'
  BY DEF IInv, Sending, Written, InFlightExact
<1>4. PacketsFit' /\ Disjoint'
  BY PacketsFrame
<1>5. Reading'
  BY DEF Reading, Received
<1>6. Granted'
  <2> DEFINE new == {ack \in AllAcks' : ack \notin AllAcks}
  <2>1. AllAcks' \subseteq AllAcks \cup new
    OBVIOUS
  <2>2. \A ack \in new : /\ ack \in Acks
                         /\ ack.fin => w.closed
                         /\ ack.cancel \/ (ack.seq = r'.nextSeq /\ Edge(ack) = Len(delivered') + ReadWindow)
    BY DEF Acknowledges
  <2> HIDE DEF new
  <2>3. QED
    BY <1>1, <2>1, <2>2, GrantedStep
<1>7. Window'
  <2>1. ~w.closed => WriterEdge <= Len(delivered) + ReadWindow
    BY DEF IInv, Window
  <2>2. WriterEdge \in Nat /\ WriterEdge' = WriterEdge
    BY <1>1 DEF WriterEdge
  <2>3. ~w'.closed => WriterEdge' <= Len(delivered') + ReadWindow
    BY <1>1, <2>1, <2>2
  <2>4. w.nextSeq - Len(delivered) <= ReadWindow
    BY DEF IInv, Window, FlowControl
  <2>5. w'.nextSeq - Len(delivered') <= ReadWindow
    BY <1>1, <2>4
  <2>6. ~w'.closed => \/ w'.readWindow = w'.maxAckedRwnd
                      \/ w'.maxAckedSeq = 0 /\ w'.readWindow = ReadWindow
    BY DEF IInv, Window
  <2>7. QED
    BY <2>3, <2>5, <2>6 DEF Window, FlowControl
<1>8. QED
  BY <1>2, <1>3, <1>4, <1>5, <1>6, <1>7 DEF IInv

(* What a reader whose bytes are the writer's acknowledges.                 *)
LEMMA ReceivedAck ==
  ASSUME IInv, NEW rd, NEW read \in Nat, Received(rd, read), read <= rd.nextSeq, Len(delivered) <= read,
         NEW fin \in BOOLEAN, NEW cancel \in BOOLEAN
  PROVE  /\ AckPacket(rd, fin, cancel) \in Acks
         /\ (fin => w.closed) => Acknowledges(AckPacket(rd, fin, cancel), rd.nextSeq, read)
<1>1. rd \in Readers /\ rd.nextSeq \in Nat /\ rd.nextSeq <= w.nextSeq /\ rd.buffer = Bytes(read, rd.nextSeq)
  BY DEF Received, Readers
<1>2. rd.nextSeq <= read + ReadWindow
  <2>1. w.nextSeq - Len(delivered) <= ReadWindow
    BY DEF IInv, Window, FlowControl
  <2>2. w.nextSeq \in Nat /\ Len(delivered) \in Nat /\ ReadWindow \in Nat
    BY Facts
  <2>3. QED
    BY <1>1, <2>1, <2>2
<1>3. QED
  BY <1>1, <1>2, AckIs DEF Acknowledges

(* The reader as it is.                                                     *)
LEMMA ReaderNow ==
  ASSUME IInv
  PROVE  /\ Received(r, Len(delivered)) /\ Len(delivered) <= r.nextSeq
         /\ delivered = Bytes(0, Len(delivered)) /\ delivered \in Seq(Nat) /\ Len(delivered) \in Nat
         /\ readerKnown \in BOOLEAN /\ errorSent \in BOOLEAN /\ repeats \in 0 .. MaxRepeats
         /\ ackNet \subseteq Acks /\ ackQueue \in Seq(Acks)
<1>1. r \in Readers
  BY Facts
<1>2. QED
  BY <1>1, Facts DEF IInv, TypeOK, Reading, Received

LEMMA RepeatsIs ==
  ASSUME IInv, NEW again \in BOOLEAN, Repeats(again)
  PROVE  repeats' \in 0 .. MaxRepeats
<1>1. repeats \in 0 .. MaxRepeats /\ MaxRepeats \in Nat
  BY PipeAssumption DEF IInv, TypeOK
<1>2. QED
  BY <1>1 DEF Repeats

LEMMA RecvPacketStep ==
  ASSUME IInv, NEW pk \in dataNet, NEW again \in BOOLEAN, RecvPacket(pk, again)
  PROVE  IInv'
<1>1. /\ UNCHANGED <<w, ackNet, readerKnown, writerKnown, delivered, accepted>>
      /\ Repeats(again) /\ dataNet' \subseteq dataNet
  BY DEF RecvPacket, AfterDelivery
<1>2. repeats' \in 0 .. MaxRepeats
  BY <1>1, RepeatsIs
<1>3. pk \in AllPackets
  BY DEF AllPackets
<1>4. /\ Received(r, Len(delivered)) /\ Len(delivered) <= r.nextSeq
      /\ delivered = Bytes(0, Len(delivered)) /\ delivered \in Seq(Nat) /\ Len(delivered) \in Nat
      /\ readerKnown \in BOOLEAN /\ errorSent \in BOOLEAN
      /\ ackNet \subseteq Acks /\ ackQueue \in Seq(Acks) /\ r.nextSeq \in Nat
  BY ReaderNow, Facts
<1>5. CASE RecvKnown(pk)
  <2> DEFINE after == RecvData(r, pk)
             ack == DataAck(r, pk)
  <2>1. /\ r' = after /\ UNCHANGED errorSent
        /\ ackQueue' = IF AcksData(r, pk) THEN Append(ackQueue, ack) ELSE ackQueue
    BY <1>5 DEF RecvKnown
  <2>2. /\ Received(after, Len(delivered)) /\ r.nextSeq <= after.nextSeq
        /\ after.oooPackets \subseteq r.oooPackets \cup {pk}
    BY <1>3, RecvDataIs
  <2> HIDE DEF after
  <2>3. after \in Readers /\ after.nextSeq \in Nat /\ after.eof \in BOOLEAN /\ (after.eof => w.closed)
    BY <2>2 DEF Received, Readers
  <2>4. Len(delivered) <= after.nextSeq
    BY <1>4, <2>2, <2>3
  <2>5. pk.error => w.closed
    BY <1>3 DEF IInv, PacketsFit, Fits
  <2>6. (pk.error \/ after.eof) \in BOOLEAN
    OBVIOUS
  <2>7. ack \in Acks /\ Acknowledges(ack, after.nextSeq, Len(delivered))
    <3>1. ack = AckPacket(after, pk.error \/ after.eof, FALSE)
      BY DEF DataAck, after
    <3>2. Len(delivered) <= Len(delivered)
      BY <1>4
    <3>3. QED
      BY <1>4, <2>2, <2>3, <2>4, <2>5, <2>6, <3>1, <3>2, ReceivedAck
  <2> HIDE DEF ack
  <2>8. AllPackets' \subseteq AllPackets
    BY <1>1, <2>1, <2>2 DEF AllPackets
  <2>9. ackQueue' \in Seq(Acks) /\ AllAcks' \subseteq AllAcks \cup {ack}
    <3>1. CASE AcksData(r, pk)
      BY <1>1, <2>1, <2>7, <3>1, AckQueued
    <3>2. CASE ~AcksData(r, pk)
      BY <1>1, <1>4, <2>1, <3>2 DEF AllAcks
    <3>3. QED
      BY <3>1, <3>2
  <2>10. QED
    BY <1>1, <1>2, <1>4, <2>1, <2>2, <2>4, <2>7, <2>8, <2>9, ReaderStep
<1>6. CASE RecvUnknown(pk)
  <2> DEFINE ack == CancelUnknown(pk)
  <2>1. r' = r /\ errorSent' \in BOOLEAN
    BY <1>4, <1>6 DEF RecvUnknown
  <2>2. ack \in Acks /\ Acknowledges(ack, r.nextSeq, Len(delivered))
    <3>1. pk.id = StreamId /\ pk.seq \in Nat
      BY <1>3, PacketFacts
    <3>2. QED
      BY <3>1 DEF CancelUnknown, Acknowledges, Acks
  <2>3. ackQueue' = ackQueue \/ ackQueue' = Append(ackQueue, ack)
    BY <1>6 DEF RecvUnknown
  <2> HIDE DEF ack
  <2>4. ackQueue' \in Seq(Acks) /\ AllAcks' \subseteq AllAcks \cup {ack}
    <3>1. CASE ackQueue' = Append(ackQueue, ack)
      BY <1>1, <2>2, <3>1, AckQueued
    <3>2. CASE ackQueue' = ackQueue
      BY <1>1, <1>4, <3>2 DEF AllAcks
    <3>3. QED
      BY <2>3, <3>1, <3>2
  <2>5. AllPackets' \subseteq AllPackets
    BY <1>1, <2>1 DEF AllPackets
  <2>6. Len(delivered) <= Len(delivered) /\ r.nextSeq <= r.nextSeq
    BY <1>4
  <2>7. QED
    BY <1>1, <1>2, <1>4, <2>1, <2>2, <2>4, <2>5, <2>6, ReaderStep
<1>7. QED
  BY <1>5, <1>6 DEF RecvPacket

LEMMA ProcessSendAckStep ==
  ASSUME IInv, ProcessSendAck
  PROVE  IInv'
<1>1. /\ UNCHANGED <<repeats, w, r, dataNet, writerKnown, delivered, accepted>>
      /\ ackQueue # << >> /\ ackQueue' = Tail(ackQueue) /\ ackNet' = ackNet \cup {Head(ackQueue)}
  BY DEF ProcessSendAck
<1>2. /\ Received(r, Len(delivered)) /\ Len(delivered) <= r.nextSeq
      /\ delivered = Bytes(0, Len(delivered)) /\ delivered \in Seq(Nat) /\ Len(delivered) \in Nat
      /\ readerKnown \in BOOLEAN /\ errorSent \in BOOLEAN /\ repeats \in 0 .. MaxRepeats
      /\ r.nextSeq \in Nat
  BY ReaderNow, Facts
<1>3. readerKnown' \in BOOLEAN /\ errorSent' \in BOOLEAN
  BY <1>2 DEF ProcessSendAck
<1>4. ackQueue' \in Seq(Acks) /\ ackNet' \subseteq Acks /\ AllAcks' \subseteq AllAcks \cup {}
  BY <1>1, AckSent
<1>5. AllPackets' \subseteq AllPackets
  BY <1>1 DEF AllPackets
<1>6. Len(delivered) <= Len(delivered) /\ r.nextSeq <= r.nextSeq
  BY <1>2
<1>7. QED
  BY <1>1, <1>2, <1>3, <1>4, <1>5, <1>6, ReaderStep

(* Read takes the first bytes of the buffer.                                *)
LEMMA ReadIs ==
  ASSUME NEW rd, NEW read \in Nat, Received(rd, read), read <= rd.nextSeq, NEW n \in Nat
  PROVE  \E k \in Nat :
           /\ read + k <= rd.nextSeq
           /\ Taken(rd, n) = Bytes(read, read + k)
           /\ Received(AfterTaking(rd, n), read + k)
           /\ AfterTaking(rd, n).nextSeq = rd.nextSeq
           /\ AfterTaking(rd, n).oooPackets = rd.oooPackets
<1>1. /\ rd \in Readers /\ rd.nextSeq \in Nat /\ rd.buffer \in Seq(Nat)
      /\ rd.nextSeq <= w.nextSeq /\ rd.buffer = Bytes(read, rd.nextSeq)
      /\ rd.eof => w.closed /\ rd.nextSeq = w.nextSeq
  BY DEF Received, Readers
<1> DEFINE end == rd.nextSeq
           len == end - read
           k == IF n <= len THEN n ELSE len
<1>2. len \in Nat /\ k \in Nat /\ k <= len /\ read + len = end /\ read + 0 = read /\ read + k \in Nat
      /\ read \in Int /\ end \in Int /\ 0 \in Nat /\ 0 <= k /\ len <= len /\ read + k <= end
      /\ read <= read + k
  BY <1>1
<1>3. Len(rd.buffer) = len
  <2>1. PICK next \in Nat : next = rd.nextSeq
    BY <1>1
  <2>2. Len(Bytes(read, next)) = next - read
    BY <2>1 DEF Bytes
  <2>3. QED
    BY <1>1, <2>1, <2>2
<1> HIDE DEF end, len
<1>4. Taken(rd, n) = SubSeq(Bytes(read, end), 1, k)
  BY <1>1, <1>3 DEF Taken, end
<1> HIDE DEF k
<1>5. SubSeq(Bytes(read, end), 0 + 1, k) = Bytes(read + 0, read + k)
  BY ONLY <1>2, len = end - read, BytesSub, Zenon DEF len
<1>6. Taken(rd, n) = Bytes(read, read + k)
  BY <1>2, <1>4, <1>5
<1>7. Len(Bytes(read, read + k)) = k
  <2>1. PICK next \in Nat : next = read + k
    BY <1>2
  <2>2. Len(Bytes(read, next)) = next - read /\ next - read = k
    BY <1>2, <2>1 DEF Bytes
  <2>3. QED
    BY <2>1, <2>2
<1>8. SubSeq(Bytes(read, end), k + 1, len) = Bytes(read + k, read + len)
  BY ONLY <1>2, len = end - read, BytesSub, Zenon DEF len
<1>9. AfterTaking(rd, n) = [rd EXCEPT !.buffer = Bytes(read + k, end)]
  BY <1>1, <1>2, <1>3, <1>6, <1>7, <1>8 DEF AfterTaking, end
<1>10. Bytes(read + k, end) \in Seq(Nat)
  <2>1. end \in Nat
    BY <1>1 DEF end
  <2>2. QED
    BY <1>2, <2>1, BytesNat
<1>11. /\ AfterTaking(rd, n) \in Readers
       /\ AfterTaking(rd, n).buffer = Bytes(read + k, end)
       /\ AfterTaking(rd, n).nextSeq = end /\ AfterTaking(rd, n).eof = rd.eof
       /\ AfterTaking(rd, n).oooPackets = rd.oooPackets
  BY <1>1, <1>9, <1>10 DEF Readers, end
<1>12. Received(AfterTaking(rd, n), read + k)
  BY <1>1, <1>11 DEF Received, end
<1>13. QED
  BY <1>2, <1>6, <1>11, <1>12 DEF end

LEMMA AckedReceived ==
  ASSUME NEW rd, NEW read, Received(rd, read)
  PROVE  /\ Received(Acked(rd), read) /\ Acked(rd).nextSeq = rd.nextSeq
         /\ Acked(rd).oooPackets = rd.oooPackets
  BY AckedIs DEF Received

LEMMA ReadBytesStep ==
  ASSUME IInv, NEW n \in 1 .. MaxChunk, ReadBytes(n)
  PROVE  IInv'
<1>1. /\ UNCHANGED <<repeats, w, dataNet, ackNet, readerKnown, writerKnown, errorSent, accepted>>
      /\ r' = Read(r, n) /\ delivered' = delivered \o Taken(r, n)
      /\ ackQueue' = IF AcksRead(r, n)
                       THEN Append(ackQueue, AckPacket(AfterTaking(r, n), FALSE, FALSE))
                       ELSE ackQueue
  BY DEF ReadBytes
<1>2. /\ Received(r, Len(delivered)) /\ Len(delivered) <= r.nextSeq
      /\ delivered = Bytes(0, Len(delivered)) /\ delivered \in Seq(Nat) /\ Len(delivered) \in Nat
      /\ readerKnown \in BOOLEAN /\ errorSent \in BOOLEAN /\ repeats \in 0 .. MaxRepeats
      /\ ackNet \subseteq Acks /\ ackQueue \in Seq(Acks) /\ r.nextSeq \in Nat
  BY ReaderNow, Facts
<1>3. n \in Nat
  OBVIOUS
<1> DEFINE read == Len(delivered)
           rd == AfterTaking(r, n)
<1>4. PICK k \in Nat : /\ read + k <= r.nextSeq /\ Taken(r, n) = Bytes(read, read + k)
                       /\ Received(rd, read + k) /\ rd.nextSeq = r.nextSeq /\ rd.oooPackets = r.oooPackets
  BY <1>2, <1>3, ReadIs
<1>5. r' = Acked(rd) \/ r' = rd
  BY <1>1 DEF Read
<1> HIDE DEF rd
<1>6. Received(r', read + k) /\ r'.nextSeq = r.nextSeq /\ r'.oooPackets = r.oooPackets
  BY <1>4, <1>5, AckedReceived
<1>7. read \in Int /\ 0 \in Int /\ read + k \in Int /\ read + k \in Nat /\ 0 \in Nat /\ 0 <= read /\ read <= read + k
      /\ r.nextSeq <= r.nextSeq
  BY <1>2
<1>8. delivered' = Bytes(0, read + k)
  <2>1. Bytes(0, read) \o Bytes(read, read + k) = Bytes(0, read + k)
    BY ONLY <1>7, BytesConcat, Zenon
  <2>2. QED
    BY <1>1, <1>2, <1>4, <2>1
<1>9. delivered' \in Seq(Nat) /\ Len(delivered') = read + k
  <2>1. PICK next \in Nat : next = read + k
    BY <1>7
  <2>2. Len(Bytes(0, next)) = next
    BY DEF Bytes
  <2>3. Bytes(0, next) \in Seq(Nat)
    BY BytesNat
  <2>4. QED
    BY <1>8, <2>1, <2>2, <2>3
<1> DEFINE ack == AckPacket(rd, FALSE, FALSE)
<1>10. ack \in Acks /\ Acknowledges(ack, r.nextSeq, read + k)
  BY <1>4, <1>7, ReceivedAck
<1>11. ackQueue' = Append(ackQueue, ack) \/ ackQueue' = ackQueue
  BY <1>1 DEF rd
<1> HIDE DEF ack, read
<1>12. ackQueue' \in Seq(Acks) /\ AllAcks' \subseteq AllAcks \cup {ack}
  <2>1. CASE ackQueue' = Append(ackQueue, ack)
    BY <1>1, <1>10, <2>1, AckQueued
  <2>2. CASE ackQueue' = ackQueue
    BY <1>1, <1>2, <2>2 DEF AllAcks
  <2>3. QED
    BY <1>11, <2>1, <2>2
<1>13. \A x \in AllAcks' : x \in AllAcks \/ Acknowledges(x, r'.nextSeq, Len(delivered'))
  BY <1>6, <1>9, <1>10, <1>12
<1>14. AllPackets' \subseteq AllPackets
  BY <1>1, <1>6 DEF AllPackets
<1>15. /\ UNCHANGED <<w, writerKnown, accepted>> /\ ackNet' \subseteq Acks
       /\ delivered' = Bytes(0, Len(delivered')) /\ Received(r', Len(delivered'))
       /\ Len(delivered) <= Len(delivered') /\ Len(delivered') <= r'.nextSeq /\ r.nextSeq <= r'.nextSeq
       /\ readerKnown' \in BOOLEAN /\ errorSent' \in BOOLEAN /\ repeats' \in 0 .. MaxRepeats
  BY <1>1, <1>2, <1>4, <1>6, <1>7, <1>8, <1>9 DEF read
<1>16. QED
  BY <1>9, <1>12, <1>13, <1>14, <1>15, ReaderStep

LEMMA CloseReaderStep ==
  ASSUME IInv, CloseReader
  PROVE  IInv'
<1>1. /\ UNCHANGED <<repeats, w, dataNet, ackNet, readerKnown, writerKnown, errorSent,
                     delivered, accepted>>
      /\ ~r.closed /\ r' = Close(r) /\ ackQueue' = Append(ackQueue, AckPacket(r', FALSE, TRUE))
  BY DEF CloseReader
<1>2. /\ Received(r, Len(delivered)) /\ Len(delivered) <= r.nextSeq
      /\ delivered = Bytes(0, Len(delivered)) /\ delivered \in Seq(Nat) /\ Len(delivered) \in Nat
      /\ readerKnown \in BOOLEAN /\ errorSent \in BOOLEAN /\ repeats \in 0 .. MaxRepeats
      /\ ackNet \subseteq Acks /\ ackQueue \in Seq(Acks) /\ r.nextSeq \in Nat
  BY ReaderNow, Facts
<1> DEFINE rd == [r EXCEPT !.closed = TRUE, !.err = IF @ = "none" THEN "closed" ELSE @]
<1>3. r' = Acked(rd)
  BY <1>1 DEF Close
<1>4. /\ Received(rd, Len(delivered)) /\ rd.nextSeq = r.nextSeq /\ rd.oooPackets = r.oooPackets
  BY <1>2 DEF Received, Readers, Errors
<1> HIDE DEF rd
<1>5. /\ Received(r', Len(delivered)) /\ r'.nextSeq = r.nextSeq /\ r'.oooPackets = r.oooPackets
  BY <1>3, <1>4, AckedReceived
<1>6. Len(delivered) <= Len(delivered) /\ r.nextSeq <= r.nextSeq
  BY <1>2
<1>7. PICK ack : ack = AckPacket(r', FALSE, TRUE)
  OBVIOUS
<1>8. ack \in Acks /\ Acknowledges(ack, r.nextSeq, Len(delivered))
  BY <1>2, <1>5, <1>6, <1>7, ReceivedAck
<1>9. ackQueue' \in Seq(Acks) /\ AllAcks' \subseteq AllAcks \cup {ack}
  BY <1>1, <1>7, <1>8, AckQueued
<1>10. AllPackets' \subseteq AllPackets
  BY <1>1, <1>5 DEF AllPackets
<1>11. QED
  BY <1>1, <1>2, <1>5, <1>6, <1>8, <1>9, <1>10, ReaderStep

-----------------------------------------------------------------------------
(* The steps of the writer's side.                                          *)

(* The window of a writer: what the acks granted it, and no more.           *)
WindowOf(wr) ==
  LET edge == wr.maxAckedSeq + wr.readWindow
  IN  /\ wr.sentNotAcked = wr.nextSeq - wr.maxAckedSeq
      /\ edge <= Len(delivered) + ReadWindow
      /\ wr.readWindow = wr.maxAckedRwnd \/ (wr.maxAckedSeq = 0 /\ wr.readWindow = ReadWindow)
      /\ \A ack \in WindowAcks : wr.maxAckedSeq < ack.seq => edge <= Edge(ack)

LEMMA WindowNow ==
  ASSUME IInv, ~w.closed
  PROVE  WindowOf(w)
<1>1. \A ack \in WindowAcks : w.maxAckedSeq < ack.seq => WriterEdge <= Edge(ack)
  BY DEF IInv, Granted
<1>2. QED
  BY <1>1 DEF IInv, Sending, InFlightExact, Window, WindowOf, WriterEdge

(* A newer ack moves the window on.                                         *)
LEMMA AckedWriterIs ==
  ASSUME IInv, NEW ack \in WindowAcks, Newer(w, ack), ~w.closed
  PROVE  /\ AckedWriter(w, ack) \in Writers
         /\ AckedWriter(w, ack).nextSeq = w.nextSeq /\ AckedWriter(w, ack).buffer = w.buffer
         /\ AckedWriter(w, ack).closed = w.closed /\ AckedWriter(w, ack).canceled = w.canceled
         /\ AckedWriter(w, ack).call # "idle" => w.call # "idle"
         /\ AckedWriter(w, ack).maxAckedSeq = ack.seq /\ AckedWriter(w, ack).readWindow = ack.rwnd
         /\ WriterEdge <= Edge(ack)
         /\ WindowOf(AckedWriter(w, ack))
<1> DEFINE after == AckedWriter(w, ack)
<1>1. /\ w \in Writers /\ w.nextSeq \in Nat /\ w.sentNotAcked \in Nat
      /\ w.maxAckedSeq \in Nat /\ w.maxAckedRwnd \in Nat /\ w.readWindow \in Nat
      /\ r.nextSeq \in Nat
  BY Facts
<1>2. ack \in Acks /\ ack.seq \in Nat /\ ack.rwnd \in Nat
  BY Facts DEF WindowAcks, Acks
<1>3. /\ w.sentNotAcked = w.nextSeq - w.maxAckedSeq
      /\ w.readWindow = w.maxAckedRwnd \/ (w.maxAckedSeq = 0 /\ w.readWindow = ReadWindow)
      /\ \A b \in WindowAcks : w.maxAckedSeq < b.seq => WriterEdge <= Edge(b)
  BY WindowNow DEF WindowOf, WriterEdge
<1>4. /\ ack.seq <= r.nextSeq /\ r.nextSeq <= w.nextSeq
      /\ Edge(ack) <= Len(delivered) + ReadWindow
      /\ ack.seq = 0 => ack.rwnd = ReadWindow
      /\ \A b \in WindowAcks : ack.seq < b.seq => Edge(ack) <= Edge(b)
  BY DEF IInv, Granted, Reading
<1>5. Unacked(w, ack) = w.nextSeq - ack.seq /\ Unacked(w, ack) \in Nat
  <2>1. w.maxAckedSeq <= ack.seq
    BY <1>1, <1>2 DEF Newer
  <2>2. w.nextSeq - w.sentNotAcked = w.maxAckedSeq
    BY <1>1, <1>3
  <2>3. Unacked(w, ack) = w.sentNotAcked - (ack.seq - w.maxAckedSeq)
    <3>1. (IF ack.seq > w.maxAckedSeq THEN ack.seq - w.maxAckedSeq ELSE 0) = ack.seq - w.maxAckedSeq
      BY <1>1, <1>2, <2>1
    <3>2. ack.seq - w.maxAckedSeq <= w.sentNotAcked
      <4>1. w.sentNotAcked = w.nextSeq - w.maxAckedSeq /\ ack.seq <= w.nextSeq
        BY <1>1, <1>2, <1>3, <1>4
      <4>2. QED
        BY <1>1, <1>2, <4>1
    <3>3. QED
      BY <2>2, <3>1, <3>2 DEF Unacked
  <2>4. QED
    BY <1>1, <1>2, <1>3, <1>4, <2>3
<1>6. /\ after \in Writers
      /\ after.nextSeq = w.nextSeq /\ after.buffer = w.buffer /\ after.closed = w.closed
      /\ after.canceled = w.canceled /\ (after.call # "idle" => w.call # "idle")
      /\ after.maxAckedSeq = ack.seq /\ after.maxAckedRwnd = ack.rwnd /\ after.readWindow = ack.rwnd
      /\ after.sentNotAcked = Unacked(w, ack)
  BY <1>1, <1>2, <1>5 DEF AckedWriter, Woken, Writers
<1> HIDE DEF after
<1>7. WriterEdge <= Edge(ack)
  <2>1. CASE ack.seq > w.maxAckedSeq
    BY <1>1, <1>2, <1>3, <2>1
  <2>2. CASE ack.seq = w.maxAckedSeq /\ ack.rwnd > w.maxAckedRwnd
    <3>1. w.readWindow <= ack.rwnd
      BY <1>1, <1>2, <1>3, <1>4, <2>2
    <3>2. QED
      BY <1>1, <1>2, <2>2, <3>1 DEF WriterEdge, Edge
  <2>3. QED
    BY <2>1, <2>2 DEF Newer
<1>8. after.maxAckedSeq + after.readWindow = Edge(ack)
  BY <1>6 DEF Edge
<1>9. WindowOf(after)
  BY <1>4, <1>5, <1>6, <1>8 DEF WindowOf
<1>10. QED
  BY <1>6, <1>7, <1>9 DEF after

LEMMA AfterAckIs ==
  ASSUME IInv, NEW ack \in AllAcks, writerKnown
  PROVE  /\ AfterAck(w, ack) \in Writers
         /\ AfterAck(w, ack).nextSeq = w.nextSeq /\ AfterAck(w, ack).buffer = w.buffer
         /\ AfterAck(w, ack).closed = w.closed
         /\ AfterAck(w, ack).canceled => ack.cancel
         /\ AfterAck(w, ack).call # "idle" => w.call # "idle"
         /\ ~w.closed => /\ WindowOf(AfterAck(w, ack))
                         /\ WriterEdge <= AfterAck(w, ack).maxAckedSeq + AfterAck(w, ack).readWindow
<1>1. /\ w \in Writers /\ ack \in Acks /\ ack.seq \in Nat /\ ack.rwnd \in Nat
      /\ w.maxAckedSeq \in Nat /\ w.readWindow \in Nat
  BY Facts DEF Acks
<1>2. ~w.canceled
  BY DEF IInv, Sending
<1>3. ~w.closed => WindowOf(w)
  BY WindowNow
<1>4. CASE ack.fin
  <2>1. w.closed
    BY <1>4 DEF IInv, Granted
  <2>2. AfterAck(w, ack) = [w EXCEPT !.finAcked = TRUE, !.maxAckedSeq = ack.seq]
    BY <1>4 DEF AfterAck
  <2>3. QED
    BY <1>1, <1>2, <2>1, <2>2 DEF Writers
<1>5. CASE ~ack.fin /\ ack.cancel
  <2> DEFINE after == CanceledWriter(w)
  <2>1. AfterAck(w, ack) = after
    BY <1>2, <1>5 DEF AfterAck
  <2>2. /\ after \in Writers /\ after.nextSeq = w.nextSeq /\ after.buffer = w.buffer
        /\ after.closed = w.closed /\ (after.call # "idle" => w.call # "idle")
        /\ after.maxAckedSeq = w.maxAckedSeq /\ after.maxAckedRwnd = w.maxAckedRwnd
        /\ after.readWindow = w.readWindow /\ after.sentNotAcked = w.sentNotAcked
    BY <1>1 DEF CanceledWriter, Woken, Writers, Errors
  <2> HIDE DEF after
  <2>3. ~w.closed => WindowOf(after)
    BY <1>3, <2>2 DEF WindowOf
  <2>4. WriterEdge <= after.maxAckedSeq + after.readWindow
    BY <1>1, <2>2 DEF WriterEdge
  <2>5. QED
    BY <1>5, <2>1, <2>2, <2>3, <2>4
<1>6. CASE ~ack.fin /\ ~ack.cancel
  <2>1. ack \in WindowAcks
    BY <1>6 DEF WindowAcks
  <2>2. AfterAck(w, ack) = IF Newer(w, ack) THEN AckedWriter(w, ack) ELSE w
    BY <1>6 DEF AfterAck
  <2>3. CASE ~Newer(w, ack)
    <3>1. WriterEdge <= w.maxAckedSeq + w.readWindow
      BY <1>1 DEF WriterEdge
    <3>2. QED
      BY <1>1, <1>2, <1>3, <2>2, <2>3, <3>1
  <2>4. CASE Newer(w, ack) /\ w.closed
    <3>1. AfterAck(w, ack) = [w EXCEPT !.maxAckedSeq = ack.seq, !.maxAckedRwnd = ack.rwnd]
      BY <2>2, <2>4 DEF AckedWriter
    <3>2. QED
      BY <1>1, <1>2, <2>4, <3>1 DEF Writers
  <2>5. CASE Newer(w, ack) /\ ~w.closed
    <3>1. WriterEdge <= AckedWriter(w, ack).maxAckedSeq + AckedWriter(w, ack).readWindow
      BY <2>1, <2>5, AckedWriterIs DEF Edge
    <3>2. QED
      BY <1>2, <2>1, <2>2, <2>5, <3>1, AckedWriterIs
  <2>6. QED
    BY <2>3, <2>4, <2>5
<1>7. QED
  BY <1>1, <1>4, <1>5, <1>6 DEF Acks

(* A step of the writer that sends nothing and leaves its window in order.  *)
LEMMA WriterStep ==
  ASSUME IInv, UNCHANGED <<r, dataNet, ackQueue, readerKnown, errorSent, delivered, accepted>>,
         ackNet' \subseteq ackNet,
         repeats' \in 0 .. MaxRepeats, writerKnown' \in BOOLEAN,
         w' \in Writers, w'.nextSeq = w.nextSeq, w'.buffer = w.buffer, w'.closed = w.closed,
         w'.canceled => ~writerKnown',
         w'.call # "idle" => w.call # "idle",
         ~w.closed => WindowOf(w')
  PROVE  IInv'
<1>1. /\ w \in Writers /\ w.nextSeq \in Nat /\ w.closed \in BOOLEAN
      /\ ackNet \subseteq Acks /\ ackQueue \in Seq(Acks) /\ dataNet \subseteq Packets
      /\ r \in Readers /\ delivered \in Seq(Nat) /\ accepted \in Nat
      /\ readerKnown \in BOOLEAN /\ errorSent \in BOOLEAN
  BY Facts DEF IInv, TypeOK
<1>2. TypeOK'
  BY <1>1 DEF TypeOK
<1>3. Sending'
  <2>1. w'.buffer = Bytes(w'.nextSeq, Written')
    BY DEF IInv, Sending, Written
  <2>2. w'.call # "idle" => w'.buffer # << >>
    BY DEF IInv, Sending
  <2>3. accepted' <= w'.nextSeq
    BY DEF IInv, Sending
  <2>4. InFlightExact'
    BY DEF InFlightExact, WindowOf
  <2>5. QED
    BY <2>1, <2>2, <2>3, <2>4 DEF Sending
<1>4. PacketsFit' /\ Disjoint'
  <2>1. AllPackets' \subseteq AllPackets
    BY DEF AllPackets
  <2>2. QED
    BY <2>1, PacketsFrame
<1>5. Reading'
  BY DEF IInv, Reading
<1>6. AllAcks' \subseteq AllAcks
  BY DEF AllAcks
<1>7. WindowAcks' \subseteq WindowAcks
  BY <1>6 DEF WindowAcks
<1>8. Granted'
  <2>1. \A ack \in AllAcks' : ack.fin => w'.closed
    BY <1>6 DEF IInv, Granted
  <2>2. ASSUME NEW ack \in WindowAcks'
        PROVE  /\ ack.seq <= r'.nextSeq
               /\ Edge(ack) <= Len(delivered') + ReadWindow
               /\ ack.seq = 0 => ack.rwnd = ReadWindow
               /\ ~w'.closed /\ w'.maxAckedSeq < ack.seq => WriterEdge' <= Edge(ack)
    <3>1. ~w'.closed /\ w'.maxAckedSeq < ack.seq => WriterEdge' <= Edge(ack)
      BY <1>7 DEF WindowOf, WriterEdge
    <3>2. QED
      BY <1>7, <3>1 DEF IInv, Granted
  <2>3. \A a, b \in WindowAcks' : a.seq < b.seq => Edge(a) <= Edge(b)
    BY <1>7 DEF IInv, Granted
  <2>4. QED
    BY <2>1, <2>2, <2>3 DEF Granted, WindowAcks, Edge
<1>9. Window'
  <2>1. FlowControl'
    BY DEF IInv, Window, FlowControl
  <2>2. QED
    BY <2>1 DEF Window, WindowOf, WriterEdge
<1>10. QED
  BY <1>2, <1>3, <1>4, <1>5, <1>8, <1>9 DEF IInv

LEMMA RecvAckStep ==
  ASSUME IInv, NEW ack \in ackNet, NEW again \in BOOLEAN, RecvAck(ack, again)
  PROVE  /\ IInv'
         /\ ~w'.closed => w'.maxAckedSeq + w'.readWindow >= w.maxAckedSeq + w.readWindow
<1>1. /\ UNCHANGED <<r, dataNet, ackQueue, readerKnown, errorSent, delivered, accepted>>
      /\ Repeats(again) /\ ackNet' \subseteq ackNet
      /\ w' = IF writerKnown THEN AfterAck(w, ack) ELSE w
      /\ writerKnown' = (writerKnown /\ ~ack.fin /\ ~ack.cancel)
  BY DEF RecvAck, AfterDelivery
<1>2. repeats' \in 0 .. MaxRepeats
  BY <1>1, RepeatsIs
<1>3. ack \in AllAcks
  BY DEF AllAcks
<1>4. writerKnown' \in BOOLEAN
  BY <1>1
<1>5. w \in Writers /\ w.maxAckedSeq \in Nat /\ w.readWindow \in Nat
  BY Facts
<1>6. CASE writerKnown
  <2> DEFINE after == AfterAck(w, ack)
  <2>1. /\ after \in Writers /\ after.nextSeq = w.nextSeq /\ after.buffer = w.buffer
        /\ after.closed = w.closed /\ (after.canceled => ack.cancel)
        /\ (after.call # "idle" => w.call # "idle")
        /\ ~w.closed => WindowOf(after) /\ WriterEdge <= after.maxAckedSeq + after.readWindow
    BY <1>3, <1>6, AfterAckIs
  <2>2. w' = after
    BY <1>1, <1>6
  <2> HIDE DEF after
  <2>3. w'.canceled => ~writerKnown'
    BY <1>1, <2>1, <2>2
  <2>4. IInv'
    BY <1>1, <1>2, <1>4, <2>1, <2>2, <2>3, WriterStep
  <2>5. ~w'.closed => w.maxAckedSeq + w.readWindow <= w'.maxAckedSeq + w'.readWindow
    BY <2>1, <2>2 DEF WriterEdge
  <2>6. after.maxAckedSeq \in Nat /\ after.readWindow \in Nat
    BY <2>1 DEF Writers
  <2>7. QED
    BY <1>5, <2>2, <2>4, <2>5, <2>6
<1>7. CASE ~writerKnown
  <2>1. w' = w /\ ~writerKnown'
    BY <1>1, <1>7
  <2>2. ~w.closed => WindowOf(w)
    BY WindowNow
  <2>3. IInv'
    BY <1>1, <1>2, <1>4, <1>5, <2>1, <2>2, WriterStep
  <2>4. QED
    BY <1>5, <2>1, <2>3
<1>8. QED
  BY <1>6, <1>7

(* A packet that begins where the writer stands overlaps no other.          *)
LEMMA PacketSent ==
  ASSUME IInv, ~w.closed, NEW pk, AllPackets' \subseteq AllPackets \cup {pk},
         pk.seq = w.nextSeq, w'.nextSeq \in Nat, w.nextSeq <= w'.nextSeq, Fits(pk)'
  PROVE  PacketsFit' /\ Disjoint'
<1>1. w.nextSeq \in Nat
  BY Facts
<1>2. ASSUME NEW q \in AllPackets
      PROVE  q.seq \in Nat /\ PacketEnd(q) \in Nat /\ PacketEnd(q) <= w.nextSeq /\ Fits(q)'
  <2>1. q.seq \in Nat /\ PacketEnd(q) \in Nat /\ PacketEnd(q) <= w.nextSeq
    BY PacketFacts
  <2>2. /\ q.data = Bytes(q.seq, PacketEnd(q)) /\ ~q.eof /\ ~q.error /\ q.data # << >>
    BY DEF IInv, PacketsFit, Fits
  <2>3. PacketEnd(q) <= w'.nextSeq
    BY <1>1, <2>1
  <2>4. QED
    BY <2>1, <2>2, <2>3 DEF Fits
<1>3. PacketsFit'
  BY <1>2 DEF PacketsFit
<1>4. ASSUME NEW p \in AllPackets', NEW q \in AllPackets', p.seq < PacketEnd(q), q.seq < PacketEnd(p)
      PROVE  p = q
  <2>1. CASE p \in AllPackets /\ q \in AllPackets
    BY <1>4, <2>1 DEF IInv, Disjoint
  <2>2. CASE p = pk /\ q \in AllPackets
    BY <1>1, <1>2, <1>4, <2>2
  <2>3. CASE p \in AllPackets /\ q = pk
    BY <1>1, <1>2, <1>4, <2>3
  <2>4. CASE p = pk /\ q = pk
    BY <2>4
  <2>5. QED
    BY <2>1, <2>2, <2>3, <2>4
<1>5. QED
  BY <1>3, <1>4 DEF Disjoint

(* What the writer sends stays below the edge of its window.                *)
LEMMA SenderStep ==
  ASSUME IInv, ~w.closed,
         UNCHANGED <<repeats, r, ackNet, ackQueue, readerKnown, writerKnown, errorSent, delivered>>,
         w' \in Writers, w.nextSeq <= w'.nextSeq,
         w'.nextSeq = w.nextSeq \/ w'.nextSeq <= WriterEdge,
         w'.maxAckedSeq = w.maxAckedSeq, w'.maxAckedRwnd = w.maxAckedRwnd,
         w'.readWindow = w.readWindow, w'.canceled = w.canceled,
         w'.sentNotAcked = w'.nextSeq - w'.maxAckedSeq,
         w'.buffer = Bytes(w'.nextSeq, Written'), w'.call # "idle" => w'.buffer # << >>,
         accepted' \in Nat, accepted' <= w'.nextSeq,
         dataNet' \subseteq Packets, PacketsFit', Disjoint'
  PROVE  IInv'
<1>1. /\ w.nextSeq \in Nat /\ w'.nextSeq \in Nat /\ r.nextSeq \in Nat /\ Len(delivered) \in Nat /\ ReadWindow \in Nat
      /\ w.maxAckedSeq \in Nat /\ w.readWindow \in Nat /\ WriterEdge \in Nat
  <2>1. w'.nextSeq \in Nat
    BY DEF Writers
  <2>2. QED
    BY <2>1, Facts DEF WriterEdge
<1>2. TypeOK'
  BY DEF IInv, TypeOK
<1>3. Sending'
  BY DEF IInv, Sending, InFlightExact
<1>4. Reading'
  <2>1. r.nextSeq <= w.nextSeq /\ ~r.eof
    BY DEF IInv, Reading
  <2>2. r'.nextSeq <= w'.nextSeq /\ ~r'.eof
    BY <1>1, <2>1
  <2>3. QED
    BY <2>2 DEF IInv, Reading
<1>5. AllAcks' = AllAcks /\ WindowAcks' = WindowAcks /\ WriterEdge' = WriterEdge
  BY DEF AllAcks, WindowAcks, WriterEdge
<1>6. Granted'
  <2>1. ASSUME NEW ack \in AllAcks' PROVE ack.fin => w'.closed
    BY <1>5 DEF IInv, Granted
  <2>2. ASSUME NEW ack \in WindowAcks'
        PROVE  /\ ack.seq <= r'.nextSeq
               /\ Edge(ack) <= Len(delivered') + ReadWindow
               /\ ack.seq = 0 => ack.rwnd = ReadWindow
               /\ ~w'.closed /\ w'.maxAckedSeq < ack.seq => WriterEdge' <= Edge(ack)
    BY <1>5 DEF IInv, Granted
  <2>3. \A a, b \in WindowAcks' : a.seq < b.seq => Edge(a) <= Edge(b)
    BY <1>5 DEF IInv, Granted
  <2>4. QED
    BY <2>1, <2>2, <2>3 DEF Granted, WindowAcks, Edge
<1>7. Window'
  <2>1. WriterEdge <= Len(delivered) + ReadWindow /\ w.nextSeq - Len(delivered) <= ReadWindow
    BY DEF IInv, Window, FlowControl
  <2>2. w'.nextSeq - Len(delivered) <= ReadWindow
    BY <1>1, <2>1
  <2>3. w.readWindow = w.maxAckedRwnd \/ (w.maxAckedSeq = 0 /\ w.readWindow = ReadWindow)
    BY DEF IInv, Window
  <2>4. QED
    BY <1>5, <2>1, <2>2, <2>3 DEF Window, FlowControl
<1>8. QED
  BY <1>2, <1>3, <1>4, <1>6, <1>7 DEF IInv

LEMMA CloseWithErrorStep ==
  ASSUME IInv, NEW isError \in BOOLEAN, CloseWithError(isError)
  PROVE  IInv'
<1> DEFINE pk == Packet(StreamId, w.nextSeq, << >>, ~isError, isError)
<1>1. /\ UNCHANGED <<repeats, r, ackNet, ackQueue, readerKnown, writerKnown, errorSent, delivered, accepted>>
      /\ ~w.closed /\ dataNet' = dataNet \cup {pk}
      /\ w' = [w EXCEPT !.closed = TRUE, !.err = IF @ = "none" THEN "closed" ELSE @, !.call = Woken(@)]
  BY DEF CloseWithError
<1>2. /\ w \in Writers /\ w.nextSeq \in Nat /\ w.sentNotAcked \in Nat /\ w.maxAckedSeq \in Nat
  BY Facts
<1>3. /\ w' \in Writers /\ w'.nextSeq = w.nextSeq /\ w'.sentNotAcked = w.sentNotAcked
      /\ w'.maxAckedSeq = w.maxAckedSeq /\ w'.maxAckedRwnd = w.maxAckedRwnd
      /\ w'.readWindow = w.readWindow /\ w'.canceled = w.canceled /\ w'.buffer = w.buffer
      /\ w'.closed /\ (w'.call # "idle" => w.call # "idle")
  BY <1>1, <1>2 DEF Writers, Woken, Errors
<1>4. pk \in Packets /\ pk.seq = w.nextSeq /\ pk.data = << >> /\ PacketEnd(pk) = w.nextSeq
      /\ (pk.eof \/ pk.error)
  <2>0. (~isError) \in BOOLEAN
    OBVIOUS
  <2>1. << >> \in Seq(Nat) /\ Len(<< >>) = 0
    OBVIOUS
  <2>2. pk = [id |-> StreamId, seq |-> w.nextSeq, data |-> << >>, eof |-> ~isError, error |-> isError]
    BY DEF Packet
  <2> HIDE DEF pk
  <2>3. pk.seq = w.nextSeq /\ pk.data = << >> /\ (pk.eof \/ pk.error)
    BY <2>2
  <2>4. pk \in Packets
    BY <1>2, <2>0, <2>1, <2>2, Zenon DEF Packets
  <2>5. PacketEnd(pk) = w.nextSeq
    BY <1>2, <2>1, <2>3 DEF PacketEnd
  <2>6. QED
    BY <2>3, <2>4, <2>5
<1> HIDE DEF pk
<1>5. PICK next \in Nat : next = w.nextSeq
  BY <1>2
<1>6. PICK sent : sent = pk
  OBVIOUS
<1>7. Fits(sent)'
  <2>1. Bytes(next, next) = << >>
    BY NoBytes
  <2>2. sent.seq = next /\ sent.data = << >> /\ PacketEnd(sent) = next
    BY <1>4, <1>5, <1>6
  <2>3. w'.nextSeq = next /\ next <= next
    BY <1>3, <1>5
  <2>4. QED
    BY <1>3, <1>4, <1>6, <2>1, <2>2, <2>3 DEF Fits
<1>8. AllPackets' \subseteq AllPackets \cup {sent}
  BY <1>1, <1>6 DEF AllPackets
<1>9. w.nextSeq <= w'.nextSeq /\ w'.nextSeq \in Nat
  BY <1>2, <1>3
<1>10. PacketsFit' /\ Disjoint'
  BY <1>1, <1>4, <1>6, <1>7, <1>8, <1>9, PacketSent
<1>11. /\ w.buffer = Bytes(w.nextSeq, Written) /\ (w.call # "idle" => w.buffer # << >>)
       /\ accepted <= w.nextSeq /\ w.sentNotAcked = w.nextSeq - w.maxAckedSeq
       /\ dataNet \subseteq Packets /\ accepted \in Nat
  BY <1>1 DEF IInv, TypeOK, Sending, InFlightExact
<1>12. w'.buffer = Bytes(w'.nextSeq, Written')
  BY <1>3, <1>11 DEF Written
<1>13. dataNet' \subseteq Packets /\ accepted' \in Nat /\ accepted' <= w'.nextSeq
       /\ w'.sentNotAcked = w'.nextSeq - w'.maxAckedSeq /\ (w'.call # "idle" => w'.buffer # << >>)
  BY <1>1, <1>3, <1>4, <1>11
<1>14. QED
  BY <1>1, <1>3, <1>9, <1>10, <1>12, <1>13, SenderStep

(* The loop of Write sends what the window takes of the bytes up to top.    *)
LEMMA SendLoopStep ==
  ASSUME IInv, ~w.closed,
         UNCHANGED <<repeats, r, ackNet, ackQueue, readerKnown, writerKnown, errorSent, delivered>>,
         NEW top \in Nat, w.nextSeq < top, NEW wr, wr = [w EXCEPT !.buffer = Bytes(w.nextSeq, top)],
         SendLoop(wr)
  PROVE  IInv'
<1> DEFINE seq == w.nextSeq
           len == top - seq
           k == ToSend(wr)
           pk == DataPacket(StreamId, seq, Bytes(seq, seq + k))
<1>1. /\ w \in Writers /\ seq \in Nat /\ w.sentNotAcked \in Nat /\ w.maxAckedSeq \in Nat /\ w.readWindow \in Nat
      /\ accepted \in Nat /\ accepted <= w.nextSeq /\ dataNet \subseteq Packets
  BY Facts DEF IInv, TypeOK, Sending
<1>2. len \in Nat \ {0} /\ seq + len = top /\ seq \in Int /\ top \in Int /\ seq <= top
  BY <1>1
<1>3. w.sentNotAcked = seq - w.maxAckedSeq
  BY DEF IInv, Sending, InFlightExact
<1>4. Bytes(seq, top) \in Seq(Nat) /\ Len(Bytes(seq, top)) = len
  <2>1. PICK next \in Nat : next = seq
    BY <1>1
  <2>2. Len(Bytes(next, top)) = top - next /\ Bytes(next, top) \in Seq(Nat)
    BY <1>2, <2>1, BytesNat DEF Bytes
  <2>3. QED
    BY <2>1, <2>2
<1>5. /\ wr \in Writers /\ wr.nextSeq = seq /\ wr.buffer = Bytes(seq, top)
      /\ wr.sentNotAcked = w.sentNotAcked /\ wr.readWindow = w.readWindow
      /\ wr.maxAckedSeq = w.maxAckedSeq /\ wr.maxAckedRwnd = w.maxAckedRwnd
      /\ wr.canceled = w.canceled /\ wr.closed = w.closed
  BY <1>1, <1>4 DEF Writers
<1>6. Avail(wr) = WriterEdge - seq /\ Avail(wr) \in Int
  BY <1>1, <1>3, <1>5 DEF Avail, WriterEdge
<1>7. CASE Avail(wr) <= 0
  <2>1. w' = [wr EXCEPT !.call = "waiting"] /\ dataNet' = dataNet /\ accepted' = accepted
    BY <1>7 DEF SendLoop
  <2>2. /\ w' \in Writers /\ w'.nextSeq = seq /\ w'.buffer = Bytes(seq, top)
        /\ w'.sentNotAcked = w.sentNotAcked /\ w'.readWindow = w.readWindow
        /\ w'.maxAckedSeq = w.maxAckedSeq /\ w'.maxAckedRwnd = w.maxAckedRwnd
        /\ w'.canceled = w.canceled /\ w'.closed = w.closed
    BY <1>5, <2>1 DEF Writers
  <2>3. w'.buffer = Bytes(w'.nextSeq, Written') /\ w'.buffer # << >>
    <3>1. Len(w'.buffer) = len
      BY <1>4, <2>2
    <3>2. Written' = top
      BY <1>2, <2>2, <3>1 DEF Written
    <3>3. w'.buffer # << >>
      BY <1>2, <3>1
    <3>4. QED
      BY <2>2, <3>2, <3>3
  <2>4. AllPackets' \subseteq AllPackets
    BY <2>1 DEF AllPackets
  <2>5. PacketsFit' /\ Disjoint'
    BY <2>2, <2>4, PacketsFrame
  <2>6. w'.nextSeq = w.nextSeq /\ w.nextSeq <= w'.nextSeq /\ w'.sentNotAcked = w'.nextSeq - w'.maxAckedSeq
        /\ accepted' \in Nat /\ accepted' <= w'.nextSeq /\ dataNet' \subseteq Packets
    BY <1>1, <1>3, <2>1, <2>2
  <2>7. QED
    BY <2>2, <2>3, <2>5, <2>6, SenderStep
<1>8. CASE Avail(wr) > 0
  <2> DEFINE left == Sent(wr)
  <2>1. k \in Nat \ {0} /\ k <= len /\ seq + k <= WriterEdge /\ seq + k \in Nat /\ 0 \in Nat /\ 0 <= k /\ seq + 0 = seq
        /\ len <= len /\ k \in Nat /\ len \in Nat
    <3>1. k = IF len <= Avail(wr) THEN len ELSE Avail(wr)
      BY <1>4, <1>5 DEF ToSend
    <3>2. k \in Nat \ {0} /\ k <= len /\ k <= Avail(wr)
      BY <1>2, <1>6, <1>8, <3>1
    <3>3. WriterEdge \in Nat
      BY <1>1 DEF WriterEdge
    <3> HIDE DEF k
    <3>4. QED
      BY <1>1, <1>2, <1>6, <3>2, <3>3
  <2> HIDE DEF k
  <2>2. /\ w' = [left EXCEPT !.call = IF left.buffer = << >> THEN "idle" ELSE "waiting"]
        /\ dataNet' = dataNet \cup {DataPacket(StreamId, wr.nextSeq, SubSeq(wr.buffer, 1, k))}
        /\ accepted' = IF left.buffer = << >> THEN left.nextSeq ELSE accepted
    BY <1>6, <1>8 DEF SendLoop, k
  <2>3. SubSeq(Bytes(seq, top), 0 + 1, k) = Bytes(seq + 0, seq + k)
    BY ONLY <1>2, <2>1, len = top - seq, BytesSub, Zenon DEF len
  <2>4. SubSeq(Bytes(seq, top), k + 1, len) = Bytes(seq + k, seq + len)
    BY ONLY <1>2, <2>1, len = top - seq, BytesSub, Zenon DEF len
  <2> HIDE DEF seq, len
  <2>5. SubSeq(wr.buffer, 1, k) = Bytes(seq, seq + k)
    BY <1>5, <2>1, <2>3
  <2>6. Bytes(seq + k, top) \in Seq(Nat) /\ Bytes(seq, seq + k) \in Seq(Nat)
        /\ Len(Bytes(seq + k, top)) = top - (seq + k) /\ Len(Bytes(seq, seq + k)) = k
    <3>1. PICK next \in Nat : next = seq + k
      BY <2>1
    <3>2. PICK here \in Nat : here = seq
      BY <1>1
    <3>3. next <= top /\ next - here = k /\ here <= next
      BY <1>2, <2>1, <3>1, <3>2
    <3>4. Len(Bytes(next, top)) = top - next /\ Len(Bytes(here, next)) = next - here
      BY <3>3 DEF Bytes
    <3>5. Bytes(next, top) \in Seq(Nat) /\ Bytes(here, next) \in Seq(Nat)
      BY BytesNat
    <3>6. QED
      BY <3>1, <3>2, <3>3, <3>4, <3>5
  <2>7. left = [wr EXCEPT !.nextSeq = seq + k, !.sentNotAcked = w.sentNotAcked + k, !.buffer = Bytes(seq + k, top)]
    BY <1>2, <1>4, <1>5, <2>4 DEF Sent, k
  <2>8. w.sentNotAcked + k \in Nat
    BY <1>1, <2>1
  <2>9. /\ left \in Writers /\ left.nextSeq = seq + k /\ left.buffer = Bytes(seq + k, top)
        /\ left.sentNotAcked = w.sentNotAcked + k /\ left.readWindow = w.readWindow
        /\ left.maxAckedSeq = w.maxAckedSeq /\ left.maxAckedRwnd = w.maxAckedRwnd
        /\ left.canceled = w.canceled /\ left.closed = w.closed
    BY <1>5, <2>1, <2>6, <2>7, <2>8 DEF Writers
  <2> HIDE DEF left
  <2>10. /\ w' \in Writers /\ w'.nextSeq = seq + k /\ w'.buffer = Bytes(seq + k, top)
         /\ w'.sentNotAcked = w.sentNotAcked + k /\ w'.readWindow = w.readWindow
         /\ w'.maxAckedSeq = w.maxAckedSeq /\ w'.maxAckedRwnd = w.maxAckedRwnd
         /\ w'.canceled = w.canceled /\ w'.closed = w.closed
         /\ (w'.call # "idle" => w'.buffer # << >>)
    BY <2>2, <2>9 DEF Writers
  <2>11. Written' = top
    <3>1. Len(w'.buffer) = top - (seq + k)
      BY <2>6, <2>10
    <3>2. QED
      BY <2>1, <2>10, <3>1 DEF Written
  <2>12. w.nextSeq <= w'.nextSeq /\ w'.nextSeq \in Nat /\ w'.nextSeq <= WriterEdge
         /\ w'.sentNotAcked = w'.nextSeq - w'.maxAckedSeq
    BY <1>1, <1>3, <2>1, <2>10 DEF seq
  <2>13. accepted' \in Nat /\ accepted' <= w'.nextSeq
    BY <1>1, <2>1, <2>2, <2>9, <2>10, <2>12 DEF seq
  <2>14. pk = [id |-> StreamId, seq |-> seq, data |-> Bytes(seq, seq + k), eof |-> FALSE, error |-> FALSE]
    BY DEF DataPacket, Packet
  <2>15. dataNet' = dataNet \cup {pk}
    BY <1>5, <2>2, <2>5
  <2> HIDE DEF pk
  <2>16. pk \in Packets
    BY <1>1, <2>6, <2>14 DEF Packets
  <2>17. /\ pk.seq = seq /\ pk.data = Bytes(seq, seq + k) /\ ~pk.eof /\ ~pk.error
         /\ PacketEnd(pk) = seq + k /\ pk.data # << >>
    <3>1. pk.seq = seq /\ pk.data = Bytes(seq, seq + k) /\ ~pk.eof /\ ~pk.error
      BY <2>14
    <3>2. Len(pk.data) = k
      BY <2>6, <3>1
    <3>3. QED
      BY <2>1, <3>1, <3>2 DEF PacketEnd
  <2>18. PICK sent : sent = pk
    OBVIOUS
  <2>19. Fits(sent)'
    <3>1. w'.nextSeq = PacketEnd(sent) /\ PacketEnd(sent) \in Nat
      BY <2>1, <2>10, <2>17, <2>18
    <3>2. PacketEnd(sent) <= w'.nextSeq
      BY <3>1
    <3>3. sent.data = Bytes(sent.seq, PacketEnd(sent)) /\ ~sent.eof /\ ~sent.error /\ sent.data # << >>
      BY <2>17, <2>18
    <3>4. QED
      BY <3>2, <3>3 DEF Fits
  <2>20. AllPackets' \subseteq AllPackets \cup {sent}
    BY <2>15, <2>18 DEF AllPackets
  <2>21. PacketsFit' /\ Disjoint'
    BY <2>12, <2>17, <2>18, <2>19, <2>20, PacketSent DEF seq
  <2>22. w'.buffer = Bytes(w'.nextSeq, Written') /\ dataNet' \subseteq Packets
    BY <1>1, <2>10, <2>11, <2>15, <2>16
  <2>23. QED
    BY <2>10, <2>12, <2>13, <2>21, <2>22, SenderStep
<1>9. QED
  BY <1>6, <1>7, <1>8

LEMMA WriteStep ==
  ASSUME IInv, NEW n \in 1 .. MaxChunk, Write(n)
  PROVE  IInv'
<1>1. /\ UNCHANGED <<repeats, r, ackNet, ackQueue, readerKnown, writerKnown, errorSent, delivered>>
      /\ ~w.closed /\ SendLoop([w EXCEPT !.buffer = @ \o Bytes(Written, Written + n)])
  BY DEF Write
<1>2. w \in Writers /\ w.nextSeq \in Nat /\ Written \in Nat /\ Len(w.buffer) \in Nat
      /\ w.buffer = Bytes(w.nextSeq, Written)
  BY Facts DEF IInv, Sending
<1>3. w.nextSeq <= Written
  BY <1>2 DEF Written
<1>4. PICK top \in Nat : top = Written + n
  BY <1>2
<1>5. w.nextSeq \in Int /\ Written \in Int /\ top \in Int /\ w.nextSeq <= Written /\ Written <= top /\ w.nextSeq < top
  BY <1>2, <1>3, <1>4
<1>6. Bytes(w.nextSeq, Written) \o Bytes(Written, top) = Bytes(w.nextSeq, top)
  BY ONLY <1>5, BytesConcat, Zenon
<1>7. PICK wr : wr = [w EXCEPT !.buffer = Bytes(w.nextSeq, top)]
  OBVIOUS
<1>8. SendLoop(wr)
  <2>1. [w EXCEPT !.buffer = @ \o Bytes(Written, Written + n)] = wr
    BY <1>2, <1>4, <1>6, <1>7 DEF Writers
  <2>2. QED
    BY <1>1, <2>1
<1>9. QED
  BY <1>1, <1>5, <1>7, <1>8, SendLoopStep

LEMMA WriteWokenStep ==
  ASSUME IInv, WriteWoken
  PROVE  IInv'
<1>1. /\ UNCHANGED <<repeats, r, ackNet, ackQueue, readerKnown, writerKnown, errorSent, delivered>>
      /\ w.call = "woken"
  BY DEF WriteWoken
<1>2. /\ w \in Writers /\ w.nextSeq \in Nat /\ Written \in Nat /\ Len(w.buffer) \in Nat /\ w.buffer \in Seq(Nat)
      /\ w.buffer = Bytes(w.nextSeq, Written) /\ w.buffer # << >>
  BY <1>1, Facts DEF IInv, Sending
<1>3. CASE w.closed \/ w.err # "none"
  <2>1. w' = [w EXCEPT !.call = "idle"] /\ UNCHANGED <<dataNet, accepted>>
    BY <1>3 DEF WriteWoken
  <2>2. /\ w' \in Writers /\ w'.nextSeq = w.nextSeq /\ w'.buffer = w.buffer /\ w'.closed = w.closed
        /\ w'.canceled = w.canceled /\ w'.call = "idle"
        /\ w'.sentNotAcked = w.sentNotAcked /\ w'.maxAckedSeq = w.maxAckedSeq
        /\ w'.maxAckedRwnd = w.maxAckedRwnd /\ w'.readWindow = w.readWindow
    BY <1>2, <2>1 DEF Writers
  <2>3. ~w.closed => WindowOf(w')
    BY <2>2, WindowNow DEF WindowOf
  <2>4. (w'.canceled => ~writerKnown') /\ writerKnown' \in BOOLEAN /\ repeats' \in 0 .. MaxRepeats
        /\ ackNet' \subseteq ackNet
    BY <1>1, <2>2 DEF IInv, TypeOK, Sending
  <2>5. QED
    BY <1>1, <2>1, <2>2, <2>3, <2>4, WriterStep
<1>4. CASE ~(w.closed \/ w.err # "none")
  <2>1. SendLoop(w) /\ ~w.closed
    BY <1>4 DEF WriteWoken
  <2>2. PICK top \in Nat : top = Written
    BY <1>2
  <2>3. w = [w EXCEPT !.buffer = Bytes(w.nextSeq, top)]
    BY <1>2, <2>2 DEF Writers
  <2>4. w.nextSeq < top
    <3>1. Len(w.buffer) # 0
      BY <1>2, EmptySeq
    <3>2. QED
      BY <1>2, <2>2, <3>1 DEF Written
  <2>5. QED
    BY <1>1, <2>1, <2>2, <2>3, <2>4, SendLoopStep
<1>5. QED
  BY <1>3, <1>4

-----------------------------------------------------------------------------

LEMMA InitIInv == Init => IInv
<1> SUFFICES ASSUME Init PROVE IInv
  OBVIOUS
<1>1. /\ w = NewWriter /\ r = NewReaderWithSeq(StreamId, 0) /\ dataNet = {} /\ ackNet = {} /\ ackQueue = << >>
      /\ readerKnown = TRUE /\ writerKnown = TRUE /\ errorSent = FALSE /\ repeats = 0
      /\ delivered = << >> /\ accepted = 0
  BY DEF Init
<1>2. ReadWindow \in Nat /\ MaxRepeats \in Nat
  BY ReaderAssumption, PipeAssumption
<1>3. w \in Writers /\ w.nextSeq = 0 /\ w.buffer = << >> /\ w.call = "idle" /\ ~w.canceled /\ ~w.closed
      /\ w.sentNotAcked = 0 /\ w.maxAckedSeq = 0 /\ w.readWindow = ReadWindow
  BY <1>1, <1>2 DEF NewWriter, Writers, Errors
<1>4. r \in Readers /\ r.nextSeq = 0 /\ r.buffer = << >> /\ ~r.eof /\ r.oooPackets = {}
  BY <1>1, <1>2 DEF NewReaderWithSeq, Readers, Errors
<1>5. Bytes(0, 0) = << >> /\ Len(delivered) = 0
  BY <1>1, NoBytes
<1>6. TypeOK
  <2>1. dataNet \subseteq Packets /\ ackNet \subseteq Acks
    BY <1>1
  <2>2. ackQueue \in Seq(Acks) /\ delivered \in Seq(Nat)
    BY <1>1
  <2>3. readerKnown \in BOOLEAN /\ writerKnown \in BOOLEAN /\ errorSent \in BOOLEAN
    BY <1>1
  <2>4. repeats \in 0 .. MaxRepeats /\ accepted \in Nat
    BY <1>1, <1>2
  <2>5. QED
    BY <1>3, <1>4, <2>1, <2>2, <2>3, <2>4 DEF TypeOK
<1>7. Sending
  <2>1. Written = 0
    BY <1>3 DEF Written
  <2>2. QED
    BY <1>1, <1>3, <1>5, <2>1 DEF Sending, InFlightExact
<1>8. PacketsFit /\ Disjoint
  BY <1>1, <1>4 DEF PacketsFit, Disjoint, AllPackets
<1>9. Reading
  BY <1>1, <1>3, <1>4, <1>5 DEF Reading
<1>10. AllAcks = {}
  BY <1>1 DEF AllAcks
<1>11. Granted
  BY <1>10 DEF Granted, WindowAcks
<1>12. Window
  BY <1>2, <1>3, <1>5 DEF Window, FlowControl, WriterEdge
<1>13. QED
  BY <1>6, <1>7, <1>8, <1>9, <1>11, <1>12 DEF IInv

LEMMA Stutter ==
  ASSUME IInv, UNCHANGED vars
  PROVE  IInv'
<1> USE DEF vars
<1>1. TypeOK' /\ Sending' /\ Reading' /\ Window'
  BY DEF IInv, TypeOK, Sending, Written, InFlightExact, Reading, Window, WriterEdge, FlowControl
<1>2. AllPackets' = AllPackets /\ AllAcks' = AllAcks
  BY DEF AllPackets, AllAcks
<1>3. PacketsFit' /\ Disjoint'
  BY <1>2, PacketsFrame
<1>4. Granted'
  BY <1>2 DEF IInv, Granted, WindowAcks, WriterEdge
<1>5. QED
  BY <1>1, <1>3, <1>4 DEF IInv

LEMMA InvStep == IInv /\ [Next]_vars => IInv'
<1> SUFFICES ASSUME IInv, [Next]_vars PROVE IInv'
  OBVIOUS
<1>1. CASE \E n \in 1 .. MaxChunk : Write(n)
  BY <1>1, WriteStep
<1>2. CASE WriteWoken
  BY <1>2, WriteWokenStep
<1>3. CASE \E isError \in BOOLEAN : CloseWithError(isError)
  BY <1>3, CloseWithErrorStep
<1>4. CASE \E ack \in ackNet, again \in BOOLEAN : RecvAck(ack, again)
  BY <1>4, RecvAckStep
<1>5. CASE \E pk \in dataNet, again \in BOOLEAN : RecvPacket(pk, again)
  BY <1>5, RecvPacketStep
<1>6. CASE ProcessSendAck
  BY <1>6, ProcessSendAckStep
<1>7. CASE \E n \in 1 .. MaxChunk : ReadBytes(n)
  BY <1>7, ReadBytesStep
<1>8. CASE CloseReader
  BY <1>8, CloseReaderStep
<1>9. CASE UNCHANGED vars
  BY <1>9, Stutter
<1>10. QED
  BY <1>1, <1>2, <1>3, <1>4, <1>5, <1>6, <1>7, <1>8, <1>9 DEF Next

-----------------------------------------------------------------------------
(* What the invariant gives.                                                *)

LEMMA Inductive == Spec => []IInv
<1>1. Init => IInv
  BY InitIInv
<1>2. IInv /\ [Next]_vars => IInv'
  BY InvStep
<1>3. QED
  BY <1>1, <1>2, PTL DEF Spec

(* Writer, Reader and both brokers' maps keep their types, whatever the     *)
(* transport does.                                                          *)
THEOREM TypeCorrect == Spec => []TypeOK
<1>1. IInv => TypeOK
  BY DEF IInv
<1>2. QED
  BY <1>1, Inductive, PTL

(* RecvData and Read hand the application the bytes that Write was given,   *)
(* in order and each once, whatever happened to the packets on the way.     *)
THEOREM DeliveredInOrder == Spec => []InOrder
<1>1. ASSUME IInv PROVE InOrder
  <2> DEFINE read == Len(delivered)
  <2>1. read \in Nat /\ r.nextSeq \in Nat
    BY <1>1, Facts
  <2>2. /\ delivered = Bytes(0, read) /\ read <= r.nextSeq /\ r.buffer = Bytes(read, r.nextSeq)
    BY <1>1 DEF IInv, Reading
  <2> HIDE DEF read
  <2>3. 0 \in Int /\ read \in Int /\ r.nextSeq \in Int /\ 0 <= read /\ read <= r.nextSeq
    BY <2>1, <2>2
  <2>4. Bytes(0, read) \o Bytes(read, r.nextSeq) = Bytes(0, r.nextSeq)
    BY ONLY <2>3, BytesConcat, Zenon
  <2>5. QED
    BY <2>2, <2>4 DEF InOrder
<1>2. QED
  BY <1>1, Inductive, PTL

(* Write never sends more than the window the reader's acks opened: what is *)
(* sent and not yet read fits the reader's window.                          *)
THEOREM WindowRespected == Spec => []FlowControl
<1>1. IInv => FlowControl
  BY DEF IInv, Window
<1>2. QED
  BY <1>1, Inductive, PTL

(* A Reader that reports io.EOF got every byte sent, and every byte of a    *)
(* Write that reported success: packets lost on the way delay the end.      *)
THEOREM EofIsTheEnd == Spec => []EofMeansComplete
<1>1. IInv => EofMeansComplete
  BY DEF IInv, Reading, Sending, EofMeansComplete
<1>2. QED
  BY <1>1, Inductive, PTL

(* sentNotAcked, which RecvAck works out from an ack's sequence number, is  *)
(* the number of bytes in flight until Close.                               *)
THEOREM CountIsExact == Spec => []InFlightExact
<1>1. IInv => InFlightExact
  BY DEF IInv, Sending
<1>2. QED
  BY <1>1, Inductive, PTL

(* The packets the Reader keeps out of order, and those on their way, never *)
(* overlap: the loop over the sorted packets sees each byte in one of them. *)
THEOREM PacketsNeverOverlap == Spec => []Disjoint
<1>1. IInv => Disjoint
  BY DEF IInv
<1>2. QED
  BY <1>1, Inductive, PTL

-----------------------------------------------------------------------------
(* What single steps of the writer do to its window and to a waiting Write. *)

LEMMA SendLoopKeeps ==
  ASSUME NEW wr \in Writers, SendLoop(wr)
  PROVE  /\ w'.maxAckedSeq = wr.maxAckedSeq /\ w'.readWindow = wr.readWindow
         /\ ~wr.closed /\ wr.err = "none" => WaitsForWindow'
<1>1. /\ wr.readWindow \in Nat /\ wr.sentNotAcked \in Nat /\ wr.buffer \in Seq(Nat) /\ Len(wr.buffer) \in Nat
  BY DEF Writers
<1>2. CASE Avail(wr) <= 0
  <2>1. w' = [wr EXCEPT !.call = "waiting"]
    BY <1>2 DEF SendLoop
  <2>2. /\ w'.maxAckedSeq = wr.maxAckedSeq /\ w'.readWindow = wr.readWindow
        /\ w'.sentNotAcked = wr.sentNotAcked /\ w'.closed = wr.closed /\ w'.err = wr.err
    BY <2>1 DEF Writers
  <2>3. QED
    BY <1>2, <2>2 DEF WaitsForWindow, Avail
<1>3. CASE ~(Avail(wr) <= 0)
  <2> DEFINE k == ToSend(wr)
             left == Sent(wr)
  <2>1. w' = [left EXCEPT !.call = IF left.buffer = << >> THEN "idle" ELSE "waiting"]
    BY <1>3 DEF SendLoop
  <2>2. left = [wr EXCEPT !.nextSeq = @ + k, !.sentNotAcked = @ + k, !.buffer = SubSeq(@, k + 1, Len(@))]
    BY DEF Sent
  <2>3. k = Len(wr.buffer) \/ k = Avail(wr)
    BY DEF ToSend
  <2> HIDE DEF k, left
  <2>4. /\ left.maxAckedSeq = wr.maxAckedSeq /\ left.readWindow = wr.readWindow
        /\ left.sentNotAcked = wr.sentNotAcked + k /\ left.closed = wr.closed /\ left.err = wr.err
        /\ left.buffer = SubSeq(wr.buffer, k + 1, Len(wr.buffer))
        /\ left = [wr EXCEPT !.nextSeq = left.nextSeq, !.sentNotAcked = left.sentNotAcked, !.buffer = left.buffer]
    BY <2>2 DEF Writers
  <2>5. /\ w'.maxAckedSeq = wr.maxAckedSeq /\ w'.readWindow = wr.readWindow
        /\ w'.sentNotAcked = wr.sentNotAcked + k /\ w'.closed = wr.closed /\ w'.err = wr.err
        /\ (w'.call = "waiting" => left.buffer # << >>)
    BY <2>1, <2>4 DEF Writers
  <2>6. k = Len(wr.buffer) => left.buffer = << >>
    BY <1>1, <2>4
  <2>7. w'.call = "waiting" => Avail(w') <= 0
    BY <1>1, <2>3, <2>5, <2>6 DEF Avail
  <2>8. QED
    BY <2>5, <2>7 DEF WaitsForWindow, Avail
<1>4. QED
  BY <1>2, <1>3

LEMMA WriteKeeps ==
  ASSUME IInv, NEW n \in 1 .. MaxChunk, Write(n)
  PROVE  w'.maxAckedSeq = w.maxAckedSeq /\ w'.readWindow = w.readWindow /\ WaitsForWindow'
<1>1. ~w.closed /\ w.err = "none" /\ SendLoop([w EXCEPT !.buffer = @ \o Bytes(Written, Written + n)])
  BY DEF Write
<1>2. w \in Writers /\ Written \in Nat /\ w.buffer \in Seq(Nat)
  BY Facts
<1>3. w.buffer \o Bytes(Written, Written + n) \in Seq(Nat)
  <2>1. Bytes(Written, Written + n) \in Seq(Nat)
    BY <1>2, BytesNat
  <2>2. QED
    BY <1>2, <2>1, ConcatProperties
<1>4. PICK wr : wr = [w EXCEPT !.buffer = @ \o Bytes(Written, Written + n)]
  OBVIOUS
<1>5. /\ wr \in Writers /\ wr.maxAckedSeq = w.maxAckedSeq /\ wr.readWindow = w.readWindow
      /\ wr.closed = w.closed /\ wr.err = w.err
  BY <1>2, <1>3, <1>4 DEF Writers
<1>6. QED
  BY <1>1, <1>4, <1>5, SendLoopKeeps

(* A window that RecvAck granted is never taken back, by an ack that comes  *)
(* late, again or out of turn.                                              *)
THEOREM WindowIsKept == Spec => EdgeNeverRetreats
<1> DEFINE Kept == ~w'.closed => w'.maxAckedSeq + w'.readWindow >= w.maxAckedSeq + w.readWindow
<1>1. ASSUME IInv, Next PROVE Kept
  <2>1. w.maxAckedSeq \in Nat /\ w.readWindow \in Nat /\ w \in Writers
    BY <1>1, Facts
  <2>2. CASE \E ack \in ackNet, again \in BOOLEAN : RecvAck(ack, again)
    BY <1>1, <2>2, RecvAckStep
  <2>3. CASE \E n \in 1 .. MaxChunk : Write(n)
    <3>1. w'.maxAckedSeq = w.maxAckedSeq /\ w'.readWindow = w.readWindow
      BY <1>1, <2>3, WriteKeeps
    <3>2. QED
      BY <2>1, <3>1
  <2>4. CASE WriteWoken
    <3>1. w'.maxAckedSeq = w.maxAckedSeq /\ w'.readWindow = w.readWindow
      <4>1. CASE w.closed \/ w.err # "none"
        BY <2>1, <2>4, <4>1 DEF WriteWoken, Writers
      <4>2. CASE ~(w.closed \/ w.err # "none")
        BY <2>1, <2>4, <4>2, SendLoopKeeps DEF WriteWoken
      <4>3. QED
        BY <4>1, <4>2
    <3>2. QED
      BY <2>1, <3>1
  <2>5. CASE \E isError \in BOOLEAN : CloseWithError(isError)
    <3>1. w'.closed
      BY <2>1, <2>5 DEF CloseWithError, Writers
    <3>2. QED
      BY <3>1
  <2>6. CASE UNCHANGED w
    BY <2>1, <2>6
  <2>7. QED
    BY <1>1, <2>2, <2>3, <2>4, <2>5, <2>6 DEF Next, RecvPacket, ProcessSendAck, ReadBytes, CloseReader
<1>2. ASSUME IInv, [Next]_vars PROVE [Kept]_vars
  BY <1>1, <1>2
<1>3. [][Kept]_vars <=> EdgeNeverRetreats
  BY PTL DEF EdgeNeverRetreats
<1>4. QED
  BY <1>2, <1>3, Inductive, PTL DEF Spec

(* No lost wake-up: whoever opens the window, closes the writer or cancels  *)
(* it also wakes the Write that waits on w.cond.                            *)
THEOREM NoLostWakeUp == Spec => []WaitsForWindow
<1>1. Init => WaitsForWindow
  BY DEF Init, NewWriter, WaitsForWindow
<1>2. ASSUME IInv, WaitsForWindow, [Next]_vars PROVE WaitsForWindow'
  <2>1. w \in Writers
    BY <1>2, Facts
  <2>2. CASE \E n \in 1 .. MaxChunk : Write(n)
    BY <1>2, <2>2, WriteKeeps
  <2>3. CASE WriteWoken
    <3>1. CASE w.closed \/ w.err # "none"
      BY <2>1, <2>3, <3>1 DEF WriteWoken, Writers, WaitsForWindow
    <3>2. CASE ~(w.closed \/ w.err # "none")
      BY <2>1, <2>3, <3>2, SendLoopKeeps DEF WriteWoken
    <3>3. QED
      BY <3>1, <3>2
  <2>4. CASE \E isError \in BOOLEAN : CloseWithError(isError)
    BY <2>1, <2>4 DEF CloseWithError, Woken, Writers, WaitsForWindow
  <2>5. CASE \E ack \in ackNet, again \in BOOLEAN : RecvAck(ack, again)
    <3>1. PICK ack \in ackNet : w' = w \/ w' = AfterAck(w, ack)
      BY <2>5 DEF RecvAck
    <3>2. CASE w' = w
      BY <1>2, <3>2 DEF WaitsForWindow, Avail
    <3>3. CASE w' = AfterAck(w, ack)
      <4>1. \/ w' = w
            \/ w' = [w EXCEPT !.finAcked = TRUE, !.maxAckedSeq = ack.seq]
            \/ w' = CanceledWriter(w)
            \/ w' = AckedWriter(w, ack)
        BY <3>3, Zenon DEF AfterAck
      <4>2. CASE w' = [w EXCEPT !.finAcked = TRUE, !.maxAckedSeq = ack.seq]
        BY <1>2, <2>1, <4>2 DEF WaitsForWindow, Avail, Writers
      <4>3. CASE w' = CanceledWriter(w)
        BY <1>2, <2>1, <4>3 DEF CanceledWriter, Woken, WaitsForWindow, Avail, Writers
      <4>4. CASE w' = AckedWriter(w, ack)
        BY <1>2, <2>1, <4>4 DEF AckedWriter, Woken, WaitsForWindow, Avail, Writers
      <4>5. QED
        BY <3>2, <4>1, <4>2, <4>3, <4>4
    <3>4. QED
      BY <3>1, <3>2, <3>3
  <2>6. CASE UNCHANGED w
    BY <1>2, <2>6 DEF WaitsForWindow, Avail
  <2>7. QED
    BY <1>2, <2>2, <2>3, <2>4, <2>5, <2>6 DEF Next, vars, RecvPacket, ProcessSendAck, ReadBytes, CloseReader
<1>3. QED
  BY <1>1, <1>2, Inductive, PTL DEF Spec

=============================================================================
