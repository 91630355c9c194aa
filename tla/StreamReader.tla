---------------------------- MODULE StreamReader ----------------------------
(***************************************************************************)
(* The receiving end of a stream, pkg/streamclient/streamreader.go, as     *)
(* operators on a reader record: what each method leaves in the Reader and *)
(* whether it acknowledges.  Methods hold r.lock, so each is one step of   *)
(* the modules that use them (StreamPipe, DurableStream).                  *)
(***************************************************************************)
EXTENDS StreamBytes

CONSTANTS
  ReadWindow,  \* r.readWindow
  AckDivisor   \* Read acks early once the window grew by readWindow/AckDivisor
               \* (5 in the code)

ASSUME ReaderAssumption ==
  /\ ReadWindow \in Nat \ {0}
  /\ AckDivisor \in Nat \ {0}

NewReaderWithSeq(id, startSeq) ==
  [id |-> id, nextSeq |-> startSeq, buffer |-> << >>, eof |-> FALSE,
   err |-> "none", closed |-> FALSE, lastRwndSent |-> ReadWindow,
   oooPackets |-> {}]

\* rwnd as sendAckLocked and Read compute it: never negative.
RWnd(r) == IF Len(r.buffer) <= ReadWindow THEN ReadWindow - Len(r.buffer) ELSE 0

AckPacket(r, fin, cancel) ==
  [id |-> r.id, seq |-> r.nextSeq, rwnd |-> RWnd(r), fin |-> fin, cancel |-> cancel]

Acked(r) == [r EXCEPT !.lastRwndSent = RWnd(r)]

-----------------------------------------------------------------------------

Ignores(r, pk) == r.closed \/ r.eof \/ r.err /= "none" \/ pk.id /= r.id

Accept(r, pk) ==
  [r EXCEPT !.buffer = @ \o pk.data,
            !.nextSeq = PacketEnd(pk),
            !.eof = @ \/ pk.eof]

\* mutant of AddOOO: the end of the stream is taken out of turn
AddOOO_EofNow(r, pk) == [r EXCEPT !.oooPackets = @ \cup {pk}, !.eof = pk.eof]

\* mutant of AddOOO: a packet ahead of the stream is taken as if it were next
AddOOO_AsNext(r, pk) == Accept(r, pk)

AddOOO(r, pk) ==
  IF \E held \in r.oooPackets : held.seq = pk.seq
    THEN r
    ELSE [r EXCEPT !.oooPackets = @ \cup {pk}]

Covers(pk, pos) == pk.seq <= pos /\ pos < PacketEnd(pk)

IsHeld(r, pos) == \E pk \in r.oooPackets : Covers(pk, pos)

HeldByte(r, pos) ==
  LET pk == CHOOSE pk \in r.oooPackets : Covers(pk, pos)
  IN  pk.data[pos - pk.seq + 1]

\* The first position from nextSeq on that no held packet covers.  Packets of
\* one stream never overlap (a sender sends each byte once per stream id), so
\* this is where the loop over the sorted packets breaks.
DrainEnd(r) ==
  CHOOSE e \in {r.nextSeq} \cup {PacketEnd(pk) : pk \in r.oooPackets} :
    /\ e >= r.nextSeq
    /\ ~IsHeld(r, e)
    /\ \A pos \in r.nextSeq .. e - 1 : IsHeld(r, pos)

Drain(r) ==
  LET end == DrainEnd(r)
  IN  [r EXCEPT
        !.buffer = @ \o [i \in 1 .. end - r.nextSeq |-> HeldByte(r, r.nextSeq + i - 1)],
        !.nextSeq = end,
        !.eof = @ \/ \E pk \in r.oooPackets : pk.eof /\ pk.seq = end,
        !.oooPackets = {pk \in @ : pk.seq > end}]

\* Error packets are looked at before their sequence number.
AcksData(r, pk) == ~Ignores(r, pk) /\ (pk.error \/ pk.seq = r.nextSeq)

RecvData(r, pk) ==
  CASE Ignores(r, pk)       -> r
    [] ~Ignores(r, pk) /\ pk.error -> Acked([r EXCEPT !.err = "stream"])
    [] ~Ignores(r, pk) /\ ~pk.error /\ pk.seq < r.nextSeq -> r
    [] ~Ignores(r, pk) /\ ~pk.error /\ pk.seq > r.nextSeq -> AddOOO(r, pk)
    [] ~Ignores(r, pk) /\ ~pk.error /\ pk.seq = r.nextSeq -> Acked(Drain(Accept(r, pk)))

\* The ack RecvData sends: Fin once the stream has ended, in r as it is after.
DataAck(r, pk) ==
  LET after == RecvData(r, pk)
  IN  AckPacket(after, pk.error \/ after.eof, FALSE)

-----------------------------------------------------------------------------

\* Read would wait otherwise.
Readable(r) == r.buffer /= << >> \/ r.eof \/ r.err /= "none" \/ r.closed

\* Read returns bytes only while there is neither an error nor a close.
ReadsBytes(r) == ~r.closed /\ r.err = "none" /\ r.buffer /= << >>

Taken(r, n) ==
  LET k == IF n <= Len(r.buffer) THEN n ELSE Len(r.buffer)
  IN  SubSeq(r.buffer, 1, k)

AfterTaking(r, n) ==
  [r EXCEPT !.buffer = SubSeq(@, Len(Taken(r, n)) + 1, Len(@))]

\* mutant of AcksRead: the application's reads grant no window
AcksRead_Never(r, n) == FALSE

AcksRead(r, n) ==
  \/ AfterTaking(r, n).buffer = << >>
  \/ RWnd(AfterTaking(r, n)) - r.lastRwndSent >= ReadWindow \div AckDivisor

Read(r, n) == IF AcksRead(r, n) THEN Acked(AfterTaking(r, n)) ELSE AfterTaking(r, n)

UpdateNextSeq(r, newSeq) == [r EXCEPT !.nextSeq = newSeq]

Close(r) ==
  IF r.closed
    THEN r
    ELSE Acked([r EXCEPT !.closed = TRUE,
                         !.err = IF @ = "none" THEN "closed" ELSE @])

=============================================================================
