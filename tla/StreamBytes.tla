----------------------------- MODULE StreamBytes -----------------------------
(* What the stream modules share: a byte is represented by its position in *)
(* the stream it was written to, and packets carry runs of them            *)
(* (CommandStreamData in pkg/wshrpc/wshrpctypes.go).                       *)
EXTENDS Integers, Sequences

\* The bytes of the stream from position a up to, not including, b.
Bytes(a, b) == [i \in 1 .. (b - a) |-> a + i - 1]

Packet(id, seq, data, eof, error) ==
  [id |-> id, seq |-> seq, data |-> data, eof |-> eof, error |-> error]

DataPacket(id, seq, data) == Packet(id, seq, data, FALSE, FALSE)

PacketEnd(pk) == pk.seq + Len(pk.data)

=============================================================================
