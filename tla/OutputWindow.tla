---------------------------- MODULE OutputWindow ----------------------------
(***************************************************************************)
(* What the job manager's output buffer promises (pkg/jobmanager/          *)
(* cirbuf.go), with the ring of bytes left out: a byte is the position it  *)
(* has in the PTY's output, and the buffer is the interval head .. total-1 *)
(* of that output.  CirBuf shows that the ring implements this; Stream-    *)
(* Manager is built on it.                                                 *)
(*                                                                         *)
(* One goroutine writes (the PTY read loop).  In sync mode a write that    *)
(* finds the window full parks on a channel; in async mode it drops the    *)
(* oldest bytes instead.                                                   *)
(***************************************************************************)
EXTENDS StreamBytes

CONSTANTS
  MaxSize,   \* len(cb.buf)
  MaxWrite,  \* the longest slice WriteAvailable is given (MaxPacketSize)
  MaxTotal   \* bound on the bytes ever written

VARIABLES
  head,       \* HeadPos(): position of the oldest byte still buffered
  total,      \* totalSize: bytes ever written
  syncMode,   \* TRUE: a full window blocks the writer
  windowSize, \* effective window
  writer      \* "running", or "waiting" on the channel WriteAvailable returned

vars == <<head, total, syncMode, windowSize, writer>>

Smaller(a, b) == IF a <= b THEN a ELSE b
Larger(a, b)  == IF a >= b THEN a ELSE b

Size == total - head

Full == Size >= windowSize

Init ==
  /\ head = 0
  /\ total = 0
  /\ syncMode = TRUE
  /\ windowSize = MaxSize
  /\ writer = "running"

\* In async mode a shrunk window truncates the oldest bytes; in sync mode it
\* only keeps new bytes out.  A parked writer is woken when the window grows
\* or writing stops being blocking.
SetEffectiveWindow(sync, size) ==
  LET new == Smaller(size, MaxSize)
  IN  /\ syncMode' = sync
      /\ windowSize' = new
      /\ head' = IF sync THEN head ELSE Larger(head, total - new)
      /\ writer' = IF syncMode /\ (new > windowSize \/ ~sync)
                     THEN "running" ELSE writer
      /\ UNCHANGED total

WriteSync(n) ==
  /\ syncMode
  /\ ~Full
  /\ total' = total + Smaller(n, windowSize - Size)
  /\ UNCHANGED <<head, syncMode, windowSize, writer>>

WriteBlocks ==
  /\ syncMode
  /\ Full
  /\ writer' = "waiting"
  /\ UNCHANGED <<head, total, syncMode, windowSize>>

WriteAsync(n) ==
  /\ ~syncMode
  /\ total' = total + n
  /\ head' = Larger(head, total' - windowSize)
  /\ UNCHANGED <<syncMode, windowSize, writer>>

\* The single writer offers n bytes.
WriteAvailable(n) ==
  /\ writer = "running"
  /\ total + n <= MaxTotal
  /\ WriteSync(n) \/ WriteBlocks \/ WriteAsync(n)

\* PeekDataAt copies at most n bytes, from offset bytes behind the head on.
PeekDataAt(offset, n) ==
  Bytes(head + offset, Smaller(head + offset + n, Larger(total, head + offset)))

Consume(n) ==
  /\ n <= Size
  /\ head' = head + n
  /\ writer' = "running"
  /\ UNCHANGED <<total, syncMode, windowSize>>

Next ==
  \/ \E sync \in BOOLEAN, size \in 0 .. MaxSize + 1 : SetEffectiveWindow(sync, size)
  \/ \E n \in 1 .. MaxWrite : WriteAvailable(n)
  \/ \E n \in 0 .. MaxSize : Consume(n)

Spec == Init /\ [][Next]_vars

=============================================================================
