------------------------------- MODULE CirBuf -------------------------------
(***************************************************************************)
(* The job manager's circular output buffer, pkg/jobmanager/cirbuf.go.     *)
(* Every method runs under cb.lock, so each is one step.  A byte is        *)
(* represented by its position in the output, so that buf says which byte  *)
(* each slot of the ring holds.                                            *)
(***************************************************************************)
EXTENDS Integers, Sequences

CONSTANTS
  MaxSize,   \* len(cb.buf)
  MaxWrite,  \* the longest slice WriteAvailable is given (MaxPacketSize)
  MaxTotal   \* bound on the bytes ever written

ASSUME CirBufAssumption ==
  /\ MaxSize \in Nat \ {0}
  /\ MaxWrite \in 1 .. MaxSize
  /\ MaxTotal \in Nat

VARIABLES
  buf,        \* slot -> position of the byte it holds, -1 if never written
  readPos, writePos, count,
  totalSize,
  syncMode,
  windowSize,
  waiterChan, \* the channel of capacity 1 that holds the parked writer
  writer      \* what the writing goroutine does: "running" or "waiting"

ringVars == <<buf, readPos, writePos, count, totalSize, syncMode, windowSize,
          waiterChan, writer>>

Slots == 0 .. MaxSize - 1

Smaller(a, b) == IF a <= b THEN a ELSE b
Larger(a, b)  == IF a >= b THEN a ELSE b

\* mutant of Wrap: the index is never reduced
Wrap_Unreduced(pos) == pos

Wrap(pos) == pos % MaxSize

\* How many slots slot i lies ahead of slot j, going round the ring.
Ahead(i, j) == (i - j + MaxSize) % MaxSize

RingTypeOK ==
  /\ buf \in [Slots -> Int]
  /\ readPos \in Slots
  /\ writePos \in Slots
  /\ count \in 0 .. MaxSize
  /\ totalSize \in Nat
  /\ syncMode \in BOOLEAN
  /\ windowSize \in 0 .. MaxSize
  /\ waiterChan \in BOOLEAN
  /\ writer \in {"running", "waiting"}

HeadPos == totalSize - count

RingInit ==
  /\ buf = [i \in Slots |-> -1]
  /\ readPos = 0
  /\ writePos = 0
  /\ count = 0
  /\ totalSize = 0
  /\ syncMode = TRUE
  /\ windowSize = MaxSize
  /\ waiterChan = FALSE
  /\ writer = "running"

\* mutant of tryWakeWriter: the channel is closed but left in waiterChan
tryWakeWriter_LeavesChannel ==
  /\ waiterChan' = waiterChan
  /\ writer' = IF waiterChan THEN "running" ELSE writer

\* Closing the channel lets the parked goroutine retry its write.
tryWakeWriter ==
  /\ waiterChan' = FALSE
  /\ writer' = IF waiterChan THEN "running" ELSE writer

WakesOnSet(sync, new) == syncMode /\ (new > windowSize \/ ~sync)

\* mutant of SetEffectiveWindow: the truncation forgets the read position
SetEffectiveWindow_KeepsReadPos(sync, size) ==
  LET new == Smaller(size, MaxSize)
  IN  /\ windowSize' = new
      /\ syncMode' = sync
      /\ count' = IF sync THEN count ELSE Smaller(count, new)
      /\ IF WakesOnSet(sync, new) THEN tryWakeWriter
                                  ELSE UNCHANGED <<waiterChan, writer>>
      /\ UNCHANGED <<buf, readPos, writePos, totalSize>>

SetEffectiveWindow(sync, size) ==
  LET new    == Smaller(size, MaxSize)
      excess == Larger(0, count - new)
  IN  /\ windowSize' = new
      /\ syncMode' = sync
      /\ IF sync THEN UNCHANGED <<readPos, count>>
                 ELSE /\ readPos' = Wrap(readPos + excess)
                      /\ count' = count - excess
      /\ IF WakesOnSet(sync, new) THEN tryWakeWriter
                                  ELSE UNCHANGED <<waiterChan, writer>>
      /\ UNCHANGED <<buf, writePos, totalSize>>

\* Sync mode stops at the window; async mode overwrites the oldest bytes.
Written(n) == IF syncMode THEN Smaller(n, windowSize - count) ELSE n

CountAfter(written) == Larger(count, Smaller(windowSize, count + written))

StoreBytes(n) ==
  LET written == Written(n)
      kept    == CountAfter(written)
  IN  /\ buf' = [i \in Slots |->
                   IF Ahead(i, writePos) < written
                     THEN totalSize + Ahead(i, writePos)
                     ELSE buf[i]]
      /\ writePos' = Wrap(writePos + written)
      /\ count' = kept
      /\ readPos' = Wrap(readPos + (count + written - kept))
      /\ totalSize' = totalSize + written
      /\ UNCHANGED <<syncMode, windowSize, waiterChan, writer>>

\* A write that finds the window full registers a channel and waits on it.
ParkWriter ==
  /\ waiterChan' = TRUE
  /\ writer' = "waiting"
  /\ UNCHANGED <<buf, readPos, writePos, count, totalSize, syncMode,
                 windowSize>>

Blocks == syncMode /\ count >= windowSize

WriteAvailable(n) ==
  /\ writer = "running"
  /\ totalSize + n <= MaxTotal
  /\ IF Blocks THEN ParkWriter ELSE StoreBytes(n)

\* mutant of PeekDataAt: reads from the head whatever the offset
PeekDataAt_IgnoresOffset(offset, n) ==
  [i \in 1 .. Smaller(n, Larger(0, count - offset)) |-> buf[Wrap(readPos + i - 1)]]

PeekDataAt(offset, n) ==
  [i \in 1 .. Smaller(n, Larger(0, count - offset)) |->
     buf[Wrap(readPos + offset + i - 1)]]

\* mutant of Consume: nobody is woken
Consume_NoWake(n) ==
  /\ n <= count
  /\ readPos' = Wrap(readPos + n)
  /\ count' = count - n
  /\ UNCHANGED <<buf, writePos, totalSize, syncMode, windowSize, waiterChan, writer>>

Consume(n) ==
  /\ n <= count
  /\ readPos' = Wrap(readPos + n)
  /\ count' = count - n
  /\ tryWakeWriter
  /\ UNCHANGED <<buf, writePos, totalSize, syncMode, windowSize>>

RingNext ==
  \/ \E sync \in BOOLEAN, size \in 0 .. MaxSize + 1 : SetEffectiveWindow(sync, size)
  \/ \E n \in 1 .. MaxWrite : WriteAvailable(n)
  \/ \E n \in 0 .. MaxSize : Consume(n)

RingSpec == RingInit /\ [][RingNext]_ringVars

-----------------------------------------------------------------------------

(* The ring holds exactly the last count bytes of the output, in order, and  *)
(* the write position is just behind them: however often the positions wrap, *)
(* whatever was truncated, overwritten or consumed in between.               *)
RingHoldsWindow ==
  /\ writePos = Wrap(readPos + count)
  /\ \A i \in Slots :
       Ahead(i, readPos) < count => buf[i] = HeadPos + Ahead(i, readPos)

(* No lost wake-up: the parked writer's channel is registered, and the       *)
(* condition it waits on (sync mode with a full window) still holds.  Were   *)
(* it parked with room in the window, the PTY would stay blocked.            *)
ParkedOnlyWhenFull ==
  writer = "waiting" => waiterChan /\ Blocks

(* The channel slot is free whenever the writer may come to park, so the     *)
(* "multiple concurrent blocked writes" panic of WriteAvailable is not       *)
(* reached by a single writing goroutine.                                    *)
NoSecondWaiter ==
  writer = "running" => ~waiterChan

Window == INSTANCE OutputWindow WITH head <- HeadPos, total <- totalSize

(* PeekDataAt copies out the bytes at the positions it is asked for, also    *)
(* across the end of the ring, and none beyond the last one written.         *)
PeeksWindow ==
  \A offset, n \in 0 .. MaxSize :
    PeekDataAt(offset, n) = Window!PeekDataAt(offset, n)

(* The ring implements the window of positions the stream manager relies on: *)
(* each method does to the interval HeadPos .. totalSize-1, to the window    *)
(* and to the writer what OutputWindow says.                                 *)
ImplementsWindow == Window!Spec

=============================================================================
