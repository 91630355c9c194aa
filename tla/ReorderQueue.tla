----------------------------- MODULE ReorderQueue -----------------------------
(***************************************************************************)
(* QuickReorderQueue, pkg/utilds/quickreorderqueue.go: keystrokes arrive on *)
(* RPC goroutines in any order; the queue puts those of a session back in   *)
(* the order of their numbers, holds one that came early for at most the    *)
(* timeout, and hands everything to the job manager's input goroutine       *)
(* through outCh.                                                           *)
(*                                                                         *)
(* Every method runs under the queue's lock, so it is one action.  Sending  *)
(* on a full outCh would block with the lock held: nothing here guards the  *)
(* sends, and SendsNeverBlock says that they find room.                     *)
(*                                                                         *)
(* Time is abstracted.  "late" holds the buffered items older than the      *)
(* timeout; items grow old in the order they arrived.  A timer is armed,    *)
(* fires, and runs onTimeout as soon as it has the lock; a timer the queue  *)
(* has forgotten (q.timer points to another one, or to none) still runs.    *)
(*                                                                         *)
(* Sessions are ranked by when the queue first saw them, here by a count.   *)
(* The code takes the millisecond (line 70) and has no second criterion, so *)
(* sessions that begin in one millisecond tie: these are left out.          *)
(***************************************************************************)
EXTENDS Integers, Sequences, FiniteSets

CONSTANTS
  Capacity,  \* bufSize: the capacity of outCh
  Sessions,  \* the input sessions, one for each controller of the job's block
  NoSession, \* the empty session id
  MaxSeq,    \* bound on the numbers of a session's items; 0 is "not numbered"
  MaxItems   \* bound on the calls of QueueItem

ASSUME ReorderQueueAssumption ==
  /\ Capacity \in Nat
  /\ IsFiniteSet(Sessions)
  /\ NoSession \notin Sessions
  /\ MaxSeq \in Nat
  /\ MaxItems \in Nat

VARIABLES
  sessionOrder,     \* when each session was first seen, 0 if it was not
  currentSessionId,
  nextSeqNum,
  buffer,           \* the items that are held
  outCh,            \* what the channel holds
  timer,            \* q.timer: "none", "armed", or "fired" (waiting for the lock)
  forgotten,        \* timers that still run although q.timer does not name them
  late,             \* the buffered items older than the timeout
  closed,
  arrivals,         \* ghost: items accepted so far
  sent              \* ghost: everything ever sent on outCh, and when

qVars == <<sessionOrder, currentSessionId, nextSeqNum, buffer, timer, forgotten, late>>

vars == <<qVars, outCh, closed, arrivals, sent>>

Items == [session : Sessions \cup {NoSession}, seq : 0 .. MaxSeq, n : Nat]

Rank(session) == IF session = NoSession THEN 0 ELSE sessionOrder[session]

Init ==
  /\ sessionOrder = [s \in Sessions |-> 0]
  /\ currentSessionId = NoSession
  /\ nextSeqNum = 1
  /\ buffer = {}
  /\ outCh = << >>
  /\ timer = "none"
  /\ forgotten = 0
  /\ late = {}
  /\ closed = FALSE
  /\ arrivals = 0
  /\ sent = << >>

-----------------------------------------------------------------------------

(* cmpSessionSeq < 0, = 0.                                                  *)
Precedes(rank1, seq1, rank2, seq2) ==
  rank1 < rank2 \/ (rank1 = rank2 /\ seq1 < seq2)

(* Every order sortBuffer may leave the items in: items with equal session *)
(* and number come in any order.                                           *)
Sorted(S) ==
  {order \in [1 .. Cardinality(S) -> S] :
     \A i, j \in 1 .. Cardinality(S) :
       i < j => /\ order[i] /= order[j]
                /\ ~Precedes(Rank(order[j].session), order[j].seq,
                             Rank(order[i].session), order[i].seq)}

FirstOf(order, n) == {order[i] : i \in 1 .. n}

Emit(items) ==
  /\ outCh' = outCh \o items
  /\ sent' = sent \o [i \in 1 .. Len(items) |-> [item |-> items[i], at |-> arrivals']]

(* processBuffer: the items at the front of the order whose turn it is.     *)
IsRun(order, session, next, n) ==
  \A i \in 1 .. n : order[i].session = session /\ order[i].seq = next + i - 1

InTurn(order, session, next, n) ==
  /\ IsRun(order, session, next, n)
  /\ n < Len(order) => ~IsRun(order, session, next, n + 1)

(* ensureTimer.                                                             *)
EnsureTimer(t) == IF t = "none" THEN "armed" ELSE t

IsNew(session) == session /= NoSession /\ Rank(session) = 0

(* ensureSessionTs: the first item of a session flushes what is held of the *)
(* sessions before it (flushBuffer, which also stops the timer).            *)
BeginSession(session, flush) ==
  /\ flush \in Sorted(buffer)
  /\ sessionOrder' = [sessionOrder EXCEPT
       ![session] = 1 + Cardinality({s \in Sessions : sessionOrder[s] > 0})]
  /\ currentSessionId' = session
  /\ forgotten' = IF buffer /= {} /\ timer = "fired" THEN forgotten + 1 ELSE forgotten

\* mutant of HasRoom: the items that are held are not counted
HasRoom_IgnoresBuffer == Len(outCh) < Capacity

HasRoom == Cardinality(buffer) + Len(outCh) < Capacity

Accept == ~closed /\ HasRoom /\ arrivals' = arrivals + 1

\* mutant of QueueFirst: the session before it is not flushed
QueueFirst_KeepsBuffer(x) ==
  /\ Accept
  /\ IsNew(x.session)
  /\ sessionOrder' = [sessionOrder EXCEPT
       ![x.session] = 1 + Cardinality({s \in Sessions : sessionOrder[s] > 0})]
  /\ currentSessionId' = x.session
  /\ IF x.seq <= 1
       THEN /\ Emit(<<x>>)
            /\ nextSeqNum' = 1 + x.seq
            /\ UNCHANGED <<buffer, timer>>
       ELSE /\ Emit(<< >>)
            /\ nextSeqNum' = 1
            /\ buffer' = buffer \cup {x}
            /\ timer' = EnsureTimer(timer)
  /\ UNCHANGED <<forgotten, late, closed>>

(* QueueItem with the first item of a session: nothing is held after the    *)
(* flush, so the item goes out or waits alone.                              *)
QueueFirst(x) ==
  /\ Accept
  /\ IsNew(x.session)
  /\ \E flush \in Sorted(buffer) :
       /\ BeginSession(x.session, flush)
       /\ IF x.seq <= 1
            THEN /\ Emit(flush \o <<x>>)
                 /\ nextSeqNum' = 1 + x.seq
                 /\ buffer' = {}
                 /\ timer' = IF buffer = {} THEN timer ELSE "none"
            ELSE /\ Emit(flush)
                 /\ nextSeqNum' = 1
                 /\ buffer' = {x}
                 /\ timer' = IF buffer = {} THEN EnsureTimer(timer) ELSE "armed"
  /\ late' = {}
  /\ UNCHANGED closed

Compares(x, seq) == Precedes(Rank(x.session), x.seq, Rank(currentSessionId), seq)

(* QueueItem with an item that is not numbered, or whose turn is over.      *)
QueueAtOnce(x) ==
  /\ Accept
  /\ ~IsNew(x.session)
  /\ x.seq = 0 \/ x.session = NoSession \/ Compares(x, nextSeqNum)
  /\ Emit(<<x>>)
  /\ UNCHANGED <<qVars, closed>>

Numbered(x) == ~IsNew(x.session) /\ x.seq /= 0 /\ x.session /= NoSession

(* QueueItem with the next item, and those behind it that are held.         *)
QueueNext(x) ==
  /\ Accept
  /\ Numbered(x)
  /\ Rank(x.session) = Rank(currentSessionId) /\ x.seq = nextSeqNum
  /\ \E order \in Sorted(buffer), n \in 0 .. Cardinality(buffer) :
       /\ InTurn(order, currentSessionId, nextSeqNum + 1, n)
       /\ Emit(<<x>> \o SubSeq(order, 1, n))
       /\ nextSeqNum' = nextSeqNum + 1 + n
       /\ buffer' = buffer \ FirstOf(order, n)
       /\ late' = late \ FirstOf(order, n)
  /\ UNCHANGED <<sessionOrder, currentSessionId, timer, forgotten, closed>>

(* QueueItem with an item that came early.                                  *)
QueueEarly(x) ==
  /\ Accept
  /\ Numbered(x)
  /\ ~Compares(x, nextSeqNum + 1)
  /\ buffer' = buffer \cup {x}
  /\ timer' = EnsureTimer(timer)
  /\ UNCHANGED <<sessionOrder, currentSessionId, nextSeqNum, outCh, sent, forgotten, late,
                 closed>>

(* The controllers number the items of their session from 1; an RPC caller  *)
(* that gives no session gives no number either.                            *)
Labels == (Sessions \X (1 .. MaxSeq)) \cup {<<NoSession, 0>>}

QueueItem ==
  \E label \in Labels :
    LET x == [session |-> label[1], seq |-> label[2], n |-> arrivals + 1]
    IN  /\ arrivals < MaxItems
        /\ QueueFirst(x) \/ QueueAtOnce(x) \/ QueueNext(x) \/ QueueEarly(x)

-----------------------------------------------------------------------------

(* The oldest item that is not late becomes so.                             *)
GrowOld ==
  \E x \in buffer \ late :
    /\ \A y \in buffer \ late : x.n <= y.n
    /\ late' = late \cup {x}
    /\ UNCHANGED <<sessionOrder, currentSessionId, nextSeqNum, buffer, timer, forgotten,
                   outCh, closed, arrivals, sent>>

TimerFires ==
  /\ timer = "armed"
  /\ timer' = "fired"
  /\ UNCHANGED <<sessionOrder, currentSessionId, nextSeqNum, buffer, forgotten, late,
                 outCh, closed, arrivals, sent>>

(* Everything up to the last late item goes out with it.                    *)
FlushUpTo(order, n) ==
  /\ n > 0 => order[n] \in late
  /\ \A i \in n + 1 .. Len(order) : order[i] \notin late

(* The next number (a single one) after items that were waited for in vain. *)
NextAfter(items) ==
  LET mine == {x.seq : x \in {y \in items : y.session = currentSessionId}}
  IN  {next \in {nextSeqNum} \cup {seq + 1 : seq \in mine} :
         next >= nextSeqNum /\ \A seq \in mine : next > seq}

(* The run of a timer's onTimeout: its own timer is forgotten, and another  *)
(* one is armed while anything is held.                                     *)
TimerRuns ==
  \/ timer = "fired" /\ forgotten' = forgotten
  \/ forgotten > 0 /\ forgotten' = IF timer = "none" THEN forgotten - 1 ELSE forgotten

\* mutant of RearmTimer: one timeout is all the rest gets
RearmTimer_Never(rest) == "none"

RearmTimer(rest) == IF rest = {} THEN "none" ELSE "armed"

OnTimeout ==
  /\ ~closed
  /\ TimerRuns
  /\ UNCHANGED arrivals
  /\ \E order \in Sorted(buffer), n \in 0 .. Cardinality(buffer) :
       /\ FlushUpTo(order, n)
       /\ Emit(SubSeq(order, 1, n))
       /\ nextSeqNum' \in NextAfter(FirstOf(order, n))
       /\ buffer' = buffer \ FirstOf(order, n)
       /\ late' = late \ FirstOf(order, n)
       /\ timer' = RearmTimer(buffer')
  /\ UNCHANGED <<sessionOrder, currentSessionId, closed>>

Close ==
  /\ ~closed
  /\ closed' = TRUE
  /\ timer' = "none"
  /\ forgotten' = IF timer = "fired" THEN forgotten + 1 ELSE forgotten
  /\ UNCHANGED <<sessionOrder, currentSessionId, nextSeqNum, buffer, late, outCh, arrivals, sent>>

(* JobManager.processInputQueue takes the next item.                        *)
ProcessInput ==
  /\ outCh /= << >>
  /\ outCh' = Tail(outCh)
  /\ UNCHANGED <<qVars, closed, arrivals, sent>>

Next ==
  \/ QueueItem
  \/ GrowOld
  \/ TimerFires
  \/ OnTimeout
  \/ Close
  \/ ProcessInput

Spec == Init /\ [][Next]_vars

(* Time passes, a timer that is armed fires, and one that fired gets the    *)
(* lock.  Nothing makes anyone queue an item or take one.                   *)
Fairness == WF_vars(GrowOld) /\ WF_vars(TimerFires) /\ WF_vars(OnTimeout)

FairSpec == Spec /\ Fairness

-----------------------------------------------------------------------------

TypeOK ==
  /\ sessionOrder \in [Sessions -> Nat]
  /\ currentSessionId \in Sessions \cup {NoSession}
  /\ nextSeqNum \in Nat \ {0}
  /\ buffer \subseteq Items
  /\ IsFiniteSet(buffer)
  /\ outCh \in Seq(Items)
  /\ timer \in {"none", "armed", "fired"}
  /\ forgotten \in Nat
  /\ late \subseteq buffer
  /\ closed \in BOOLEAN
  /\ arrivals \in Nat

(* No send blocks with the lock held, whatever arrives and whenever a       *)
(* timeout or a new session flushes the buffer: outCh never holds more than *)
(* its capacity (quickreorderqueue.go:121, flushBuffer, processBuffer and   *)
(* onTimeout, which send without looking).                                  *)
SendsNeverBlock == Len(outCh) <= Capacity

(* The queue itself never reorders: an item that arrived before a later one *)
(* of the same or of a newer session was sent is sent before it, a second   *)
(* copy of an item aside.                                                   *)
NoInversion ==
  \A i, j \in 1 .. Len(sent) :
    LET a == sent[i].item
        b == sent[j].item
    IN  /\ i < j
        /\ a.session /= NoSession /\ b.session /= NoSession
        /\ a.seq > 0 /\ b.seq > 0
        /\ Precedes(Rank(b.session), b.seq, Rank(a.session), a.seq)
        => \/ b.n > sent[i].at
           \/ \E k \in 1 .. Len(sent) :
                k < j /\ sent[k].item.session = b.session /\ sent[k].item.seq = b.seq

(* Every item that was accepted is sent, unless the queue is closed: one    *)
(* that waits for an item that never comes goes out with a timeout, and no  *)
(* timer is lost between the flushes that stop it (quickreorderqueue.go:    *)
(* 123, 198).                                                               *)
Delivered ==
  \A n \in 1 .. MaxItems :
    arrivals >= n ~> closed \/ \E i \in 1 .. Len(sent) : sent[i].item.n = n

=============================================================================
