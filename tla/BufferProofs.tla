---------------------------- MODULE BufferProofs ----------------------------
(***************************************************************************)
(* Proofs about the two bounded buffers in memory.                          *)
(*                                                                          *)
(* ReorderQueue, for any capacity, sessions and numbers: the sends that run *)
(* under the queue's lock never find the channel full, and of two items of  *)
(* one session that the queue holds together the one with the smaller       *)
(* number is sent first.                                                    *)
(*                                                                          *)
(* CirBuf, for any size: the ring always holds the last bytes written, the  *)
(* writer parked on it never misses its wake-up, and it implements the      *)
(* window of positions that the stream manager is specified with.           *)
(*                                                                          *)
(* The two share nothing but this module.                                   *)
(***************************************************************************)
EXTENDS CirBuf, ReorderQueue, FiniteSetTheorems, TLAPS

(* Every item that is held has a place in outCh: the admission counts both. *)
RoomForAll == Cardinality(buffer) + Len(outCh) <= Capacity

IInv == TypeOK /\ RoomForAll

LEMMA InitIInv == Init => IInv
<1> SUFFICES ASSUME Init PROVE IInv
  OBVIOUS
<1>1. IsFiniteSet({}) /\ Cardinality({}) = 0
  BY FS_EmptySet
<1>2. buffer = {} /\ late = {} /\ outCh = << >> /\ Len(outCh) = 0
  BY DEF Init
<1>3. TypeOK
  <2>1. sessionOrder \in [Sessions -> Nat]
    BY DEF Init
  <2>2. currentSessionId \in Sessions \cup {NoSession} /\ nextSeqNum \in Nat \ {0}
    BY DEF Init
  <2>3. buffer \subseteq Items /\ IsFiniteSet(buffer) /\ late \subseteq buffer
    BY <1>1, <1>2
  <2>4. outCh \in Seq(Items)
    BY DEF Init
  <2>5. timer \in {"none", "armed", "fired"} /\ forgotten \in Nat /\ closed \in BOOLEAN /\ arrivals \in Nat
    BY DEF Init
  <2>6. QED
    BY <2>1, <2>2, <2>3, <2>4, <2>5 DEF TypeOK
<1>4. Cardinality(buffer) = 0
  BY <1>1, <1>2
<1>5. RoomForAll
  BY <1>2, <1>4, ReorderQueueAssumption DEF RoomForAll
<1>6. QED
  BY <1>3, <1>5 DEF IInv

LEMMA ConcatLength ==
  ASSUME NEW s \in Seq(Items), NEW t \in Seq(Items)
  PROVE  s \o t \in Seq(Items) /\ Len(s \o t) = Len(s) + Len(t) /\ Len(s) \in Nat /\ Len(t) \in Nat
  OBVIOUS

-----------------------------------------------------------------------------
(* What is taken from the buffer.                                           *)

(* An order of a finite set has an entry for each of its elements, so n     *)
(* entries are n elements.                                                  *)
LEMMA FirstOfCount ==
  ASSUME NEW S, IsFiniteSet(S), NEW order \in Sorted(S), NEW n \in 0 .. Cardinality(S)
  PROVE  /\ FirstOf(order, n) \subseteq S
         /\ IsFiniteSet(S \ FirstOf(order, n))
         /\ Cardinality(S \ FirstOf(order, n)) = Cardinality(S) - n
<1> DEFINE F == FirstOf(order, n)
           f == [i \in 1 .. n |-> order[i]]
<1>1. Cardinality(S) \in Nat /\ n \in Nat /\ n <= Cardinality(S)
  BY FS_CardinalityType
<1>2. order \in [1 .. Cardinality(S) -> S]
  BY DEF Sorted
<1>3. \A i, j \in 1 .. Cardinality(S) : i < j => order[i] # order[j]
  BY DEF Sorted
<1>4. F \subseteq S
  BY <1>1, <1>2 DEF FirstOf
<1>5. f \in Surjection(1 .. n, F)
  BY DEF Surjection, FirstOf
<1>6. f \in Injection(1 .. n, F)
  <2>1. f \in [1 .. n -> F]
    BY DEF FirstOf
  <2>2. ASSUME NEW i \in 1 .. n, NEW j \in 1 .. n, i # j
        PROVE  f[i] # f[j]
    <3>1. i \in 1 .. Cardinality(S) /\ j \in 1 .. Cardinality(S) /\ (i < j \/ j < i)
      BY <1>1, <2>2
    <3>2. QED
      BY <3>1, <1>3
  <2>3. QED
    BY <2>1, <2>2 DEF Injection, IsInjective
<1>7. IsFiniteSet(1 .. n) /\ Cardinality(1 .. n) = n
  BY <1>1, FS_Interval
<1>8. IsFiniteSet(F) /\ Cardinality(F) = n
  BY <1>5, <1>6, <1>7, FS_Surjection
<1>9. IsFiniteSet(S \ F)
  BY <1>4, FS_Subset
<1>10. Cardinality((S \ F) \cup F) = Cardinality(S \ F) + Cardinality(F) - Cardinality((S \ F) \cap F)
  BY <1>8, <1>9, FS_Union
<1>11. (S \ F) \cup F = S /\ (S \ F) \cap F = {}
  BY <1>4
<1>12. Cardinality(S \ F) \in Nat
  BY <1>9, FS_CardinalityType
<1>13. Cardinality(S \ F) = Cardinality(S) - n
  <2>1. Cardinality({}) = 0
    BY FS_EmptySet
  <2>2. Cardinality(S) = Cardinality(S \ F) + n - 0
    BY <1>8, <1>10, <1>11, <2>1
  <2>3. QED
    BY <1>1, <1>12, <2>2
<1>14. QED
  BY <1>4, <1>9, <1>13

LEMMA OrderIsSequence ==
  ASSUME NEW S, S \subseteq Items, IsFiniteSet(S), NEW order \in Sorted(S), NEW n \in 0 .. Cardinality(S)
  PROVE  /\ order \in Seq(Items) /\ Len(order) = Cardinality(S)
         /\ SubSeq(order, 1, n) \in Seq(Items) /\ Len(SubSeq(order, 1, n)) = n
<1>1. Cardinality(S) \in Nat
  BY FS_CardinalityType
<1>2. order \in [1 .. Cardinality(S) -> Items]
  BY DEF Sorted
<1>3. order \in Seq(Items) /\ Len(order) = Cardinality(S)
  BY <1>1, <1>2
<1>4. QED
  BY <1>1, <1>3

-----------------------------------------------------------------------------
(* QueueItem.  What is accepted finds one place more than is taken.         *)

LEMMA Accepted ==
  ASSUME IInv, HasRoom
  PROVE  /\ Cardinality(buffer) \in Nat /\ Len(outCh) \in Nat /\ outCh \in Seq(Items)
         /\ Cardinality(buffer) + Len(outCh) + 1 <= Capacity
  BY FS_CardinalityType, ReorderQueueAssumption DEF IInv, TypeOK, HasRoom

LEMMA QueueFirstKeeps ==
  ASSUME IInv, NEW x \in Items, QueueFirst(x)
  PROVE  IInv'
<1> USE DEF IInv
<1>1. PICK flush \in Sorted(buffer) :
        /\ BeginSession(x.session, flush)
        /\ IF x.seq <= 1
             THEN /\ Emit(flush \o <<x>>)
                  /\ nextSeqNum' = 1 + x.seq
                  /\ buffer' = {}
                  /\ timer' = IF buffer = {} THEN timer ELSE "none"
             ELSE /\ Emit(flush)
                  /\ nextSeqNum' = 1
                  /\ buffer' = {x}
                  /\ timer' = IF buffer = {} THEN EnsureTimer(timer) ELSE "armed"
  BY DEF QueueFirst
<1>2. HasRoom /\ arrivals' = arrivals + 1 /\ late' = {} /\ closed' = closed /\ IsNew(x.session)
  BY DEF QueueFirst, Accept
<1>3. Cardinality(buffer) \in Nat /\ Len(outCh) \in Nat /\ outCh \in Seq(Items)
      /\ Cardinality(buffer) + Len(outCh) + 1 <= Capacity
  BY <1>2, Accepted
<1>4. flush \in Seq(Items) /\ Len(flush) = Cardinality(buffer)
  <2>1. Cardinality(buffer) \in 0 .. Cardinality(buffer)
    BY <1>3
  <2>2. QED
    BY <2>1, OrderIsSequence DEF TypeOK
<1>5. IsFiniteSet({}) /\ Cardinality({}) = 0 /\ IsFiniteSet({x}) /\ Cardinality({x}) = 1
  BY FS_EmptySet, FS_Singleton
<1>6. buffer' \subseteq Items /\ IsFiniteSet(buffer') /\ nextSeqNum' \in Nat \ {0} /\ late' \subseteq buffer'
      /\ timer' \in {"none", "armed", "fired"}
  <2>1. buffer' \in {{}, {x}} /\ nextSeqNum' \in {1, 1 + x.seq}
    BY <1>1
  <2>2. x.seq \in Nat
    BY ReorderQueueAssumption DEF Items
  <2>3. timer' \in {timer, EnsureTimer(timer), "none", "armed"}
    BY <1>1
  <2>4. timer' \in {"none", "armed", "fired"}
    BY <2>3 DEF TypeOK, EnsureTimer
  <2>5. buffer' \subseteq Items /\ IsFiniteSet(buffer') /\ late' \subseteq buffer'
    BY <1>2, <1>5, <2>1
  <2>6. QED
    BY <2>1, <2>2, <2>4, <2>5
<1>7. outCh' \in Seq(Items) /\ Cardinality(buffer') + Len(outCh') <= Capacity
  <2>1. CASE x.seq <= 1
    <3>1. outCh' = outCh \o (flush \o <<x>>) /\ buffer' = {}
      BY <1>1, <2>1 DEF Emit
    <3>2. flush \o <<x>> \in Seq(Items) /\ Len(flush \o <<x>>) = Cardinality(buffer) + 1
      BY <1>4
    <3>3. outCh' \in Seq(Items) /\ Len(outCh') = Len(outCh) + (Cardinality(buffer) + 1)
      BY <1>3, <3>1, <3>2
    <3>4. QED
      BY <1>3, <1>5, <3>1, <3>3
  <2>2. CASE ~(x.seq <= 1)
    <3>1. outCh' = outCh \o flush /\ buffer' = {x}
      BY <1>1, <2>2 DEF Emit
    <3>2. outCh' \in Seq(Items) /\ Len(outCh') = Len(outCh) + Cardinality(buffer)
      BY <1>3, <1>4, <3>1
    <3>3. QED
      BY <1>3, <1>5, <3>1, <3>2
  <2>3. QED
    BY <2>1, <2>2
<1>8. /\ sessionOrder' \in [Sessions -> Nat]
      /\ currentSessionId' \in Sessions \cup {NoSession}
      /\ forgotten' \in Nat
  <2>1. IsFiniteSet({s \in Sessions : sessionOrder[s] > 0})
    BY ReorderQueueAssumption, FS_Subset
  <2>2. Cardinality({s \in Sessions : sessionOrder[s] > 0}) \in Nat
    BY <2>1, FS_CardinalityType
  <2> DEFINE seen == Cardinality({s \in Sessions : sessionOrder[s] > 0})
  <2>6. sessionOrder' = [sessionOrder EXCEPT ![x.session] = 1 + seen]
    BY <1>1 DEF BeginSession
  <2> HIDE DEF seen
  <2>3. sessionOrder' \in [Sessions -> Nat]
    <3>1. 1 + seen \in Nat
      BY <2>2 DEF seen
    <3>2. QED
      BY <2>6, <3>1 DEF TypeOK
  <2>4. currentSessionId' = x.session /\ forgotten' \in {forgotten, forgotten + 1}
    BY <1>1 DEF BeginSession
  <2>5. QED
    BY <2>3, <2>4 DEF TypeOK, Items
<1>9. QED
  BY <1>2, <1>6, <1>7, <1>8 DEF TypeOK, RoomForAll

LEMMA QueueAtOnceKeeps ==
  ASSUME IInv, NEW x \in Items, QueueAtOnce(x)
  PROVE  IInv'
<1> USE DEF IInv
<1>1. HasRoom /\ arrivals' = arrivals + 1 /\ UNCHANGED <<qVars, closed>> /\ outCh' = outCh \o <<x>>
  BY DEF QueueAtOnce, Accept, Emit
<1>2. Cardinality(buffer) \in Nat /\ Len(outCh) \in Nat /\ outCh \in Seq(Items)
      /\ Cardinality(buffer) + Len(outCh) + 1 <= Capacity
  BY <1>1, Accepted
<1>3. outCh' \in Seq(Items) /\ Len(outCh') = Len(outCh) + 1
  BY <1>1, <1>2
<1>4. UNCHANGED <<sessionOrder, currentSessionId, nextSeqNum, buffer, timer, forgotten, late>>
  BY <1>1 DEF qVars
<1>5. RoomForAll'
  BY <1>2, <1>3, <1>4 DEF RoomForAll
<1>6. QED
  BY <1>1, <1>3, <1>4, <1>5 DEF TypeOK

LEMMA QueueNextKeeps ==
  ASSUME IInv, NEW x \in Items, QueueNext(x)
  PROVE  IInv'
<1> USE DEF IInv
<1>1. HasRoom /\ arrivals' = arrivals + 1
      /\ UNCHANGED <<sessionOrder, currentSessionId, timer, forgotten, closed>>
  BY DEF QueueNext, Accept
<1>2. PICK order \in Sorted(buffer), n \in 0 .. Cardinality(buffer) :
        /\ outCh' = outCh \o (<<x>> \o SubSeq(order, 1, n))
        /\ nextSeqNum' = nextSeqNum + 1 + n
        /\ buffer' = buffer \ FirstOf(order, n)
        /\ late' = late \ FirstOf(order, n)
  BY DEF QueueNext, Emit
<1>3. Cardinality(buffer) \in Nat /\ Len(outCh) \in Nat /\ outCh \in Seq(Items)
      /\ Cardinality(buffer) + Len(outCh) + 1 <= Capacity
  BY <1>1, Accepted
<1>4. SubSeq(order, 1, n) \in Seq(Items) /\ Len(SubSeq(order, 1, n)) = n
  BY OrderIsSequence DEF TypeOK
<1>5. IsFiniteSet(buffer') /\ Cardinality(buffer') = Cardinality(buffer) - n
  BY <1>2, FirstOfCount DEF TypeOK
<1> DEFINE run == SubSeq(order, 1, n)
<1> HIDE DEF run
<1>6. outCh' = outCh \o (<<x>> \o run) /\ run \in Seq(Items) /\ Len(run) = n
  BY <1>2, <1>4 DEF run
<1>7. outCh' \in Seq(Items) /\ Len(outCh') = Len(outCh) + 1 + n
  <2>1. <<x>> \o run \in Seq(Items) /\ Len(<<x>> \o run) = 1 + Len(run)
    BY <1>6
  <2>2. outCh \o (<<x>> \o run) \in Seq(Items) /\ Len(outCh \o (<<x>> \o run)) = Len(outCh) + Len(<<x>> \o run)
    BY <1>3, <2>1
  <2>3. Len(outCh) + (1 + n) = Len(outCh) + 1 + n
    BY <1>3
  <2>4. QED
    BY <1>6, <2>1, <2>2, <2>3
<1>8. RoomForAll'
  BY <1>3, <1>5, <1>7 DEF RoomForAll
<1>9. nextSeqNum' \in Nat \ {0}
  BY <1>2, <1>3 DEF TypeOK
<1>10. QED
  BY <1>1, <1>2, <1>5, <1>7, <1>8, <1>9 DEF TypeOK

LEMMA QueueEarlyKeeps ==
  ASSUME IInv, NEW x \in Items, QueueEarly(x)
  PROVE  IInv'
<1> USE DEF IInv
<1>1. HasRoom /\ arrivals' = arrivals + 1 /\ buffer' = buffer \cup {x} /\ timer' = EnsureTimer(timer)
      /\ UNCHANGED <<sessionOrder, currentSessionId, nextSeqNum, outCh, forgotten, late, closed>>
  BY DEF QueueEarly, Accept
<1>2. Cardinality(buffer) \in Nat /\ Len(outCh) \in Nat /\ outCh \in Seq(Items)
      /\ Cardinality(buffer) + Len(outCh) + 1 <= Capacity
  BY <1>1, Accepted
<1>3. IsFiniteSet(buffer') /\ Cardinality(buffer') \in {Cardinality(buffer), Cardinality(buffer) + 1}
  BY <1>1, FS_AddElement DEF TypeOK
<1>4. RoomForAll'
  BY <1>1, <1>2, <1>3 DEF RoomForAll
<1>5. QED
  BY <1>1, <1>3, <1>4 DEF TypeOK, EnsureTimer

LEMMA QueueItemKeeps == IInv /\ QueueItem => IInv'
<1> SUFFICES ASSUME IInv, QueueItem PROVE IInv'
  OBVIOUS
<1>1. PICK label \in Labels :
        LET x == [session |-> label[1], seq |-> label[2], n |-> arrivals + 1]
        IN  QueueFirst(x) \/ QueueAtOnce(x) \/ QueueNext(x) \/ QueueEarly(x)
  BY DEF QueueItem
<1> DEFINE x == [session |-> label[1], seq |-> label[2], n |-> arrivals + 1]
<1>2. x \in Items
  BY ReorderQueueAssumption DEF Labels, Items, IInv, TypeOK
<1> HIDE DEF x
<1>3. QueueFirst(x) \/ QueueAtOnce(x) \/ QueueNext(x) \/ QueueEarly(x)
  BY <1>1 DEF x
<1>4. QED
  BY <1>2, <1>3, QueueFirstKeeps, QueueAtOnceKeeps, QueueNextKeeps, QueueEarlyKeeps

-----------------------------------------------------------------------------
(* Timers.                                                                  *)

LEMMA OnTimeoutKeeps == IInv /\ OnTimeout => IInv'
<1> SUFFICES ASSUME IInv, OnTimeout PROVE IInv'
  OBVIOUS
<1> USE DEF IInv
<1>1. TimerRuns /\ UNCHANGED <<arrivals, sessionOrder, currentSessionId, closed>>
  BY DEF OnTimeout
<1>2. PICK order \in Sorted(buffer), n \in 0 .. Cardinality(buffer) :
        /\ outCh' = outCh \o SubSeq(order, 1, n)
        /\ nextSeqNum' \in NextAfter(FirstOf(order, n))
        /\ buffer' = buffer \ FirstOf(order, n)
        /\ late' = late \ FirstOf(order, n)
        /\ timer' = RearmTimer(buffer')
  BY DEF OnTimeout, Emit
<1>3. Cardinality(buffer) \in Nat /\ Len(outCh) \in Nat /\ outCh \in Seq(Items)
  BY FS_CardinalityType DEF TypeOK
<1>4. SubSeq(order, 1, n) \in Seq(Items) /\ Len(SubSeq(order, 1, n)) = n
  BY OrderIsSequence DEF TypeOK
<1>5. FirstOf(order, n) \subseteq buffer /\ IsFiniteSet(buffer') /\ Cardinality(buffer') = Cardinality(buffer) - n
  BY <1>2, FirstOfCount DEF TypeOK
<1> DEFINE run == SubSeq(order, 1, n)
<1> HIDE DEF run
<1>6. outCh' = outCh \o run /\ run \in Seq(Items) /\ Len(run) = n
  BY <1>2, <1>4 DEF run
<1>7. outCh' \in Seq(Items) /\ Len(outCh') = Len(outCh) + n
  <2>1. outCh \o run \in Seq(Items) /\ Len(outCh \o run) = Len(outCh) + Len(run)
    BY <1>3, <1>6, ConcatLength
  <2>2. QED
    BY <1>6, <2>1
<1>8. RoomForAll'
  BY <1>3, <1>5, <1>7 DEF RoomForAll
<1>9. nextSeqNum' \in Nat \ {0}
  <2>1. nextSeqNum' >= nextSeqNum
    BY <1>2 DEF NextAfter
  <2>2. \A y \in FirstOf(order, n) : y.seq + 1 \in Nat
    BY <1>5, ReorderQueueAssumption DEF TypeOK, Items
  <2>3. nextSeqNum' \in Nat
    BY <1>2, <2>2 DEF NextAfter, TypeOK
  <2>4. QED
    BY <2>1, <2>3 DEF TypeOK
<1>10. forgotten' \in Nat
  BY <1>1 DEF TimerRuns, TypeOK
<1>11. timer' \in {"none", "armed", "fired"}
  BY <1>2 DEF RearmTimer
<1>12. QED
  BY <1>1, <1>2, <1>5, <1>7, <1>8, <1>9, <1>10, <1>11 DEF TypeOK

LEMMA OthersKeep ==
  ASSUME IInv, GrowOld \/ TimerFires \/ Close \/ UNCHANGED vars
  PROVE  IInv'
<1> USE DEF IInv, TypeOK, RoomForAll
<1>1. CASE GrowOld
  BY <1>1 DEF GrowOld
<1>2. CASE TimerFires
  BY <1>2 DEF TimerFires
<1>3. CASE Close
  BY <1>3 DEF Close
<1>4. CASE UNCHANGED vars
  BY <1>4 DEF vars, qVars
<1>5. QED
  BY <1>1, <1>2, <1>3, <1>4

LEMMA ProcessInputKeeps == IInv /\ ProcessInput => IInv'
<1> SUFFICES ASSUME IInv, ProcessInput PROVE IInv'
  OBVIOUS
<1> USE DEF IInv
<1>1. outCh # << >> /\ outCh' = Tail(outCh) /\ UNCHANGED <<qVars, closed, arrivals>>
  BY DEF ProcessInput
<1>2. outCh \in Seq(Items) /\ Cardinality(buffer) \in Nat
  BY FS_CardinalityType DEF TypeOK
<1>3. outCh' \in Seq(Items) /\ Len(outCh') = Len(outCh) - 1 /\ Len(outCh) \in Nat
  BY <1>1, <1>2
<1>4. RoomForAll'
  BY <1>1, <1>2, <1>3, ReorderQueueAssumption DEF RoomForAll, qVars
<1>5. QED
  BY <1>1, <1>3, <1>4 DEF TypeOK, qVars

LEMMA SpecKeeps == Spec => []IInv
<1>1. Init => IInv
  BY InitIInv
<1>2. IInv /\ [Next]_vars => IInv'
  BY QueueItemKeeps, OnTimeoutKeeps, OthersKeep, ProcessInputKeeps DEF Next
<1>3. QED
  BY <1>1, <1>2, PTL DEF Spec

-----------------------------------------------------------------------------

(* Every variable stays in its type, for any capacity, sessions and numbers. *)
THEOREM TypeCorrect == Spec => []TypeOK
<1>1. IInv => TypeOK
  BY DEF IInv
<1>2. QED
  BY <1>1, SpecKeeps, PTL

(* For any capacity, sessions and items, no send on outCh blocks with the   *)
(* lock held (quickreorderqueue.go:121).                                    *)
THEOREM NoSendBlocks == Spec => []SendsNeverBlock
<1>1. IInv => SendsNeverBlock
  BY FS_CardinalityType, ReorderQueueAssumption DEF IInv, TypeOK, RoomForAll, SendsNeverBlock
<1>2. QED
  BY <1>1, SpecKeeps, PTL

-----------------------------------------------------------------------------
(* The order of what is sent.                                               *)

Record == sent \in Seq([item : Items, at : Nat])

WasSent(x) ==
  \E k \in 1 .. Len(sent) : sent[k].item.session = x.session /\ sent[k].item.seq = x.seq

(* The current session is the newest one, and no two have the same rank.    *)
Ranked ==
  /\ Rank(currentSessionId) = Cardinality({s \in Sessions : sessionOrder[s] > 0})
  /\ currentSessionId # NoSession => sessionOrder[currentSessionId] > 0
  /\ \A s \in Sessions :
       /\ sessionOrder[s] <= Rank(currentSessionId)
       /\ sessionOrder[s] > 0 /\ sessionOrder[s] = Rank(currentSessionId) => s = currentSessionId

(* What is held is of the current session, and either its turn is to come   *)
(* or a copy of it was sent.                                                *)
Held ==
  \A y \in buffer : /\ y.session = currentSessionId /\ y.session # NoSession
                    /\ y.seq >= nextSeqNum \/ WasSent(y)

(* What was sent of the current session had its turn before nextSeqNum.     *)
Past ==
  \A i \in 1 .. Len(sent) :
    /\ sent[i].at <= arrivals
    /\ sent[i].item.session # NoSession =>
         /\ sessionOrder[sent[i].item.session] > 0
         /\ sent[i].item.session = currentSessionId => sent[i].item.seq < nextSeqNum

OInv == Record /\ Ranked /\ Held /\ Past /\ NoInversion

RankIn(order, session) == IF session = NoSession THEN 0 ELSE order[session]

(* Items in the order sortBuffer gives them.                                *)
Ordered(items) ==
  \A i, j \in 1 .. Len(items) :
    i < j => ~Precedes(Rank(items[j].session), items[j].seq, Rank(items[i].session), items[i].seq)

LEMMA ItemType ==
  ASSUME NEW x \in Items
  PROVE  x.session \in Sessions \cup {NoSession} /\ x.seq \in Nat /\ x.n \in Nat
  BY ReorderQueueAssumption DEF Items

LEMMA RankType ==
  ASSUME TypeOK, NEW s \in Sessions \cup {NoSession}
  PROVE  Rank(s) \in Nat /\ (s # NoSession => s \in Sessions /\ Rank(s) = sessionOrder[s])
  BY ReorderQueueAssumption DEF TypeOK, Rank

LEMMA ElementType ==
  ASSUME NEW R, NEW s \in Seq(R), NEW i \in 1 .. Len(s)
  PROVE  s[i] \in R
  OBVIOUS

LEMMA SentAt ==
  ASSUME sent \in Seq([item : Items, at : Nat]), NEW i \in 1 .. Len(sent)
  PROVE  sent[i].item \in Items /\ sent[i].at \in Nat
<1>1. sent[i] \in [item : Items, at : Nat]
  BY ONLY sent \in Seq([item : Items, at : Nat]), i \in 1 .. Len(sent), ElementType, Zenon
<1>2. QED
  BY <1>1

(* Emit adds the items at the end of what was sent.                         *)
LEMMA Emitted ==
  ASSUME Record, NEW items \in Seq(Items), arrivals' \in Nat, Emit(items)
  PROVE  /\ Record' /\ Len(sent) \in Nat /\ Len(items) \in Nat /\ Len(sent') = Len(sent) + Len(items)
         /\ \A i \in 1 .. Len(sent) : i \in 1 .. Len(sent') /\ sent'[i] = sent[i] /\ sent[i].item \in Items /\ sent[i].at \in Nat
         /\ \A i \in 1 .. Len(items) : /\ Len(sent) + i \in 1 .. Len(sent')
                                      /\ items[i] \in Items
                                      /\ sent'[Len(sent) + i].item = items[i]
                                      /\ sent'[Len(sent) + i].at = arrivals'
<1> DEFINE R == [item : Items, at : Nat]
           more == [i \in 1 .. Len(items) |-> [item |-> items[i], at |-> arrivals']]
<1>1. sent \in Seq(R) /\ sent' = sent \o more
  BY DEF Record, Emit
<1>2. Len(items) \in Nat /\ \A i \in 1 .. Len(items) : items[i] \in Items
  OBVIOUS
<1>3. more \in [1 .. Len(items) -> R]
  BY <1>2
<1>4. more \in Seq(R) /\ Len(more) = Len(items)
  BY <1>2, <1>3
<1>5. \A i \in 1 .. Len(items) : more[i].item = items[i] /\ more[i].at = arrivals'
  OBVIOUS
<1> HIDE DEF more, R
<1>6. /\ sent' \in Seq(R) /\ Len(sent') = Len(sent) + Len(more) /\ Len(sent) \in Nat
      /\ \A i \in 1 .. Len(sent) : sent'[i] = sent[i]
      /\ \A i \in 1 .. Len(more) : sent'[Len(sent) + i] = more[i]
  <2>1. /\ sent \o more \in Seq(R) /\ Len(sent) \in Nat /\ Len(more) \in Nat /\ Len(sent \o more) = Len(sent) + Len(more)
        /\ \A i \in 1 .. Len(sent) : sent[i] \in R /\ (sent \o more)[i] = sent[i]
        /\ \A i \in 1 .. Len(more) : more[i] \in R /\ (sent \o more)[Len(sent) + i] = more[i]
    <3>1. PICK s \in Seq(R) : s = sent
      BY <1>1
    <3>2. PICK t \in Seq(R) : t = more
      BY <1>4
    <3>3. /\ s \o t \in Seq(R) /\ Len(s) \in Nat /\ Len(t) \in Nat /\ Len(s \o t) = Len(s) + Len(t)
          /\ \A i \in 1 .. Len(s) : s[i] \in R /\ (s \o t)[i] = s[i]
          /\ \A i \in 1 .. Len(t) : t[i] \in R /\ (s \o t)[Len(s) + i] = t[i]
      OBVIOUS
    <3>4. QED
      BY ONLY <3>1, <3>2, <3>3, Zenon
  <2>2. QED
    BY <1>1, <2>1
<1>7. ASSUME NEW i \in 1 .. Len(sent) PROVE sent[i].item \in Items /\ sent[i].at \in Nat
  <2>1. sent[i] \in R
    BY <1>1
  <2>2. QED
    BY <2>1 DEF R
<1>8. Record'
  BY <1>6 DEF Record, R
<1>9. \A i \in 1 .. Len(items) : Len(sent) + i \in 1 .. Len(sent')
  BY <1>2, <1>4, <1>6
<1>10. \A i \in 1 .. Len(sent) : i \in 1 .. Len(sent')
  BY <1>2, <1>4, <1>6
<1>11. QED
  BY <1>2, <1>4, <1>5, <1>6, <1>7, <1>8, <1>9, <1>10

(* What emitting items from the buffer, and new ones, leaves.               *)
LEMMA EmitStep ==
  ASSUME IInv, TypeOK', OInv, NEW items \in Seq(Items), Emit(items), arrivals <= arrivals',
         \A s \in Sessions : sessionOrder[s] > 0 => sessionOrder'[s] = sessionOrder[s],
         \A i \in 1 .. Len(items) : /\ items[i] \in buffer \/ items[i].n > arrivals
                                    /\ items[i].session # NoSession =>
                                         /\ sessionOrder'[items[i].session] > 0
                                         /\ items[i].session = currentSessionId' => items[i].seq < nextSeqNum',
         Ordered(items)',
         \/ currentSessionId' = currentSessionId /\ nextSeqNum <= nextSeqNum'
         \/ currentSessionId' \in Sessions /\ sessionOrder[currentSessionId'] = 0
  PROVE  /\ Record' /\ Past' /\ NoInversion'
         /\ \A y : WasSent(y) => WasSent(y)'
         /\ \A i \in 1 .. Len(items) : WasSent(items[i])'
<1> DEFINE len == Len(sent)
<1>1. TypeOK /\ arrivals \in Nat /\ arrivals' \in Nat /\ nextSeqNum \in Nat /\ nextSeqNum' \in Nat
  BY DEF IInv, TypeOK
<1>2. /\ Record' /\ len \in Nat /\ Len(items) \in Nat /\ Len(sent') = len + Len(items)
      /\ \A i \in 1 .. len : i \in 1 .. Len(sent') /\ sent'[i] = sent[i] /\ sent[i].item \in Items /\ sent[i].at \in Nat
      /\ \A i \in 1 .. Len(items) : /\ len + i \in 1 .. Len(sent')
                                   /\ items[i] \in Items
                                   /\ sent'[len + i].item = items[i]
                                   /\ sent'[len + i].at = arrivals'
  BY <1>1, Emitted DEF OInv
<1> HIDE DEF len
<1>3. ASSUME NEW i \in 1 .. Len(sent'), i \notin 1 .. len
      PROVE  \E k \in 1 .. Len(items) : i = len + k
  <2>1. i - len \in 1 .. Len(items) /\ i = len + (i - len)
    BY <1>2, <1>3
  <2>2. QED
    BY <2>1
<1>4. ASSUME NEW i \in 1 .. len
      PROVE  /\ sent[i].at <= arrivals
             /\ sent[i].item.session # NoSession =>
                  /\ sent[i].item.session \in Sessions
                  /\ sessionOrder[sent[i].item.session] > 0
                  /\ sessionOrder'[sent[i].item.session] = sessionOrder[sent[i].item.session]
                  /\ sent[i].item.session = currentSessionId => sent[i].item.seq < nextSeqNum
  <2>1. sent[i].item.session \in Sessions \cup {NoSession}
    BY <1>2, ItemType
  <2>2. /\ sent[i].at <= arrivals
        /\ sent[i].item.session # NoSession =>
             /\ sessionOrder[sent[i].item.session] > 0
             /\ sent[i].item.session = currentSessionId => sent[i].item.seq < nextSeqNum
    BY DEF OInv, Past, len
  <2>3. ASSUME sent[i].item.session # NoSession
        PROVE  sessionOrder'[sent[i].item.session] = sessionOrder[sent[i].item.session]
    BY <2>1, <2>2, <2>3
  <2>4. QED
    BY <2>1, <2>2, <2>3
<1>5. Past'
  <2>1. ASSUME NEW i \in 1 .. Len(sent')
        PROVE  /\ sent'[i].at <= arrivals'
               /\ sent'[i].item.session # NoSession =>
                    /\ sessionOrder'[sent'[i].item.session] > 0
                    /\ sent'[i].item.session = currentSessionId' => sent'[i].item.seq < nextSeqNum'
    <3>1. CASE i \in 1 .. len
      <4>1. sent'[i] = sent[i] /\ sent[i].at \in Nat /\ sent[i].item.seq \in Nat
        BY <1>2, <3>1, ItemType
      <4>2. sent[i].at <= arrivals'
        BY <1>1, <1>4, <3>1, <4>1
      <4>3. ASSUME sent[i].item.session # NoSession
            PROVE  sessionOrder'[sent[i].item.session] > 0
        BY <1>4, <3>1, <4>3
      <4>4. ASSUME sent[i].item.session # NoSession, sent[i].item.session = currentSessionId'
            PROVE  sent[i].item.seq < nextSeqNum'
        <5>1. sessionOrder[currentSessionId'] > 0
          BY <1>4, <3>1, <4>4
        <5>2. currentSessionId' = currentSessionId /\ nextSeqNum <= nextSeqNum'
          BY <5>1
        <5>3. sent[i].item.seq < nextSeqNum
          BY <1>4, <3>1, <4>4, <5>2
        <5>4. QED
          BY <1>1, <4>1, <5>2, <5>3
      <4>5. QED
        BY <4>1, <4>2, <4>3, <4>4
    <3>2. CASE i \notin 1 .. len
      <4>1. PICK k \in 1 .. Len(items) : i = len + k
        BY <1>3, <3>2
      <4>2. sent'[i].item = items[k] /\ sent'[i].at = arrivals'
        BY <1>2, <4>1
      <4>3. QED
        BY <1>1, <4>2
    <3>3. QED
      BY <3>1, <3>2
  <2>2. QED
    BY <2>1 DEF Past
<1>6. ASSUME NEW y, WasSent(y)
      PROVE  WasSent(y)'
  <2>1. PICK k \in 1 .. len : sent[k].item.session = y.session /\ sent[k].item.seq = y.seq
    BY <1>6 DEF WasSent, len
  <2>2. k \in 1 .. Len(sent') /\ sent'[k] = sent[k]
    BY <1>2
  <2>3. QED
    BY <2>1, <2>2 DEF WasSent
<1>7. ASSUME NEW i \in 1 .. Len(items)
      PROVE  WasSent(items[i])'
  BY <1>2 DEF WasSent
<1>8. ASSUME NEW i \in 1 .. Len(sent'), NEW j \in 1 .. Len(sent'), i < j,
             sent'[i].item.session # NoSession, sent'[j].item.session # NoSession,
             sent'[i].item.seq > 0, sent'[j].item.seq > 0,
             Precedes(RankIn(sessionOrder', sent'[j].item.session), sent'[j].item.seq,
                      RankIn(sessionOrder', sent'[i].item.session), sent'[i].item.seq),
             ~(sent'[j].item.n > sent'[i].at)
      PROVE  \E k \in 1 .. Len(sent') :
               k < j /\ sent'[k].item.session = sent'[j].item.session /\ sent'[k].item.seq = sent'[j].item.seq
  <2>1. CASE j \in 1 .. len
    <3>1. i \in 1 .. len
      BY <1>2, <1>8, <2>1
    <3>2. sent'[i] = sent[i] /\ sent'[j] = sent[j]
      BY <1>2, <2>1, <3>1
    <3>3. /\ RankIn(sessionOrder', sent[i].item.session) = Rank(sent[i].item.session)
          /\ RankIn(sessionOrder', sent[j].item.session) = Rank(sent[j].item.session)
      BY <1>4, <1>8, <2>1, <3>1, <3>2 DEF Rank, RankIn
    <3>4. Precedes(Rank(sent[j].item.session), sent[j].item.seq, Rank(sent[i].item.session), sent[i].item.seq)
      BY <1>8, <3>2, <3>3
    <3>5. PICK k \in 1 .. len : k < j /\ sent[k].item.session = sent[j].item.session /\ sent[k].item.seq = sent[j].item.seq
      BY <1>8, <2>1, <3>1, <3>2, <3>4 DEF OInv, NoInversion, len
    <3>6. k \in 1 .. Len(sent') /\ sent'[k] = sent[k]
      BY <1>2
    <3>7. QED
      BY <3>2, <3>5, <3>6
  <2>2. CASE j \notin 1 .. len /\ i \in 1 .. len
    <3>1. PICK q \in 1 .. Len(items) : j = len + q
      BY <1>3, <2>2
    <3> DEFINE a == sent[i].item
               b == items[q]
    <3>2. sent'[i] = sent[i] /\ sent'[j].item = b /\ a \in Items /\ b \in Items /\ sent[i].at \in Nat
      BY <1>2, <2>2, <3>1
    <3>3. a.session \in Sessions /\ a.seq \in Nat /\ b.seq \in Nat /\ b.n \in Nat
      BY <1>8, <3>2, ItemType
    <3>4. /\ sent[i].at <= arrivals /\ sessionOrder[a.session] > 0
          /\ sessionOrder'[a.session] = sessionOrder[a.session]
          /\ a.session = currentSessionId => a.seq < nextSeqNum
      BY <1>4, <1>8, <2>2, <3>2
    <3>5. b \in buffer
      <4>1. ~(b.n > arrivals)
        BY <1>1, <1>8, <3>2, <3>3, <3>4
      <4>2. QED
        BY <4>1
    <3> HIDE DEF a, b
    <3>6. b.session = currentSessionId /\ b.session # NoSession /\ (b.seq >= nextSeqNum \/ WasSent(b))
      BY <3>5 DEF OInv, Held
    <3>7. RankIn(sessionOrder', b.session) = Rank(b.session) /\ Rank(b.session) \in Nat
          /\ RankIn(sessionOrder', a.session) = Rank(a.session) /\ Rank(a.session) \in Nat
          /\ Rank(a.session) = sessionOrder[a.session]
      <4>1. b.session \in Sessions /\ sessionOrder[b.session] > 0 /\ a.session # NoSession
        BY <1>1, <3>3, <3>6, ReorderQueueAssumption DEF OInv, Ranked, TypeOK
      <4>2. Rank(b.session) \in Nat /\ Rank(a.session) \in Nat /\ Rank(a.session) = sessionOrder[a.session]
        BY <1>1, <3>3, <4>1, RankType
      <4>3. RankIn(sessionOrder', b.session) = Rank(b.session) /\ RankIn(sessionOrder', a.session) = Rank(a.session)
        BY <3>4, <4>1 DEF Rank, RankIn
      <4>4. QED
        BY <4>2, <4>3
    <3>8. Precedes(Rank(b.session), b.seq, Rank(a.session), a.seq)
      <4>1. sent'[i].item = a /\ sent'[j].item = b
        BY <3>2 DEF a
      <4>2. QED
        BY <1>8, <3>7, <4>1
    <3>9. sessionOrder[a.session] <= Rank(currentSessionId)
          /\ (sessionOrder[a.session] = Rank(currentSessionId) => a.session = currentSessionId)
      BY <3>3, <3>4 DEF OInv, Ranked
    <3>10. a.session = currentSessionId /\ b.seq < a.seq
      BY <3>6, <3>7, <3>8, <3>9 DEF Precedes
    <3>11. ~(b.seq >= nextSeqNum)
      BY <1>1, <3>3, <3>4, <3>10
    <3>12. PICK k \in 1 .. len : sent[k].item.session = b.session /\ sent[k].item.seq = b.seq
      BY <3>6, <3>11 DEF WasSent, len
    <3>13. k \in 1 .. Len(sent') /\ sent'[k] = sent[k] /\ k < j
      BY <1>2, <3>1
    <3>14. QED
      BY <3>2, <3>12, <3>13
  <2>3. CASE j \notin 1 .. len /\ i \notin 1 .. len
    <3>1. PICK p \in 1 .. Len(items) : i = len + p
      BY <1>3, <2>3
    <3>2. PICK q \in 1 .. Len(items) : j = len + q
      BY <1>3, <2>3
    <3>3. sent'[i].item = items[p] /\ sent'[j].item = items[q] /\ p < q
      BY <1>2, <1>8, <3>1, <3>2
    <3>4. ~Precedes(RankIn(sessionOrder', items[q].session), items[q].seq,
                    RankIn(sessionOrder', items[p].session), items[p].seq)
      BY <3>3 DEF Ordered, Precedes, Rank, RankIn
    <3>5. FALSE
      BY <1>8, <3>3, <3>4
    <3>6. QED
      BY <3>5
  <2>4. QED
    BY <2>1, <2>2, <2>3
<1>9. NoInversion'
  BY <1>8 DEF NoInversion, Precedes, Rank, RankIn
<1>10. QED
  BY <1>2, <1>5, <1>6, <1>7, <1>9

-----------------------------------------------------------------------------
(* What the buffer gives in order.                                          *)

LEMMA HeldInOrder ==
  ASSUME IInv, OInv, NEW order \in Sorted(buffer)
  PROVE  /\ Cardinality(buffer) \in Nat /\ order \in Seq(Items) /\ Len(order) = Cardinality(buffer)
         /\ \A i \in 1 .. Len(order) : /\ order[i] \in buffer /\ order[i] \in Items
                                      /\ order[i].session = currentSessionId /\ order[i].seq \in Nat
         /\ \A i, j \in 1 .. Len(order) : i < j => order[i].seq <= order[j].seq
         /\ \A y \in buffer : \E i \in 1 .. Len(order) : order[i] = y
<1> DEFINE c == Cardinality(buffer)
<1>1. IsFiniteSet(buffer) /\ buffer \subseteq Items /\ c \in Nat /\ c \in 0 .. c
  BY FS_CardinalityType DEF IInv, TypeOK
<1>2. order \in Seq(Items) /\ Len(order) = c
  BY <1>1, OrderIsSequence
<1>3. /\ order \in [1 .. c -> buffer]
      /\ \A i, j \in 1 .. c : i < j => ~Precedes(Rank(order[j].session), order[j].seq,
                                                 Rank(order[i].session), order[i].seq)
  BY DEF Sorted
<1>4. Cardinality(buffer \ FirstOf(order, c)) = c - c /\ IsFiniteSet(buffer \ FirstOf(order, c))
  BY <1>1, FirstOfCount
<1> HIDE DEF c
<1>5. ASSUME NEW i \in 1 .. c
      PROVE  order[i] \in buffer /\ order[i] \in Items /\ order[i].session = currentSessionId /\ order[i].seq \in Nat
  <2>1. order[i] \in buffer /\ order[i] \in Items
    BY <1>1, <1>3
  <2>2. QED
    BY <2>1, ItemType DEF OInv, Held
<1>6. ASSUME NEW i \in 1 .. c, NEW j \in 1 .. c, i < j
      PROVE  order[i].seq <= order[j].seq
  <2>1. ~(order[j].seq < order[i].seq)
    BY <1>3, <1>5, <1>6 DEF Precedes
  <2>2. QED
    BY <1>5, <2>1
<1>7. \A y \in buffer : \E i \in 1 .. c : order[i] = y
  <2>1. buffer \ FirstOf(order, c) = {}
    BY <1>1, <1>4, FS_EmptySet
  <2>2. QED
    BY <2>1 DEF FirstOf
<1>8. QED
  BY <1>1, <1>2, <1>5, <1>6, <1>7 DEF c

LEMMA FirstItems ==
  ASSUME NEW order \in Seq(Items), NEW n \in 0 .. Len(order)
  PROVE  /\ SubSeq(order, 1, n) \in Seq(Items) /\ Len(SubSeq(order, 1, n)) = n
         /\ \A i \in 1 .. n : i \in 1 .. Len(order) /\ SubSeq(order, 1, n)[i] = order[i]
<1>1. n \in Nat /\ Len(order) \in Nat /\ n <= Len(order)
  OBVIOUS
<1>2. QED
  BY <1>1

-----------------------------------------------------------------------------
(* The steps.                                                               *)

LEMMA QueueAtOnceInOrder ==
  ASSUME IInv, IInv', OInv, NEW x \in Items, x.n > arrivals, QueueAtOnce(x)
  PROVE  OInv'
<1>1. /\ arrivals' = arrivals + 1 /\ ~IsNew(x.session) /\ Emit(<<x>>)
      /\ x.seq = 0 \/ x.session = NoSession \/ Compares(x, nextSeqNum)
      /\ UNCHANGED <<sessionOrder, currentSessionId, nextSeqNum, buffer>>
  BY DEF QueueAtOnce, Accept, qVars
<1>2. TypeOK /\ TypeOK' /\ arrivals \in Nat /\ nextSeqNum \in Nat \ {0} /\ arrivals <= arrivals'
  BY <1>1 DEF IInv, TypeOK
<1>3. x.session \in Sessions \cup {NoSession} /\ x.seq \in Nat
  BY ItemType
<1>4. ASSUME x.session # NoSession
      PROVE  sessionOrder[x.session] > 0 /\ (x.session = currentSessionId => x.seq < nextSeqNum)
  <2>1. Rank(x.session) \in Nat /\ Rank(x.session) = sessionOrder[x.session]
    BY <1>2, <1>3, <1>4, RankType
  <2>2. sessionOrder[x.session] > 0
    BY <1>1, <1>4, <2>1 DEF IsNew
  <2>3. ASSUME x.session = currentSessionId PROVE x.seq < nextSeqNum
    <3>1. x.seq = 0 \/ Precedes(Rank(x.session), x.seq, Rank(x.session), nextSeqNum)
      BY <1>1, <1>4, <2>3 DEF Compares
    <3>2. QED
      BY <1>2, <2>1, <3>1 DEF Precedes
  <2>4. QED
    BY <2>2, <2>3
<1> DEFINE items == <<x>>
<1>5. items \in Seq(Items) /\ Len(items) = 1 /\ items[1] = x
  OBVIOUS
<1> HIDE DEF items
<1>6. \A i, j \in 1 .. Len(items) : ~(i < j)
  BY <1>5
<1>7. Ordered(items)'
  BY <1>6 DEF Ordered
<1>8. \A i \in 1 .. Len(items) : items[i] = x
  BY <1>5
<1>9. nextSeqNum <= nextSeqNum'
  BY <1>1, <1>2
<1>10. /\ Record' /\ Past' /\ NoInversion'
       /\ \A y : WasSent(y) => WasSent(y)'
  BY <1>1, <1>2, <1>4, <1>5, <1>7, <1>8, <1>9, EmitStep DEF items
<1>11. Ranked' /\ Held'
  BY <1>1, <1>10 DEF OInv, Ranked, Held, Rank
<1>12. QED
  BY <1>10, <1>11 DEF OInv

LEMMA QueueEarlyInOrder ==
  ASSUME IInv, OInv, NEW x \in Items, QueueEarly(x)
  PROVE  OInv'
<1>1. /\ arrivals' = arrivals + 1 /\ Numbered(x) /\ ~Compares(x, nextSeqNum + 1)
      /\ buffer' = buffer \cup {x}
      /\ UNCHANGED <<sessionOrder, currentSessionId, nextSeqNum, sent>>
  BY DEF QueueEarly, Accept
<1>2. TypeOK /\ arrivals \in Nat /\ nextSeqNum \in Nat \ {0}
  BY DEF IInv, TypeOK
<1>3. x.session \in Sessions /\ x.session # NoSession /\ x.seq \in Nat
  BY <1>1, ItemType DEF Numbered
<1>4. /\ Rank(x.session) \in Nat /\ Rank(x.session) = sessionOrder[x.session] /\ sessionOrder[x.session] > 0
      /\ Rank(currentSessionId) \in Nat
  BY <1>1, <1>2, <1>3, RankType DEF Numbered, IsNew, TypeOK
<1>5. x.session = currentSessionId /\ x.seq >= nextSeqNum
  <2>1. /\ ~(Rank(x.session) < Rank(currentSessionId))
        /\ ~(Rank(x.session) = Rank(currentSessionId) /\ x.seq < nextSeqNum + 1)
    BY <1>1 DEF Compares, Precedes
  <2>2. sessionOrder[x.session] <= Rank(currentSessionId)
        /\ (sessionOrder[x.session] = Rank(currentSessionId) => x.session = currentSessionId)
    BY <1>3, <1>4 DEF OInv, Ranked
  <2>3. Rank(x.session) = Rank(currentSessionId)
    BY <1>4, <2>1, <2>2
  <2>4. QED
    BY <1>2, <1>3, <1>4, <2>1, <2>2, <2>3
<1>6. \A y : WasSent(y)' <=> WasSent(y)
  BY <1>1 DEF WasSent
<1>7. Held'
  BY <1>1, <1>3, <1>5, <1>6 DEF OInv, Held
<1>8. Past'
  <2>1. ASSUME NEW i \in 1 .. Len(sent) PROVE sent[i].at <= arrivals'
    <3>1. sent[i].at <= arrivals
      BY DEF OInv, Past
    <3>2. sent \in Seq([item : Items, at : Nat])
      BY DEF OInv, Record
    <3>3. sent[i].at \in Nat
      BY <3>2, SentAt
    <3>4. QED
      BY <1>1, <1>2, <3>1, <3>3
  <2>2. QED
    BY <1>1, <2>1 DEF OInv, Past
<1>9. Record' /\ Ranked' /\ NoInversion'
  BY <1>1 DEF OInv, Record, Ranked, Rank, NoInversion
<1>10. QED
  BY <1>7, <1>8, <1>9 DEF OInv

LEMMA QueueNextInOrder ==
  ASSUME IInv, IInv', OInv, NEW x \in Items, x.n > arrivals, QueueNext(x)
  PROVE  OInv'
<1>1. /\ arrivals' = arrivals + 1 /\ Numbered(x)
      /\ Rank(x.session) = Rank(currentSessionId) /\ x.seq = nextSeqNum
      /\ UNCHANGED <<sessionOrder, currentSessionId>>
  BY DEF QueueNext, Accept
<1>2. PICK order \in Sorted(buffer), n \in 0 .. Cardinality(buffer) :
        /\ IsRun(order, currentSessionId, nextSeqNum + 1, n)
        /\ Emit(<<x>> \o SubSeq(order, 1, n))
        /\ nextSeqNum' = nextSeqNum + 1 + n
        /\ buffer' = buffer \ FirstOf(order, n)
  BY DEF QueueNext, InTurn
<1>3. TypeOK /\ TypeOK' /\ arrivals \in Nat /\ nextSeqNum \in Nat \ {0} /\ arrivals <= arrivals'
  BY <1>1 DEF IInv, TypeOK
<1>4. x.session \in Sessions /\ x.session # NoSession /\ x.seq \in Nat
  BY <1>1, ItemType DEF Numbered
<1>5. sessionOrder[x.session] > 0 /\ x.session = currentSessionId
  <2>1. /\ Rank(x.session) \in Nat /\ Rank(x.session) = sessionOrder[x.session] /\ sessionOrder[x.session] > 0
    BY <1>1, <1>3, <1>4, RankType DEF Numbered, IsNew
  <2>2. QED
    BY <1>1, <1>4, <2>1 DEF OInv, Ranked
<1>6. /\ Cardinality(buffer) \in Nat /\ order \in Seq(Items) /\ Len(order) = Cardinality(buffer)
      /\ \A i \in 1 .. Len(order) : /\ order[i] \in buffer /\ order[i] \in Items
                                   /\ order[i].session = currentSessionId /\ order[i].seq \in Nat
  BY HeldInOrder
<1> DEFINE run == SubSeq(order, 1, n)
           items == <<x>> \o run
<1>7. /\ n \in Nat /\ run \in Seq(Items) /\ Len(run) = n
      /\ \A i \in 1 .. n : i \in 1 .. Len(order) /\ run[i] = order[i]
  BY <1>6, FirstItems
<1>8. \A i \in 1 .. n : run[i].seq = nextSeqNum + i /\ run[i].session = currentSessionId /\ run[i] \in buffer
  BY <1>2, <1>3, <1>6, <1>7 DEF IsRun
<1> HIDE DEF run
<1>9. items \in Seq(Items) /\ Len(items) = n + 1 /\ items[1] = x /\ \A i \in 1 .. n : items[i + 1] = run[i]
  BY <1>7
<1>10. Emit(items)
  BY <1>2 DEF run
<1> HIDE DEF items
<1>11. ASSUME NEW i \in 1 .. Len(items)
       PROVE  /\ items[i].session = currentSessionId /\ items[i].seq = nextSeqNum + i - 1
              /\ items[i] \in buffer \/ items[i].n > arrivals
  <2>1. CASE i = 1
    BY <1>1, <1>3, <1>5, <1>9, <2>1
  <2>2. CASE i # 1
    <3>1. i - 1 \in 1 .. n /\ i = (i - 1) + 1 /\ i \in Nat
      BY <1>7, <1>9, <2>2
    <3>2. items[i] = run[i - 1]
      BY <1>9, <3>1
    <3>3. run[i - 1].seq = nextSeqNum + (i - 1)
      BY <1>8, <3>1
    <3>4. QED
      BY <1>3, <1>8, <3>1, <3>2, <3>3
  <2>3. QED
    BY <2>1, <2>2
<1>12. Ordered(items)'
  <2>1. ASSUME NEW i \in 1 .. Len(items), NEW j \in 1 .. Len(items), i < j
        PROVE  /\ items[j].session = items[i].session /\ ~(items[j].seq < items[i].seq)
               /\ RankIn(sessionOrder', items[i].session) \in Nat
    <3>1. items[i].seq = nextSeqNum + i - 1 /\ items[j].seq = nextSeqNum + j - 1
      BY <1>11
    <3>2. RankIn(sessionOrder', currentSessionId) \in Nat
      BY <1>1, <1>3, <1>4, <1>5 DEF RankIn, TypeOK
    <3>3. QED
      BY <1>3, <1>11, <2>1, <3>1, <3>2
  <2>2. QED
    BY <2>1 DEF Ordered, Precedes, Rank, RankIn
<1>13. \A i \in 1 .. Len(items) : /\ sessionOrder'[items[i].session] > 0
                                  /\ items[i].seq < nextSeqNum'
  BY <1>1, <1>2, <1>3, <1>5, <1>7, <1>9, <1>11
<1>14. nextSeqNum <= nextSeqNum'
  BY <1>2, <1>3, <1>7
<1>15. /\ Record' /\ Past' /\ NoInversion'
       /\ \A y : WasSent(y) => WasSent(y)'
       /\ \A i \in 1 .. Len(items) : WasSent(items[i])'
  BY <1>1, <1>3, <1>9, <1>10, <1>11, <1>12, <1>13, <1>14, EmitStep
<1>16. Held'
  <2>1. ASSUME NEW y \in buffer', y.seq < nextSeqNum'
        PROVE  WasSent(y)'
    <3>1. y \in buffer /\ y.session = currentSessionId /\ (y.seq >= nextSeqNum \/ WasSent(y))
      BY <1>2 DEF OInv, Held
    <3>2. CASE WasSent(y)
      BY <1>15, <3>2
    <3>3. CASE y.seq >= nextSeqNum
      <4>1. y.seq \in Nat
        BY <3>1, ItemType DEF IInv, TypeOK
      <4>2. PICK k \in 1 .. n + 1 : k = y.seq - nextSeqNum + 1
        BY <1>2, <1>3, <1>7, <2>1, <3>3, <4>1
      <4>3. items[k].session = y.session /\ items[k].seq = y.seq
        BY <1>3, <1>9, <1>11, <3>1, <4>1, <4>2
      <4>4. WasSent(items[k])'
        BY <1>9, <1>15
      <4>5. QED
        BY <4>3, <4>4 DEF WasSent
    <3>4. QED
      BY <3>1, <3>2, <3>3
  <2>2. ASSUME NEW y \in buffer' PROVE y.seq < nextSeqNum' \/ y.seq >= nextSeqNum'
    <3>1. y.seq \in Nat /\ nextSeqNum' \in Nat
      BY <1>3, ItemType DEF TypeOK
    <3>2. QED
      BY <3>1
  <2>3. QED
    BY <1>1, <1>2, <2>1, <2>2 DEF OInv, Held
<1>17. Ranked'
  BY <1>1 DEF OInv, Ranked, Rank
<1>18. QED
  BY <1>15, <1>16, <1>17 DEF OInv

LEMMA QueueFirstInOrder ==
  ASSUME IInv, IInv', OInv, NEW x \in Items, x.n > arrivals, QueueFirst(x)
  PROVE  OInv'
<1>1. /\ arrivals' = arrivals + 1 /\ IsNew(x.session)
  BY DEF QueueFirst, Accept
<1>2. PICK flush \in Sorted(buffer) :
        /\ BeginSession(x.session, flush)
        /\ \/ x.seq <= 1 /\ Emit(flush \o <<x>>) /\ nextSeqNum' = 1 + x.seq /\ buffer' = {}
           \/ ~(x.seq <= 1) /\ Emit(flush) /\ nextSeqNum' = 1 /\ buffer' = {x}
  BY DEF QueueFirst
<1>3. TypeOK /\ TypeOK' /\ arrivals \in Nat /\ nextSeqNum' \in Nat /\ arrivals <= arrivals'
  BY <1>1 DEF IInv, TypeOK
<1>4. x.session \in Sessions /\ x.session # NoSession /\ x.seq \in Nat
  BY <1>1, ItemType DEF IsNew
<1>5. sessionOrder[x.session] = 0 /\ sessionOrder \in [Sessions -> Nat]
  BY <1>1, <1>3, <1>4 DEF IsNew, Rank, TypeOK
<1> DEFINE Seen == {s \in Sessions : sessionOrder[s] > 0}
<1>6. PICK seen \in Nat : seen = Cardinality(Seen)
  BY ReorderQueueAssumption, FS_Subset, FS_CardinalityType
<1>7. /\ sessionOrder' = [sessionOrder EXCEPT ![x.session] = 1 + seen]
      /\ currentSessionId' = x.session
  BY <1>2, <1>6 DEF BeginSession
<1>8. /\ sessionOrder'[x.session] = 1 + seen
      /\ \A s \in Sessions : s # x.session => sessionOrder'[s] = sessionOrder[s]
  BY <1>4, <1>5, <1>7
<1>9. /\ Rank(currentSessionId) = seen
      /\ currentSessionId # NoSession => sessionOrder[currentSessionId] > 0
      /\ \A s \in Sessions : sessionOrder[s] <= seen
  BY <1>6 DEF OInv, Ranked
<1>10. currentSessionId # x.session
  BY <1>4, <1>5, <1>9
<1>11. Ranked'
  <2>1. {s \in Sessions : sessionOrder'[s] > 0} = Seen \cup {x.session}
    BY <1>4, <1>5, <1>6, <1>8
  <2>2. Cardinality(Seen \cup {x.session}) = Cardinality(Seen) + 1
    <3>1. IsFiniteSet(Seen) /\ x.session \notin Seen
      BY <1>5, ReorderQueueAssumption, FS_Subset
    <3>2. QED
      BY <3>1, FS_AddElement
  <2>3. Cardinality({s \in Sessions : sessionOrder'[s] > 0}) = 1 + seen
    BY <1>6, <2>1, <2>2
  <2>4. Rank(currentSessionId)' = 1 + seen
    BY <1>4, <1>7, <1>8 DEF Rank
  <2>5. ASSUME NEW s \in Sessions
        PROVE  /\ sessionOrder'[s] <= 1 + seen
               /\ sessionOrder'[s] > 0 /\ sessionOrder'[s] = 1 + seen => s = x.session
    <3>1. CASE s = x.session
      BY <1>6, <1>8, <3>1
    <3>2. CASE s # x.session
      <4>1. sessionOrder'[s] = sessionOrder[s] /\ sessionOrder[s] \in Nat /\ sessionOrder[s] <= seen
        BY <1>5, <1>8, <1>9, <3>2
      <4>2. QED
        BY <1>6, <4>1
    <3>3. QED
      BY <3>1, <3>2
  <2>6. sessionOrder'[x.session] > 0
    BY <1>6, <1>8
  <2>7. QED
    BY <1>7, <2>3, <2>4, <2>5, <2>6 DEF Ranked
<1>12. Held'
  BY <1>2, <1>4, <1>7 DEF Held
<1>13. PICK c \in Nat :
         /\ flush \in Seq(Items) /\ Len(flush) = c
         /\ \A i \in 1 .. c : /\ flush[i] \in buffer /\ flush[i].session = currentSessionId /\ flush[i].seq \in Nat
         /\ \A i, j \in 1 .. c : i < j => flush[i].seq <= flush[j].seq
  <2>1. Cardinality(buffer) \in Nat /\ Len(flush) = Cardinality(buffer)
    BY HeldInOrder
  <2>2. Len(flush) \in Nat
    BY <2>1
  <2>3. QED
    BY <2>2, HeldInOrder
<1>14. PICK items \in Seq(Items) :
         /\ Emit(items)
         /\ \A i \in 1 .. c : items[i] = flush[i]
         /\ \/ Len(items) = c
            \/ Len(items) = c + 1 /\ items[c + 1] = x /\ x.seq < nextSeqNum'
  <2>1. /\ flush \o <<x>> \in Seq(Items) /\ Len(flush \o <<x>>) = c + 1 /\ (flush \o <<x>>)[c + 1] = x
        /\ \A i \in 1 .. c : (flush \o <<x>>)[i] = flush[i]
    BY <1>13
  <2>2. CASE x.seq <= 1 /\ Emit(flush \o <<x>>) /\ nextSeqNum' = 1 + x.seq
    <3>1. x.seq < nextSeqNum'
      BY <1>4, <2>2
    <3>2. QED
      BY <2>1, <2>2, <3>1
  <2>3. CASE Emit(flush)
    BY <1>13, <2>3
  <2>4. QED
    BY <1>2, <2>2, <2>3
<1>15. ASSUME NEW i \in 1 .. Len(items)
       PROVE  \/ /\ i \in 1 .. c /\ items[i] \in buffer /\ items[i].session = currentSessionId
                 /\ currentSessionId \in Sessions /\ currentSessionId # NoSession
                 /\ items[i].seq = flush[i].seq
                 /\ RankIn(sessionOrder', currentSessionId) = seen /\ sessionOrder'[currentSessionId] > 0
              \/ i = c + 1 /\ items[i] = x /\ x.seq < nextSeqNum'
  <2>1. CASE i \in 1 .. c
    <3>1. items[i] \in buffer /\ items[i].session = currentSessionId /\ items[i].seq = flush[i].seq
      BY <1>13, <1>14, <2>1
    <3>2. currentSessionId \in Sessions /\ currentSessionId # NoSession
      BY <1>3, <3>1 DEF OInv, Held, TypeOK
    <3>3. sessionOrder'[currentSessionId] = sessionOrder[currentSessionId]
      BY <1>8, <1>10, <3>2
    <3>4. RankIn(sessionOrder', currentSessionId) = seen /\ sessionOrder'[currentSessionId] > 0
      BY <1>9, <3>2, <3>3 DEF Rank, RankIn
    <3>5. QED
      BY <2>1, <3>1, <3>2, <3>4
  <2>2. CASE i \notin 1 .. c
    BY <1>13, <1>14, <2>2
  <2>3. QED
    BY <2>1, <2>2
<1>16. Ordered(items)'
  <2>1. ASSUME NEW i \in 1 .. Len(items), NEW j \in 1 .. Len(items), i < j
        PROVE  ~Precedes(RankIn(sessionOrder', items[j].session), items[j].seq,
                         RankIn(sessionOrder', items[i].session), items[i].seq)
    <3>1. i \in 1 .. c /\ items[i].session = currentSessionId /\ items[i].seq = flush[i].seq
          /\ RankIn(sessionOrder', currentSessionId) = seen
      BY <1>13, <1>14, <1>15, <2>1
    <3>2. CASE j \in 1 .. c
      <4>1. items[j].session = currentSessionId /\ items[j].seq = flush[j].seq
        BY <1>13, <1>15, <3>2
      <4>2. flush[i].seq <= flush[j].seq /\ flush[i].seq \in Nat /\ flush[j].seq \in Nat
        BY <1>13, <2>1, <3>1, <3>2
      <4>3. ~(flush[j].seq < flush[i].seq) /\ ~(seen < seen)
        BY <1>6, <4>2
      <4>4. QED
        BY <3>1, <4>1, <4>3 DEF Precedes
    <3>3. CASE j \notin 1 .. c
      <4>1. items[j] = x
        BY <1>15, <3>3
      <4>2. RankIn(sessionOrder', x.session) = 1 + seen
        BY <1>4, <1>8 DEF RankIn
      <4>3. ~(1 + seen < seen) /\ 1 + seen # seen
        BY <1>6
      <4>4. QED
        BY <3>1, <4>1, <4>2, <4>3 DEF Precedes
    <3>4. QED
      BY <3>2, <3>3
  <2>2. QED
    BY <2>1 DEF Ordered, Precedes, Rank, RankIn
<1>17. \A i \in 1 .. Len(items) : /\ items[i] \in buffer \/ items[i].n > arrivals
                                  /\ items[i].session # NoSession =>
                                       /\ sessionOrder'[items[i].session] > 0
                                       /\ items[i].session = currentSessionId' => items[i].seq < nextSeqNum'
  <2>1. sessionOrder'[x.session] > 0
    BY <1>6, <1>8
  <2>2. QED
    BY <1>7, <1>10, <1>15, <2>1
<1>18. \A s \in Sessions : sessionOrder[s] > 0 => sessionOrder'[s] = sessionOrder[s]
  BY <1>5, <1>8
<1>19. currentSessionId' \in Sessions /\ sessionOrder[currentSessionId'] = 0
  BY <1>4, <1>5, <1>7
<1>20. Record' /\ Past' /\ NoInversion'
  BY <1>3, <1>14, <1>16, <1>17, <1>18, <1>19, EmitStep
<1>21. QED
  BY <1>11, <1>12, <1>20 DEF OInv

LEMMA OnTimeoutInOrder ==
  ASSUME IInv, IInv', OInv, OnTimeout
  PROVE  OInv'
<1>1. arrivals' = arrivals /\ sessionOrder' = sessionOrder /\ currentSessionId' = currentSessionId
  BY DEF OnTimeout
<1>2. PICK order \in Sorted(buffer), n \in 0 .. Cardinality(buffer) :
        /\ Emit(SubSeq(order, 1, n))
        /\ nextSeqNum' \in NextAfter(FirstOf(order, n))
        /\ buffer' = buffer \ FirstOf(order, n)
  BY DEF OnTimeout
<1>3. TypeOK /\ TypeOK' /\ arrivals \in Nat /\ nextSeqNum \in Nat /\ nextSeqNum' \in Nat /\ arrivals <= arrivals'
  BY <1>1 DEF IInv, TypeOK
<1>4. /\ Cardinality(buffer) \in Nat /\ order \in Seq(Items) /\ Len(order) = Cardinality(buffer)
      /\ \A i \in 1 .. Len(order) : /\ order[i] \in buffer /\ order[i] \in Items
                                   /\ order[i].session = currentSessionId /\ order[i].seq \in Nat
      /\ \A i, j \in 1 .. Len(order) : i < j => order[i].seq <= order[j].seq
      /\ \A y \in buffer : \E i \in 1 .. Len(order) : order[i] = y
  BY HeldInOrder
<1>5. PICK items \in Seq(Items) : items = SubSeq(order, 1, n)
  BY <1>4, FirstItems
<1>6. /\ n \in Nat /\ Len(items) = n /\ Emit(items)
      /\ \A i \in 1 .. n : i \in 1 .. Len(order) /\ items[i] = order[i]
  BY <1>2, <1>4, <1>5, FirstItems
<1>7. \A y \in FirstOf(order, n) : y.session = currentSessionId
  BY <1>4, <1>6 DEF FirstOf
<1>8. /\ nextSeqNum <= nextSeqNum'
      /\ \A i \in 1 .. n : items[i].seq < nextSeqNum'
      /\ nextSeqNum' = nextSeqNum \/ \E i \in 1 .. n : nextSeqNum' = items[i].seq + 1
  <2>1. FirstOf(order, n) = {y \in FirstOf(order, n) : y.session = currentSessionId}
    BY <1>7
  <2>2. /\ nextSeqNum' >= nextSeqNum
        /\ \A y \in FirstOf(order, n) : nextSeqNum' > y.seq
        /\ nextSeqNum' = nextSeqNum \/ \E y \in FirstOf(order, n) : nextSeqNum' = y.seq + 1
    BY <1>2, <2>1 DEF NextAfter
  <2>3. \A i \in 1 .. n : items[i] \in FirstOf(order, n) /\ items[i].seq \in Nat
    BY <1>4, <1>6 DEF FirstOf
  <2>4. \A y \in FirstOf(order, n) : \E i \in 1 .. n : items[i] = y
    BY <1>6 DEF FirstOf
  <2>5. ASSUME NEW i \in 1 .. n PROVE items[i].seq < nextSeqNum'
    <3>1. nextSeqNum' > items[i].seq /\ items[i].seq \in Nat
      BY <2>2, <2>3
    <3>2. QED
      BY <1>3, <3>1
  <2>6. nextSeqNum' = nextSeqNum \/ \E i \in 1 .. n : nextSeqNum' = items[i].seq + 1
    BY <2>2, <2>4
  <2>7. QED
    BY <1>3, <2>2, <2>5, <2>6
<1>9. \A i \in 1 .. n : /\ items[i] \in buffer /\ items[i].session = currentSessionId
                        /\ currentSessionId \in Sessions /\ sessionOrder[currentSessionId] > 0
  BY <1>3, <1>4, <1>6 DEF OInv, Held, Ranked, TypeOK
<1>10. \A i \in 1 .. Len(items) : /\ items[i] \in buffer \/ items[i].n > arrivals
                                  /\ items[i].session # NoSession =>
                                       /\ sessionOrder'[items[i].session] > 0
                                       /\ items[i].session = currentSessionId' => items[i].seq < nextSeqNum'
  BY <1>1, <1>6, <1>8, <1>9
<1>11. Ordered(items)'
  <2>1. ASSUME NEW i \in 1 .. Len(items), NEW j \in 1 .. Len(items), i < j
        PROVE  ~Precedes(RankIn(sessionOrder', items[j].session), items[j].seq,
                         RankIn(sessionOrder', items[i].session), items[i].seq)
    <3>1. items[i].session = currentSessionId /\ items[j].session = currentSessionId
      BY <1>6, <1>9
    <3>2. items[i].seq <= items[j].seq /\ items[i].seq \in Nat /\ items[j].seq \in Nat
      BY <1>4, <1>6, <2>1
    <3>3. RankIn(sessionOrder', currentSessionId) \in Nat
      <4>1. currentSessionId \in Sessions /\ sessionOrder' \in [Sessions -> Nat]
        BY <1>3, <1>6, <1>9 DEF TypeOK
      <4>2. QED
        BY <4>1 DEF RankIn
    <3>4. QED
      BY <3>1, <3>2, <3>3 DEF Precedes
  <2>2. QED
    BY <2>1 DEF Ordered, Precedes, Rank, RankIn
<1>12. /\ Record' /\ Past' /\ NoInversion'
       /\ \A y : WasSent(y) => WasSent(y)'
       /\ \A i \in 1 .. Len(items) : WasSent(items[i])'
  BY <1>1, <1>3, <1>6, <1>8, <1>10, <1>11, EmitStep
<1>13. Held'
  <2>1. ASSUME NEW y \in buffer'
        PROVE  y.session = currentSessionId /\ y.session # NoSession /\ (y.seq >= nextSeqNum' \/ WasSent(y)')
    <3>1. /\ y \in buffer /\ y \notin FirstOf(order, n)
          /\ y.session = currentSessionId /\ y.session # NoSession /\ (y.seq >= nextSeqNum \/ WasSent(y))
      BY <1>2 DEF OInv, Held
    <3>2. PICK m \in 1 .. Len(order) : order[m] = y
      BY <1>4, <3>1
    <3>3. m > n /\ y.seq \in Nat
      BY <1>4, <1>6, <3>1, <3>2 DEF FirstOf
    <3>4. CASE nextSeqNum' = nextSeqNum
      BY <1>12, <3>1, <3>4
    <3>5. CASE nextSeqNum' # nextSeqNum
      <4>1. PICK i \in 1 .. n : nextSeqNum' = items[i].seq + 1
        BY <1>8, <3>5
      <4>2. items[i].seq <= y.seq /\ items[i].seq \in Nat /\ items[i].session = y.session
        BY <1>4, <1>6, <3>1, <3>2, <3>3
      <4>3. CASE y.seq = items[i].seq
        <5>1. WasSent(items[i])'
          BY <1>6, <1>12
        <5>2. WasSent(y)'
          BY <4>2, <4>3, <5>1 DEF WasSent
        <5>3. QED
          BY <3>1, <5>2
      <4>4. CASE y.seq # items[i].seq
        <5>1. y.seq >= nextSeqNum'
          BY <3>3, <4>1, <4>2, <4>4
        <5>2. QED
          BY <3>1, <5>1
      <4>5. QED
        BY <4>3, <4>4
    <3>6. QED
      BY <3>4, <3>5
  <2>2. QED
    BY <1>1, <2>1 DEF Held
<1>14. Ranked'
  BY <1>1 DEF OInv, Ranked, Rank
<1>15. QED
  BY <1>12, <1>13, <1>14 DEF OInv

(* What neither sends nor accepts leaves the order alone.                   *)
LEMMA OthersInOrder ==
  ASSUME OInv, GrowOld \/ TimerFires \/ Close \/ ProcessInput \/ UNCHANGED vars
  PROVE  OInv'
<1>1. UNCHANGED <<sessionOrder, currentSessionId, nextSeqNum, buffer, arrivals, sent>>
  BY DEF GrowOld, TimerFires, Close, ProcessInput, vars, qVars
<1>2. QED
  BY <1>1 DEF OInv, Record, Ranked, Rank, Held, WasSent, Past, NoInversion

LEMMA InitInOrder == Init => OInv
<1> SUFFICES ASSUME Init PROVE OInv
  OBVIOUS
<1>1. sent = << >> /\ buffer = {} /\ currentSessionId = NoSession /\ sessionOrder = [s \in Sessions |-> 0]
  BY DEF Init
<1>2. Record /\ Held /\ Past /\ NoInversion
  <2>1. Len(sent) = 0 /\ sent \in Seq([item : Items, at : Nat])
    BY <1>1
  <2>2. QED
    BY <1>1, <2>1 DEF Record, Held, Past, NoInversion
<1>3. Ranked
  <2>1. {s \in Sessions : sessionOrder[s] > 0} = {}
    BY <1>1
  <2>2. Cardinality({s \in Sessions : sessionOrder[s] > 0}) = 0
    BY <2>1, FS_EmptySet
  <2>3. QED
    BY <1>1, <2>2 DEF Ranked, Rank
<1>4. QED
  BY <1>2, <1>3 DEF OInv

LEMMA QueueItemInOrder ==
  ASSUME IInv, IInv', OInv, QueueItem
  PROVE  OInv'
<1>1. PICK label \in Labels :
        LET x == [session |-> label[1], seq |-> label[2], n |-> arrivals + 1]
        IN  QueueFirst(x) \/ QueueAtOnce(x) \/ QueueNext(x) \/ QueueEarly(x)
  BY DEF QueueItem
<1> DEFINE x == [session |-> label[1], seq |-> label[2], n |-> arrivals + 1]
<1>2. x \in Items /\ x.n > arrivals
  BY ReorderQueueAssumption DEF Labels, Items, IInv, TypeOK
<1> HIDE DEF x
<1>3. QueueFirst(x) \/ QueueAtOnce(x) \/ QueueNext(x) \/ QueueEarly(x)
  BY <1>1 DEF x
<1>4. QED
  BY <1>2, <1>3, QueueFirstInOrder, QueueAtOnceInOrder, QueueNextInOrder, QueueEarlyInOrder

(* The queue never reorders: for any sessions and numbers, an item that     *)
(* arrived before a later one of its own or of a newer session was sent is  *)
(* sent before it, a second copy aside - whatever flushBuffer, processBuffer *)
(* and onTimeout put out, and whenever (quickreorderqueue.go:97, 198).      *)
THEOREM NeverReorders == Spec => []NoInversion
<1>1. Init => OInv
  BY InitInOrder
<1>2. IInv /\ IInv' /\ OInv /\ [Next]_vars => OInv'
  BY QueueItemInOrder, OnTimeoutInOrder, OthersInOrder DEF Next
<1>3. OInv => NoInversion
  BY DEF OInv
<1>4. QED
  BY <1>1, <1>2, <1>3, SpecKeeps, PTL DEF Spec

-----------------------------------------------------------------------------
(* The ring buffer                                                         *)

LEMMA WrapValue ==
  ASSUME NEW x \in 0 .. 2 * MaxSize - 1
  PROVE  Wrap(x) = IF x < MaxSize THEN x ELSE x - MaxSize
  BY CirBufAssumption DEF Wrap

LEMMA AheadValue ==
  ASSUME NEW i \in Slots, NEW j \in Slots
  PROVE  Ahead(i, j) = IF i >= j THEN i - j ELSE i - j + MaxSize
  <1>1. i - j + MaxSize \in 0 .. 2 * MaxSize - 1
    BY CirBufAssumption DEF Slots
  <1>2. Ahead(i, j) = Wrap(i - j + MaxSize)
    BY DEF Ahead, Wrap
  <1>. QED  BY <1>1, <1>2, WrapValue, CirBufAssumption DEF Slots

\* The facts about the ring alone that the properties rest on.
RingInv ==
  /\ RingTypeOK
  /\ count <= totalSize
  /\ ~syncMode => count <= windowSize
  /\ RingHoldsWindow

\* The facts about the parked writer.
ParkInv ==
  /\ ParkedOnlyWhenFull
  /\ NoSecondWaiter

RingAndWriter == RingInv /\ ParkInv

LEMMA InitRing == RingInit => RingAndWriter
  <1>. SUFFICES ASSUME RingInit PROVE RingAndWriter
    OBVIOUS
  <1>1. RingTypeOK
    <2>1. buf \in [Slots -> Int]
      BY DEF RingInit
    <2>2. /\ readPos \in Slots /\ writePos \in Slots
          /\ count \in 0 .. MaxSize /\ windowSize \in 0 .. MaxSize
          /\ totalSize \in Nat
      BY CirBufAssumption DEF RingInit, Slots
    <2>. QED  BY <2>1, <2>2 DEF RingInit, RingTypeOK
  <1>2. RingHoldsWindow
    <2>1. writePos = Wrap(readPos + count)
      BY WrapValue, CirBufAssumption DEF RingInit
    <2>2. \A i \in Slots : Ahead(i, readPos) >= 0
      BY AheadValue, CirBufAssumption DEF RingInit, Slots
    <2>. QED  BY <2>1, <2>2, AheadValue, CirBufAssumption DEF RingInit, RingHoldsWindow, Slots
  <1>. QED  BY <1>1, <1>2 DEF RingInit, RingAndWriter, RingInv, ParkInv, ParkedOnlyWhenFull,
                              NoSecondWaiter

\* Moving the read position forward by n and lowering the count by n leaves
\* the other bytes in place.
LEMMA DropOldest ==
  ASSUME RingInv, NEW n \in 0 .. count,
         readPos' = Wrap(readPos + n), count' = count - n,
         UNCHANGED <<buf, writePos, totalSize>>
  PROVE  /\ readPos' \in Slots
         /\ count' \in 0 .. MaxSize
         /\ count' <= totalSize'
         /\ RingHoldsWindow'
  <1>. USE DEF Slots
  <1>1. /\ MaxSize \in Nat \ {0}
        /\ readPos \in Slots
        /\ count \in 0 .. MaxSize
        /\ totalSize \in Nat
        /\ count <= totalSize
        /\ n \in Nat
    BY CirBufAssumption DEF RingInv, RingTypeOK
  <1>2. /\ readPos' = IF readPos + n < MaxSize THEN readPos + n ELSE readPos + n - MaxSize
        /\ readPos' \in Slots
    BY <1>1, WrapValue
  <1>3. writePos = IF readPos + count < MaxSize THEN readPos + count
                                                ELSE readPos + count - MaxSize
    BY <1>1, WrapValue DEF RingInv, RingHoldsWindow
  <1>4. writePos' = Wrap(readPos' + count')
    <2>1. /\ readPos' + count' \in 0 .. 2 * MaxSize - 1
          /\ count' \in Nat
      BY <1>1, <1>2
    <2>2. Wrap(readPos' + count') = IF readPos' + count' < MaxSize THEN readPos' + count'
                                                  ELSE readPos' + count' - MaxSize
      BY <1>1, <1>2, <2>1, WrapValue
    <2>. QED  BY <1>1, <1>2, <1>3, <2>1, <2>2
  <1>5. ASSUME NEW i \in Slots, Ahead(i, readPos') < count'
        PROVE  buf'[i] = totalSize' - count' + Ahead(i, readPos')
    <2>1. Ahead(i, readPos) = IF i >= readPos THEN i - readPos ELSE i - readPos + MaxSize
      BY <1>1, AheadValue
    <2>2. Ahead(i, readPos') = IF i >= readPos' THEN i - readPos' ELSE i - readPos' + MaxSize
      BY <1>2, AheadValue
    <2>3. Ahead(i, readPos') < count - n
      BY <1>5
    <2>4. Ahead(i, readPos) = Ahead(i, readPos') + n
      BY ONLY <1>1, <1>2, <2>1, <2>2, <2>3, i \in Slots, n \in 0 .. count
    <2>5. buf[i] = totalSize - count + Ahead(i, readPos)
      <3>1. Ahead(i, readPos) < count
        BY <1>1, <1>2, <2>2, <2>3, <2>4
      <3>. QED  BY <3>1 DEF RingInv, RingHoldsWindow, HeadPos
    <2>. QED  BY <1>1, <1>2, <2>2, <2>4, <2>5
  <1>6. RingHoldsWindow'
    BY <1>4, <1>5 DEF RingHoldsWindow, HeadPos, Ahead, Wrap
  <1>. QED  BY <1>1, <1>2, <1>6

\* How many bytes a write that does not block stores, and how many old ones
\* it drops.
LEMMA WriteSizes ==
  ASSUME RingInv, NEW n \in 1 .. MaxWrite, ~Blocks
  PROVE  /\ Written(n) \in 1 .. MaxSize
         /\ CountAfter(Written(n)) \in count .. MaxSize
         /\ CountAfter(Written(n)) <= count + Written(n)
         /\ count + Written(n) - CountAfter(Written(n)) <= Written(n)
         /\ ~syncMode => CountAfter(Written(n)) <= windowSize
  <1>1. /\ MaxSize \in Nat \ {0}
        /\ n \in 1 .. MaxSize
        /\ count \in 0 .. MaxSize
        /\ windowSize \in 0 .. MaxSize
    BY CirBufAssumption DEF RingInv, RingTypeOK
  <1>2. CASE syncMode
    <2>1. count < windowSize
      BY <1>1, <1>2 DEF Blocks
    <2>2. Written(n) = IF n <= windowSize - count THEN n ELSE windowSize - count
      BY <1>2 DEF Written, Smaller
    <2>. QED  BY <1>1, <1>2, <2>1, <2>2 DEF CountAfter, Larger, Smaller
  <1>3. CASE ~syncMode
    <2>1. count <= windowSize
      BY <1>3 DEF RingInv
    <2>2. Written(n) = n
      BY <1>3 DEF Written
    <2>. QED  BY <1>1, <1>3, <2>1, <2>2 DEF CountAfter, Larger, Smaller
  <1>. QED  BY <1>2, <1>3

LEMMA StoreKeepsRing ==
  ASSUME RingInv, NEW n \in 1 .. MaxWrite, ~Blocks, StoreBytes(n)
  PROVE  RingInv'
  <1>. DEFINE written == Written(n)
              kept    == CountAfter(written)
  <1>1. /\ MaxSize \in Nat \ {0}
        /\ readPos \in 0 .. MaxSize - 1
        /\ writePos \in 0 .. MaxSize - 1
        /\ count \in 0 .. MaxSize
        /\ totalSize \in Nat
        /\ count <= totalSize
    BY CirBufAssumption DEF RingInv, RingTypeOK, Slots
  <1>2. /\ written \in 1 .. MaxSize
        /\ kept \in count .. MaxSize
        /\ kept <= count + written
        /\ count + written - kept <= written
        /\ ~syncMode => kept <= windowSize
    BY WriteSizes
  <1>3. /\ buf' = [i \in Slots |-> IF Ahead(i, writePos) < written
                                     THEN totalSize + Ahead(i, writePos) ELSE buf[i]]
        /\ writePos' = Wrap(writePos + written)
        /\ count' = kept
        /\ readPos' = Wrap(readPos + (count + written - kept))
        /\ totalSize' = totalSize + written
        /\ UNCHANGED <<syncMode, windowSize, waiterChan, writer>>
    BY DEF StoreBytes
  <1>. HIDE DEF written, kept
  <1>4. writePos = IF readPos + count < MaxSize THEN readPos + count
                                                ELSE readPos + count - MaxSize
    BY <1>1, WrapValue DEF RingInv, RingHoldsWindow
  <1>5. writePos' = IF writePos + written < MaxSize THEN writePos + written
                                                    ELSE writePos + written - MaxSize
    BY <1>1, <1>2, <1>3, WrapValue
  <1>6. readPos' = IF readPos + (count + written - kept) < MaxSize
                     THEN readPos + (count + written - kept)
                     ELSE readPos + (count + written - kept) - MaxSize
    BY <1>1, <1>2, <1>3, WrapValue
  <1>7. /\ writePos' \in 0 .. MaxSize - 1
        /\ readPos' \in 0 .. MaxSize - 1
        /\ count' \in 0 .. MaxSize
        /\ totalSize' \in Nat
        /\ count' <= totalSize'
    BY <1>1, <1>2, <1>3, <1>5, <1>6
  <1>8. buf' \in [Slots -> Int]
    <2>1. ASSUME NEW i \in Slots
          PROVE  (IF Ahead(i, writePos) < written
                    THEN totalSize + Ahead(i, writePos) ELSE buf[i]) \in Int
      <3>1. Ahead(i, writePos) \in Int
        BY <1>1, AheadValue DEF Slots
      <3>2. buf[i] \in Int
        BY DEF RingInv, RingTypeOK
      <3>. QED  BY <1>1, <3>1, <3>2
    <2>. QED  BY <1>3, <2>1
  <1>9. RingTypeOK'
    <2>1. /\ readPos' \in Slots /\ writePos' \in Slots
          /\ count' \in 0 .. MaxSize /\ totalSize' \in Nat
      BY <1>7 DEF Slots
    <2>. QED  BY <1>3, <1>8, <2>1 DEF RingInv, RingTypeOK
  <1>10. writePos' = Wrap(readPos' + count')
    <2>1. readPos' + count' \in 0 .. 2 * MaxSize - 1
      BY <1>1, <1>2, <1>3, <1>6
    <2>2. Wrap(readPos' + count') = IF readPos' + count' < MaxSize THEN readPos' + count'
                                                ELSE readPos' + count' - MaxSize
      BY <1>1, <1>2, <1>3, <1>6, <2>1, WrapValue
    <2>. QED  BY <1>1, <1>2, <1>3, <1>4, <1>5, <1>6, <2>2
  <1>11. ASSUME NEW i \in Slots, Ahead(i, readPos') < count'
         PROVE  buf'[i] = totalSize' - count' + Ahead(i, readPos')
    <2>. DEFINE a == Ahead(i, writePos)
                d == Ahead(i, readPos')
    <2>1. a = IF i >= writePos THEN i - writePos ELSE i - writePos + MaxSize
      BY <1>1, AheadValue DEF Slots
    <2>2. d = IF i >= readPos' THEN i - readPos' ELSE i - readPos' + MaxSize
      BY <1>7, AheadValue DEF Slots
    <2>3. Ahead(i, readPos) = IF i >= readPos THEN i - readPos ELSE i - readPos + MaxSize
      BY <1>1, AheadValue DEF Slots
    <2>4. d < kept
      BY <1>3, <1>11
    <2>5. i \in 0 .. MaxSize - 1
      BY DEF Slots
    <2>6. buf'[i] = IF a < written THEN totalSize + a ELSE buf[i]
      BY <1>3
    <2>. HIDE DEF a, d
    <2>7. CASE a < written
      <3>1. d = a + kept - written
        BY ONLY <1>1, <1>2, <1>4, <1>6, <2>1, <2>2, <2>4, <2>5, <2>7
      <3>. QED  BY <1>1, <1>2, <1>3, <2>1, <2>5, <2>6, <2>7, <3>1 DEF d
    <2>8. CASE ~(a < written)
      <3>1. /\ d = a + kept - written - MaxSize
            /\ Ahead(i, readPos) = a + count - MaxSize
            /\ Ahead(i, readPos) < count
        BY ONLY <1>1, <1>2, <1>4, <1>6, <2>1, <2>2, <2>3, <2>4, <2>5, <2>8
      <3>2. buf[i] = totalSize - count + Ahead(i, readPos)
        BY <3>1 DEF RingInv, RingHoldsWindow, HeadPos
      <3>. QED  BY <1>1, <1>2, <1>3, <2>1, <2>5, <2>6, <2>8, <3>1, <3>2 DEF d
    <2>. QED  BY <2>7, <2>8
  <1>12. RingHoldsWindow'
    BY <1>10, <1>11 DEF RingHoldsWindow, HeadPos, Ahead, Wrap
  <1>. QED  BY <1>2, <1>3, <1>7, <1>9, <1>12 DEF RingInv

\* What a step does that only changes the window, the writer or nothing.
LEMMA SameRing ==
  ASSUME RingInv,
         UNCHANGED <<buf, readPos, writePos, count, totalSize>>
  PROVE  RingHoldsWindow'
  BY DEF RingInv, RingHoldsWindow, HeadPos, Ahead, Wrap

LEMMA SetWindowKeepsInv ==
  ASSUME RingAndWriter, NEW sync \in BOOLEAN, NEW size \in 0 .. MaxSize + 1,
         SetEffectiveWindow(sync, size)
  PROVE  RingAndWriter'
  <1>. DEFINE new    == Smaller(size, MaxSize)
              excess == Larger(0, count - new)
  <1>1. /\ MaxSize \in Nat \ {0}
        /\ count \in 0 .. MaxSize
        /\ windowSize \in 0 .. MaxSize
        /\ count <= totalSize
        /\ ~syncMode => count <= windowSize
    BY CirBufAssumption DEF RingAndWriter, RingInv, RingTypeOK
  <1>2. new \in 0 .. MaxSize
    BY <1>1 DEF Smaller
  <1>3. /\ excess \in 0 .. count
        /\ count - excess <= new
        /\ excess = 0 \/ count - excess = new
    BY <1>1, <1>2 DEF Larger
  <1>4. /\ windowSize' = new
        /\ syncMode' = sync
        /\ UNCHANGED <<buf, writePos, totalSize>>
    BY DEF SetEffectiveWindow
  <1>5. /\ sync => UNCHANGED <<readPos, count>>
        /\ ~sync => readPos' = Wrap(readPos + excess) /\ count' = count - excess
    BY DEF SetEffectiveWindow
  <1>6. \/ WakesOnSet(sync, new) /\ tryWakeWriter
        \/ ~WakesOnSet(sync, new) /\ UNCHANGED <<waiterChan, writer>>
    BY DEF SetEffectiveWindow
  <1>. HIDE DEF new, excess
  <1>7. /\ RingHoldsWindow'
        /\ readPos' \in Slots
        /\ count' \in 0 .. MaxSize
        /\ count' <= totalSize'
        /\ ~syncMode' => count' <= windowSize'
    <2>1. CASE sync
      <3>1. UNCHANGED <<buf, readPos, writePos, count, totalSize>>
        BY <1>4, <1>5, <2>1
      <3>. QED  BY <1>4, <2>1, <3>1, SameRing DEF RingAndWriter, RingInv, RingTypeOK
    <2>2. CASE ~sync
      BY <1>1, <1>3, <1>4, <1>5, <2>2, DropOldest DEF RingAndWriter
    <2>. QED  BY <2>1, <2>2
  <1>8. waiterChan' \in BOOLEAN /\ writer' \in {"running", "waiting"}
    BY <1>6 DEF tryWakeWriter, RingAndWriter, RingInv, RingTypeOK
  <1>9. RingTypeOK'
    BY <1>2, <1>4, <1>7, <1>8 DEF RingAndWriter, RingInv, RingTypeOK, Slots
  <1>10. NoSecondWaiter'
    BY <1>6 DEF tryWakeWriter, RingAndWriter, ParkInv, NoSecondWaiter, ParkedOnlyWhenFull,
                RingInv, RingTypeOK
  <1>11. ParkedOnlyWhenFull'
    <2>. SUFFICES ASSUME writer' = "waiting" PROVE waiterChan' /\ Blocks'
      BY DEF ParkedOnlyWhenFull
    <2>1. writer = "waiting" /\ waiterChan /\ ~WakesOnSet(sync, new)
      BY <1>6 DEF tryWakeWriter, RingAndWriter, ParkInv, NoSecondWaiter, ParkedOnlyWhenFull,
                  RingInv, RingTypeOK
    <2>2. syncMode /\ count >= windowSize
      BY <2>1 DEF RingAndWriter, ParkInv, ParkedOnlyWhenFull, Blocks
    <2>3. sync /\ ~(new > windowSize)
      BY <2>1, <2>2 DEF WakesOnSet
    <2>4. count' = count /\ count >= new
      BY <1>1, <1>2, <1>5, <2>2, <2>3
    <2>5. waiterChan'
      BY <1>6, <2>1
    <2>. QED  BY <1>4, <2>3, <2>4, <2>5 DEF Blocks
  <1>. QED  BY <1>7, <1>9, <1>10, <1>11 DEF RingAndWriter, RingInv, ParkInv

LEMMA WriteKeepsInv ==
  ASSUME RingAndWriter, NEW n \in 1 .. MaxWrite, WriteAvailable(n)
  PROVE  RingAndWriter'
  <1>1. CASE Blocks
    <2>1. ParkWriter
      BY <1>1 DEF WriteAvailable
    <2>2. RingHoldsWindow'
      BY <2>1, SameRing DEF ParkWriter, RingAndWriter
    <2>3. RingInv'
      BY <2>1, <2>2 DEF ParkWriter, RingAndWriter, RingInv, RingTypeOK
    <2>. QED  BY <1>1, <2>1, <2>3
              DEF ParkWriter, RingAndWriter, ParkInv, ParkedOnlyWhenFull, NoSecondWaiter, Blocks
  <1>2. CASE ~Blocks
    <2>1. StoreBytes(n) /\ writer = "running"
      BY <1>2 DEF WriteAvailable
    <2>2. RingInv'
      BY <1>2, <2>1, StoreKeepsRing DEF RingAndWriter
    <2>. QED  BY <2>1, <2>2
              DEF StoreBytes, RingAndWriter, ParkInv, ParkedOnlyWhenFull, NoSecondWaiter
  <1>. QED  BY <1>1, <1>2

LEMMA ConsumeKeepsInv ==
  ASSUME RingAndWriter, NEW n \in 0 .. MaxSize, Consume(n)
  PROVE  RingAndWriter'
  <1>1. /\ n \in 0 .. count
        /\ readPos' = Wrap(readPos + n)
        /\ count' = count - n
        /\ UNCHANGED <<buf, writePos, totalSize, syncMode, windowSize>>
        /\ tryWakeWriter
    BY DEF Consume, RingAndWriter, RingInv, RingTypeOK
  <1>2. /\ count \in Nat
        /\ windowSize \in Nat
        /\ ~syncMode => count <= windowSize
    BY CirBufAssumption DEF RingAndWriter, RingInv, RingTypeOK
  <1>3. /\ RingHoldsWindow'
        /\ readPos' \in Slots
        /\ count' \in 0 .. MaxSize
        /\ count' <= totalSize'
    BY <1>1, DropOldest DEF RingAndWriter
  <1>4. /\ waiterChan' = FALSE
        /\ writer' = "running"
    BY <1>1 DEF tryWakeWriter, RingAndWriter, ParkInv, ParkedOnlyWhenFull, RingInv, RingTypeOK
  <1>5. RingTypeOK'
    BY <1>1, <1>3, <1>4 DEF RingAndWriter, RingInv, RingTypeOK, Slots
  <1>6. ~syncMode' => count' <= windowSize'
    BY <1>1, <1>2
  <1>. QED  BY <1>3, <1>4, <1>5, <1>6
            DEF RingAndWriter, RingInv, ParkInv, ParkedOnlyWhenFull, NoSecondWaiter

LEMMA NextKeepsRing == RingAndWriter /\ [RingNext]_ringVars => RingAndWriter'
  <1>. SUFFICES ASSUME RingAndWriter, [RingNext]_ringVars PROVE RingAndWriter'
    OBVIOUS
  <1>1. ASSUME NEW sync \in BOOLEAN, NEW size \in 0 .. MaxSize + 1,
               SetEffectiveWindow(sync, size)
        PROVE  RingAndWriter'
    BY <1>1, SetWindowKeepsInv
  <1>2. ASSUME NEW n \in 1 .. MaxWrite, WriteAvailable(n)
        PROVE  RingAndWriter'
    BY <1>2, WriteKeepsInv
  <1>3. ASSUME NEW n \in 0 .. MaxSize, Consume(n)
        PROVE  RingAndWriter'
    BY <1>3, ConsumeKeepsInv
  <1>4. CASE UNCHANGED ringVars
    <2>1. RingHoldsWindow'
      BY <1>4, SameRing DEF ringVars, RingAndWriter
    <2>. QED  BY <1>4, <2>1 DEF ringVars, RingAndWriter, RingInv, ParkInv, RingTypeOK,
                                ParkedOnlyWhenFull, NoSecondWaiter, Blocks
  <1>. QED  BY <1>1, <1>2, <1>3, <1>4 DEF RingNext

THEOREM RingInvariant == RingSpec => []RingAndWriter
  BY InitRing, NextKeepsRing, PTL DEF RingSpec

-----------------------------------------------------------------------------

(* The types of the buffer's fields, cirbuf.go:11-21.                        *)
THEOREM RingTypeCorrect == RingSpec => []RingTypeOK
  <1>1. RingAndWriter => RingTypeOK
    BY DEF RingAndWriter, RingInv
  <1>. QED  BY <1>1, RingInvariant, PTL

(* The ring always holds the last bytes written, in order, however its       *)
(* positions wrapped: WriteAvailable, Consume and the truncation in          *)
(* SetEffectiveWindow (cirbuf.go:37-144).                                    *)
THEOREM RingCorrect == RingSpec => []RingHoldsWindow
  <1>1. RingAndWriter => RingHoldsWindow
    BY DEF RingAndWriter, RingInv
  <1>. QED  BY <1>1, RingInvariant, PTL

(* The parked writer never misses its wake-up (tryWakeWriter, cirbuf.go:58). *)
THEOREM NoLostWakeup == RingSpec => []ParkedOnlyWhenFull
  <1>1. RingAndWriter => ParkedOnlyWhenFull
    BY DEF RingAndWriter, ParkInv
  <1>. QED  BY <1>1, RingInvariant, PTL

(* The panic of a second blocked write (cirbuf.go:84) is unreachable with    *)
(* one writing goroutine.                                                    *)
THEOREM NoPanic == RingSpec => []NoSecondWaiter
  <1>1. RingAndWriter => NoSecondWaiter
    BY DEF RingAndWriter, ParkInv
  <1>. QED  BY <1>1, RingInvariant, PTL

LEMMA PeekByte ==
  ASSUME RingAndWriter, NEW k \in 0 .. count - 1
  PROVE  buf[Wrap(readPos + k)] = HeadPos + k
  <1>1. /\ MaxSize \in Nat \ {0}
        /\ readPos \in 0 .. MaxSize - 1
        /\ count \in 0 .. MaxSize
    BY CirBufAssumption DEF RingAndWriter, RingInv, RingTypeOK, Slots
  <1>2. Wrap(readPos + k) = IF readPos + k < MaxSize THEN readPos + k
                                                    ELSE readPos + k - MaxSize
    BY <1>1, WrapValue
  <1>3. Wrap(readPos + k) \in Slots
    BY <1>1, <1>2 DEF Slots
  <1>4. Ahead(Wrap(readPos + k), readPos) = k
    <2>1. readPos \in Slots
      BY <1>1 DEF Slots
    <2>2. Ahead(Wrap(readPos + k), readPos)
            = IF Wrap(readPos + k) >= readPos THEN Wrap(readPos + k) - readPos
                                              ELSE Wrap(readPos + k) - readPos + MaxSize
      BY <1>3, <2>1, AheadValue
    <2>. QED  BY <1>1, <1>2, <2>2
  <1>. QED  BY <1>1, <1>3, <1>4 DEF RingAndWriter, RingInv, RingHoldsWindow

(* PeekDataAt (cirbuf.go:107-127) returns the bytes of the positions asked   *)
(* for, across the end of the ring too.                                      *)
THEOREM PeekCorrect == RingSpec => []PeeksWindow
  <1>1. RingAndWriter => PeeksWindow
    <2>. SUFFICES ASSUME RingAndWriter, NEW offset \in 0 .. MaxSize, NEW n \in 0 .. MaxSize
                  PROVE  PeekDataAt(offset, n) = Window!PeekDataAt(offset, n)
      BY DEF PeeksWindow
    <2>. DEFINE read == Smaller(n, Larger(0, count - offset))
    <2>1. /\ MaxSize \in Nat \ {0}
          /\ count \in 0 .. MaxSize
          /\ totalSize \in Nat
          /\ count <= totalSize
      BY CirBufAssumption DEF RingAndWriter, RingInv, RingTypeOK
    <2>2. /\ read \in Nat
          /\ read = 0 \/ offset + read <= count
      BY <2>1 DEF Smaller, Larger
    <2>3. Window!PeekDataAt(offset, n)
            = [i \in 1 .. read |-> HeadPos + offset + i - 1]
      <3>1. Window!Smaller(HeadPos + offset + n, Window!Larger(totalSize, HeadPos + offset))
              - (HeadPos + offset) = read
        BY <2>1 DEF Window!Smaller, Window!Larger, Smaller, Larger, HeadPos
      <3>. QED  BY <3>1 DEF Window!PeekDataAt, Window!Bytes
    <2>4. ASSUME NEW i \in 1 .. read
          PROVE  buf[Wrap(readPos + offset + i - 1)] = HeadPos + offset + i - 1
      <3>1. offset + i - 1 \in 0 .. count - 1
        BY <2>1, <2>2
      <3>2. readPos + offset + i - 1 = readPos + (offset + i - 1)
        BY <2>1, <2>2 DEF RingAndWriter, RingInv, RingTypeOK, Slots
      <3>3. HeadPos + offset + i - 1 = HeadPos + (offset + i - 1)
        BY <2>1, <2>2 DEF HeadPos
      <3>. QED  BY <3>1, <3>2, <3>3, PeekByte
    <2>. QED  BY <2>3, <2>4 DEF PeekDataAt
  <1>. QED  BY <1>1, RingInvariant, PTL

-----------------------------------------------------------------------------

(* The ring of bytes implements the window of positions: every method of     *)
(* cirbuf.go is a step of OutputWindow under head |-> HeadPos(),             *)
(* total |-> totalSize.                                                      *)
THEOREM Refinement == RingSpec => ImplementsWindow
  <1>1. RingInit => Window!Init
    BY CirBufAssumption DEF RingInit, Window!Init, HeadPos
  <1>2. RingAndWriter /\ [RingNext]_ringVars => [Window!Next]_Window!vars
    <2>. SUFFICES ASSUME RingAndWriter, [RingNext]_ringVars
                  PROVE  Window!Next \/ UNCHANGED Window!vars
      BY DEF Window!vars
    <2>1. /\ MaxSize \in Nat \ {0}
          /\ count \in 0 .. MaxSize
          /\ windowSize \in 0 .. MaxSize
          /\ totalSize \in Nat
          /\ count <= totalSize
          /\ ~syncMode => count <= windowSize
      BY CirBufAssumption DEF RingAndWriter, RingInv, RingTypeOK
    <2>2. ~waiterChan => writer = "running"
      BY DEF RingAndWriter, RingInv, RingTypeOK, ParkInv, ParkedOnlyWhenFull
    <2>3. ASSUME NEW sync \in BOOLEAN, NEW size \in 0 .. MaxSize + 1,
                 SetEffectiveWindow(sync, size)
          PROVE  Window!SetEffectiveWindow(sync, size)
      <3>. DEFINE new == Smaller(size, MaxSize)
      <3>1. /\ new \in 0 .. MaxSize
            /\ new = Window!Smaller(size, MaxSize)
        BY <2>1 DEF Smaller, Window!Smaller
      <3>2. HeadPos' = IF sync THEN HeadPos ELSE Window!Larger(HeadPos, totalSize - new)
        BY <2>1, <2>3, <3>1 DEF SetEffectiveWindow, HeadPos, Larger, Window!Larger
      <3>3. writer' = IF syncMode /\ (new > windowSize \/ ~sync) THEN "running" ELSE writer
        BY <2>2, <2>3 DEF SetEffectiveWindow, WakesOnSet, tryWakeWriter
      <3>4. syncMode' = sync /\ windowSize' = new /\ totalSize' = totalSize
        BY <2>3 DEF SetEffectiveWindow
      <3>. QED  BY <3>1, <3>2, <3>3, <3>4 DEF Window!SetEffectiveWindow
    <2>4. ASSUME NEW n \in 1 .. MaxWrite, WriteAvailable(n)
          PROVE  Window!WriteAvailable(n)
      <3>1. writer = "running" /\ totalSize + n <= MaxTotal
        BY <2>4 DEF WriteAvailable
      <3>2. Window!Full <=> count >= windowSize
        BY <2>1 DEF Window!Full, Window!Size, HeadPos
      <3>3. CASE Blocks
        BY <2>4, <3>2, <3>3
           DEF WriteAvailable, ParkWriter, Blocks, HeadPos, Window!WriteBlocks,
               Window!WriteAvailable
      <3>4. CASE ~Blocks
        <4>. DEFINE written == Written(n)
                    kept    == CountAfter(written)
        <4>1. /\ totalSize' = totalSize + written
              /\ count' = kept
              /\ UNCHANGED <<syncMode, windowSize, writer>>
          BY <2>4, <3>4 DEF WriteAvailable, StoreBytes
        <4>2. n \in Nat
          BY CirBufAssumption
        <4>3. CASE syncMode
          <5>1. count < windowSize
            BY <2>1, <3>4, <4>3 DEF Blocks
          <5>2. /\ written = Window!Smaller(n, windowSize - Window!Size)
                /\ kept = count + written
            BY <2>1, <4>2, <4>3, <5>1
               DEF Written, CountAfter, Smaller, Larger, Window!Smaller, Window!Size, HeadPos
          <5>3. written \in Nat
            BY <2>1, <4>2, <4>3, <5>1 DEF Written, Smaller
          <5>4. HeadPos' = HeadPos
            BY <2>1, <4>1, <5>2, <5>3 DEF HeadPos
          <5>5. Window!WriteSync(n)
            BY <2>1, <3>2, <4>1, <4>3, <5>1, <5>2, <5>4 DEF Window!WriteSync
          <5>. QED  BY <3>1, <5>5 DEF Window!WriteAvailable
        <4>4. CASE ~syncMode
          <5>1. /\ written = n
                /\ kept = IF windowSize <= count + n THEN windowSize ELSE count + n
            BY <2>1, <4>2, <4>4 DEF Written, CountAfter, Smaller, Larger
          <5>2. HeadPos' = Window!Larger(HeadPos, totalSize' - windowSize)
            BY <2>1, <4>1, <4>2, <5>1 DEF HeadPos, Window!Larger
          <5>3. Window!WriteAsync(n)
            BY <4>1, <4>4, <5>1, <5>2 DEF Window!WriteAsync
          <5>. QED  BY <3>1, <5>3 DEF Window!WriteAvailable
        <4>. QED  BY <4>3, <4>4
      <3>. QED  BY <3>3, <3>4
    <2>5. ASSUME NEW n \in 0 .. MaxSize, Consume(n)
          PROVE  Window!Consume(n)
      <3>1. n <= count /\ count' = count - n /\ UNCHANGED <<totalSize, syncMode, windowSize>>
        BY <2>5 DEF Consume
      <3>2. writer' = "running"
        BY <2>2, <2>5 DEF Consume, tryWakeWriter
      <3>3. HeadPos' = HeadPos + n /\ n <= Window!Size
        BY <2>1, <3>1 DEF HeadPos, Window!Size
      <3>. QED  BY <3>1, <3>2, <3>3 DEF Window!Consume
    <2>6. CASE UNCHANGED ringVars
      BY <2>6 DEF ringVars, Window!vars, HeadPos
    <2>. QED  BY <2>3, <2>4, <2>5, <2>6 DEF RingNext, Window!Next
  <1>. QED  BY <1>1, <1>2, RingInvariant, PTL DEF RingSpec, ImplementsWindow, Window!Spec

=============================================================================
