----------------------------- MODULE RouterProofs -----------------------------
(***************************************************************************)
(* Proofs about Router, for any links, routes and requests: nothing a link  *)
(* is sent overtakes anything else, and answers go back where they belong.  *)
(***************************************************************************)
EXTENDS Router, TLAPS

Kinds == {"request", "data", "last", "noroute", "refused"}

Places == {"new", "asked", "refused", "held", "answered", "lost", "done"}

Requests ==
  [by : Links \cup {NoLink}, to : Targets \cup {NoLink}, at : Places, left : Nat,
   holder : Links \cup {NoLink}]

InputItems == [rpc : Rpcs, kind : Kinds]

(* What TypeOK leaves out.                                                  *)
Shapes ==
  /\ TypeOK
  /\ rpc \in [Rpcs -> Requests]
  /\ inputCh \in Seq(InputItems)
  /\ Upstream = NoLink \/ link[Upstream] = "trusted"

(* The client of a link and its backlog hold the messages taken + 1 ..      *)
(* routed, in that order; what a link that is gone does not get is dropped. *)
IsQueue(state, n, first, second, total) ==
  /\ state # "gone" => n + Len(first) + Len(second) = total
  /\ state = "unknown" => second = << >>
  /\ Len(first) <= ClientCap
  /\ \A k \in 1 .. Len(first) : first[k].no = n + k
  /\ \A k \in 1 .. Len(second) : second[k].no = n + Len(first) + k

Queues == \A l \in Links : IsQueue(link[l], taken[l], client[l], backlog[l], routed[l])

Made(requests, i) == requests[i].at # "new"

(* Whatever the router holds of a request, that request was made, and what  *)
(* is registered for it is who made it.                                     *)
Registration ==
  /\ \A k \in 1 .. Len(inputCh) : Made(rpc, inputCh[k].rpc)
  /\ server # << >> => Made(rpc, server[1])
  /\ \A i \in Rpcs : rpcMap[i] # NoLink => Made(rpc, i) /\ rpcMap[i] = rpc[i].by

(* A message that may be on its way to a link.                              *)
Belongs(requests, m, l) ==
  /\ Made(requests, m.rpc)
  /\ m.kind \in {"data", "last"} => requests[m.rpc].by = l

Sent ==
  \A l \in Links :
    /\ \A k \in 1 .. Len(client[l]) : Belongs(rpc, client[l][k], l)
    /\ \A k \in 1 .. Len(backlog[l]) : Belongs(rpc, backlog[l][k], l)

IInv == Shapes /\ Queues /\ Registration /\ Sent

LEMMA InitIInv == Init => IInv
<1> SUFFICES ASSUME Init PROVE IInv
  OBVIOUS
<1> USE RouterAssumption DEF Init
<1>1. Shapes
  BY DEF Shapes, TypeOK, Requests, Places, Targets, Routes
<1>2. Queues
  BY DEF Queues, IsQueue
<1>3. Registration
  BY DEF Registration
<1>4. Sent
  BY DEF Sent
<1>5. QED
  BY <1>1, <1>2, <1>3, <1>4 DEF IInv

-----------------------------------------------------------------------------
(* One queue.                                                               *)

LEMMA AppendFirst ==
  ASSUME NEW state, NEW n \in Nat, NEW total \in Nat, NEW first \in Seq(Items), NEW m \in Items,
         IsQueue(state, n, first, << >>, total), state \notin {"gone", "unknown"}, m.no = total + 1,
         Len(first) < ClientCap
  PROVE  IsQueue(state, n, Append(first, m), << >>, total + 1)
<1> DEFINE longer == Append(first, m)
<1>1. Len(first) \in Nat /\ Len(longer) = Len(first) + 1 /\ longer[Len(first) + 1] = m
  OBVIOUS
<1>2. \A k \in 1 .. Len(first) : longer[k] = first[k]
  OBVIOUS
<1> HIDE DEF longer
<1>3. n + Len(first) = total
  BY <1>1 DEF IsQueue
<1>4. \A k \in 1 .. Len(longer) : longer[k].no = n + k
  <2> TAKE k \in 1 .. Len(longer)
  <2>1. CASE k = Len(first) + 1
    <3>1. n + k = total + 1
      BY <2>1, <1>1, <1>3
    <3>2. QED
      BY <2>1, <1>1, <3>1
  <2>2. CASE k \in 1 .. Len(first)
    BY <2>2, <1>2 DEF IsQueue
  <2>3. QED
    BY <2>1, <2>2, <1>1
<1>5. n + Len(longer) + Len(<< >>) = total + 1 /\ Len(longer) <= ClientCap
  BY <1>1, <1>3, RouterAssumption
<1>6. IsQueue(state, n, longer, << >>, total + 1)
  BY <1>4, <1>5 DEF IsQueue
<1>7. QED
  BY <1>6 DEF longer

LEMMA AppendSecond ==
  ASSUME NEW state, NEW n \in Nat, NEW total \in Nat, NEW first \in Seq(Items), NEW second \in Seq(Items),
         NEW m \in Items,
         IsQueue(state, n, first, second, total), state \notin {"gone", "unknown"}, m.no = total + 1
  PROVE  IsQueue(state, n, first, Append(second, m), total + 1)
<1>1. Append(second, m) \in Seq(Items) /\ Len(Append(second, m)) = Len(second) + 1
  OBVIOUS
<1>2. \A k \in 1 .. Len(second) : Append(second, m)[k] = second[k]
  OBVIOUS
<1>3. Append(second, m)[Len(second) + 1] = m
  OBVIOUS
<1>4. n + Len(first) + Len(second) = total
  BY DEF IsQueue
<1>5. ASSUME NEW k \in 1 .. Len(second) + 1
      PROVE  Append(second, m)[k].no = n + Len(first) + k
  <2>1. CASE k = Len(second) + 1
    BY <2>1, <1>3, <1>4
  <2>2. CASE k \in 1 .. Len(second)
    BY <2>2, <1>2 DEF IsQueue
  <2>3. QED
    BY <2>1, <2>2
<1>6. Len(first) \in Nat /\ Len(second) \in Nat
  OBVIOUS
<1> DEFINE longer == Append(second, m)
<1>7. Len(longer) = Len(second) + 1
  BY <1>1
<1> HIDE DEF longer
<1>8. n + Len(first) + Len(longer) = total + 1
  BY <1>4, <1>6, <1>7
<1>9. \A k \in 1 .. Len(longer) : longer[k].no = n + Len(first) + k
  BY <1>5, <1>7 DEF longer
<1>10. IsQueue(state, n, first, longer, total + 1)
  BY <1>8, <1>9 DEF IsQueue
<1>11. QED
  BY <1>10 DEF longer

LEMMA TakeFirst ==
  ASSUME NEW state, NEW n \in Nat, NEW total \in Nat, NEW first \in Seq(Items), NEW second \in Seq(Items),
         IsQueue(state, n, first, second, total), first # << >>
  PROVE  IsQueue(state, n + 1, Tail(first), second, total)
<1> DEFINE shorter == Tail(first)
<1>1. Len(first) \in Nat /\ Len(first) > 0 /\ Len(second) \in Nat
  OBVIOUS
<1>2. shorter \in Seq(Items) /\ Len(shorter) = Len(first) - 1 /\ \A k \in 1 .. Len(shorter) : shorter[k] = first[k + 1]
  OBVIOUS
<1> HIDE DEF shorter
<1>3. \A k \in 1 .. Len(shorter) : shorter[k].no = n + 1 + k
  <2> TAKE k \in 1 .. Len(shorter)
  <2>1. shorter[k] = first[k + 1] /\ k + 1 \in 1 .. Len(first)
    BY <1>1, <1>2
  <2>2. first[k + 1].no = n + (k + 1)
    BY <2>1 DEF IsQueue
  <2>3. QED
    BY <2>1, <2>2
<1>4. \A k \in 1 .. Len(second) : second[k].no = n + 1 + Len(shorter) + k
  <2> TAKE k \in 1 .. Len(second)
  <2>1. second[k].no = n + Len(first) + k
    BY DEF IsQueue
  <2>2. n + Len(first) + k = n + 1 + Len(shorter) + k
    BY <1>1, <1>2
  <2>3. QED
    BY <2>1, <2>2, Zenon
<1>5. n + 1 + Len(shorter) + Len(second) = n + Len(first) + Len(second)
  BY <1>1, <1>2
<1>6. IsQueue(state, n + 1, shorter, second, total)
  <2>1. Len(shorter) <= ClientCap
    BY <1>1, <1>2, RouterAssumption DEF IsQueue
  <2>2. QED
    BY <1>3, <1>4, <1>5, <2>1, Zenon DEF IsQueue
<1>7. QED
  BY <1>6 DEF shorter

LEMMA MoveOver ==
  ASSUME NEW state, NEW n \in Nat, NEW total \in Nat, NEW first \in Seq(Items), NEW second \in Seq(Items),
         IsQueue(state, n, first, second, total), NEW r \in 0 .. Len(second),
         Len(first) + r <= ClientCap
  PROVE  IsQueue(state, n, first \o SubSeq(second, 1, r), SubSeq(second, r + 1, Len(second)), total)
<1> DEFINE moved == SubSeq(second, 1, r)
           rest == SubSeq(second, r + 1, Len(second))
<1>0. Len(first) \in Nat
  OBVIOUS
<1>1. moved \in Seq(Items) /\ Len(moved) = r /\ \A k \in 1 .. r : moved[k] = second[k]
  OBVIOUS
<1>2. rest \in Seq(Items) /\ Len(rest) = Len(second) - r /\ \A k \in 1 .. Len(rest) : rest[k] = second[k + r]
  OBVIOUS
<1>3. first \o moved \in Seq(Items) /\ Len(first \o moved) = Len(first) + r
  BY <1>1
<1>4. \A k \in 1 .. Len(first) + r : (first \o moved)[k] = IF k <= Len(first) THEN first[k] ELSE moved[k - Len(first)]
  BY <1>1
<1> HIDE DEF moved, rest
<1>5. \A k \in 1 .. Len(first) + r : (first \o moved)[k].no = n + k
  <2> TAKE k \in 1 .. Len(first) + r
  <2>1. CASE k <= Len(first)
    BY <2>1, <1>4 DEF IsQueue
  <2>2. CASE ~(k <= Len(first))
    <3> DEFINE j == k - Len(first)
    <3>1. j \in 1 .. r
      BY <2>2, <1>0
    <3>2. (first \o moved)[k] = second[j] /\ j \in 1 .. Len(second) /\ k = Len(first) + j
      BY <2>2, <3>1, <1>1, <1>4
    <3> HIDE DEF j
    <3>3. second[j].no = n + Len(first) + j
      BY <3>2 DEF IsQueue
    <3>4. n + Len(first) + j = n + k
      BY <1>0, <3>1 DEF j
    <3>5. QED
      BY <3>2, <3>3, <3>4
  <2>3. QED
    BY <2>1, <2>2
<1>6. \A k \in 1 .. Len(rest) : rest[k].no = n + Len(first) + r + k
  <2> TAKE k \in 1 .. Len(rest)
  <2>1. k + r \in 1 .. Len(second) /\ rest[k] = second[k + r]
    BY <1>2
  <2>2. second[k + r].no = n + Len(first) + (k + r)
    BY <2>1 DEF IsQueue
  <2>3. n + Len(first) + (k + r) = n + Len(first) + r + k
    BY <1>0, <1>2
  <2>4. QED
    BY <2>1, <2>2, <2>3
<1>7. n + Len(first \o moved) + Len(rest) = n + Len(first) + Len(second)
  BY <1>0, <1>2, <1>3
<1>8. second = << >> => rest = << >>
  BY <1>2
<1> DEFINE longer == first \o moved
<1>9. Len(longer) = Len(first) + r
  BY <1>3
<1> HIDE DEF longer
<1>10. \A k \in 1 .. Len(longer) : longer[k].no = n + k
  BY <1>5, <1>9 DEF longer
<1>11. \A k \in 1 .. Len(rest) : rest[k].no = n + Len(longer) + k
  BY <1>0, <1>6, <1>9
<1>12. state # "gone" => n + Len(longer) + Len(rest) = total
  BY <1>7 DEF longer, IsQueue
<1>13. state = "unknown" => rest = << >>
  BY <1>8 DEF IsQueue
<1>14. IsQueue(state, n, longer, rest, total)
  <2>1. Len(longer) <= ClientCap
    BY <1>9
  <2>2. QED
    BY <1>10, <1>11, <1>12, <1>13, <2>1, Zenon DEF IsQueue
<1>15. QED
  BY <1>14 DEF longer, moved, rest

(* The messages of two queues put together, and of the parts of one.        *)
LEMMA ConcatMembers ==
  ASSUME NEW first \in Seq(Items), NEW second \in Seq(Items), NEW k \in 1 .. Len(first \o second)
  PROVE  \/ k \in 1 .. Len(first) /\ (first \o second)[k] = first[k]
         \/ k - Len(first) \in 1 .. Len(second) /\ (first \o second)[k] = second[k - Len(first)]
<1>1. Len(first) \in Nat /\ Len(second) \in Nat /\ Len(first \o second) = Len(first) + Len(second)
  OBVIOUS
<1>2. CASE k <= Len(first)
  BY <1>1, <1>2
<1>3. CASE ~(k <= Len(first))
  BY <1>1, <1>3
<1>4. QED
  BY <1>2, <1>3

LEMMA ConcatParts ==
  ASSUME NEW first \in Seq(Items), NEW second \in Seq(Items), NEW r \in 0 .. Len(second)
  PROVE  LET moved == SubSeq(second, 1, r)
             rest == SubSeq(second, r + 1, Len(second))
         IN  /\ \A k \in 1 .. Len(first \o moved) :
                  \/ \E j \in 1 .. Len(first) : (first \o moved)[k] = first[j]
                  \/ \E j \in 1 .. Len(second) : (first \o moved)[k] = second[j]
             /\ \A k \in 1 .. Len(rest) : \E j \in 1 .. Len(second) : rest[k] = second[j]
<1> DEFINE moved == SubSeq(second, 1, r)
           rest == SubSeq(second, r + 1, Len(second))
<1>1. moved \in Seq(Items) /\ Len(moved) = r /\ \A k \in 1 .. r : moved[k] = second[k]
  OBVIOUS
<1>2. Len(rest) = Len(second) - r /\ \A k \in 1 .. Len(rest) : rest[k] = second[k + r]
  OBVIOUS
<1>3. r \in Nat /\ r <= Len(second) /\ Len(second) \in Nat
  OBVIOUS
<1> HIDE DEF moved, rest
<1>4. \A k \in 1 .. Len(rest) : k + r \in 1 .. Len(second)
  BY <1>2, <1>3
<1>5. \A k \in 1 .. Len(moved) : k \in 1 .. Len(second)
  BY <1>1, <1>3
<1>6. \A k \in 1 .. Len(first \o moved) :
        \/ \E j \in 1 .. Len(first) : (first \o moved)[k] = first[j]
        \/ \E j \in 1 .. Len(second) : (first \o moved)[k] = second[j]
  <2> TAKE k \in 1 .. Len(first \o moved)
  <2>1. \/ k \in 1 .. Len(first) /\ (first \o moved)[k] = first[k]
        \/ k - Len(first) \in 1 .. Len(moved) /\ (first \o moved)[k] = moved[k - Len(first)]
    BY <1>1, ConcatMembers
  <2>2. QED
    BY <2>1, <1>1, <1>5
<1>7. QED
  BY <1>2, <1>4, <1>6 DEF moved, rest

LEMMA WholeQueue ==
  ASSUME NEW state, NEW n \in Nat, NEW total \in Nat, NEW first \in Seq(Items), NEW second \in Seq(Items),
         IsQueue(state, n, first, second, total), NEW k \in 1 .. Len(first \o second)
  PROVE  (first \o second)[k].no = n + k
<1>1. CASE k \in 1 .. Len(first) /\ (first \o second)[k] = first[k]
  BY <1>1 DEF IsQueue
<1>2. CASE k - Len(first) \in 1 .. Len(second) /\ (first \o second)[k] = second[k - Len(first)]
  <2>1. second[k - Len(first)].no = n + Len(first) + (k - Len(first))
    BY <1>2 DEF IsQueue
  <2>2. n + Len(first) + (k - Len(first)) = n + k
    OBVIOUS
  <2>3. QED
    BY <1>2, <2>1, <2>2
<1>3. QED
  BY <1>1, <1>2, ConcatMembers

-----------------------------------------------------------------------------
(* Sending.                                                                 *)

(* What a queue holds after a step it held before, or it is the message m   *)
(* that was sent to the link l.                                             *)
OnlyAdds(queue, queue2, l, m) ==
  \A h \in Links : \A k \in 1 .. Len(queue2[h]) :
    \/ \E j \in 1 .. Len(queue[h]) : queue2[h][k] = queue[h][j]
    \/ h = l /\ queue2[h][k] = m

(* sendRpcMessageToLink puts its message behind all others of its link.     *)
LEMMA SendToLinkKeepsOrder ==
  ASSUME NEW l \in Links, NEW i \in Rpcs, NEW kind \in Kinds,
         TypeOK, Queues, SendToLink(l, i, kind),
         link[l] \notin {"gone", "unknown"}, UNCHANGED <<link, taken>>
  PROVE  /\ client' \in [Links -> Seq(Items)]
         /\ backlog' \in [Links -> Seq(Items)]
         /\ pump' \in {"waiting", "awake", "sleeping"}
         /\ routed' \in [Links -> Nat]
         /\ Queues'
         /\ \E no \in Nat :
              LET m == [rpc |-> i, kind |-> kind, no |-> no]
              IN  OnlyAdds(client, client', l, m) /\ OnlyAdds(backlog, backlog', l, m)
<1> DEFINE m == [rpc |-> i, kind |-> kind, no |-> routed[l] + 1]
<1> USE DEF TypeOK
<1>1. m \in Items /\ m.no = routed[l] + 1
  BY DEF Items, Kinds
<1>2. routed' = [routed EXCEPT ![l] = @ + 1] /\ routed' \in [Links -> Nat]
  BY DEF SendToLink
<1>3. taken[l] \in Nat /\ routed[l] \in Nat /\ client[l] \in Seq(Items) /\ backlog[l] \in Seq(Items)
  OBVIOUS
<1>4. IsQueue(link[l], taken[l], client[l], backlog[l], routed[l])
  BY DEF Queues
<1>5. CASE Direct(l)
  <2>1. client' = [client EXCEPT ![l] = Append(@, m)] /\ backlog' = backlog /\ pump' = pump
    BY <1>5 DEF SendToLink
  <2>2. client' \in [Links -> Seq(Items)]
    BY <2>1, <1>1
  <2>3. IsQueue(link[l], taken[l], Append(client[l], m), << >>, routed[l] + 1)
    BY <1>1, <1>3, <1>4, <1>5, AppendFirst DEF Direct
  <2>4. Queues'
    BY <2>1, <2>3, <1>2, <1>5 DEF Queues, Direct
  <2>5. OnlyAdds(client, client', l, m) /\ OnlyAdds(backlog, backlog', l, m)
    BY <2>1, <1>1 DEF OnlyAdds
  <2>6. QED
    BY <2>1, <2>2, <2>4, <2>5, <1>2
<1>6. CASE ~Direct(l)
  <2>1. backlog' = [backlog EXCEPT ![l] = Append(@, m)] /\ client' = client /\ pump' = Signalled
    BY <1>6 DEF SendToLink
  <2>2. backlog' \in [Links -> Seq(Items)]
    BY <2>1, <1>1
  <2>3. IsQueue(link[l], taken[l], client[l], Append(backlog[l], m), routed[l] + 1)
    BY <1>1, <1>3, <1>4, AppendSecond
  <2>4. Queues'
    BY <2>1, <2>3, <1>2 DEF Queues
  <2>5. OnlyAdds(client, client', l, m) /\ OnlyAdds(backlog, backlog', l, m)
    BY <2>1, <1>1 DEF OnlyAdds
  <2>6. QED
    BY <2>1, <2>2, <2>4, <2>5, <1>2 DEF Signalled
<1>7. QED
  BY <1>5, <1>6

(* If that message belongs where it was sent, and no request changes hands, *)
(* everything on its way still belongs there.                               *)
LEMMA SendToLinkKeepsSent ==
  ASSUME NEW l \in Links, NEW i \in Rpcs, NEW kind \in Kinds,
         TypeOK, Queues, Sent, SendToLink(l, i, kind),
         link[l] \notin {"gone", "unknown"}, UNCHANGED <<link, taken>>,
         \A j \in Rpcs : Made(rpc, j) => Made(rpc', j) /\ rpc'[j].by = rpc[j].by,
         Made(rpc', i), kind \in {"data", "last"} => rpc'[i].by = l
  PROVE  Sent'
<1>1. PICK no \in Nat :
        LET m == [rpc |-> i, kind |-> kind, no |-> no]
        IN  OnlyAdds(client, client', l, m) /\ OnlyAdds(backlog, backlog', l, m)
  BY SendToLinkKeepsOrder
<1> DEFINE m == [rpc |-> i, kind |-> kind, no |-> no]
<1>2. Belongs(rpc', m, l)
  BY DEF Belongs, Made
<1>3. \A q \in Items, h \in Links : Belongs(rpc, q, h) => Belongs(rpc', q, h)
  BY DEF Belongs, Items, Made
<1>4. \A h \in Links : \A k \in 1 .. Len(client[h]) : client[h][k] \in Items
  BY DEF TypeOK
<1>5. \A h \in Links : \A k \in 1 .. Len(backlog[h]) : backlog[h][k] \in Items
  BY DEF TypeOK
<1>6. \A h \in Links : \A k \in 1 .. Len(client'[h]) : Belongs(rpc', client'[h][k], h)
  <2> TAKE h \in Links
  <2> TAKE k \in 1 .. Len(client'[h])
  <2>1. CASE h = l /\ client'[h][k] = m
    BY <2>1, <1>2
  <2>2. CASE \E j \in 1 .. Len(client[h]) : client'[h][k] = client[h][j]
    BY <2>2, <1>3, <1>4 DEF Sent
  <2>3. QED
    BY <2>1, <2>2, <1>1 DEF OnlyAdds
<1>7. \A h \in Links : \A k \in 1 .. Len(backlog'[h]) : Belongs(rpc', backlog'[h][k], h)
  <2> TAKE h \in Links
  <2> TAKE k \in 1 .. Len(backlog'[h])
  <2>1. CASE h = l /\ backlog'[h][k] = m
    BY <2>1, <1>2
  <2>2. CASE \E j \in 1 .. Len(backlog[h]) : backlog'[h][k] = backlog[h][j]
    BY <2>2, <1>3, <1>5 DEF Sent
  <2>3. QED
    BY <2>1, <2>2, <1>1 DEF OnlyAdds
<1>8. QED
  BY <1>6, <1>7 DEF Sent

-----------------------------------------------------------------------------
(* One lemma for each action that moves messages.                           *)

LEMMA DestinationIsRegistered ==
  ASSUME Shapes, NEW target, NEW l \in Destination(target)
  PROVE  l \in Links /\ link[l] \notin {"gone", "unknown"}
  BY RouterAssumption DEF Destination, Local, Registered, Leaves, Shapes, TypeOK

(* The next message for runServer.                                          *)
LEMMA InputHead ==
  ASSUME Shapes, Registration, inputCh # << >>
  PROVE  /\ Head(inputCh).rpc \in Rpcs /\ Made(rpc, Head(inputCh).rpc) /\ Head(inputCh).kind \in Kinds
         /\ Tail(inputCh) \in Seq(InputItems)
         /\ \A k \in 1 .. Len(Tail(inputCh)) : Made(rpc, Tail(inputCh)[k].rpc)
<1>1. inputCh \in Seq(InputItems) /\ Len(inputCh) \in Nat /\ Len(inputCh) > 0
  BY DEF Shapes
<1>2. Head(inputCh) = inputCh[1]
  BY <1>1
<1>2a. inputCh[1] \in InputItems
  BY <1>1
<1>3. Tail(inputCh) \in Seq(InputItems)
  BY <1>1
<1>4. \A k \in 1 .. Len(Tail(inputCh)) : k + 1 \in 1 .. Len(inputCh) /\ Tail(inputCh)[k] = inputCh[k + 1]
  BY <1>1
<1>5. QED
  BY <1>1, <1>2, <1>2a, <1>3, <1>4 DEF Registration, InputItems

LEMMA RequestMoves ==
  ASSUME NEW i \in Rpcs, NEW request \in Requests, rpc \in [Rpcs -> Requests],
         rpc' = [rpc EXCEPT ![i] = request], request.at # "new", request.by = rpc[i].by
  PROVE  /\ rpc' \in [Rpcs -> Requests]
         /\ \A j \in Rpcs : Made(rpc, j) => Made(rpc', j) /\ rpc'[j].by = rpc[j].by
  BY DEF Made

(* A step that changes nothing but where requests that are made have got to. *)
LEMMA SentStays ==
  ASSUME TypeOK, Sent, UNCHANGED <<client, backlog>>,
         \A j \in Rpcs : Made(rpc, j) => Made(rpc', j) /\ rpc'[j].by = rpc[j].by
  PROVE  Sent'
<1>1. \A q \in Items, h \in Links : Belongs(rpc, q, h) => Belongs(rpc', q, h)
  BY DEF Belongs, Items
<1>2. \A h \in Links : \A k \in 1 .. Len(client[h]) : client[h][k] \in Items
  BY DEF TypeOK
<1>3. \A h \in Links : \A k \in 1 .. Len(backlog[h]) : backlog[h][k] \in Items
  BY DEF TypeOK
<1>4. QED
  BY <1>1, <1>2, <1>3 DEF Sent

LEMMA RegistrationStays ==
  ASSUME Shapes, Registration, UNCHANGED <<rpcMap, server, inputCh>>,
         \A j \in Rpcs : Made(rpc, j) => Made(rpc', j) /\ rpc'[j].by = rpc[j].by
  PROVE  Registration'
<1>1. \A k \in 1 .. Len(inputCh) : inputCh[k] \in InputItems
  BY DEF Shapes
<1>2. \A k \in 1 .. Len(inputCh) : inputCh[k].rpc \in Rpcs
  BY <1>1 DEF InputItems
<1>3. server # << >> => server[1] \in Rpcs
  BY DEF Shapes, TypeOK
<1>4. QED
  BY <1>2, <1>3 DEF Registration

LEMMA RouteRequestKeeps == IInv /\ RouteRequest => IInv'
<1> SUFFICES ASSUME IInv, RouteRequest PROVE IInv'
  OBVIOUS
<1> USE DEF IInv
<1>1. server = << >> /\ inputCh # << >> /\ inputCh' = Tail(inputCh)
  BY DEF RouteRequest
<1>2. UNCHANGED <<link, closing, routeMap, rpcMap, rpc, taken>>
  BY DEF RouteRequest, linkVars
<1> DEFINE i == Head(inputCh).rpc
<1>3. i \in Rpcs /\ Made(rpc, i) /\ \A j \in Rpcs : Made(rpc', j) <=> Made(rpc, j)
  BY <1>1, <1>2, InputHead DEF Made
<1>4. inputCh' \in Seq(InputItems) /\ \A k \in 1 .. Len(inputCh') : Made(rpc, inputCh'[k].rpc)
  BY <1>1, InputHead
<1>5. server' \in {<< >>, <<i>>}
  BY <1>1 DEF RouteRequest
<1>6. Registration'
  BY <1>2, <1>3, <1>4, <1>5 DEF Registration, Made
<1>7. \/ UNCHANGED queueVars
      \/ \E target : \E l \in Destination(target) : \E kind \in {"request", "noroute"} : SendToLink(l, i, kind)
  BY <1>1 DEF RouteRequest
<1>8. CASE UNCHANGED queueVars
  <2>1. Shapes'
    BY <1>2, <1>3, <1>4, <1>5, <1>8 DEF Shapes, TypeOK, queueVars
  <2>2. Queues' /\ Sent'
    BY <1>2, <1>8 DEF Queues, Sent, queueVars
  <2>3. QED
    BY <2>1, <2>2, <1>6
<1>9. ASSUME NEW target, NEW l \in Destination(target), NEW kind \in {"request", "noroute"}, SendToLink(l, i, kind)
      PROVE  IInv'
  <2>1. l \in Links /\ link[l] \notin {"gone", "unknown"} /\ kind \in Kinds
    BY DestinationIsRegistered DEF Kinds
  <2>2. Shapes' /\ Queues'
    BY <1>2, <1>3, <1>4, <1>5, <1>9, <2>1, SendToLinkKeepsOrder DEF Shapes, TypeOK
  <2>3. Sent'
    BY <1>2, <1>3, <1>9, <2>1, SendToLinkKeepsSent DEF Shapes
  <2>4. QED
    BY <2>2, <2>3, <1>6
<1> HIDE DEF i
<1>10. QED
  BY <1>7, <1>8, <1>9, Zenon

LEMMA RegisterRouteInfoKeeps == IInv /\ RegisterRouteInfo => IInv'
<1> SUFFICES ASSUME IInv, RegisterRouteInfo PROVE IInv'
  OBVIOUS
<1> USE DEF IInv
<1>1. /\ server # << >> /\ server' = << >>
      /\ rpcMap' = [rpcMap EXCEPT ![server[1]] = rpc[server[1]].by]
      /\ UNCHANGED <<link, closing, routeMap, inputCh, backlog, client, pump, routed, rpc, taken>>
  BY DEF RegisterRouteInfo, linkVars, queueVars
<1>2. server[1] \in Rpcs /\ Made(rpc, server[1])
  BY <1>1 DEF Shapes, TypeOK, Registration
<1>3. rpc[server[1]].by \in Links \cup {NoLink}
  BY <1>2 DEF Shapes, Requests
<1>4. Shapes'
  BY <1>1, <1>2, <1>3 DEF Shapes, TypeOK
<1>5. Registration'
  BY <1>1, <1>2 DEF Registration, Made, Shapes, TypeOK
<1>6. Queues' /\ Sent'
  BY <1>1 DEF Queues, Sent
<1>7. QED
  BY <1>4, <1>5, <1>6

LEMMA RouteResponseKeeps == IInv /\ RouteResponse => IInv'
<1> SUFFICES ASSUME IInv, RouteResponse PROVE IInv'
  OBVIOUS
<1> USE DEF IInv
<1> DEFINE i == Head(inputCh).rpc
           kind == Head(inputCh).kind
           to == rpcMap[i]
<1>1. server = << >> /\ inputCh # << >> /\ inputCh' = Tail(inputCh) /\ kind \in {"data", "last"}
  BY DEF RouteResponse
<1>2. UNCHANGED <<link, closing, routeMap, server, rpc, taken>>
  BY DEF RouteResponse, linkVars
<1>3. i \in Rpcs /\ Made(rpc, i) /\ kind \in Kinds /\ \A j \in Rpcs : Made(rpc', j) <=> Made(rpc, j)
  BY <1>1, <1>2, InputHead DEF Made
<1>4. inputCh' \in Seq(InputItems) /\ \A k \in 1 .. Len(inputCh') : Made(rpc, inputCh'[k].rpc)
  BY <1>1, InputHead
<1>5. rpcMap' \in {rpcMap, [rpcMap EXCEPT ![i] = NoLink]}
  BY <1>1 DEF RouteResponse
<1>6. rpcMap' \in [Rpcs -> Links \cup {NoLink}]
  BY <1>3, <1>5 DEF Shapes, TypeOK
<1>7. Registration'
  BY <1>2, <1>3, <1>4, <1>5 DEF Registration, Made, Shapes, TypeOK
<1>8. \/ UNCHANGED queueVars
      \/ to # NoLink /\ Registered(to) /\ SendToLink(to, i, kind)
  BY DEF RouteResponse
<1>9. CASE UNCHANGED queueVars
  <2>1. Shapes'
    BY <1>2, <1>3, <1>4, <1>6, <1>9 DEF Shapes, TypeOK, queueVars
  <2>2. Queues' /\ Sent'
    BY <1>2, <1>9 DEF Queues, Sent, queueVars
  <2>3. QED
    BY <2>1, <2>2, <1>7
<1>10. CASE to # NoLink /\ Registered(to) /\ SendToLink(to, i, kind)
  <2>1. to \in Links /\ link[to] \notin {"gone", "unknown"}
    BY <1>3, <1>10 DEF Shapes, TypeOK, Registered
  <2>2. rpc[i].by = to
    BY <1>3, <1>10 DEF Registration
  <2>3. Shapes' /\ Queues'
    BY <1>2, <1>3, <1>4, <1>6, <1>10, <2>1, SendToLinkKeepsOrder DEF Shapes, TypeOK
  <2>4. Sent'
    <3> HIDE DEF i, kind, to
    <3>1. SendToLink(to, i, kind) /\ Made(rpc', i) /\ rpc'[i].by = to
      BY <1>2, <1>3, <1>10, <2>2
    <3>2. QED
      BY <1>2, <1>3, <3>1, <2>1, SendToLinkKeepsSent DEF Shapes
  <2>5. QED
    BY <2>3, <2>4, <1>7
<1>11. QED
  BY <1>8, <1>9, <1>10

(* What a leaf asks for is put into inputCh, or refused.                    *)
LEMMA RecvRequestKeeps ==
  ASSUME NEW l \in Links, NEW i \in Rpcs, NEW target \in Targets, IInv, RecvRequest(l, i, target)
  PROVE  IInv'
<1> USE DEF IInv
<1>1. UNCHANGED <<link, closing, routeMap, rpcMap, server, taken>>
  BY DEF RecvRequest, linkVars
<1>2. \E place \in {"asked", "refused"} : rpc' = [rpc EXCEPT ![i].by = l, ![i].to = target, ![i].at = place]
  BY DEF RecvRequest
<1>3. ~Made(rpc, i) /\ Made(rpc', i) /\ rpc'[i].by = l /\ \A j \in Rpcs \ {i} : rpc'[j] = rpc[j]
  BY <1>2 DEF Made, RecvRequest, Shapes, Requests
<1>4. \A j \in Rpcs : Made(rpc, j) => Made(rpc', j) /\ rpc'[j].by = rpc[j].by
  BY <1>3 DEF Made
<1>5. rpc' \in [Rpcs -> Requests]
  <2>1. rpc[i] \in Requests
    BY DEF Shapes
  <2>2. [rpc[i] EXCEPT !.by = l, !.to = target, !.at = "asked"] \in Requests
    BY <2>1 DEF Requests, Places
  <2>3. [rpc[i] EXCEPT !.by = l, !.to = target, !.at = "refused"] \in Requests
    BY <2>1 DEF Requests, Places
  <2>4. rpc' \in {[rpc EXCEPT ![i] = [@ EXCEPT !.by = l, !.to = target, !.at = "asked"]],
                   [rpc EXCEPT ![i] = [@ EXCEPT !.by = l, !.to = target, !.at = "refused"]]}
    BY <1>2, Zenon
  <2>5. QED
    BY <2>2, <2>3, <2>4 DEF Shapes
<1>6. link[l] \notin {"gone", "unknown"}
  BY DEF RecvRequest, Registered
<1>7. CASE UNCHANGED queueVars /\ Receive(i, "request")
  <2>1. inputCh' = Append(inputCh, [rpc |-> i, kind |-> "request"]) /\ [rpc |-> i, kind |-> "request"] \in InputItems
    BY <1>7 DEF Receive, InputItems, Kinds
  <2>2. Shapes'
    BY <1>1, <1>5, <1>7, <2>1 DEF Shapes, TypeOK, queueVars
  <2>3. \A k \in 1 .. Len(inputCh') : Made(rpc', inputCh'[k].rpc)
    <3> SUFFICES ASSUME NEW k \in 1 .. Len(inputCh') PROVE Made(rpc', inputCh'[k].rpc)
      OBVIOUS
    <3>1. CASE k = Len(inputCh) + 1
      BY <2>1, <3>1, <1>3 DEF Shapes
    <3>2. CASE k # Len(inputCh) + 1
      <4>1. k \in 1 .. Len(inputCh) /\ inputCh'[k] = inputCh[k] /\ inputCh[k] \in InputItems
        BY <2>1, <3>2 DEF Shapes
      <4>2. Made(rpc, inputCh[k].rpc)
        BY <4>1 DEF Registration
      <4>3. QED
        BY <4>1, <4>2, <1>4 DEF InputItems
    <3>3. QED
      BY <3>1, <3>2
  <2>4. Registration'
    BY <2>3, <1>1, <1>4 DEF Registration, Made, Shapes, TypeOK
  <2>5. Queues'
    BY <1>1, <1>7 DEF Queues, queueVars
  <2>6. Sent'
    BY <1>4, <1>7, SentStays DEF queueVars, Shapes
  <2>7. QED
    BY <2>2, <2>4, <2>5, <2>6
<1>8. CASE SendToLink(l, i, "refused") /\ UNCHANGED inputCh
  <2>1. "refused" \in Kinds
    BY DEF Kinds
  <2>2. Shapes' /\ Queues'
    BY <1>1, <1>5, <1>6, <1>8, <2>1, SendToLinkKeepsOrder DEF Shapes, TypeOK
  <2>3. Registration'
    BY <1>1, <1>4, <1>8, RegistrationStays
  <2>4. Sent'
    BY <1>1, <1>3, <1>4, <1>6, <1>8, <2>1, SendToLinkKeepsSent DEF Shapes
  <2>5. QED
    BY <2>2, <2>3, <2>4
<1>9. QED
  BY <1>7, <1>8 DEF RecvRequest

LEMMA AppendInput ==
  ASSUME Shapes, Registration, NEW m \in InputItems, inputCh' = Append(inputCh, m),
         Made(rpc', m.rpc), UNCHANGED <<rpcMap, server>>,
         \A j \in Rpcs : Made(rpc, j) => Made(rpc', j) /\ rpc'[j].by = rpc[j].by
  PROVE  inputCh' \in Seq(InputItems) /\ Registration'
<1>1. inputCh' \in Seq(InputItems)
  BY DEF Shapes
<1>2. \A k \in 1 .. Len(inputCh') : Made(rpc', inputCh'[k].rpc)
  <2> SUFFICES ASSUME NEW k \in 1 .. Len(inputCh') PROVE Made(rpc', inputCh'[k].rpc)
    OBVIOUS
  <2>1. CASE k = Len(inputCh) + 1
    BY <2>1 DEF Shapes
  <2>2. CASE k # Len(inputCh) + 1
    <3>1. k \in 1 .. Len(inputCh) /\ inputCh'[k] = inputCh[k] /\ inputCh[k] \in InputItems
      BY <2>2 DEF Shapes
    <3>2. Made(rpc, inputCh[k].rpc)
      BY <3>1 DEF Registration
    <3>3. QED
      BY <3>1, <3>2 DEF InputItems
  <2>3. QED
    BY <2>1, <2>2
<1>3. server # << >> => server[1] \in Rpcs
  BY DEF Shapes, TypeOK
<1>4. QED
  BY <1>1, <1>2, <1>3 DEF Registration

LEMMA RecvResponseKeeps ==
  ASSUME NEW l \in Links, NEW i \in Rpcs, NEW kind \in {"data", "last"}, IInv, RecvResponse(l, i, kind)
  PROVE  IInv'
<1> USE DEF IInv
<1>1. /\ rpc[i].at = "held"
      /\ kind = "data" => rpc[i].left > 0
      /\ UNCHANGED <<link, closing, routeMap, rpcMap, server, backlog, client, pump, routed, taken>>
  BY DEF RecvResponse, linkVars, queueVars
<1>2. \/ rpc' = [rpc EXCEPT ![i].at = "lost"]
      \/ kind = "last" /\ rpc' = [rpc EXCEPT ![i].at = "answered", ![i].left = @]
      \/ kind = "data" /\ rpc' = [rpc EXCEPT ![i].at = @, ![i].left = @ - 1]
  BY DEF RecvResponse
<1>3. rpc[i] \in Requests /\ rpc \in [Rpcs -> Requests] /\ Made(rpc, i)
  <2>1. rpc \in [Rpcs -> Requests]
    BY DEF Shapes
  <2>2. Made(rpc, i)
    BY <1>1 DEF Made
  <2>3. QED
    BY <2>1, <2>2
<1>4. [rpc[i] EXCEPT !.at = "lost"] \in Requests /\ [rpc[i] EXCEPT !.at = "answered", !.left = @] \in Requests
  BY <1>3 DEF Requests, Places
<1>5. ASSUME kind = "data" PROVE [rpc[i] EXCEPT !.at = @, !.left = @ - 1] \in Requests
  <2>0. rpc[i].left > 0
    BY <1>1, <1>5, Zenon
  <2>1. rpc[i].left \in Nat
    BY <1>3 DEF Requests
  <2>2. rpc[i].left - 1 \in Nat
    BY <2>0, <2>1
  <2>3. QED
    BY <1>3, <2>2 DEF Requests
<1>6. rpc' \in [Rpcs -> Requests] /\ \A j \in Rpcs : Made(rpc, j) => Made(rpc', j) /\ rpc'[j].by = rpc[j].by
  <2>1. CASE rpc' = [rpc EXCEPT ![i].at = "lost"]
    <3> DEFINE request == [rpc[i] EXCEPT !.at = "lost"]
    <3>1. rpc' = [rpc EXCEPT ![i] = request] /\ request.at # "new" /\ request.by = rpc[i].by
      BY <2>1, <1>3 DEF Requests
    <3>2. QED
      BY <3>1, <1>3, <1>4, RequestMoves
  <2>2. CASE rpc' = [rpc EXCEPT ![i].at = "answered", ![i].left = @]
    <3> DEFINE request == [rpc[i] EXCEPT !.at = "answered", !.left = @]
    <3>1. rpc' = [rpc EXCEPT ![i] = request]
      BY <2>2, Zenon
    <3>2. request.at # "new" /\ request.by = rpc[i].by
      BY <1>3 DEF Requests
    <3>3. QED
      BY <3>1, <3>2, <1>3, <1>4, RequestMoves
  <2>3. CASE kind = "data" /\ rpc' = [rpc EXCEPT ![i].at = @, ![i].left = @ - 1]
    <3> DEFINE request == [rpc[i] EXCEPT !.at = @, !.left = @ - 1]
    <3>1. rpc' = [rpc EXCEPT ![i] = request]
      BY <2>3, Zenon
    <3>2. request.at = "held" /\ request.by = rpc[i].by
      BY <1>1, <1>3 DEF Requests
    <3>3. QED
      BY <2>3, <3>1, <3>2, <1>3, <1>5, RequestMoves
  <2>4. QED
    BY <1>2, <2>1, <2>2, <2>3
<1>7. \A j \in Rpcs : Made(rpc, j) => Made(rpc', j) /\ rpc'[j].by = rpc[j].by
  BY <1>6
<1>8. \/ UNCHANGED inputCh
      \/ inputCh' = Append(inputCh, [rpc |-> i, kind |-> kind])
  BY DEF RecvResponse, Receive
<1>9. [rpc |-> i, kind |-> kind] \in InputItems
  BY DEF InputItems, Kinds
<1>10. inputCh' \in Seq(InputItems) /\ Registration'
  <2>1. CASE UNCHANGED inputCh
    BY <1>1, <1>7, <2>1, RegistrationStays DEF Shapes
  <2>2. CASE inputCh' = Append(inputCh, [rpc |-> i, kind |-> kind])
    BY <1>1, <1>3, <1>7, <1>9, <2>2, AppendInput
  <2>3. QED
    BY <1>8, <2>1, <2>2
<1>11. Shapes'
  BY <1>1, <1>6, <1>10 DEF Shapes, TypeOK
<1>12. Queues' /\ Sent'
  BY <1>1, <1>7, SentStays DEF Queues, Shapes
<1>13. QED
  BY <1>10, <1>11, <1>12

LEMMA DeliverKeeps ==
  ASSUME NEW l \in Links, IInv, Deliver(l)
  PROVE  IInv'
<1> USE DEF IInv
<1> DEFINE m == Head(client[l])
<1>1. /\ client[l] # << >> /\ client' = [client EXCEPT ![l] = Tail(@)]
      /\ taken' = [taken EXCEPT ![l] = @ + 1]
      /\ UNCHANGED <<link, closing, routeMap, rpcMap, inputCh, server, backlog, pump, routed>>
  BY DEF Deliver, linkVars
<1>2. client[l] \in Seq(Items) /\ backlog[l] \in Seq(Items) /\ taken[l] \in Nat /\ routed[l] \in Nat
  BY DEF Shapes, TypeOK
<1>3. m = client[l][1] /\ 1 \in 1 .. Len(client[l]) /\ m \in Items
  BY <1>1, <1>2
<1>4. m.rpc \in Rpcs /\ Made(rpc, m.rpc)
  BY <1>3 DEF Items, Sent, Belongs
<1> HIDE DEF m
<1>5. rpc[m.rpc] \in Requests /\ rpc \in [Rpcs -> Requests]
  BY <1>4 DEF Shapes
<1>6. \/ rpc' = [rpc EXCEPT ![m.rpc] = [@ EXCEPT !.at = "held", !.holder = l]]
      \/ rpc' = [rpc EXCEPT ![m.rpc] = [@ EXCEPT !.at = "done"]]
      \/ rpc' = rpc
  BY <1>5 DEF Deliver, m
<1>7. [rpc[m.rpc] EXCEPT !.at = "held", !.holder = l] \in Requests /\ [rpc[m.rpc] EXCEPT !.at = "done"] \in Requests
  BY <1>5 DEF Requests, Places
<1>8. rpc' \in [Rpcs -> Requests] /\ \A j \in Rpcs : Made(rpc, j) => Made(rpc', j) /\ rpc'[j].by = rpc[j].by
  <2>1. CASE rpc' = [rpc EXCEPT ![m.rpc] = [@ EXCEPT !.at = "held", !.holder = l]]
    <3> DEFINE request == [rpc[m.rpc] EXCEPT !.at = "held", !.holder = l]
    <3>1. rpc' = [rpc EXCEPT ![m.rpc] = request] /\ request.at # "new" /\ request.by = rpc[m.rpc].by
      BY <2>1, <1>5 DEF Requests
    <3>2. QED
      BY <3>1, <1>4, <1>5, <1>7, RequestMoves
  <2>2. CASE rpc' = [rpc EXCEPT ![m.rpc] = [@ EXCEPT !.at = "done"]]
    <3> DEFINE request == [rpc[m.rpc] EXCEPT !.at = "done"]
    <3>1. rpc' = [rpc EXCEPT ![m.rpc] = request] /\ request.at # "new" /\ request.by = rpc[m.rpc].by
      BY <2>2, <1>5 DEF Requests
    <3>2. QED
      BY <3>1, <1>4, <1>5, <1>7, RequestMoves
  <2>3. QED
    BY <1>5, <1>6, <2>1, <2>2
<1>9. \A j \in Rpcs : Made(rpc, j) => Made(rpc', j) /\ rpc'[j].by = rpc[j].by
  BY <1>8
<1>10. Registration'
  BY <1>1, <1>9, RegistrationStays
<1>11. Shapes'
  BY <1>1, <1>2, <1>8 DEF Shapes, TypeOK
<1>12. IsQueue(link[l], taken[l] + 1, Tail(client[l]), backlog[l], routed[l])
  BY <1>1, <1>2, TakeFirst DEF Queues
<1>13. Queues'
  BY <1>1, <1>12 DEF Queues, Shapes, TypeOK
<1>14. \A q \in Items, h \in Links : Belongs(rpc, q, h) => Belongs(rpc', q, h)
  BY <1>9 DEF Belongs, Items
<1>15. \A k \in 1 .. Len(client'[l]) : client'[l][k] = client[l][k + 1] /\ k + 1 \in 1 .. Len(client[l])
  <2>1. client'[l] = Tail(client[l])
    BY <1>1 DEF Shapes, TypeOK
  <2>2. QED
    BY <2>1, <1>1, <1>2
<1>16. \A h \in Links \ {l} : client'[h] = client[h]
  BY <1>1 DEF Shapes, TypeOK
<1>17. \A h \in Links : \A k \in 1 .. Len(client[h]) : client[h][k] \in Items
  BY DEF Shapes, TypeOK
<1>18. \A h \in Links : \A k \in 1 .. Len(backlog[h]) : backlog[h][k] \in Items
  BY DEF Shapes, TypeOK
<1>19. \A h \in Links : \A k \in 1 .. Len(client'[h]) : Belongs(rpc', client'[h][k], h)
  BY <1>14, <1>15, <1>16, <1>17 DEF Sent
<1>20. Sent'
  BY <1>1, <1>14, <1>18, <1>19 DEF Sent
<1>21. QED
  BY <1>10, <1>11, <1>13, <1>20

(* The goroutine of the backlog moves messages from one end of a queue to   *)
(* the other.                                                               *)
LEMMA RoomFits ==
  ASSUME TypeOK, NEW l \in Links, Len(client[l]) <= ClientCap
  PROVE  Room(l) \in 0 .. Len(backlog[l]) /\ Len(client[l]) + Room(l) <= ClientCap
  BY RouterAssumption DEF Room, TypeOK

LEMMA BacklogRoundKeeps == IInv /\ ProcessOneBacklogRound => IInv'
<1> SUFFICES ASSUME IInv, ProcessOneBacklogRound PROVE IInv'
  OBVIOUS
<1> USE DEF IInv
<1>1. UNCHANGED <<link, closing, routeMap, rpcMap, inputCh, server, rpc, taken, routed>> /\ pump' = "sleeping"
  BY DEF ProcessOneBacklogRound, linkVars
<1>2. ASSUME NEW l \in Links
      PROVE  /\ client'[l] \in Seq(Items) /\ backlog'[l] \in Seq(Items)
             /\ IsQueue(link[l], taken[l], client'[l], backlog'[l], routed[l])
             /\ \A k \in 1 .. Len(client'[l]) : Belongs(rpc, client'[l][k], l)
             /\ \A k \in 1 .. Len(backlog'[l]) : Belongs(rpc, backlog'[l][k], l)
  <2>1. client[l] \in Seq(Items) /\ backlog[l] \in Seq(Items) /\ taken[l] \in Nat /\ routed[l] \in Nat
    BY DEF Shapes, TypeOK
  <2>2. IsQueue(link[l], taken[l], client[l], backlog[l], routed[l])
    BY DEF Queues
  <2>3. CASE Registered(l)
    <3> DEFINE r == Room(l)
    <3>1. r \in 0 .. Len(backlog[l]) /\ Len(client[l]) + r <= ClientCap
      BY <2>2, RoomFits DEF Shapes, IsQueue
    <3>2. client'[l] = client[l] \o SubSeq(backlog[l], 1, r)
          /\ backlog'[l] = SubSeq(backlog[l], r + 1, Len(backlog[l]))
      BY <2>3 DEF ProcessOneBacklogRound
    <3> HIDE DEF r
    <3>3. client'[l] \in Seq(Items) /\ backlog'[l] \in Seq(Items)
      BY <2>1, <3>1, <3>2
    <3>4. IsQueue(link[l], taken[l], client'[l], backlog'[l], routed[l])
      BY <2>1, <2>2, <3>1, <3>2, MoveOver
    <3>5. /\ \A k \in 1 .. Len(client'[l]) :
               \/ \E j \in 1 .. Len(client[l]) : client'[l][k] = client[l][j]
               \/ \E j \in 1 .. Len(backlog[l]) : client'[l][k] = backlog[l][j]
          /\ \A k \in 1 .. Len(backlog'[l]) : \E j \in 1 .. Len(backlog[l]) : backlog'[l][k] = backlog[l][j]
      <4> DEFINE first == client[l]
                 second == backlog[l]
      <4>1. first \in Seq(Items) /\ second \in Seq(Items) /\ r \in 0 .. Len(second)
        BY <2>1, <3>1
      <4>2. client'[l] = first \o SubSeq(second, 1, r) /\ backlog'[l] = SubSeq(second, r + 1, Len(second))
        BY <3>2
      <4> HIDE DEF first, second
      <4>3. LET moved == SubSeq(second, 1, r)
                rest == SubSeq(second, r + 1, Len(second))
            IN  /\ \A k \in 1 .. Len(first \o moved) :
                     \/ \E j \in 1 .. Len(first) : (first \o moved)[k] = first[j]
                     \/ \E j \in 1 .. Len(second) : (first \o moved)[k] = second[j]
                /\ \A k \in 1 .. Len(rest) : \E j \in 1 .. Len(second) : rest[k] = second[j]
        BY <4>1, ConcatParts
      <4>4. QED
        BY <4>2, <4>3, Zenon DEF first, second
    <3>6. \A k \in 1 .. Len(backlog'[l]) : \E j \in 1 .. Len(backlog[l]) : backlog'[l][k] = backlog[l][j]
      BY <3>5
    <3>7. QED
      BY <3>3, <3>4, <3>5, <3>6 DEF Sent
  <2>4. CASE ~Registered(l)
    <3>1. client'[l] = client[l] /\ backlog'[l] = << >>
      BY <2>4 DEF ProcessOneBacklogRound
    <3>2. link[l] \in {"gone", "unknown"}
      BY <2>4 DEF Registered, Shapes, TypeOK
    <3>3. IsQueue(link[l], taken[l], client[l], << >>, routed[l])
      BY <2>2, <3>2 DEF IsQueue
    <3>4. QED
      BY <2>1, <3>1, <3>3 DEF Sent
  <2>5. QED
    BY <2>3, <2>4
<1>3. client' = [l \in Links |-> client'[l]] /\ backlog' = [l \in Links |-> backlog'[l]]
  BY DEF ProcessOneBacklogRound
<1>4. client' \in [Links -> Seq(Items)] /\ backlog' \in [Links -> Seq(Items)]
  BY <1>2, <1>3
<1>5. Shapes'
  BY <1>1, <1>4 DEF Shapes, TypeOK
<1>6. Registration'
  BY <1>1 DEF Registration
<1>7. Queues'
  BY <1>1, <1>2 DEF Queues
<1>8. Sent'
  BY <1>1, <1>2 DEF Sent
<1>9. QED
  BY <1>5, <1>6, <1>7, <1>8

-----------------------------------------------------------------------------
(* The other actions move no message.                                       *)

LEMMA OthersKeep ==
  ASSUME IInv, NEW l \in Links,
         \/ ProcessBacklog \/ RegisterUntrustedLink(l) \/ TrustLink(l) \/ BindRoute(l) \/ UnregisterLink(l)
  PROVE  IInv'
<1> USE DEF IInv
<1>1. UNCHANGED <<rpcMap, inputCh, server, rpc, taken, routed, backlog, client>>
  BY DEF ProcessBacklog, RegisterUntrustedLink, TrustLink, BindRoute, UnregisterLink, GetRoutesForLink,
         UnbindRoute, DeleteLink, queueVars
<1>2. l # Upstream \/ link[l] = "trusted"
  BY RouterAssumption DEF Shapes
<1>3. Shapes' /\ \A h \in Links : link'[h] \in {link[h], "gone", "trusted", "untrusted"}
                                 /\ (link[h] = "gone" => link'[h] = "gone")
  <2>1. CASE ProcessBacklog
    BY <1>1, <2>1 DEF ProcessBacklog, linkVars, Shapes, TypeOK
  <2>2. CASE RegisterUntrustedLink(l)
    BY <1>1, <2>2 DEF RegisterUntrustedLink, queueVars, Shapes, TypeOK
  <2>3. CASE TrustLink(l)
    BY <1>1, <2>3 DEF TrustLink, queueVars, Shapes, TypeOK
  <2>4. CASE BindRoute(l)
    BY <1>1, <2>4 DEF BindRoute, queueVars, Shapes, TypeOK, Routes, Leaves
  <2>5. CASE UnregisterLink(l)
    <3>1. CASE GetRoutesForLink(l)
      BY <1>1, <3>1 DEF GetRoutesForLink, queueVars, Shapes, TypeOK, Leaves
    <3>2. CASE UnbindRoute(l)
      BY <1>1, <3>2 DEF UnbindRoute, queueVars, Shapes, TypeOK, Leaves, Routes
    <3>3. CASE DeleteLink(l)
      BY <1>1, <3>3 DEF DeleteLink, queueVars, Shapes, TypeOK, Leaves
    <3>4. QED
      BY <2>5, <3>1, <3>2, <3>3 DEF UnregisterLink
  <2>6. QED
    BY <2>1, <2>2, <2>3, <2>4, <2>5
<1>4. Registration' /\ Sent'
  BY <1>1 DEF Registration, Sent
<1>5. Queues'
  BY <1>1, <1>3 DEF Queues, IsQueue
<1>6. QED
  BY <1>3, <1>4, <1>5

LEMMA NextKeeps == IInv /\ [Next]_vars => IInv'
<1> SUFFICES ASSUME IInv, [Next]_vars PROVE IInv'
  OBVIOUS
<1>1. CASE RunServer
  BY <1>1, RouteRequestKeeps, RegisterRouteInfoKeeps, RouteResponseKeeps DEF RunServer
<1>2. CASE ProcessOneBacklogRound
  BY <1>2, BacklogRoundKeeps
<1>3. CASE ProcessBacklog
  <2>1. UNCHANGED <<linkVars, rpcMap, inputCh, server, rpc, taken, routed, backlog, client>> /\ pump' \in {"waiting", "awake"}
    BY <1>3 DEF ProcessBacklog
  <2>2. QED
    BY <2>1 DEF IInv, Shapes, TypeOK, Queues, Registration, Sent, linkVars
<1>4. ASSUME NEW l \in Links, NEW i \in Rpcs, NEW target \in Targets, RecvRequest(l, i, target)
      PROVE  IInv'
  BY <1>4, RecvRequestKeeps
<1>5. ASSUME NEW l \in Links, NEW i \in Rpcs, NEW kind \in {"data", "last"}, RecvResponse(l, i, kind)
      PROVE  IInv'
  BY <1>5, RecvResponseKeeps
<1>6. ASSUME NEW l \in Links, Deliver(l)
      PROVE  IInv'
  BY <1>6, DeliverKeeps
<1>7. ASSUME NEW l \in Links, RegisterUntrustedLink(l) \/ TrustLink(l) \/ BindRoute(l) \/ UnregisterLink(l)
      PROVE  IInv'
  BY <1>7, OthersKeep
<1>8. CASE UNCHANGED vars
  BY <1>8 DEF vars, linkVars, queueVars, IInv, Shapes, TypeOK, Queues, Registration, Sent
<1>9. QED
  BY <1>1, <1>2, <1>3, <1>4, <1>5, <1>6, <1>7, <1>8 DEF Next

-----------------------------------------------------------------------------

LEMMA SpecKeeps == Spec => []IInv
<1>1. Init => IInv
  BY InitIInv
<1>2. QED
  BY <1>1, NextKeeps, PTL DEF Spec

(* Every variable stays in its type, for any links, routes and requests.    *)
THEOREM TypeCorrect == Spec => []TypeOK
<1>1. IInv => TypeOK
  BY DEF IInv, Shapes
<1>2. QED
  BY <1>1, SpecKeeps, PTL

(* What a link is sent reaches it in the order it was routed, however many  *)
(* links there are and whatever waits in their backlogs                     *)
(* (sendRpcMessageToLink, drainLinkBacklog_withLock).                       *)
THEOREM LinksInOrder == Spec => []LinkInOrder
<1>1. IInv => LinkInOrder
  <2> SUFFICES ASSUME IInv, NEW l \in Links, NEW k \in 1 .. Len(client[l] \o backlog[l])
               PROVE  (client[l] \o backlog[l])[k].no = taken[l] + k
    BY DEF LinkInOrder
  <2>1. client[l] \in Seq(Items) /\ backlog[l] \in Seq(Items) /\ taken[l] \in Nat /\ routed[l] \in Nat
    BY DEF IInv, Shapes, TypeOK
  <2>2. IsQueue(link[l], taken[l], client[l], backlog[l], routed[l])
    BY DEF IInv, Queues
  <2> DEFINE first == client[l]
             second == backlog[l]
             n == taken[l]
             total == routed[l]
             state == link[l]
  <2>3. /\ first \in Seq(Items) /\ second \in Seq(Items) /\ n \in Nat /\ total \in Nat
        /\ IsQueue(state, n, first, second, total)
        /\ k \in 1 .. Len(first \o second)
    BY <2>1, <2>2
  <2> HIDE DEF first, second, n, total, state
  <2>4. (first \o second)[k].no = n + k
    BY <2>3, WholeQueue
  <2>5. QED
    BY <2>4 DEF first, second, n
<1>2. QED
  BY <1>1, SpecKeeps, PTL

(* An answer on its way to a link is one that link asked for, for any links *)
(* and requests (wshrouter.go:368).                                         *)
THEOREM AnswersComeBack == Spec => []AnswersReturn
<1>1. IInv => AnswersReturn
  <2> SUFFICES ASSUME IInv, NEW l \in Links, NEW k \in 1 .. Len(client[l] \o backlog[l]),
                      (client[l] \o backlog[l])[k].kind \in {"data", "last"}
               PROVE  rpc[(client[l] \o backlog[l])[k].rpc].by = l
    BY DEF AnswersReturn
  <2>1. client[l] \in Seq(Items) /\ backlog[l] \in Seq(Items)
    BY DEF IInv, Shapes, TypeOK
  <2>2. \/ \E j \in 1 .. Len(client[l]) : (client[l] \o backlog[l])[k] = client[l][j]
        \/ \E j \in 1 .. Len(backlog[l]) : (client[l] \o backlog[l])[k] = backlog[l][j]
    BY <2>1, ConcatMembers
  <2>3. QED
    BY <2>2 DEF IInv, Sent, Belongs
<1>2. QED
  BY <1>1, SpecKeeps, PTL

=============================================================================
