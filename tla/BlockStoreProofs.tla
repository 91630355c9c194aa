-------------------------- MODULE BlockStoreProofs --------------------------
(***************************************************************************)
(* Proofs about BlockStore, for any sizes of the parts and the window and   *)
(* any callers: the callers share one cache entry that counts them, and the *)
(* cached, partitioned file is the file that StoredFile promises.  The      *)
(* latter is proved for callers that never write behind the window of a     *)
(* circular file (~BehindWindow): for those who do it is false.             *)
(*                                                                          *)
(* First where the bytes of a file are among its parts, then what a write,  *)
(* a compaction and a save do to what a reader of the file sees, then the   *)
(* invariant and a lemma for each step.                                     *)
(***************************************************************************)
EXTENDS BlockStore, FiniteSetTheorems, SequenceTheorems, WellFoundedInduction, TLAPS

-----------------------------------------------------------------------------
(* Positions and parts                                                      *)

(* The parts of a file, and what a part index and a place in it say of a    *)
(* position.                                                                *)
Part == [0 .. PartSize - 1 -> Nat]

PartMaps == UNION {[D -> Part] : D \in SUBSET Nat}

Places == 0 .. PartSize - 1

LEMMA Sizes ==
  /\ PartSize \in Nat /\ PartSize > 0 /\ MaxParts \in Nat /\ MaxParts > 0
  /\ MaxSize \in Nat /\ MaxSize > 0 /\ MaxSize = PartSize * MaxParts
  /\ FlushErrorLimit \in Nat /\ MaxChunk \in Nat /\ MaxBytes \in Nat /\ MaxFaults \in Nat
  BY StoreAssumption DEF StoreAssumption, MaxSize

LEMMA DivUnique ==
  ASSUME NEW q \in Nat, NEW k \in Nat, k > 0, NEW r \in 0 .. k - 1
  PROVE  (k * q + r) \div k = q /\ (k * q + r) % k = r
  OBVIOUS

LEMMA Times ==
  ASSUME NEW a \in Nat, NEW b \in Nat, NEW c \in Nat
  PROVE  /\ a * (b * c) = (a * b) * c
         /\ a * (b + c) = a * b + a * c
         /\ a * b \in Nat
  OBVIOUS

LEMMA DivMod ==
  ASSUME NEW n \in Nat, NEW k \in Nat, k > 0
  PROVE  /\ n \div k \in Nat
         /\ n % k \in 0 .. k - 1
         /\ n = k * (n \div k) + (n % k)
  <1>. DEFINE q == n \div k
              m == n % k
  <1>1. q \in Int /\ k * q <= n /\ n - k * q < k
    <2>1. q \in Int
      OBVIOUS
    <2>2. k * q <= n
      OBVIOUS
    <2>3. n - k * q < k
      OBVIOUS
    <2>. QED  BY <2>1, <2>2, <2>3
  <1>2. q \in Nat
    <2>. HIDE DEF q
    <2>1. SUFFICES ASSUME q <= -1 PROVE FALSE
      BY <1>1
    <2>2. k * q <= -k
      BY <2>1, <1>1
    <2>. QED  BY <2>2, <1>1
  <1>3. PICK r \in 0 .. k - 1 : n = k * q + r
    <2>. HIDE DEF q
    <2>. QED  BY <1>1, <1>2
  <1>4. m = r
    <2>. HIDE DEF q
    <2>. QED  BY <1>2, <1>3, DivUnique
  <1>5. m \in 0 .. k - 1
    <2>. HIDE DEF q, m
    <2>. QED  BY <1>4
  <1>6. n = k * q + m
    <2>. HIDE DEF q, m
    <2>. QED  BY <1>3, <1>4
  <1>. QED  BY <1>2, <1>5, <1>6

LEMMA MulLess ==
  ASSUME NEW a \in Nat, NEW b \in Nat, NEW k \in Nat, k > 0
  PROVE  /\ a < b => k * a + k <= k * b
         /\ k * a < k * b => a < b
         /\ k * a \in Nat
  OBVIOUS

(* The place of a position.                                                 *)
LEMMA PlaceOf ==
  ASSUME NEW pos \in Nat, NEW kind
  PROVE  /\ pos % PartSize \in Places
         /\ pos \div PartSize \in Nat
         /\ pos = PartSize * (pos \div PartSize) + (pos % PartSize)
         /\ partIdxAtOffset(kind, pos) \in Nat
         /\ kind # "circular" => partIdxAtOffset(kind, pos) = pos \div PartSize
         /\ kind = "circular" => partIdxAtOffset(kind, pos) = (pos \div PartSize) % MaxParts
  <1>1. pos \div PartSize \in Nat
    BY Sizes, DivMod
  <1>2. (pos \div PartSize) % MaxParts \in Nat
    BY <1>1, Sizes, DivMod
  <1>. QED  BY <1>1, <1>2, Sizes, DivMod DEF Places, partIdxAtOffset

(* Two positions that share a place are the same, or in a circular file a   *)
(* multiple of its size apart.                                              *)
LEMMA OnePlace ==
  ASSUME NEW kind, NEW p \in Nat, NEW q \in Nat,
         partIdxAtOffset(kind, p) = partIdxAtOffset(kind, q),
         p % PartSize = q % PartSize,
         kind = "circular" => p < q + MaxSize /\ q < p + MaxSize
  PROVE  p = q
  <1>. DEFINE a == p \div PartSize
              b == q \div PartSize
              r == p % PartSize
  <1>1. a \in Nat /\ b \in Nat /\ r \in Nat /\ p = PartSize * a + r /\ q = PartSize * b + r
    <2>1. r \in Nat
      BY PlaceOf, Sizes DEF Places
    <2>. QED  BY <2>1, PlaceOf
  <1>2. CASE kind # "circular"
    BY <1>2, <1>1, PlaceOf
  <1>3. CASE kind = "circular"
    <2>1. PICK x \in Nat, y \in Nat, s \in Nat : a = MaxParts * x + s /\ b = MaxParts * y + s
      <3>. DEFINE u == a \div MaxParts
                  v == b \div MaxParts
                  s == a % MaxParts
                  t == b % MaxParts
      <3>1. s = t
        BY <1>3, PlaceOf
      <3>2. a = MaxParts * u + s /\ u \in Nat /\ s \in Nat /\ b = MaxParts * v + t /\ v \in Nat
        <4>. HIDE DEF a, b
        <4>. QED  BY <1>1, Sizes, DivMod
      <3>. HIDE DEF a, b, u, v, s, t
      <3>. QED  BY <3>1, <3>2
    <2>. HIDE DEF a, b, r
    <2>2. ASSUME NEW u \in Nat, NEW v \in Nat, u < v
          PROVE  PartSize * (MaxParts * u) + MaxSize <= PartSize * (MaxParts * v)
      <3>1. PartSize * (MaxParts * u) = MaxSize * u /\ PartSize * (MaxParts * v) = MaxSize * v
        BY Sizes, Times
      <3>2. MaxSize * u + MaxSize <= MaxSize * v
        BY <2>2, Sizes, MulLess
      <3>. QED  BY <3>1, <3>2
    <2>3. /\ PartSize * a = PartSize * (MaxParts * x) + PartSize * s
          /\ PartSize * b = PartSize * (MaxParts * y) + PartSize * s
          /\ PartSize * s \in Nat
      <3>1. MaxParts * x \in Nat /\ MaxParts * y \in Nat
        BY <2>1, Sizes, Times
      <3>. QED  BY <3>1, <2>1, Sizes, Times
    <2>4. PartSize * (MaxParts * x) \in Nat /\ PartSize * (MaxParts * y) \in Nat
      BY <2>1, Sizes, Times
    <2>5. ~ (x < y) /\ ~ (y < x)
      BY <2>1, <2>2, <2>3, <2>4, <1>1, <1>3, Sizes
    <2>6. x = y
      BY <2>1, <2>5
    <2>. QED  BY <2>6, <2>1, <1>1
  <1>. QED  BY <1>2, <1>3

(* A map of parts, and one laid over another.                               *)
LEMMA MapOfParts ==
  ASSUME NEW f
  PROVE  f \in PartMaps <=> /\ f = [p \in DOMAIN f |-> f[p]]
                            /\ DOMAIN f \subseteq Nat
                            /\ \A p \in DOMAIN f : f[p] \in Part
  <1>1. ASSUME f \in PartMaps
        PROVE  /\ f = [p \in DOMAIN f |-> f[p]]
               /\ DOMAIN f \subseteq Nat
               /\ \A p \in DOMAIN f : f[p] \in Part
    <2>1. PICK D \in SUBSET Nat : f \in [D -> Part]
      BY <1>1 DEF PartMaps
    <2>. QED  BY <2>1
  <1>2. ASSUME f = [p \in DOMAIN f |-> f[p]], DOMAIN f \subseteq Nat,
               \A p \in DOMAIN f : f[p] \in Part
        PROVE  f \in PartMaps
    <2>1. f \in [DOMAIN f -> Part]
      BY <1>2
    <2>. QED  BY <1>2, <2>1 DEF PartMaps
  <1>. QED  BY <1>1, <1>2

LEMMA NoPartsMap == NoParts \in PartMaps /\ DOMAIN NoParts = {}
  <1>1. DOMAIN NoParts = {} /\ NoParts = [p \in DOMAIN NoParts |-> NoParts[p]]
    BY DEF NoParts
  <1>. QED  BY <1>1, MapOfParts

LEMMA OverMap ==
  ASSUME NEW f \in PartMaps, NEW g \in PartMaps
  PROVE  /\ Over(f, g) \in PartMaps
         /\ DOMAIN Over(f, g) = DOMAIN f \cup DOMAIN g
         /\ \A p \in DOMAIN f : Over(f, g)[p] = f[p]
         /\ \A p \in DOMAIN g \ DOMAIN f : Over(f, g)[p] = g[p]
  <1>1. /\ DOMAIN Over(f, g) = DOMAIN f \cup DOMAIN g
        /\ \A p \in DOMAIN f : Over(f, g)[p] = f[p]
        /\ \A p \in DOMAIN g \ DOMAIN f : Over(f, g)[p] = g[p]
        /\ Over(f, g) = [p \in DOMAIN Over(f, g) |-> Over(f, g)[p]]
    BY DEF Over
  <1>2. Over(f, g) \in PartMaps
    BY <1>1, MapOfParts
  <1>. QED  BY <1>1, <1>2

LEMMA MaxOne == ASSUME NEW i \in Nat PROVE Max({i}) = i
  BY DEF Max

(* What Put writes: each byte of data at its place, and nothing elsewhere.  *)
Hits(kind, offset, data, pos) ==
  \E i \in DOMAIN data : /\ partIdxAtOffset(kind, offset + i - 1) = partIdxAtOffset(kind, pos)
                         /\ (offset + i - 1) % PartSize = pos % PartSize

IsPut(W, parts, kind, offset, data) ==
  /\ W \in PartMaps
  /\ DOMAIN parts \subseteq DOMAIN W
  /\ \A i \in DOMAIN data :
       LET p == partIdxAtOffset(kind, offset + i - 1)
       IN  p \in DOMAIN W /\ W[p][(offset + i - 1) % PartSize] = data[i]
  /\ \A pos \in Nat : ~Hits(kind, offset, data, pos) =>
       LET p == partIdxAtOffset(kind, pos)
           b == pos % PartSize
       IN  IF p \in DOMAIN parts THEN p \in DOMAIN W /\ W[p][b] = parts[p][b]
           ELSE IF p \in DOMAIN W
           THEN /\ W[p][b] = 0
                /\ \E i \in DOMAIN data : partIdxAtOffset(kind, offset + i - 1) = p
           ELSE TRUE

LEMMA PutMap ==
  ASSUME NEW parts \in PartMaps, NEW kind, NEW offset \in Nat, NEW data \in Seq(Nat),
         kind = "circular" => Len(data) <= MaxSize
  PROVE  IsPut(Put(parts, kind, offset, data), parts, kind, offset, data)
  <1>. DEFINE part(i)  == partIdxAtOffset(kind, offset + i - 1)
              place(i) == (offset + i - 1) % PartSize
              touched  == {part(i) : i \in DOMAIN data}
              old(p, b) == IF p \in DOMAIN parts THEN parts[p][b] ELSE 0
              here(p, b) == {i \in DOMAIN data : part(i) = p /\ place(i) = b}
              patched(p) == [b \in Places |->
                     IF here(p, b) = {} THEN old(p, b) ELSE data[Max(here(p, b))]]
              N == [p \in touched |-> patched(p)]
              W == Put(parts, kind, offset, data)
  <1>. HIDE DEF W
  <1>1. W = Over(N, parts)
    BY DEF Put, Places, W
  <1>0. \A i \in DOMAIN data : i \in 1 .. Len(data) /\ Len(data) \in Nat /\ data[i] \in Nat
    OBVIOUS
  <1>2. \A i \in DOMAIN data : /\ i \in Nat /\ i >= 1 /\ i <= Len(data) /\ data[i] \in Nat
                              /\ part(i) \in Nat /\ place(i) \in Places
    <2>. SUFFICES ASSUME NEW i \in DOMAIN data
                  PROVE  /\ i \in Nat /\ i >= 1 /\ i <= Len(data) /\ data[i] \in Nat
                         /\ part(i) \in Nat /\ place(i) \in Places
      OBVIOUS
    <2>1. i \in Nat /\ i >= 1 /\ i <= Len(data) /\ data[i] \in Nat
      BY <1>0
    <2>2. offset + i - 1 \in Nat
      BY <2>1
    <2>. QED  BY <2>1, <2>2, PlaceOf
  <1>3. \A i \in DOMAIN data : here(part(i), place(i)) = {i}
    <2>. SUFFICES ASSUME NEW i \in DOMAIN data, NEW j \in DOMAIN data,
                         part(j) = part(i), place(j) = place(i)
                  PROVE  j = i
      OBVIOUS
    <2>1. i \in Nat /\ j \in Nat /\ i >= 1 /\ j >= 1 /\ i <= Len(data) /\ j <= Len(data)
      BY <1>2
    <2>2. offset + i - 1 \in Nat /\ offset + j - 1 \in Nat
      BY <2>1
    <2>3. ASSUME kind = "circular"
          PROVE  /\ offset + i - 1 < (offset + j - 1) + MaxSize
                 /\ offset + j - 1 < (offset + i - 1) + MaxSize
      <3>1. Len(data) <= MaxSize /\ Len(data) \in Nat
        BY <2>3
      <3>2. MaxSize \in Nat
        BY Sizes
      <3>. HIDE DEF part, place
      <3>. QED  BY <2>1, <3>1, <3>2
    <2>4. offset + i - 1 = offset + j - 1
      BY <2>2, <2>3, OnePlace
    <2>. QED  BY <2>1, <2>4
  <1>4. \A p \in touched, b \in Places : patched(p)[b] \in Nat
    <2>. SUFFICES ASSUME NEW p \in touched, NEW b \in Places PROVE patched(p)[b] \in Nat
      OBVIOUS
    <2>1. CASE here(p, b) = {}
      <3>1. old(p, b) \in Nat
        <4>1. p \in DOMAIN parts => parts[p] \in Part
          BY MapOfParts
        <4>. QED  BY <4>1 DEF Part, Places
      <3>. QED  BY <2>1, <3>1
    <2>2. CASE here(p, b) # {}
      <3>1. PICK i \in DOMAIN data : part(i) = p /\ place(i) = b
        BY <2>2
      <3>2. Max(here(p, b)) = i
        BY <3>1, <1>3, <1>2, MaxOne
      <3>. QED  BY <2>2, <3>2, <1>2
    <2>. QED  BY <2>1, <2>2
  <1>5. N \in PartMaps /\ DOMAIN N = touched
    <2>1. \A p \in touched : N[p] = patched(p) /\ patched(p) \in Part /\ p \in Nat
      <3>. SUFFICES ASSUME NEW p \in touched
                    PROVE  N[p] = patched(p) /\ patched(p) \in Part /\ p \in Nat
        OBVIOUS
      <3>1. N[p] = patched(p) /\ p \in Nat
        BY <1>2
      <3>2. patched(p) \in [Places -> Nat]
        BY <1>4
      <3>. QED  BY <3>1, <3>2 DEF Part, Places
    <2>2. DOMAIN N = touched /\ N = [p \in DOMAIN N |-> N[p]]
      OBVIOUS
    <2>3. DOMAIN N \subseteq Nat /\ \A p \in DOMAIN N : N[p] \in Part
      BY <2>1
    <2>4. N \in PartMaps
      <3>. HIDE DEF N
      <3>. QED  BY <2>2, <2>3, MapOfParts
    <2>. QED  BY <2>2, <2>4
  <1>6. /\ W \in PartMaps /\ DOMAIN W = touched \cup DOMAIN parts
        /\ \A p \in touched : W[p] = patched(p)
        /\ \A p \in DOMAIN parts \ touched : W[p] = parts[p]
    <2>1. \A p \in touched : N[p] = patched(p)
      OBVIOUS
    <2>2. /\ W \in PartMaps /\ DOMAIN W = DOMAIN N \cup DOMAIN parts
          /\ \A p \in DOMAIN N : W[p] = N[p]
          /\ \A p \in DOMAIN parts \ DOMAIN N : W[p] = parts[p]
      <3>1. N \in PartMaps
        BY <1>5
      <3>. HIDE DEF N, touched
      <3>2. /\ Over(N, parts) \in PartMaps
            /\ DOMAIN Over(N, parts) = DOMAIN N \cup DOMAIN parts
            /\ \A p \in DOMAIN N : Over(N, parts)[p] = N[p]
            /\ \A p \in DOMAIN parts \ DOMAIN N : Over(N, parts)[p] = parts[p]
        BY <3>1, OverMap
      <3>. QED  BY <1>1, <3>2
    <2>. QED  BY <1>5, <2>1, <2>2
  <1>7. ASSUME NEW i \in DOMAIN data
        PROVE  part(i) \in DOMAIN W /\ W[part(i)][place(i)] = data[i]
    <2>1. part(i) \in touched /\ place(i) \in Places
      BY <1>2
    <2>2. Max(here(part(i), place(i))) = i /\ here(part(i), place(i)) # {}
      BY <1>3, <1>2, MaxOne
    <2>3. patched(part(i))[place(i)] = data[i]
      BY <2>1, <2>2
    <2>. QED  BY <1>6, <2>1, <2>3
  <1>8. ASSUME NEW pos \in Nat, ~Hits(kind, offset, data, pos), NEW p, NEW b,
               p = partIdxAtOffset(kind, pos), b = pos % PartSize
        PROVE  IF p \in DOMAIN parts THEN p \in DOMAIN W /\ W[p][b] = parts[p][b]
               ELSE IF p \in DOMAIN W THEN W[p][b] = 0 /\ p \in touched
               ELSE TRUE
    <2>1. b \in Places
      BY <1>8, PlaceOf
    <2>2. here(p, b) = {}
      BY <1>8 DEF Hits
    <2>3. p \in touched => W[p][b] = old(p, b)
      BY <1>6, <2>1, <2>2
    <2>. HIDE DEF touched
    <2>. QED  BY <1>6, <2>3
  <1>9. \A p \in touched : \E i \in DOMAIN data : part(i) = p
    OBVIOUS
  <1>10. /\ W \in PartMaps
         /\ DOMAIN parts \subseteq DOMAIN W
         /\ \A i \in DOMAIN data :
              LET p == partIdxAtOffset(kind, offset + i - 1)
              IN  p \in DOMAIN W /\ W[p][(offset + i - 1) % PartSize] = data[i]
         /\ \A pos \in Nat : ~Hits(kind, offset, data, pos) =>
              LET p == partIdxAtOffset(kind, pos)
                  b == pos % PartSize
              IN  IF p \in DOMAIN parts THEN p \in DOMAIN W /\ W[p][b] = parts[p][b]
                  ELSE IF p \in DOMAIN W
                  THEN /\ W[p][b] = 0
                       /\ \E i \in DOMAIN data : partIdxAtOffset(kind, offset + i - 1) = p
                  ELSE TRUE
    <2>. HIDE DEF touched
    <2>. QED  BY <1>6, <1>7, <1>8, <1>9
  <1>11. IsPut(W, parts, kind, offset, data)
    <2>. HIDE DEF part, touched
    <2>. QED  BY <1>10 DEF IsPut
  <1>. QED  BY <1>11 DEF W

(* Extremes of sets of numbers. *)
LEMMA LeastNatural ==
  ASSUME NEW T, T \subseteq Nat, T # {}
  PROVE  \E x \in T : \A y \in T : x <= y
  <1>. DEFINE R == {ss \in Nat \X Nat : ss[1] < ss[2]}
  <1>1. IsWellFoundedOn(R, Nat)
    BY NatLessThanWellFounded DEF OpToRel
  <1>. HIDE DEF R
  <1>2. PICK x \in T : \A y \in T : ~(<<y, x>> \in R)
    BY <1>1, WFMin
  <1>3. ASSUME NEW y \in T
        PROVE  x <= y
    <2>1. x \in Nat /\ y \in Nat
      OBVIOUS
    <2>2. y < x => <<y, x>> \in R
      BY <2>1 DEF R
    <2>. QED  BY <1>2, <2>1, <2>2
  <1>. QED  BY <1>3

LEMMA GreatestNatural ==
  ASSUME NEW T, T \subseteq Nat, T # {}, NEW bound \in Nat, \A x \in T : x <= bound
  PROVE  \E x \in T : \A y \in T : y <= x
  <1>. DEFINE U == {bound - x : x \in T}
  <1>1. U \subseteq Nat
    <2>1. ASSUME NEW x \in T
          PROVE  bound - x \in Nat
      OBVIOUS
    <2>. QED  BY <2>1
  <1>2. U # {}
    <2>1. PICK x \in T : TRUE
      OBVIOUS
    <2>2. bound - x \in U
      BY <2>1
    <2>. QED  BY <2>2
  <1>3. PICK u \in U : \A y \in U : u <= y
    BY <1>1, <1>2, LeastNatural
  <1>4. PICK x \in T : u = bound - x
    BY <1>3
  <1>5. ASSUME NEW y \in T
        PROVE  y <= x
    <2>1. u <= bound - y
      BY <1>3
    <2>. QED  BY <1>4, <2>1
  <1>. QED  BY <1>5

LEMMA ModShift ==
  ASSUME NEW c \in Nat
  PROVE  (c + MaxParts) % MaxParts = c % MaxParts
  <1>. DEFINE q == c \div MaxParts
              r == c % MaxParts
  <1>1. q \in Nat /\ r \in 0 .. MaxParts - 1 /\ c = MaxParts * q + r
    BY Sizes, DivMod
  <1>2. MaxParts * (q + 1) = MaxParts * q + MaxParts /\ MaxParts * q \in Nat
    <2>. HIDE DEF q
    <2>. QED  BY <1>1, Sizes, Times
  <1>3. c + MaxParts = MaxParts * (q + 1) + r
    <2>. HIDE DEF q, r
    <2>. QED  BY <1>1, <1>2, Sizes
  <1>4. (MaxParts * (q + 1) + r) % MaxParts = r
    <2>. HIDE DEF q, r
    <2>. QED  BY <1>1, Sizes, DivUnique
  <1>. QED  BY <1>3, <1>4

(* Blocks of PartSize bytes: the block of a position, the index of a block. *)
LEMMA BlockOf ==
  ASSUME NEW kind, NEW m \in Nat, NEW b \in Places, NEW pos, pos = PartSize * m + b
  PROVE  /\ pos \in Nat /\ pos \div PartSize = m /\ pos % PartSize = b
         /\ m * PartSize \in Nat /\ m * PartSize = PartSize * m
         /\ partIdxAtOffset(kind, pos) = partIdxAtOffset(kind, m * PartSize)
         /\ partIdxAtOffset(kind, pos) = IF kind = "circular" THEN m % MaxParts ELSE m
  <1>1. PartSize * m \in Nat /\ m * PartSize = PartSize * m
    BY Sizes, Times
  <1>2. pos \in Nat
    BY <1>1 DEF Places
  <1>3. pos \div PartSize = m /\ pos % PartSize = b
    BY Sizes, DivUnique DEF Places
  <1>4. (m * PartSize) \div PartSize = m
    <2>1. 0 \in 0 .. PartSize - 1 /\ PartSize * m + 0 = m * PartSize
      BY <1>1, Sizes
    <2>. QED  BY <2>1, Sizes, DivUnique
  <1>. QED  BY <1>1, <1>2, <1>3, <1>4 DEF partIdxAtOffset

LEMMA BlockIdx ==
  ASSUME NEW kind, NEW m \in Nat
  PROVE  partIdxAtOffset(kind, m * PartSize) = IF kind = "circular" THEN m % MaxParts ELSE m
  <1>1. m * PartSize = PartSize * m + 0 /\ 0 \in 0 .. PartSize - 1
    BY Sizes, Times
  <1>2. (m * PartSize) \div PartSize = m
    BY <1>1, Sizes, DivUnique
  <1>. QED  BY <1>2 DEF partIdxAtOffset

(* A part that a write touches and does not load is overwritten whole: each *)
(* place in it receives one of the last MaxSize bytes of the write.         *)
LEMMA Covered ==
  ASSUME NEW kind, NEW offset \in Nat, NEW n \in Nat, NEW q \in Nat,
         offset <= q, q < offset + n,
         partIdxAtOffset(kind, q) \notin incompleteParts(kind, offset, n),
         NEW b \in Places
  PROVE  \E r \in Nat : /\ offset <= r /\ r < offset + n
                        /\ partIdxAtOffset(kind, r) = partIdxAtOffset(kind, q)
                        /\ r % PartSize = b
                        /\ kind = "circular" => r >= offset + n - MaxSize
  <1>. DEFINE end    == offset + n
              first  == offset \div PartSize
              last   == end \div PartSize
              blocks == {a \in first .. last : a * PartSize < end}
              count(a) == (IF end < (a + 1) * PartSize THEN end ELSE (a + 1) * PartSize)
                            - (IF offset > a * PartSize THEN offset ELSE a * PartSize)
              idx(a) == partIdxAtOffset(kind, a * PartSize)
              p == partIdxAtOffset(kind, q)
              S == {a \in blocks : idx(a) = p}
  <1>1. /\ end \in Nat /\ first \in Nat /\ last \in Nat
        /\ offset = PartSize * first + (offset % PartSize) /\ offset % PartSize \in Places
        /\ end = PartSize * last + (end % PartSize) /\ end % PartSize \in Places
    <2>1. end \in Nat
      OBVIOUS
    <2>. HIDE DEF end
    <2>. QED  BY <2>1, PlaceOf
  <1>2. \A a \in Nat : a * PartSize = PartSize * a /\ PartSize * a \in Nat
                       /\ (a + 1) * PartSize = PartSize * a + PartSize
    BY Sizes, Times
  <1>3. \A a \in Nat : PartSize * a <= end => a <= last
    <2>. SUFFICES ASSUME NEW a \in Nat, PartSize * a <= end, ~ (a <= last) PROVE FALSE
      OBVIOUS
    <2>. HIDE DEF end, last
    <2>1. PartSize * last + PartSize <= PartSize * a
      BY <1>1, Sizes, MulLess
    <2>2. PartSize * a \in Nat /\ PartSize * last \in Nat
      BY <1>1, <1>2
    <2>. DEFINE e == end % PartSize
    <2>3. e \in 0 .. PartSize - 1 /\ end = PartSize * last + e
      BY <1>1 DEF Places
    <2>. HIDE DEF e
    <2>. QED  BY <2>1, <2>2, <2>3, <1>1, Sizes
  <1>4. \A a \in Nat : offset < PartSize * a + PartSize => first <= a
    <2>. SUFFICES ASSUME NEW a \in Nat, offset < PartSize * a + PartSize, ~ (first <= a)
                  PROVE FALSE
      OBVIOUS
    <2>. DEFINE o == offset % PartSize
    <2>1. o \in 0 .. PartSize - 1 /\ offset = PartSize * first + o
      BY <1>1 DEF Places
    <2>. HIDE DEF first, o
    <2>2. PartSize * a + PartSize <= PartSize * first
      BY <1>1, Sizes, MulLess
    <2>3. PartSize * a \in Nat /\ PartSize * first \in Nat
      BY <1>1, <1>2
    <2>. QED  BY <2>1, <2>2, <2>3, Sizes
  <1>5. \A a \in Nat : PartSize * a < end /\ offset < PartSize * a + PartSize => a \in blocks
    <2>. HIDE DEF end, first, last
    <2>. QED  BY <1>1, <1>2, <1>3, <1>4
  <1>6. PICK m \in S : \A a \in S : a <= m
    <2>. DEFINE a == q \div PartSize
                o == q % PartSize
    <2>1. a \in Nat /\ o \in Places /\ q = PartSize * a + o
      BY PlaceOf
    <2>2. idx(a) = p
      BY <2>1, BlockOf
    <2>3. PartSize * a \in Nat /\ o \in 0 .. PartSize - 1
      BY <2>1, <1>2 DEF Places
    <2>4. a \in blocks
      <3>. HIDE DEF a, o, blocks, end
      <3>1. PartSize * a < end /\ offset < PartSize * a + PartSize
        BY <2>1, <2>3, Sizes DEF end
      <3>. QED  BY <2>1, <3>1, <1>5
    <2>5. a \in S
      BY <2>2, <2>4
    <2>6. S \in SUBSET Nat /\ \A x \in S : x <= last
      <3>. HIDE DEF end, first, last, idx, p
      <3>. QED  BY <1>1
    <2>. HIDE DEF S, last
    <2>. QED  BY <2>5, <2>6, <1>1, GreatestNatural
  <1>7. m \in Nat /\ m \in blocks /\ idx(m) = p
    <2>. HIDE DEF end, first, last, idx, p
    <2>. QED  BY <1>1
  <1>8. count(m) = PartSize
    <2>1. m \in blocks /\ idx(m) = p /\ \A later \in blocks : idx(later) = idx(m) => later <= m
      BY <1>6, <1>7
    <2>2. incompleteParts(kind, offset, n) =
            {idx(x) : x \in {x \in blocks : /\ \A later \in blocks : idx(later) = idx(x) => later <= x
                                            /\ count(x) # PartSize}}
      BY DEF incompleteParts
    <2>. HIDE DEF blocks, idx, count, p
    <2>3. count(m) # PartSize => idx(m) \in incompleteParts(kind, offset, n)
      BY <2>1, <2>2
    <2>. QED  BY <2>1, <2>3 DEF p
  <1>9. PartSize * m + PartSize <= end /\ offset <= PartSize * m
    <2>. DEFINE x == PartSize * m
    <2>1. x \in Nat /\ m * PartSize = x /\ (m + 1) * PartSize = x + PartSize
      BY <1>2, <1>7
    <2>2. (IF end < x + PartSize THEN end ELSE x + PartSize) - (IF offset > x THEN offset ELSE x)
             = PartSize
      BY <2>1, <1>8
    <2>. HIDE DEF x, end
    <2>. QED  BY <2>1, <2>2, <1>1, Sizes
  <1>. DEFINE r == PartSize * m + b
  <1>10. r \in Nat /\ r % PartSize = b /\ partIdxAtOffset(kind, r) = p
    <2>. HIDE DEF p
    <2>. QED  BY <1>7, BlockOf
  <1>11. offset <= r /\ r < end
    <2>. DEFINE x == PartSize * m
    <2>1. x \in Nat /\ b \in 0 .. PartSize - 1
      BY <1>2, <1>7 DEF Places
    <2>2. x + PartSize <= end /\ offset <= x
      BY <1>9
    <2>. HIDE DEF x, end
    <2>3. offset <= x + b /\ x + b < end
      BY <2>1, <2>2, <1>1, Sizes
    <2>. QED  BY <2>3 DEF x
  <1>12. ASSUME kind = "circular", r < end - MaxSize
         PROVE  FALSE
    <2>. DEFINE x == PartSize * m
                k == m + MaxParts
    <2>1. PartSize * k = x + MaxSize /\ k \in Nat /\ x \in Nat
      BY <1>7, <1>2, Sizes, Times
    <2>2. x + PartSize <= end /\ offset <= x /\ x + b < end - MaxSize /\ b \in 0 .. PartSize - 1
      BY <1>9, <1>12 DEF Places
    <2>3. PartSize * k < end /\ offset < PartSize * k + PartSize
      <3>. HIDE DEF x, k, end
      <3>. QED  BY <2>1, <2>2, <1>1, Sizes
    <2>4. k \in blocks
      <3>. HIDE DEF k, blocks, end
      <3>. QED  BY <2>1, <2>3, <1>5
    <2>5. idx(k) = p
      <3>1. idx(m) = m % MaxParts /\ idx(k) = k % MaxParts
        <4>2. \A a \in Nat : idx(a) = a % MaxParts
          BY <1>12, BlockIdx
        <4>. HIDE DEF idx
        <4>. QED  BY <4>2, <1>7, <2>1
      <3>2. k % MaxParts = m % MaxParts
        BY <1>7, ModShift
      <3>. QED  BY <3>1, <3>2, <1>7
    <2>6. k <= m
      <3>. HIDE DEF k, blocks, idx, p
      <3>. QED  BY <2>4, <2>5, <1>6
    <2>. QED  BY <2>6, <1>7, Sizes
  <1>13. kind = "circular" => r >= end - MaxSize
    <2>. HIDE DEF r, end
    <2>. QED  BY <1>12, <1>10, <1>1, Sizes
  <1>14. \E x \in Nat : /\ offset <= x /\ x < end /\ partIdxAtOffset(kind, x) = p
                        /\ x % PartSize = b
                        /\ kind = "circular" => x >= end - MaxSize
    <2>. HIDE DEF r, end, p
    <2>. QED  BY <1>10, <1>11, <1>13
  <1>. QED  BY <1>14, Sizes

(* What the variables hold. *)
-----------------------------------------------------------------------------
(* What a reader sees                                                        *)

File == [kind : Kinds, size : Nat]

Entries == [pins : Int, file : File \union {NoFile}, parts : PartMaps, errs : Nat]

Start(f) == IF f.kind = "circular" /\ f.size > MaxSize THEN f.size - MaxSize ELSE 0

ByteAt(kind, cached, db, pos) ==
  LET p == partIdxAtOffset(kind, pos)
      b == pos % PartSize
  IN  IF p \in DOMAIN cached THEN cached[p][b]
      ELSE IF p \in DOMAIN db THEN db[p][b] ELSE 0

Read(f, cached, db) ==
  [i \in 1 .. f.size - Start(f) |-> ByteAt(f.kind, cached, db, Start(f) + i - 1)]

Look(f, cached, db) ==
  IF f = NoFile THEN NoFile
  ELSE [kind |-> f.kind, size |-> f.size, data |-> Read(f, cached, db)]

LEMMA ReadIs ==
  ASSUME NEW f, NEW cached
  PROVE  readAll(f, cached) = Read(f, cached, dbParts) /\ Seen(f, cached) = Look(f, cached, dbParts)
  BY DEF readAll, Read, Start, ByteAt, Seen, Look

LEMMA Files ==
  ASSUME NEW f \in File
  PROVE  /\ f # NoFile /\ f.kind \in Kinds /\ f.size \in Nat /\ f = [kind |-> f.kind, size |-> f.size]
         /\ f.kind \in {"plain", "circular", "ijson"} /\ f.kind # "none"
         /\ Start(f) \in 0 .. f.size
         /\ f.kind # "circular" => Start(f) = 0
         /\ f.kind = "circular" => Start(f) >= f.size - MaxSize
  <1>1. f.kind \in Kinds /\ f.size \in Nat /\ f = [kind |-> f.kind, size |-> f.size]
    BY DEF File
  <1>2. f.kind \in {"plain", "circular", "ijson"}
    BY <1>1, StoreAssumption DEF StoreAssumption
  <1>3. f # NoFile
    BY <1>2 DEF NoFile
  <1>. QED  BY <1>1, <1>2, <1>3, Sizes DEF Start

LEMMA ByteType ==
  ASSUME NEW kind, NEW cached \in PartMaps, NEW db \in PartMaps, NEW pos \in Nat
  PROVE  ByteAt(kind, cached, db, pos) \in Nat
  <1>1. \A p \in DOMAIN cached : cached[p] \in Part
    BY MapOfParts
  <1>2. \A p \in DOMAIN db : db[p] \in Part
    BY MapOfParts
  <1>3. pos % PartSize \in Places
    BY PlaceOf
  <1>. QED  BY <1>1, <1>2, <1>3 DEF ByteAt, Part, Places

LEMMA ReadType ==
  ASSUME NEW f \in File, NEW cached \in PartMaps, NEW db \in PartMaps
  PROVE  /\ Read(f, cached, db) \in Seq(Nat)
         /\ Len(Read(f, cached, db)) = f.size - Start(f)
         /\ \A i \in 1 .. f.size - Start(f) :
              Read(f, cached, db)[i] = ByteAt(f.kind, cached, db, Start(f) + i - 1)
  <1>1. f.size \in Nat /\ Start(f) \in Nat /\ f.size - Start(f) \in Nat
    BY Files
  <1>2. \A i \in 1 .. f.size - Start(f) : ByteAt(f.kind, cached, db, Start(f) + i - 1) \in Nat
    <2>. SUFFICES ASSUME NEW i \in 1 .. f.size - Start(f)
                  PROVE  ByteAt(f.kind, cached, db, Start(f) + i - 1) \in Nat
      OBVIOUS
    <2>1. Start(f) + i - 1 \in Nat
      BY <1>1
    <2>. QED  BY <2>1, ByteType
  <1>. DEFINE N == f.size - Start(f)
              F(i) == ByteAt(f.kind, cached, db, Start(f) + i - 1)
  <1>3. Read(f, cached, db) = [i \in 1 .. N |-> F(i)]
    BY DEF Read
  <1>4. N \in Nat /\ \A i \in 1 .. N : F(i) \in Nat
    BY <1>1, <1>2
  <1>. HIDE DEF N, F
  <1>5. [i \in 1 .. N |-> F(i)] \in Seq(Nat) /\ Len([i \in 1 .. N |-> F(i)]) = N
    BY <1>4
  <1>6. /\ Read(f, cached, db) \in Seq(Nat)
        /\ Len(Read(f, cached, db)) = N
        /\ \A i \in 1 .. N : Read(f, cached, db)[i] = F(i)
    BY <1>3, <1>5
  <1>. QED  BY <1>6 DEF N, F

(* What loading adds to the cached parts. *)
LEMMA LoadedMap ==
  ASSUME NEW parts \in PartMaps, dbParts \in PartMaps, NEW wanted,
         NEW L, L = Loaded(parts, wanted)
  PROVE  /\ L \in PartMaps
         /\ DOMAIN parts \subseteq DOMAIN L
         /\ \A p \in DOMAIN parts : L[p] = parts[p]
         /\ \A p \in DOMAIN L \ DOMAIN parts : p \in DOMAIN dbParts /\ L[p] = dbParts[p]
         /\ \A p \in wanted \intersect DOMAIN dbParts : p \in DOMAIN L
  <1>. DEFINE g == [p \in wanted \intersect DOMAIN dbParts |-> dbParts[p]]
  <1>1. DOMAIN g = wanted \intersect DOMAIN dbParts /\ \A p \in DOMAIN g : g[p] = dbParts[p]
    OBVIOUS
  <1>2. g \in PartMaps
    <2>1. g = [p \in DOMAIN g |-> g[p]]
      OBVIOUS
    <2>2. DOMAIN dbParts \subseteq Nat /\ \A p \in DOMAIN dbParts : dbParts[p] \in Part
      BY MapOfParts
    <2>. HIDE DEF g
    <2>. QED  BY <1>1, <2>1, <2>2, MapOfParts
  <1>3. L = Over(parts, g)
    BY DEF Loaded
  <1>. HIDE DEF g
  <1>4. /\ Over(parts, g) \in PartMaps
        /\ DOMAIN Over(parts, g) = DOMAIN parts \cup DOMAIN g
        /\ \A p \in DOMAIN parts : Over(parts, g)[p] = parts[p]
        /\ \A p \in DOMAIN g \ DOMAIN parts : Over(parts, g)[p] = g[p]
    BY <1>2, OverMap
  <1>. QED  BY <1>1, <1>3, <1>4

(* How much of the front of a long write a circular file drops. *)
Skip(kind, n) == IF kind = "circular" /\ n > MaxSize THEN n - MaxSize ELSE 0

LEMMA MaxThree ==
  ASSUME NEW x \in Int, NEW y \in Int, x <= 0
  PROVE  Max({0, x, y}) = IF y > 0 THEN y ELSE 0
  <1>. DEFINE m == IF y > 0 THEN y ELSE 0
  <1>1. m \in {0, x, y} /\ \A z \in {0, x, y} : m >= z
    OBVIOUS
  <1>2. \A k \in {0, x, y} : (\A z \in {0, x, y} : k >= z) => k = m
    OBVIOUS
  <1>. HIDE DEF m
  <1>3. Max({0, x, y}) = m
    BY <1>1, <1>2 DEF Max
  <1>. QED  BY <1>3 DEF m

Updated(e, w, z) == [e EXCEPT !.parts = w, !.file.size = z]

LEMMA UpdateEntry ==
  ASSUME NEW e \in Entries, e.file \in File, NEW w, NEW z
  PROVE  Updated(e, w, z) =
           [pins |-> e.pins, file |-> [kind |-> e.file.kind, size |-> z], parts |-> w,
            errs |-> e.errs]
  <1>. DEFINE pins == e.pins
              f == e.file
              parts0 == e.parts
              errs == e.errs
  <1>1. e = [pins |-> pins, file |-> f, parts |-> parts0, errs |-> errs]
    BY DEF Entries
  <1>2. [f EXCEPT !.size = z] = [kind |-> f.kind, size |-> z]
    BY Files
  <1>. HIDE DEF pins, f, parts0, errs
  <1>4. [e EXCEPT !.parts = w, !.file.size = z]
          = [e EXCEPT !.parts = w, !.file = [f EXCEPT !.size = z]]
    BY <1>1
  <1>3. [e EXCEPT !.parts = w] = [pins |-> pins, file |-> f, parts |-> w, errs |-> errs]
    BY <1>1
  <1>6. \A g : [e EXCEPT !.parts = w, !.file = g] = [[e EXCEPT !.parts = w] EXCEPT !.file = g]
    BY <1>1
  <1>7. \A g : [[e EXCEPT !.parts = w] EXCEPT !.file = g]
                 = [pins |-> pins, file |-> g, parts |-> w, errs |-> errs]
    <2>. DEFINE e1 == [e EXCEPT !.parts = w]
    <2>. SUFFICES ASSUME NEW g
                  PROVE  [e1 EXCEPT !.file = g]
                           = [pins |-> pins, file |-> g, parts |-> w, errs |-> errs]
      OBVIOUS
    <2>1. e1 = [pins |-> pins, file |-> f, parts |-> w, errs |-> errs]
      BY <1>3
    <2>. HIDE DEF e1
    <2>. QED  BY <2>1
  <1>5. [e EXCEPT !.parts = w, !.file.size = z]
          = [pins |-> pins, file |-> [f EXCEPT !.size = z], parts |-> w, errs |-> errs]
    BY <1>4, <1>6, <1>7
  <1>. QED  BY <1>2, <1>5 DEF pins, f, errs, Updated

OldSize(e, replace) == IF replace THEN 0 ELSE e.file.size

Rewritten(e, offset, data, replace) ==
  LET skip == Skip(e.file.kind, Len(data))
  IN  [pins  |-> e.pins,
       file  |-> [kind |-> e.file.kind,
                  size |-> IF offset + Len(data) > OldSize(e, replace) \/ replace
                             THEN offset + Len(data) ELSE OldSize(e, replace)],
       parts |-> Put(IF replace THEN NoParts ELSE e.parts, e.file.kind,
                     offset + skip, SubSeq(data, skip + 1, Len(data))),
       errs  |-> e.errs]

LEMMA WriteAtIs ==
  ASSUME NEW e \in Entries, e.file \in File, NEW offset \in Nat, NEW data \in Seq(Nat),
         NEW replace \in BOOLEAN,
         e.file.kind = "circular" => Len(data) > 0 /\ offset >= OldSize(e, replace) - MaxSize
  PROVE  writeAt(e, offset, data, replace) = Rewritten(e, offset, data, replace)
  <1>. PICK size : size = OldSize(e, replace)
    OBVIOUS
  <1>. DEFINE kind == e.file.kind
              n == Len(data)
              end == offset + n
              skip == IF kind = "circular"
                        THEN Max({0, size - MaxSize - offset, n - MaxSize}) ELSE 0
              parts == IF replace THEN NoParts ELSE e.parts
              W == Put(parts, kind, offset + skip, SubSeq(data, skip + 1, n))
              s == IF end > size \/ replace THEN end ELSE size
  <1>1. /\ size \in Nat /\ n \in Nat /\ MaxSize \in Nat /\ MaxSize > 0
        /\ e.file = [kind |-> e.file.kind, size |-> e.file.size]
    BY Files, Sizes DEF OldSize
  <1>2. skip = Skip(kind, n)
    <2>1. CASE kind = "circular"
      <3>1. size - MaxSize - offset \in Int /\ size - MaxSize - offset <= 0 /\ n - MaxSize \in Int
        BY <2>1, <1>1
      <3>. HIDE DEF n, kind
      <3>2. Max({0, size - MaxSize - offset, n - MaxSize})
              = IF n - MaxSize > 0 THEN n - MaxSize ELSE 0
        BY <3>1, MaxThree
      <3>. QED  BY <3>2, <2>1, <1>1 DEF Skip
    <2>2. CASE kind # "circular"
      BY <2>2 DEF Skip
    <2>. QED  BY <2>1, <2>2
  <1>3. ~ (kind = "circular" /\ end <= size - MaxSize)
    <2>. HIDE DEF kind, n
    <2>1. kind = "circular" => n > 0 /\ offset >= size - MaxSize
      BY DEF kind, n
    <2>. QED  BY <2>1, <1>1
  <1>4. writeAt(e, offset, data, replace) = [e EXCEPT !.parts = W, !.file.size = s]
    <2>1. writeAt(e, offset, data, replace) =
            IF kind = "circular" /\ end <= size - MaxSize THEN e
            ELSE [e EXCEPT !.parts = W, !.file.size = s]
      BY DEF writeAt, OldSize
    <2>. HIDE DEF kind, end, W, s
    <2>. QED  BY <1>3, <2>1
  <1>5. /\ e = [pins |-> e.pins, file |-> e.file, parts |-> e.parts, errs |-> e.errs]
    BY DEF Entries
  <1>7. writeAt(e, offset, data, replace) =
          [pins |-> e.pins, file |-> [kind |-> kind, size |-> s], parts |-> W,
           errs |-> e.errs]
    <2>. HIDE DEF W, s
    <2>. QED  BY <1>4, UpdateEntry DEF Updated
  <1>. QED  BY <1>2, <1>7 DEF Rewritten

-----------------------------------------------------------------------------
(* Writing over some of a file                                               *)

LEMMA TailOf ==
  ASSUME NEW data \in Seq(Nat), NEW k \in 0 .. Len(data), NEW d, d = SubSeq(data, k + 1, Len(data))
  PROVE  /\ d \in Seq(Nat)
         /\ Len(d) = Len(data) - k
         /\ DOMAIN d = 1 .. Len(data) - k
         /\ \A i \in 1 .. Len(data) - k : d[i] = data[k + i]
  OBVIOUS

LEMMA SkipBounds ==
  ASSUME NEW kind, NEW n \in Nat
  PROVE  /\ Skip(kind, n) \in 0 .. n
         /\ kind = "circular" => n - Skip(kind, n) <= MaxSize
         /\ Skip(kind, n) # 0 => kind = "circular" /\ Skip(kind, n) = n - MaxSize
  BY Sizes DEF Skip

(* The heart of writeAt: the parts of a file after a write over a part of   *)
(* it, whatever was in the cache and in the database before.                *)
Written(W, kind, parts, data, offset, window) ==
  /\ W \in PartMaps
  /\ \A pos \in window :
       ByteAt(kind, W, dbParts, pos) =
         IF offset <= pos /\ pos < offset + Len(data) THEN data[pos - offset + 1]
         ELSE ByteAt(kind, parts, dbParts, pos)

Longer(old, end) == IF end > old THEN end ELSE old

Dropped(kind, data) == SubSeq(data, Skip(kind, Len(data)) + 1, Len(data))

LEMMA LoadPut ==
  ASSUME NEW kind, NEW old \in Nat, NEW offset \in Nat, offset <= old,
         NEW data \in Seq(Nat), Len(data) > 0,
         kind = "circular" => offset >= old - MaxSize,
         NEW parts \in PartMaps, dbParts \in PartMaps,
         NEW start \in Nat,
         kind = "circular" => start >= Longer(old, offset + Len(data)) - MaxSize
  PROVE  Written(Put(Loaded(parts, incompleteParts(kind, offset, Len(data))), kind,
                     offset + Skip(kind, Len(data)), Dropped(kind, data)),
                 kind, parts, data, offset, start .. Longer(old, offset + Len(data)) - 1)
  <1>. PICK n \in Nat : n = Len(data)
    OBVIOUS
  <1>. PICK end \in Nat : end = offset + n
    OBVIOUS
  <1>. PICK L : L = Loaded(parts, incompleteParts(kind, offset, n))
    OBVIOUS
  <1>. PICK skip \in Nat : skip = Skip(kind, n)
    BY SkipBounds
  <1>. PICK d : d = SubSeq(data, skip + 1, n)
    OBVIOUS
  <1>. PICK o \in Nat : o = offset + skip
    OBVIOUS
  <1>. PICK W : W = Put(L, kind, o, d)
    OBVIOUS
  <1>. PICK size \in Nat : size = IF end > old THEN end ELSE old
    OBVIOUS
  <1>. DEFINE want == incompleteParts(kind, offset, n)
  <1>1. MaxSize \in Nat /\ MaxSize > 0
    BY Sizes
  <1>0. /\ old \in Nat /\ offset \in Nat /\ offset <= old /\ n \in Nat /\ n > 0
        /\ end \in Nat /\ end = offset + n /\ skip \in Nat /\ o \in Nat /\ o = offset + skip
        /\ size \in Nat /\ size = (IF end > old THEN end ELSE old) /\ start \in Nat
        /\ kind = "circular" => offset >= old - MaxSize /\ start >= size - MaxSize
    BY DEF Longer
  <1>2. /\ L \in PartMaps
        /\ DOMAIN parts \subseteq DOMAIN L
        /\ \A p \in DOMAIN parts : L[p] = parts[p]
        /\ \A p \in DOMAIN L \ DOMAIN parts : p \in DOMAIN dbParts /\ L[p] = dbParts[p]
        /\ \A p \in want \intersect DOMAIN dbParts : p \in DOMAIN L
    <2>1. L = Loaded(parts, want)
      OBVIOUS
    <2>. HIDE DEF want
    <2>. QED  BY <2>1, LoadedMap
  <1>. HIDE DEF want
  <1>5. /\ skip <= n
        /\ kind = "circular" => n - skip <= MaxSize
        /\ skip # 0 => kind = "circular" /\ skip = n - MaxSize
    BY SkipBounds
  <1>6. /\ d \in Seq(Nat) /\ Len(d) = n - skip /\ DOMAIN d = 1 .. n - skip
        /\ \A i \in 1 .. n - skip : d[i] = data[skip + i]
    <2>1. skip \in 0 .. Len(data)
      BY ONLY <1>5, skip \in Nat, n \in Nat, n = Len(data)
    <2>2. d = SubSeq(data, skip + 1, Len(data))
      OBVIOUS
    <2>3. data \in Seq(Nat) /\ n = Len(data)
      OBVIOUS
    <2>. QED  BY ONLY <2>1, <2>2, <2>3, TailOf
  <1>8. /\ W \in PartMaps
        /\ DOMAIN L \subseteq DOMAIN W
        /\ \A i \in DOMAIN d :
             LET p == partIdxAtOffset(kind, o + i - 1)
             IN  p \in DOMAIN W /\ W[p][(o + i - 1) % PartSize] = d[i]
        /\ \A pos \in Nat : ~Hits(kind, o, d, pos) =>
             LET p == partIdxAtOffset(kind, pos)
                 b == pos % PartSize
             IN  IF p \in DOMAIN L THEN p \in DOMAIN W /\ W[p][b] = L[p][b]
                 ELSE IF p \in DOMAIN W
                 THEN /\ W[p][b] = 0
                      /\ \E i \in DOMAIN d : partIdxAtOffset(kind, o + i - 1) = p
                 ELSE TRUE
    <2>1. kind = "circular" => Len(d) <= MaxSize
      BY <1>5, <1>6
    <2>2. W = Put(L, kind, o, d) /\ o \in Nat /\ L \in PartMaps /\ d \in Seq(Nat)
      BY <1>2, <1>6
    <2>3. IsPut(W, L, kind, o, d)
      BY ONLY <2>1, <2>2, PutMap
    <2>. QED  BY ONLY <2>3 DEF IsPut
  <1>13. ASSUME NEW pos \in start .. size - 1
         PROVE  ByteAt(kind, W, dbParts, pos) =
                  IF offset <= pos /\ pos < end THEN data[pos - offset + 1]
                  ELSE ByteAt(kind, parts, dbParts, pos)
    <2>. DEFINE p == partIdxAtOffset(kind, pos)
                b == pos % PartSize
    <2>8. pos \in start .. size - 1
      OBVIOUS
    <2>0. pos \in Nat /\ pos < size /\ (kind = "circular" => pos >= size - MaxSize)
      BY ONLY <2>8, <1>0, <1>1
    <2>1. CASE offset <= pos /\ pos < end
      <3>2. PICK i \in 1 .. n - skip : o + i - 1 = pos /\ skip + i = pos - offset + 1
        <4>1. pos >= o
          BY ONLY <2>0, <2>1, <1>0, <1>1, <1>5
        <4>2. pos - o + 1 \in 1 .. n - skip /\ o + (pos - o + 1) - 1 = pos
                /\ skip + (pos - o + 1) = pos - offset + 1
          BY ONLY <2>0, <2>1, <1>0, <1>1, <1>5, <4>1
        <4>. QED  BY ONLY <4>2
      <3>3. i \in DOMAIN d /\ d[i] = data[pos - offset + 1]
        BY <3>2, <1>6
      <3>4. p \in DOMAIN W /\ W[p][b] = d[i]
        BY <3>2, <3>3, <1>8
      <3>. QED  BY <2>1, <3>3, <3>4 DEF ByteAt
    <2>2. CASE ~ (offset <= pos /\ pos < end)
      <3>1. ASSUME NEW q \in Nat, offset <= q, q < end,
                   kind = "circular" => q >= end - MaxSize,
                   partIdxAtOffset(kind, q) = p, q % PartSize = b
            PROVE  FALSE
        <4>1. kind = "circular" => q < pos + MaxSize /\ pos < q + MaxSize
          <5>1. q \in Nat
            OBVIOUS
          <5>. QED  BY ONLY <5>1, <3>1, <2>0, <2>2, <1>0, <1>1
        <4>2. q = pos
          BY <3>1, <4>1, <2>0, OnePlace
        <4>. QED  BY <3>1, <4>2, <2>2
      <3>2. \A i \in DOMAIN d : /\ o + i - 1 \in Nat
                                /\ offset <= o + i - 1
                                /\ o + i - 1 < end
                                /\ kind = "circular" => o + i - 1 >= end - MaxSize
        <4>. SUFFICES ASSUME NEW i \in 1 .. n - skip
                      PROVE  /\ o + i - 1 \in Nat
                             /\ offset <= o + i - 1
                             /\ o + i - 1 < end
                             /\ kind = "circular" => o + i - 1 >= end - MaxSize
          BY <1>6
        <4>1. i \in 1 .. n - skip
          OBVIOUS
        <4>. QED  BY ONLY <4>1, <1>0, <1>1, <1>5
      <3>3. ~ Hits(kind, o, d, pos)
        <4>1. SUFFICES ASSUME NEW i \in DOMAIN d,
                              partIdxAtOffset(kind, o + i - 1) = p,
                              (o + i - 1) % PartSize = b
                       PROVE  FALSE
          BY DEF Hits
        <4>2. PICK q \in Nat : q = o + i - 1
          BY <3>2
        <4>. HIDE DEF p, b
        <4>3. offset <= q /\ q < end /\ (kind = "circular" => q >= end - MaxSize)
          BY <3>2, <4>2
        <4>4. partIdxAtOffset(kind, q) = p /\ q % PartSize = b
          BY <4>1, <4>2
        <4>. QED  BY <4>3, <4>4, <3>1
      <3>4. IF p \in DOMAIN L THEN p \in DOMAIN W /\ W[p][b] = L[p][b]
            ELSE IF p \in DOMAIN W
            THEN /\ W[p][b] = 0
                 /\ \E i \in DOMAIN d : partIdxAtOffset(kind, o + i - 1) = p
            ELSE TRUE
        BY <1>8, <2>0, <3>3
      <3>5. CASE p \in DOMAIN L
        BY <3>4, <3>5, <1>2, <2>2 DEF ByteAt
      <3>6. CASE p \notin DOMAIN L /\ p \in DOMAIN W
        <4>1. PICK i \in DOMAIN d : partIdxAtOffset(kind, o + i - 1) = p
          <5>. HIDE DEF p
          <5>. QED  BY <3>4, <3>6
        <4>2. PICK q \in Nat : q = o + i - 1 /\ offset <= q /\ q < end
          BY <3>2
        <4>3. p \notin DOMAIN dbParts
          <5>1. SUFFICES ASSUME p \in DOMAIN dbParts PROVE FALSE
            OBVIOUS
          <5>. HIDE DEF p
          <5>2. p \notin want
            BY <5>1, <3>6, <1>2
          <5>3. b \in Places
            BY <2>0, PlaceOf
          <5>4. partIdxAtOffset(kind, q) = p
            BY <4>1, <4>2
          <5>5. partIdxAtOffset(kind, q) \notin incompleteParts(kind, offset, n)
            BY <5>2, <5>4 DEF want
          <5>. HIDE DEF b
          <5>6. PICK r \in Nat : /\ offset <= r /\ r < offset + n
                                 /\ partIdxAtOffset(kind, r) = partIdxAtOffset(kind, q)
                                 /\ r % PartSize = b
                                 /\ kind = "circular" => r >= offset + n - MaxSize
            <6>1. /\ offset \in Nat /\ n \in Nat /\ q \in Nat /\ b \in Places
                  /\ offset <= q /\ q < offset + n
              BY <4>2, <5>3
            <6>. QED  BY ONLY <6>1, <5>5, Covered
          <5>7. offset + n - MaxSize = end - MaxSize /\ offset + n = end
            BY ONLY <1>0, <1>1
          <5>. HIDE DEF p, b
          <5>. QED  BY <5>4, <5>6, <5>7, <3>1
        <4>4. p \notin DOMAIN parts
          BY <3>6, <1>2
        <4>. QED  BY <3>4, <3>6, <4>3, <4>4, <2>2 DEF ByteAt
      <3>7. CASE p \notin DOMAIN W
        <4>1. p \notin DOMAIN parts
          BY <3>7, <1>2, <1>8
        <4>. QED  BY <3>7, <4>1, <2>2 DEF ByteAt
      <3>. QED  BY <3>5, <3>6, <3>7
    <2>. QED  BY <2>1, <2>2
  <1>14. /\ start .. Longer(old, offset + Len(data)) - 1 = start .. size - 1
         /\ W = Put(Loaded(parts, incompleteParts(kind, offset, Len(data))), kind,
                    offset + Skip(kind, Len(data)), Dropped(kind, data))
    BY DEF Longer, Dropped
  <1>15. Written(W, kind, parts, data, offset, start .. size - 1)
    <2>1. offset + Len(data) = end /\ W \in PartMaps
      BY <1>8
    <2>. QED  BY ONLY <2>1, <1>13 DEF Written
  <1>. QED  BY ONLY <1>14, <1>15

(* An entry once the parts that a write of n bytes needs are in it. *)
Loading(e, offset, n) ==
  [e EXCEPT !.parts = Loaded(@, incompleteParts(e.file.kind, offset, n))]

(* R is e after data was written at offset. *)
After(R, e, offset, data) ==
  /\ R \in Entries /\ R.pins = e.pins
  /\ R.file = [kind |-> e.file.kind, size |-> Longer(e.file.size, offset + Len(data))]
  /\ R.file \in File
  /\ Written(R.parts, e.file.kind, e.parts, data, offset, Start(R.file) .. R.file.size - 1)

LEMMA WriteBytes ==
  ASSUME NEW e \in Entries, e.file \in File, dbParts \in PartMaps,
         NEW offset \in 0 .. e.file.size, NEW data \in Seq(Nat), Len(data) > 0,
         e.file.kind = "circular" => offset >= e.file.size - MaxSize
  PROVE  After(writeAt(Loading(e, offset, Len(data)), offset, data, FALSE), e, offset, data)
  <1>. PICK kind : kind = e.file.kind
    OBVIOUS
  <1>. PICK n \in Nat : n = Len(data)
    OBVIOUS
  <1>. PICK old \in Nat : old = e.file.size
    BY Files
  <1>. PICK parts \in PartMaps : parts = e.parts
    BY DEF Entries
  <1>. PICK L : L = Loaded(parts, incompleteParts(kind, offset, n))
    OBVIOUS
  <1>. PICK P : P = Loading(e, offset, n)
    OBVIOUS
  <1>. PICK R : R = writeAt(P, offset, data, FALSE)
    OBVIOUS
  <1>. PICK W : W = Put(L, kind, offset + Skip(kind, n), Dropped(kind, data))
    OBVIOUS
  <1>. PICK size : size = Longer(old, offset + n)
    OBVIOUS
  <1>. PICK f : f = [kind |-> kind, size |-> size]
    OBVIOUS
  <1>1. /\ e = [pins |-> e.pins, file |-> e.file, parts |-> parts, errs |-> e.errs]
        /\ e.pins \in Int /\ e.errs \in Nat
    BY DEF Entries
  <1>2. P = [pins |-> e.pins, file |-> e.file, parts |-> L, errs |-> e.errs]
    <2>1. P = [e EXCEPT !.parts = L]
      BY DEF Loading
    <2>. QED  BY ONLY <1>1, <2>1
  <1>3. L \in PartMaps
    BY LoadedMap
  <1>4. P \in Entries /\ P.file = e.file /\ P.parts = L /\ P.pins = e.pins /\ P.errs = e.errs
    <2>1. e.file \in File
      OBVIOUS
    <2>. QED  BY ONLY <1>1, <1>2, <1>3, <2>1 DEF Entries
  <1>5. kind \in Kinds /\ offset \in Nat /\ offset <= old /\ n > 0
    BY Files
  <1>6. size \in Nat /\ f \in File /\ f.kind = kind /\ f.size = size
    <2>1. size \in Nat
      BY <1>5 DEF Longer
    <2>2. f = [kind |-> kind, size |-> size]
      OBVIOUS
    <2>. QED  BY ONLY <1>5, <2>1, <2>2 DEF File
  <1>7. R = [pins |-> e.pins, file |-> f, parts |-> W, errs |-> e.errs]
    <2>1. P.file \in File /\ P.file.size = (IF FALSE THEN 0 ELSE P.file.size)
      BY <1>4
    <2>2. P.file.kind = "circular" => Len(data) > 0 /\ offset >= OldSize(P, FALSE) - MaxSize
      BY <1>4 DEF OldSize
    <2>3. writeAt(P, offset, data, FALSE) = Rewritten(P, offset, data, FALSE)
      BY <1>4, <1>5, <2>1, <2>2, WriteAtIs
    <2>. QED  BY <2>3, <1>4 DEF Rewritten, OldSize, Dropped, Longer
  <1>8. Start(f) \in Nat /\ (kind = "circular" => Start(f) >= size - MaxSize)
    BY <1>6, Files
  <1>9. Written(W, kind, parts, data, offset, Start(f) .. size - 1)
    <2>1. kind = "circular" => Start(f) >= Longer(old, offset + Len(data)) - MaxSize
      BY <1>8
    <2>2. Written(Put(Loaded(parts, incompleteParts(kind, offset, Len(data))), kind,
                     offset + Skip(kind, Len(data)), Dropped(kind, data)),
                 kind, parts, data, offset, Start(f) .. Longer(old, offset + Len(data)) - 1)
      BY <1>5, <1>8, <2>1, LoadPut
    <2>. QED  BY <2>2
  <1>10. W \in PartMaps
    BY <1>9 DEF Written
  <1>11. R \in Entries /\ R.pins = e.pins /\ R.file = f /\ R.parts = W
    BY ONLY <1>1, <1>6, <1>7, <1>10 DEF Entries
  <1>. QED  BY <1>6, <1>9, <1>11 DEF After

(* R is e with its bytes replaced by data, and none of them left outside    *)
(* the cache.                                                               *)
Replaced(R, e, data) ==
  /\ R \in Entries /\ R.pins = e.pins
  /\ R.file = [kind |-> e.file.kind, size |-> Len(data)] /\ R.file \in File
  /\ \A pos \in Start(R.file) .. Len(data) - 1 :
       LET p == partIdxAtOffset(e.file.kind, pos)
       IN  p \in DOMAIN R.parts /\ R.parts[p][pos % PartSize] = data[pos + 1]

LEMMA WriteReplaced ==
  ASSUME NEW e \in Entries, e.file \in File, NEW data \in Seq(Nat),
         e.file.kind = "circular" => Len(data) > 0
  PROVE  Replaced(writeAt(e, 0, data, TRUE), e, data)
  <1>. PICK kind : kind = e.file.kind
    OBVIOUS
  <1>. PICK n \in Nat : n = Len(data)
    OBVIOUS
  <1>. PICK skip \in Nat : skip = Skip(kind, n)
    BY SkipBounds
  <1>. PICK d : d = SubSeq(data, skip + 1, n)
    OBVIOUS
  <1>. PICK R : R = writeAt(e, 0, data, TRUE)
    OBVIOUS
  <1>. PICK W : W = Put(NoParts, kind, skip, d)
    OBVIOUS
  <1>. PICK f : f = [kind |-> kind, size |-> n]
    OBVIOUS
  <1>1. /\ e = [pins |-> e.pins, file |-> e.file, parts |-> e.parts, errs |-> e.errs]
        /\ e.pins \in Int /\ e.errs \in Nat
    BY DEF Entries
  <1>2. f \in File /\ f.kind = kind /\ f.size = n
    <2>1. kind \in Kinds /\ n \in Nat /\ f = [kind |-> kind, size |-> n]
      BY Files
    <2>. QED  BY ONLY <2>1 DEF File
  <1>3. R = [pins |-> e.pins, file |-> f, parts |-> W, errs |-> e.errs]
    <2>2. e.file.kind = "circular" => Len(data) > 0 /\ 0 >= OldSize(e, TRUE) - MaxSize
      BY Sizes DEF OldSize
    <2>3. writeAt(e, 0, data, TRUE) = Rewritten(e, 0, data, TRUE)
      BY <2>2, WriteAtIs
    <2>4. 0 + Len(data) = n /\ 0 + skip = skip
      OBVIOUS
    <2>. QED  BY <2>3, <2>4 DEF Rewritten, OldSize
  <1>4. /\ skip <= n
        /\ kind = "circular" => n - skip <= MaxSize
        /\ skip # 0 => kind = "circular" /\ skip = n - MaxSize
    BY SkipBounds
  <1>5. /\ d \in Seq(Nat) /\ Len(d) = n - skip /\ DOMAIN d = 1 .. n - skip
        /\ \A i \in 1 .. n - skip : d[i] = data[skip + i]
    <2>1. skip \in 0 .. Len(data)
      BY ONLY <1>4, skip \in Nat, n \in Nat, n = Len(data)
    <2>2. d = SubSeq(data, skip + 1, Len(data)) /\ data \in Seq(Nat) /\ n = Len(data)
      OBVIOUS
    <2>. QED  BY ONLY <2>1, <2>2, TailOf
  <1>6. IsPut(W, NoParts, kind, skip, d)
    <2>1. kind = "circular" => Len(d) <= MaxSize
      BY <1>4, <1>5
    <2>2. W = Put(NoParts, kind, skip, d) /\ skip \in Nat /\ d \in Seq(Nat)
      BY <1>5
    <2>. QED  BY ONLY <2>1, <2>2, PutMap, NoPartsMap
  <1>7. W \in PartMaps
    BY <1>6 DEF IsPut
  <1>8. R \in Entries /\ R.pins = e.pins /\ R.file = f /\ R.parts = W
    BY ONLY <1>1, <1>2, <1>3, <1>7 DEF Entries
  <1>9. Start(f) \in Nat /\ Start(f) >= skip
    BY <1>2, <1>4, Sizes, Files DEF Start
  <1>10. ASSUME NEW pos \in Start(f) .. n - 1
         PROVE  /\ partIdxAtOffset(kind, pos) \in DOMAIN W
                /\ W[partIdxAtOffset(kind, pos)][pos % PartSize] = data[pos + 1]
    <2>1. pos \in Start(f) .. n - 1
      OBVIOUS
    <2>2. /\ pos - skip + 1 \in 1 .. n - skip
          /\ skip + (pos - skip + 1) - 1 = pos /\ skip + (pos - skip + 1) = pos + 1
      BY ONLY <2>1, <1>4, <1>9, skip \in Nat, n \in Nat
    <2>3. PICK i \in 1 .. n - skip : skip + i - 1 = pos /\ skip + i = pos + 1
      BY ONLY <2>2
    <2>4. i \in DOMAIN d /\ d[i] = data[pos + 1]
      BY <2>3, <1>5
    <2>. QED  BY ONLY <2>3, <2>4, <1>6 DEF IsPut
  <1>. QED  BY <1>2, <1>8, <1>10 DEF Replaced

-----------------------------------------------------------------------------
(* The bytes a reader sees after a write                                     *)

LEMMA SameSeq ==
  ASSUME NEW s \in Seq(Nat), NEW t \in Seq(Nat), Len(s) = Len(t),
         \A i \in 1 .. Len(s) : s[i] = t[i]
  PROVE  s = t
  OBVIOUS

LEMMA WholeSeq ==
  ASSUME NEW s \in Seq(Nat)
  PROVE  SubSeq(s, 1, Len(s)) = s /\ SubSeq(s, 0 + 1, Len(s)) = s
  OBVIOUS

LEMMA CutOf ==
  ASSUME NEW s \in Seq(Nat), NEW lo \in Nat, lo > 0, NEW hi \in Nat, lo <= hi + 1, hi <= Len(s),
         NEW t, t = SubSeq(s, lo, hi)
  PROVE  t \in Seq(Nat) /\ Len(t) = hi + 1 - lo /\ \A i \in 1 .. Len(t) : t[i] = s[lo + i - 1]
  OBVIOUS

LEMMA JoinOf ==
  ASSUME NEW s \in Seq(Nat), NEW t \in Seq(Nat), NEW u, u = s \o t
  PROVE  /\ u \in Seq(Nat) /\ Len(u) = Len(s) + Len(t)
         /\ \A i \in 1 .. Len(u) : u[i] = IF i <= Len(s) THEN s[i] ELSE t[i - Len(s)]
  OBVIOUS

Spliced(X, D, data, a) ==
  /\ X \in Seq(Nat)
  /\ Len(X) = Longer(Len(D), a + Len(data))
  /\ \A j \in 1 .. Len(X) :
       X[j] = IF j <= a THEN D[j] ELSE IF j <= a + Len(data) THEN data[j - a] ELSE D[j]

LEMMA Splice ==
  ASSUME NEW D \in Seq(Nat), NEW data \in Seq(Nat), NEW a \in 0 .. Len(D)
  PROVE  Spliced(SubSeq(D, 1, a) \o data \o SubSeq(D, a + Len(data) + 1, Len(D)), D, data, a)
  <1>. PICK m \in Nat : m = Len(D)
    OBVIOUS
  <1>. PICK n \in Nat : n = Len(data)
    OBVIOUS
  <1>. PICK x : x = SubSeq(D, 1, a)
    OBVIOUS
  <1>. PICK z : z = SubSeq(D, a + n + 1, m)
    OBVIOUS
  <1>. PICK y : y = x \o data
    OBVIOUS
  <1>. PICK X : X = y \o z
    OBVIOUS
  <1>0. a \in Nat /\ a <= m /\ m \in Nat /\ n \in Nat /\ m = Len(D) /\ n = Len(data)
        /\ D \in Seq(Nat) /\ data \in Seq(Nat)
    OBVIOUS
  <1>1. x \in Seq(Nat) /\ Len(x) = a /\ \A j \in 1 .. a : x[j] = D[j]
    <2>1. x = SubSeq(D, 1, a)
      OBVIOUS
    <2>2. x \in Seq(Nat) /\ Len(x) = a + 1 - 1 /\ \A i \in 1 .. Len(x) : x[i] = D[1 + i - 1]
      BY ONLY <2>1, <1>0, CutOf
    <2>3. Len(x) = a /\ \A i \in 1 .. a : 1 + i - 1 = i
      BY ONLY <2>2, <1>0
    <2>. QED  BY ONLY <2>2, <2>3
  <1>2. /\ z \in Seq(Nat) /\ Len(z) \in Nat
        /\ a + n > m => Len(z) = 0
        /\ a + n <= m => Len(z) = m - (a + n)
        /\ \A j \in 1 .. Len(z) : z[j] = D[a + n + j]
    <2>0. z = SubSeq(D, a + n + 1, m)
      OBVIOUS
    <2>1. CASE a + n >= m
      <3>1. z = << >>
        BY ONLY <1>0, <2>0, <2>1
      <3>2. z \in Seq(Nat) /\ Len(z) = 0
        BY ONLY <3>1
      <3>3. a + n <= m => m - (a + n) = 0
        BY ONLY <1>0, <2>1
      <3>4. \A j \in 1 .. 0 : FALSE
        OBVIOUS
      <3>5. \A j \in 1 .. Len(z) : z[j] = D[a + n + j]
        BY ONLY <3>2, <3>4
      <3>. QED  BY ONLY <3>2, <3>3, <3>5
    <2>2. CASE a + n < m
      <3>1. PICK lo \in Nat : lo = a + n + 1
        BY <1>0
      <3>2. lo > 0 /\ lo <= m + 1 /\ lo \in Nat /\ m <= Len(D)
        BY ONLY <1>0, <2>2, <3>1, lo \in Nat
      <3>6. z = SubSeq(D, lo, m)
        BY ONLY <2>0, <3>1
      <3>3. z \in Seq(Nat) /\ Len(z) = m + 1 - lo /\ \A i \in 1 .. Len(z) : z[i] = D[lo + i - 1]
        BY ONLY <3>2, <3>6, <1>0, CutOf
      <3>7. Len(z) = m - (a + n) /\ Len(z) \in Nat
        BY ONLY <3>1, <3>3, <1>0, <2>2
      <3>4. ASSUME NEW i \in Int PROVE lo + i - 1 = a + n + i
        BY ONLY <3>1, <1>0, i \in Int
      <3>8. ASSUME NEW i \in 1 .. Len(z) PROVE z[i] = D[a + n + i]
        <4>1. i \in 1 .. Len(z)
          OBVIOUS
        <4>2. i \in Int
          BY ONLY <4>1, <3>7
        <4>. QED  BY ONLY <4>1, <4>2, <3>3, <3>4
      <3>9. ~ (a + n > m)
        BY ONLY <1>0, <2>2
      <3>. QED  BY ONLY <3>3, <3>7, <3>8, <3>9
    <2>. QED  BY ONLY <1>0, <2>1, <2>2
  <1>5. /\ y \in Seq(Nat) /\ Len(y) = a + n /\ Len(y) \in Nat
        /\ \A j \in 1 .. a + n : y[j] = IF j <= a THEN x[j] ELSE data[j - a]
    <2>0. y = x \o data /\ x \in Seq(Nat) /\ data \in Seq(Nat)
      BY <1>0, <1>1
    <2>1. Len(x) = a /\ Len(data) = n
      BY <1>0, <1>1
    <2>2. /\ y \in Seq(Nat) /\ Len(y) = Len(x) + Len(data)
          /\ \A i \in 1 .. Len(y) : y[i] = IF i <= Len(x) THEN x[i] ELSE data[i - Len(x)]
      BY ONLY <2>0, JoinOf
    <2>3. Len(y) = a + n
      BY ONLY <2>1, <2>2
    <2>4. a + n \in Nat
      BY ONLY <1>0
    <2>. QED  BY ONLY <2>1, <2>2, <2>3, <2>4
  <1>6. /\ X \in Seq(Nat) /\ Len(X) = a + n + Len(z) /\ Len(X) \in Nat
        /\ \A j \in 1 .. Len(X) : X[j] = IF j <= a + n THEN y[j] ELSE z[j - (a + n)]
    <2>1. X = y \o z /\ y \in Seq(Nat) /\ z \in Seq(Nat)
      BY <1>2, <1>5
    <2>2. /\ X \in Seq(Nat) /\ Len(X) = Len(y) + Len(z)
          /\ \A i \in 1 .. Len(X) : X[i] = IF i <= Len(y) THEN y[i] ELSE z[i - Len(y)]
      BY ONLY <2>1, JoinOf
    <2>3. Len(X) = a + n + Len(z) /\ Len(X) \in Nat
      BY ONLY <2>2, <1>0, <1>2, <1>5
    <2>4. Len(y) = a + n
      BY ONLY <1>5
    <2>. QED  BY ONLY <2>2, <2>3, <2>4
  <1>7. Len(X) = Longer(m, a + n)
    <2>. PICK lx : lx = Len(X)
      OBVIOUS
    <2>. PICK lz : lz = Len(z)
      OBVIOUS
    <2>1. lx = a + n + lz /\ lz \in Nat /\ (a + n > m => lz = 0) /\ (a + n <= m => lz = m - (a + n))
      BY <1>2, <1>6
    <2>2. lx = IF a + n > m THEN a + n ELSE m
      BY ONLY <2>1, <1>0
    <2>3. lx = Len(X)
      OBVIOUS
    <2>. QED  BY ONLY <2>2, <2>3 DEF Longer
  <1>8. ASSUME NEW j \in 1 .. Len(X)
        PROVE  X[j] = IF j <= a THEN D[j] ELSE IF j <= a + n THEN data[j - a] ELSE D[j]
    <2>0. j \in Nat /\ j >= 1 /\ j <= Len(X) /\ j \in 1 .. Len(X)
      <3>1. j \in 1 .. Len(X)
        OBVIOUS
      <3>2. Len(X) \in Nat
        BY ONLY <1>6
      <3>. QED  BY ONLY <3>1, <3>2
    <2>1. CASE j <= a
      <3>1. j \in 1 .. a /\ j \in 1 .. a + n /\ j <= a + n
        BY ONLY <2>0, <2>1, <1>0
      <3>. QED  BY ONLY <2>0, <2>1, <3>1, <1>1, <1>5, <1>6
    <2>2. CASE ~ (j <= a) /\ j <= a + n
      <3>1. j \in 1 .. a + n
        BY ONLY <2>0, <2>2, <1>0
      <3>. QED  BY ONLY <2>0, <2>2, <3>1, <1>5, <1>6
    <2>3. CASE ~ (j <= a) /\ ~ (j <= a + n)
      <3>1. PICK i : i = j - (a + n)
        OBVIOUS
      <3>4. i \in 1 .. Len(z) /\ a + n + i = j
        BY ONLY <2>0, <2>3, <1>0, <1>2, <1>6, <3>1
      <3>2. X[j] = z[i]
        BY ONLY <2>0, <2>3, <3>1, <1>6
      <3>3. z[i] = D[j]
        <4>1. z[i] = D[a + n + i]
          BY ONLY <3>4, <1>2
        <4>. QED  BY ONLY <3>4, <4>1
      <3>. QED  BY ONLY <2>3, <3>2, <3>3
    <2>4. j <= a => j <= a + n
      BY ONLY <2>0, <1>0
    <2>. QED  BY <2>1, <2>2, <2>3, <2>4
  <1>9. X = SubSeq(D, 1, a) \o data \o SubSeq(D, a + Len(data) + 1, Len(D))
    OBVIOUS
  <1>. QED  BY ONLY <1>0, <1>6, <1>7, <1>8, <1>9 DEF Spliced

LEMMA ContentsIs ==
  ASSUME NEW kind, NEW size, NEW X \in Seq(Nat)
  PROVE  Promised!Contents(kind, size, X) = [kind |-> kind, size |-> size, data |-> Dropped(kind, X)]
  <1>1. CASE kind = "circular" /\ Len(X) > MaxSize
    BY <1>1 DEF Promised!Contents, Dropped, Skip
  <1>2. CASE ~ (kind = "circular" /\ Len(X) > MaxSize)
    <2>1. Dropped(kind, X) = X
      BY <1>2, WholeSeq DEF Dropped, Skip
    <2>. QED  BY <1>2, <2>1 DEF Promised!Contents
  <1>. QED  BY <1>1, <1>2

LEMMA Overwrite ==
  ASSUME NEW e \in Entries, e.file \in File, dbParts \in PartMaps,
         NEW offset \in 0 .. e.file.size, NEW data \in Seq(Nat), Len(data) > 0,
         e.file.kind = "circular" => offset >= e.file.size - MaxSize,
         NEW R, After(R, e, offset, data)
  PROVE  Look(R.file, R.parts, dbParts)
           = Promised!Overwritten(Look(e.file, e.parts, dbParts), offset, data)
  <1>. PICK kind : kind = e.file.kind
    OBVIOUS
  <1>. PICK n \in Nat : n = Len(data)
    OBVIOUS
  <1>. PICK old \in Nat : old = e.file.size
    BY Files
  <1>. PICK size \in Nat : size = Longer(old, offset + n)
    BY DEF Longer
  <1>. PICK start \in Nat : start = Start(e.file)
    BY Files
  <1>. PICK start2 \in Nat : start2 = Start(R.file)
    BY Files DEF After
  <1>. PICK D : D = Read(e.file, e.parts, dbParts)
    OBVIOUS
  <1>. PICK G : G = Read(R.file, R.parts, dbParts)
    OBVIOUS
  <1>. PICK f : f = Look(e.file, e.parts, dbParts)
    OBVIOUS
  <1>1. /\ R.file.kind = kind /\ R.file.size = size /\ R.file \in File
        /\ e.parts \in PartMaps /\ R.parts \in PartMaps
    BY DEF After, Entries
  <1>2. f = [kind |-> kind, size |-> old, data |-> D]
    BY Files DEF Look
  <1>3. Look(R.file, R.parts, dbParts) = [kind |-> kind, size |-> size, data |-> G]
    BY <1>1, Files DEF Look
  <1>4. /\ D \in Seq(Nat) /\ Len(D) = old - start
        /\ \A i \in 1 .. old - start : D[i] = ByteAt(kind, e.parts, dbParts, start + i - 1)
    <2>1. /\ e.file \in File /\ e.parts \in PartMaps /\ dbParts \in PartMaps
          /\ D = Read(e.file, e.parts, dbParts) /\ start = Start(e.file)
          /\ e.file.size = old /\ e.file.kind = kind
      BY <1>1
    <2>. QED  BY ONLY <2>1, ReadType
  <1>5. /\ G \in Seq(Nat) /\ Len(G) = size - start2
        /\ \A i \in 1 .. size - start2 : G[i] = ByteAt(kind, R.parts, dbParts, start2 + i - 1)
    <2>1. /\ dbParts \in PartMaps
          /\ G = Read(R.file, R.parts, dbParts) /\ start2 = Start(R.file)
      OBVIOUS
    <2>. QED  BY ONLY <1>1, <2>1, ReadType
  <1>6. \A pos \in start2 .. size - 1 :
          ByteAt(kind, R.parts, dbParts, pos) =
            IF offset <= pos /\ pos < offset + n THEN data[pos - offset + 1]
            ELSE ByteAt(kind, e.parts, dbParts, pos)
    BY <1>1 DEF After, Written
  <1>7. /\ start <= offset /\ offset <= old /\ n > 0 /\ offset \in Nat /\ start <= old
        /\ size = (IF offset + n > old THEN offset + n ELSE old)
        /\ start = (IF kind = "circular" /\ old > MaxSize THEN old - MaxSize ELSE 0)
        /\ start2 = (IF kind = "circular" /\ size > MaxSize THEN size - MaxSize ELSE 0)
        /\ MaxSize \in Nat
    BY <1>1, Sizes DEF Start, Longer
  <1>8. PICK a \in Nat : a = offset - start
    BY <1>7
  <1>9. PICK X : X = SubSeq(D, 1, a) \o data \o SubSeq(D, a + n + 1, Len(D))
    OBVIOUS
  <1>10. /\ X \in Seq(Nat)
         /\ Len(X) = Longer(Len(D), a + n)
         /\ \A j \in 1 .. Len(X) :
              X[j] = IF j <= a THEN D[j] ELSE IF j <= a + n THEN data[j - a] ELSE D[j]
    <2>1. a \in 0 .. Len(D)
      <3>1. a \in Nat /\ a = offset - start /\ start \in Nat /\ old \in Nat
        BY <1>8
      <3>. QED  BY ONLY <3>1, <1>4, <1>7
    <2>2. Spliced(X, D, data, a)
      <3>1. data \in Seq(Nat) /\ n = Len(data)
        OBVIOUS
      <3>. QED  BY ONLY <2>1, <3>1, <1>4, <1>9, Splice
    <2>3. n = Len(data)
      OBVIOUS
    <2>. QED  BY ONLY <2>2, <2>3 DEF Spliced
  <1>11. Promised!Overwritten(f, offset, data) = Promised!Contents(kind, size, X)
    <2>1. Promised!DataStartIdx(f) = start
      BY <1>2, <1>4, <1>7 DEF Promised!DataStartIdx
    <2>. PICK s : s = Promised!DataStartIdx(f)
      OBVIOUS
    <2>. DEFINE late == IF offset < s THEN s - offset ELSE 0
                kept == SubSeq(data, late + 1, Len(data))
                at == offset + late - s
    <2>2. Promised!Overwritten(f, offset, data) =
            Promised!Contents(f.kind, IF offset + Len(data) > f.size THEN offset + Len(data) ELSE f.size,
              SubSeq(f.data, 1, at) \o kept \o SubSeq(f.data, at + Len(kept) + 1, Len(f.data)))
      BY DEF Promised!Overwritten
    <2>3. late = 0 /\ at = a
      <3>1. s = start
        BY <2>1
      <3>. QED  BY ONLY <3>1, <1>7, <1>8, start \in Nat, old \in Nat, n \in Nat
    <2>4. kept = data
      BY <2>3, WholeSeq
    <2>5. f.kind = kind /\ f.size = old /\ f.data = D
      BY <1>2
    <2>6. (IF offset + Len(data) > f.size THEN offset + Len(data) ELSE f.size) = size
      BY <2>5, <1>7
    <2>. HIDE DEF late, kept, at
    <2>. QED  BY <2>2, <2>3, <2>4, <2>5, <2>6, <1>9
  <1>12. Dropped(kind, X) = G
    <2>1. PICK k \in Nat : k = Skip(kind, Len(X))
      BY <1>10, SkipBounds
    <2>2. Len(X) = size - start /\ k = start2 - start /\ k <= Len(X)
      <3>1. Len(X) = (IF a + n > old - start THEN a + n ELSE old - start)
        BY <1>4, <1>10 DEF Longer
      <3>2. k = (IF kind = "circular" /\ Len(X) > MaxSize THEN Len(X) - MaxSize ELSE 0)
        BY <2>1 DEF Skip
      <3>. QED  BY ONLY <3>1, <3>2, <1>7, <1>8, old \in Nat, n \in Nat, size \in Nat, start \in Nat, start2 \in Nat
    <2>3. PICK d : d = Dropped(kind, X)
      OBVIOUS
    <2>4. d \in Seq(Nat) /\ Len(d) = Len(X) - k /\ \A i \in 1 .. Len(X) - k : d[i] = X[k + i]
      <3>1. d = SubSeq(X, k + 1, Len(X)) /\ k \in 0 .. Len(X) /\ X \in Seq(Nat)
        BY <2>1, <2>2, <2>3, <1>10 DEF Dropped
      <3>. QED  BY ONLY <3>1, TailOf
    <2>5. Len(d) = size - start2
      BY ONLY <2>2, <2>4, size \in Nat, start \in Nat, start2 \in Nat
    <2>6. ASSUME NEW i \in 1 .. size - start2
          PROVE  d[i] = G[i]
      <3>. DEFINE pos == start2 + i - 1
                  j == k + i
      <3>0. i \in 1 .. size - start2
        OBVIOUS
      <3>1. /\ pos \in start2 .. size - 1 /\ j \in 1 .. Len(X) /\ pos = start + j - 1
            /\ pos - offset + 1 = j - a
            /\ (j <= a <=> pos < offset) /\ (j <= a + n <=> pos < offset + n)
            /\ ~ (offset <= pos /\ pos < offset + n) => j \in 1 .. old - start
            /\ i \in 1 .. Len(X) - k
        BY ONLY <3>0, <2>2, <1>7, <1>8, old \in Nat, n \in Nat, size \in Nat, start \in Nat, start2 \in Nat, k \in Nat
      <3>2. d[i] = X[j]
        BY <2>4, <3>1
      <3>3. G[i] = ByteAt(kind, R.parts, dbParts, pos)
        BY <1>5
      <3>4. PICK q : q = pos
        OBVIOUS
      <3>5. PICK jj : jj = j
        OBVIOUS
      <3>. HIDE DEF pos, j
      <3>6. G[i] = IF offset <= q /\ q < offset + n THEN data[q - offset + 1]
                   ELSE ByteAt(kind, e.parts, dbParts, q)
        BY ONLY <3>1, <3>3, <3>4, <1>6
      <3>7. X[j] = IF j <= a THEN D[j] ELSE IF j <= a + n THEN data[j - a] ELSE D[j]
        BY ONLY <3>1, <1>10
      <3>8. CASE offset <= pos /\ pos < offset + n
        <4>1. ~ (j <= a) /\ j <= a + n
          BY ONLY <3>8, <3>1, <1>7, <1>8, start \in Nat
        <4>. QED  BY <3>8, <4>1, <3>1, <3>2, <3>4, <3>6, <3>7
      <3>9. CASE ~ (offset <= pos /\ pos < offset + n)
        <4>1. (j <= a) \/ ~ (j <= a + n)
          BY ONLY <3>9, <3>1, <1>7, <1>8, start \in Nat
        <4>2. D[j] = ByteAt(kind, e.parts, dbParts, pos)
          BY ONLY <3>9, <3>1, <1>4
        <4>. QED  BY <3>9, <4>1, <4>2, <3>1, <3>2, <3>4, <3>6, <3>7
      <3>. QED  BY <3>8, <3>9
    <2>. QED  BY <2>3, <2>4, <2>5, <2>6, <1>5, SameSeq
  <1>13. Promised!Contents(kind, size, X) = [kind |-> kind, size |-> size, data |-> G]
    BY <1>10, <1>12, ContentsIs
  <1>. QED  BY <1>3, <1>11, <1>13

-----------------------------------------------------------------------------
(* Replacing, compacting and saving                                          *)

(* Whatever the offset, a write leaves an entry that can be in the cache. *)
Touched(R, e) ==
  R \in Entries /\ R.pins = e.pins /\ R.file \in File /\ R.file.kind = e.file.kind

LEMMA MaxBounds ==
  ASSUME NEW x \in Int, NEW y \in Int
  PROVE  /\ Max({0, x, y}) \in {0, x, y}
         /\ Max({0, x, y}) >= 0 /\ Max({0, x, y}) >= x /\ Max({0, x, y}) >= y
  <1>1. \E m \in {0, x, y} : \A z \in {0, x, y} : m >= z
    <2>1. CASE 0 >= x /\ 0 >= y
      BY <2>1
    <2>2. CASE x >= 0 /\ x >= y
      BY <2>2
    <2>3. CASE y >= 0 /\ y >= x
      BY <2>3
    <2>. QED  BY <2>1, <2>2, <2>3
  <1>. QED  BY <1>1 DEF Max

LEMMA WriteAtType ==
  ASSUME NEW e \in Entries, e.file \in File, NEW offset \in Nat, NEW data \in Seq(Nat)
  PROVE  Touched(writeAt(e, offset, data, FALSE), e)
  <1>. PICK kind : kind = e.file.kind
    OBVIOUS
  <1>. PICK n \in Nat : n = Len(data)
    OBVIOUS
  <1>. PICK old \in Nat : old = e.file.size
    BY Files
  <1>. PICK M \in Nat : M = MaxSize
    BY Sizes
  <1>. PICK x \in Int : x = old - M - offset
    OBVIOUS
  <1>. PICK y \in Int : y = n - M
    BY ONLY n \in Nat, M \in Nat
  <1>. PICK m : m = Max({0, x, y})
    OBVIOUS
  <1>. PICK skip : skip = IF kind = "circular" THEN m ELSE 0
    OBVIOUS
  <1>. PICK d : d = SubSeq(data, skip + 1, n)
    OBVIOUS
  <1>. PICK W : W = Put(e.parts, kind, offset + skip, d)
    OBVIOUS
  <1>. PICK s : s = IF offset + n > old \/ FALSE THEN offset + n ELSE old
    OBVIOUS
  <1>. PICK R : R = writeAt(e, offset, data, FALSE)
    OBVIOUS
  <1>1. R = IF kind = "circular" /\ offset + n <= old - MaxSize THEN e
            ELSE [e EXCEPT !.parts = W, !.file.size = s]
    BY DEF writeAt
  <1>2. CASE kind = "circular" /\ offset + n <= old - MaxSize
    BY <1>1, <1>2 DEF Touched
  <1>3. CASE ~ (kind = "circular" /\ offset + n <= old - MaxSize)
    <2>0. offset \in Nat /\ n \in Nat /\ old \in Nat /\ MaxSize \in Nat /\ MaxSize > 0
          /\ x = old - MaxSize - offset /\ y = n - MaxSize
      BY Sizes
    <2>1. skip \in 0 .. n /\ (kind = "circular" => n - skip <= MaxSize)
      <3>1. m \in {0, x, y} /\ m >= 0 /\ m >= x /\ m >= y
        BY MaxBounds
      <3>2. CASE kind = "circular"
        <4>1. skip = m
          BY <3>2
        <4>2. m \in Int
          BY <3>1
        <4>3. m <= n /\ n - m <= MaxSize
          BY ONLY <3>1, <3>2, <4>2, <1>3, <2>0
        <4>. QED  BY ONLY <4>1, <4>2, <4>3, <3>1, <2>0
      <3>3. CASE kind # "circular"
        <4>1. skip = 0
          BY <3>3
        <4>. QED  BY ONLY <3>3, <4>1, <2>0
      <3>. QED  BY <3>2, <3>3
    <2>2. skip \in Nat
      BY ONLY <2>0, <2>1
    <2>3. d = SubSeq(data, skip + 1, Len(data)) /\ data \in Seq(Nat) /\ skip \in 0 .. Len(data)
      BY <2>1
    <2>4. d \in Seq(Nat) /\ Len(d) = Len(data) - skip
      BY ONLY <2>3, TailOf
    <2>5. kind = "circular" => Len(d) <= MaxSize
      BY <2>1, <2>4
    <2>6. offset + skip \in Nat
      BY ONLY <2>0, <2>2
    <2>7. e.parts \in PartMaps /\ e.pins \in Int /\ e.errs \in Nat
      BY DEF Entries
    <2>8. IsPut(Put(e.parts, kind, offset + skip, d), e.parts, kind, offset + skip, d)
      BY ONLY <2>4, <2>5, <2>6, <2>7, PutMap
    <2>9. W \in PartMaps
      BY <2>8 DEF IsPut
    <2>10. R = [pins |-> e.pins, file |-> [kind |-> kind, size |-> s], parts |-> W,
                errs |-> e.errs]
      <3>1. R = Updated(e, W, s)
        BY ONLY <1>1, <1>3 DEF Updated
      <3>2. Updated(e, W, s) =
              [pins |-> e.pins, file |-> [kind |-> e.file.kind, size |-> s], parts |-> W,
               errs |-> e.errs]
        BY ONLY e \in Entries, e.file \in File, UpdateEntry
      <3>. QED  BY <3>1, <3>2
    <2>11. s \in Nat /\ kind \in Kinds /\ kind = e.file.kind
      BY <2>0, Files
    <2>12. [kind |-> kind, size |-> s] \in File
      BY ONLY <2>11 DEF File
    <2>13. R \in Entries /\ R.pins = e.pins /\ R.file = [kind |-> kind, size |-> s]
      BY ONLY <2>7, <2>9, <2>10, <2>12 DEF Entries
    <2>14. R.file.kind = kind
      BY ONLY <2>13
    <2>15. R.file \in File
      BY ONLY <2>12, <2>13
    <2>16. R = writeAt(e, offset, data, FALSE) /\ R \in Entries /\ R.pins = e.pins
      BY <2>13
    <2>. QED  BY ONLY <2>11, <2>14, <2>15, <2>16 DEF Touched
  <1>. QED  BY <1>2, <1>3

LEMMA LoadingType ==
  ASSUME NEW e \in Entries, NEW offset, NEW n, dbParts \in PartMaps
  PROVE  /\ Loading(e, offset, n) \in Entries
         /\ Loading(e, offset, n).pins = e.pins
         /\ Loading(e, offset, n).file = e.file
  <1>. PICK L : L = Loaded(e.parts, incompleteParts(e.file.kind, offset, n))
    OBVIOUS
  <1>1. e.parts \in PartMaps
    BY DEF Entries
  <1>2. L \in PartMaps
    BY <1>1, LoadedMap
  <1>3. Loading(e, offset, n) = [e EXCEPT !.parts = L]
    BY DEF Loading
  <1>. QED  BY <1>2, <1>3 DEF Entries

(* A replaced file reads as the data, whatever the database holds. *)
LEMMA ReplacedLook ==
  ASSUME NEW e \in Entries, e.file \in File, NEW data \in Seq(Nat), NEW R,
         Replaced(R, e, data), NEW db \in PartMaps
  PROVE  /\ Look(R.file, R.parts, db) = Promised!Contents(e.file.kind, Len(data), data)
         /\ e.file.kind # "circular" => Read(R.file, R.parts, db) = data
  <1>. PICK kind : kind = e.file.kind
    OBVIOUS
  <1>. PICK n \in Nat : n = Len(data)
    OBVIOUS
  <1>. PICK k \in Nat : k = Skip(kind, n)
    BY SkipBounds
  <1>. PICK f : f = R.file
    OBVIOUS
  <1>. PICK G : G = Read(f, R.parts, db)
    OBVIOUS
  <1>. PICK d : d = Dropped(kind, data)
    OBVIOUS
  <1>1. f \in File /\ f.kind = kind /\ f.size = n /\ R.parts \in PartMaps
    BY DEF Replaced, Entries
  <1>2. Start(f) = k /\ k <= n
    BY <1>1, Sizes DEF Start, Skip
  <1>3. /\ G \in Seq(Nat) /\ Len(G) = n - k
        /\ \A i \in 1 .. n - k : G[i] = ByteAt(kind, R.parts, db, k + i - 1)
    <2>1. f \in File /\ R.parts \in PartMaps /\ db \in PartMaps /\ G = Read(f, R.parts, db)
      BY <1>1
    <2>2. /\ G \in Seq(Nat) /\ Len(G) = f.size - Start(f)
          /\ \A i \in 1 .. f.size - Start(f) : G[i] = ByteAt(f.kind, R.parts, db, Start(f) + i - 1)
      BY ONLY <2>1, ReadType
    <2>. QED  BY ONLY <2>2, <1>1, <1>2
  <1>4. d \in Seq(Nat) /\ Len(d) = n - k /\ \A i \in 1 .. n - k : d[i] = data[k + i]
    <2>0. n = Len(data) /\ data \in Seq(Nat) /\ k \in Nat /\ n \in Nat
      OBVIOUS
    <2>1. d = SubSeq(data, k + 1, Len(data))
      BY DEF Dropped
    <2>2. k \in 0 .. Len(data)
      BY ONLY <2>0, <1>2
    <2>. QED  BY ONLY <2>0, <2>1, <2>2, TailOf
  <1>5. ASSUME NEW i \in 1 .. n - k PROVE d[i] = G[i]
    <2>0. i \in 1 .. n - k /\ k \in Nat /\ n \in Nat
      OBVIOUS
    <2>1. PICK pos : pos = k + i - 1
      OBVIOUS
    <2>2. pos \in k .. n - 1 /\ pos + 1 = k + i
      BY ONLY <2>0, <2>1, <1>2
    <2>3. /\ partIdxAtOffset(kind, pos) \in DOMAIN R.parts
          /\ R.parts[partIdxAtOffset(kind, pos)][pos % PartSize] = data[pos + 1]
      BY <2>2, <1>1, <1>2 DEF Replaced
    <2>4. ByteAt(kind, R.parts, db, pos) = data[pos + 1]
      BY ONLY <2>3 DEF ByteAt
    <2>5. G[i] = ByteAt(kind, R.parts, db, pos)
      BY ONLY <2>0, <2>1, <1>3
    <2>6. d[i] = data[pos + 1]
      BY ONLY <2>0, <2>2, <1>4
    <2>. QED  BY ONLY <2>4, <2>5, <2>6
  <1>6. Len(d) = n - k /\ Len(G) = n - k /\ d \in Seq(Nat) /\ G \in Seq(Nat)
    BY <1>3, <1>4
  <1>7. d = G
    BY ONLY <1>5, <1>6, SameSeq
  <1>8. Look(R.file, R.parts, db) = [kind |-> kind, size |-> n, data |-> G]
    BY <1>1, Files DEF Look
  <1>9. kind # "circular" => d = data
    BY WholeSeq DEF Dropped, Skip
  <1>. QED  BY <1>7, <1>8, <1>9, ContentsIs

(* Compaction of a file that is all in view. *)
LEMMA CompactLook ==
  ASSUME NEW e \in Entries, e.file \in File, e.file.kind = "ijson", dbParts \in PartMaps
  PROVE  /\ Touched(compactIJson(e), e)
         /\ Look(compactIJson(e).file, compactIJson(e).parts, dbParts)
              = Promised!Compacted(Look(e.file, e.parts, dbParts))
  <1>. PICK D : D = Read(e.file, e.parts, dbParts)
    OBVIOUS
  <1>. PICK C : C = CompactIJson(D)
    OBVIOUS
  <1>. PICK R : R = compactIJson(e)
    OBVIOUS
  <1>. PICK size \in Nat : size = e.file.size
    BY Files
  <1>1. D \in Seq(Nat) /\ Len(D) = size
    <2>1. e.file \in File /\ e.parts \in PartMaps /\ dbParts \in PartMaps
      BY DEF Entries
    <2>2. Start(e.file) = 0
      BY Files
    <2>3. D \in Seq(Nat) /\ Len(D) = e.file.size - Start(e.file)
      BY <2>1, ReadType
    <2>. QED  BY <2>2, <2>3
  <1>2. C \in Seq(Nat) /\ Len(C) = (IF size < 2 THEN size ELSE 2)
        /\ C = (IF size < 2 THEN D ELSE <<D[size], D[1]>>)
    <2>1. CASE size < 2
      BY <2>1, <1>1 DEF CompactIJson
    <2>2. CASE ~ (size < 2)
      <3>1. D[size] \in Nat /\ D[1] \in Nat
        BY <1>1, <2>2
      <3>. QED  BY <3>1, <1>1, <2>2 DEF CompactIJson
    <2>. QED  BY <2>1, <2>2
  <1>3. R = writeAt(e, 0, C, TRUE)
    BY ReadIs DEF compactIJson
  <1>4. Replaced(R, e, C)
    BY <1>2, <1>3, WriteReplaced
  <1>5. Touched(R, e)
    BY <1>4 DEF Replaced, Touched
  <1>6. Look(R.file, R.parts, dbParts) = Promised!Contents("ijson", Len(C), C)
    <2>1. Look(R.file, R.parts, dbParts) = Promised!Contents(e.file.kind, Len(C), C)
      BY <1>2, <1>4, ReplacedLook
    <2>. QED  BY <2>1
  <1>7. Look(R.file, R.parts, dbParts) = [kind |-> "ijson", size |-> Len(C), data |-> C]
    <2>1. Promised!Contents("ijson", Len(C), C)
            = [kind |-> "ijson", size |-> Len(C), data |-> Dropped("ijson", C)]
      BY <1>2, ContentsIs
    <2>2. Dropped("ijson", C) = C
      <3>1. Skip("ijson", Len(C)) = 0
        BY DEF Skip
      <3>2. Dropped("ijson", C) = SubSeq(C, 0 + 1, Len(C))
        BY ONLY <3>1 DEF Dropped
      <3>3. C \in Seq(Nat)
        BY <1>2
      <3>. QED  BY ONLY <3>2, <3>3, WholeSeq
    <2>. QED  BY <1>6, <2>1, <2>2
  <1>8. PICK f : f = Look(e.file, e.parts, dbParts)
    OBVIOUS
  <1>9. f = [kind |-> "ijson", size |-> size, data |-> D]
    BY <1>8, Files DEF Look
  <1>10. Promised!Compacted(f) = IF Len(D) < 2 THEN f
                                ELSE Promised!Contents("ijson", 2, <<D[Len(D)], Head(D)>>)
    BY <1>9 DEF Promised!Compacted
  <1>11. CASE size < 2
    BY <1>11, <1>1, <1>2, <1>5, <1>7, <1>8, <1>9, <1>10
  <1>12. CASE ~ (size < 2)
    <2>1. Head(D) = D[1]
      BY <1>1, <1>12
    <2>2. Promised!Compacted(f) = Promised!Contents("ijson", 2, C)
      BY <2>1, <1>1, <1>2, <1>10, <1>12
    <2>. QED  BY <2>2, <1>2, <1>5, <1>6, <1>8, <1>12
  <1>. QED  BY <1>11, <1>12

(* Saving the cached parts changes nothing for those who read them. *)
LEMMA SavedLook ==
  ASSUME NEW f, NEW cached \in PartMaps, NEW db \in PartMaps
  PROVE  /\ Look(f, NoParts, Over(cached, db)) = Look(f, cached, db)
         /\ Look(f, cached, Over(cached, db)) = Look(f, cached, db)
  <1>. PICK O : O = Over(cached, db)
    OBVIOUS
  <1>1. /\ DOMAIN O = DOMAIN cached \cup DOMAIN db
        /\ \A p \in DOMAIN cached : O[p] = cached[p]
        /\ \A p \in DOMAIN db \ DOMAIN cached : O[p] = db[p]
    BY OverMap
  <1>2. \A kind, pos : /\ ByteAt(kind, NoParts, O, pos) = ByteAt(kind, cached, db, pos)
                       /\ ByteAt(kind, cached, O, pos) = ByteAt(kind, cached, db, pos)
    BY <1>1, NoPartsMap DEF ByteAt
  <1>3. /\ Read(f, NoParts, O) = Read(f, cached, db)
        /\ Read(f, cached, O) = Read(f, cached, db)
    BY <1>2 DEF Read
  <1>. QED  BY <1>3 DEF Look

-----------------------------------------------------------------------------
(* The invariant                                                             *)

Inside == {c \in Callers : call[c] # Outside}

Types ==
  /\ TypeOK
  /\ row \in File \union {NoFile}
  /\ dbParts \in PartMaps
  /\ entries \in [Ids -> Entries]

(* A goroutine inside the store works on the entry the cache holds. *)
Pinned ==
  \A c \in Callers :
    call[c] = Outside \/ (call[c].at # "outside" /\ call[c].id = current /\ current # 0)

(* The pins of the entry count the goroutines inside the store.             *)
Counted == current # 0 => entries[current].pins = Cardinality(Inside)

(* An entry that holds no file holds no parts; one that holds a file is of  *)
(* a file that has a row.                                                   *)
Fits(e, r) ==
  IF e.file = NoFile THEN e.parts = NoParts ELSE r # NoFile /\ r.kind = e.file.kind

(* The entry and the row are of one file: DeleteFile clears the entry with  *)
(* the row, so that no save brings back a file that was deleted.            *)
Agrees == current # 0 => Fits(entries[current], row)

IInv == Types /\ Pinned /\ Counted /\ Agrees

(* What a reader sees. *)
View(e, r, db) ==
  IF e.file # NoFile THEN Look(e.file, e.parts, db) ELSE Look(r, NoParts, db)

LEMMA CallersFinite == IsFiniteSet(Callers)
  BY StoreAssumption, FS_AddElement, FS_Singleton, FS_Union DEF StoreAssumption, Callers

LEMMA IdsNat ==
  /\ Ids \subseteq Nat /\ 0 \notin Ids /\ 1 \in Ids
  <1>1. Cardinality(Callers) \in Nat
    BY CallersFinite, FS_CardinalityType
  <1>. QED  BY <1>1 DEF Ids

LEMMA Looks ==
  /\ seenFile = IF current # 0 THEN View(entries[current], row, dbParts)
                ELSE Look(row, NoParts, dbParts)
  /\ storedFile = Look(row, NoParts, dbParts)
  <1>1. \A f, cached : Seen(f, cached) = Look(f, cached, dbParts)
    BY ReadIs
  <1>. QED  BY <1>1 DEF seenFile, storedFile, View

LEMMA LooksNext ==
  /\ seenFile' = IF current' # 0 THEN View(entries'[current'], row', dbParts')
                 ELSE Look(row', NoParts, dbParts')
  /\ storedFile' = Look(row', NoParts, dbParts')
  <1>1. \A f, cached : Seen(f, cached)' = Look(f, cached, dbParts')
    BY DEF Seen, Look, Read, readAll, Start, ByteAt
  <1>. QED  BY <1>1 DEF seenFile, storedFile, View

(* The entry of a goroutine that has it pinned. *)
LEMMA AtWork ==
  ASSUME IInv, NEW c \in Callers, call[c].at = "pinned"
  PROVE  /\ current # 0 /\ current \in Ids /\ call[c].id = current
         /\ Entry(c) = entries[current] /\ Entry(c) \in Entries
         /\ Fits(Entry(c), row)
         /\ seenFile = View(Entry(c), row, dbParts)
         /\ storedFile = Look(row, NoParts, dbParts)
  <1>1. call[c] # Outside
    BY DEF Outside
  <1>2. call[c].id = current /\ current # 0
    BY <1>1 DEF IInv, Pinned
  <1>3. current \in Ids
    BY <1>2 DEF IInv, Types, TypeOK
  <1>4. Entry(c) = entries[current] /\ entries[current] \in Entries
    BY <1>2, <1>3 DEF Entry, IInv, Types
  <1>5. Fits(Entry(c), row)
    BY <1>2, <1>4 DEF IInv, Agrees
  <1>. QED  BY <1>2, <1>3, <1>4, <1>5, Looks

LEMMA WithFileIs ==
  ASSUME IInv, NEW c \in Callers, call[c].at = "pinned", row # NoFile
  PROVE  /\ WithFile(Entry(c)) \in Entries
         /\ WithFile(Entry(c)).pins = Entry(c).pins
         /\ WithFile(Entry(c)).file \in File
         /\ WithFile(Entry(c)).file.kind = row.kind
         /\ seenFile = Look(WithFile(Entry(c)).file, WithFile(Entry(c)).parts, dbParts)
         /\ seenFile # NoFile
         /\ seenFile.kind = WithFile(Entry(c)).file.kind
         /\ seenFile.size = WithFile(Entry(c)).file.size
  <1>. PICK e : e = Entry(c)
    OBVIOUS
  <1>. PICK w : w = WithFile(e)
    OBVIOUS
  <1>1. e \in Entries /\ Fits(e, row) /\ seenFile = View(e, row, dbParts)
    BY AtWork
  <1>2. row \in File
    BY DEF IInv, Types
  <1>3. CASE e.file # NoFile
    <2>1. w = e /\ w.file \in File
      BY <1>1, <1>3 DEF WithFile, Entries
    <2>2. w.file.kind = row.kind
      BY <1>1, <1>3, <2>1 DEF Fits
    <2>3. seenFile = Look(w.file, w.parts, dbParts)
      BY <1>1, <1>3, <2>1 DEF View
    <2>4. seenFile = [kind |-> w.file.kind, size |-> w.file.size,
                      data |-> Read(w.file, w.parts, dbParts)]
      BY <2>1, <2>3, Files DEF Look
    <2>. QED  BY <1>1, <2>1, <2>2, <2>3, <2>4, Files DEF NoFile
  <1>4. CASE e.file = NoFile
    <2>1. w = [e EXCEPT !.file = row]
      BY <1>4 DEF WithFile
    <2>2. w \in Entries /\ w.pins = e.pins /\ w.file = row /\ w.parts = e.parts
      BY <1>1, <1>2, <2>1 DEF Entries
    <2>3. e.parts = NoParts
      BY <1>1, <1>4 DEF Fits
    <2>4. seenFile = Look(w.file, w.parts, dbParts)
      BY <1>1, <1>4, <2>2, <2>3 DEF View
    <2>5. seenFile = [kind |-> w.file.kind, size |-> w.file.size,
                      data |-> Read(w.file, w.parts, dbParts)]
      BY <1>2, <2>2, <2>4, Files DEF Look
    <2>. QED  BY <1>2, <2>2, <2>4, <2>5, Files DEF NoFile
  <1>. QED  BY <1>3, <1>4

(* The end of a goroutine's work under the lock. *)
LEMMA Finished ==
  ASSUME IInv, NEW c \in Callers, call[c].at = "pinned", NEW E \in Entries,
         E.pins = Entry(c).pins, Finish(c, E), Fits(E, row'),
         row' \in File \union {NoFile}, dbParts' \in PartMaps,
         written' \in 0 .. MaxBytes, faults' \in 0 .. MaxFaults
  PROVE  /\ IInv'
         /\ seenFile' = View(E, row', dbParts')
         /\ storedFile' = Look(row', NoParts, dbParts')
  <1>1. /\ current # 0 /\ current \in Ids /\ call[c].id = current
        /\ Entry(c) = entries[current] /\ Entry(c) \in Entries
    BY AtWork
  <1>2. /\ entries' = [entries EXCEPT ![current] = E]
        /\ call' = [call EXCEPT ![c].at = "done"]
        /\ current' = current
    BY <1>1 DEF Finish
  <1>3. /\ call \in [Callers -> [at : {"outside", "pinned", "done"}, id : Ids \union {0}]]
        /\ entries \in [Ids -> Entries]
        /\ current \in Ids \union {0}
    BY DEF IInv, Types, TypeOK
  <1>4. entries' \in [Ids -> Entries] /\ entries'[current] = E
    BY <1>1, <1>2, <1>3
  <1>5. /\ call' \in [Callers -> [at : {"outside", "pinned", "done"}, id : Ids \union {0}]]
        /\ call'[c].at = "done" /\ call'[c].id = current
        /\ \A x \in Callers : x # c => call'[x] = call[x]
    BY <1>1, <1>2, <1>3
  <1>6. Types'
    BY <1>2, <1>3, <1>4, <1>5 DEF Types, TypeOK
  <1>7. Pinned'
    BY <1>1, <1>2, <1>5 DEF IInv, Pinned, Outside
  <1>8. Inside' = Inside
    <2>1. \A x \in Callers : call'[x] # Outside <=> call[x] # Outside
      <3>1. call'[c] # Outside /\ call[c] # Outside
        BY <1>5 DEF Outside
      <3>. QED  BY <1>5, <3>1
    <2>2. Inside' = {x \in Callers : call'[x] # Outside}
      BY DEF Inside, Outside
    <2>. QED  BY <2>1, <2>2 DEF Inside
  <1>9. Counted'
    <2>1. entries'[current].pins = Cardinality(Inside)
      BY <1>1, <1>4 DEF IInv, Counted
    <2>. QED  BY <1>2, <1>8, <2>1 DEF Counted
  <1>10. Agrees'
    BY <1>2, <1>4 DEF Agrees, Fits, NoFile, NoParts
  <1>11. IInv'
    BY <1>6, <1>7, <1>9, <1>10 DEF IInv
  <1>. QED  BY <1>1, <1>2, <1>4, <1>11, LooksNext

-----------------------------------------------------------------------------
(* The steps                                                                 *)

(* A step of the store is a step of the file it promises, or none. *)
Step == [Promised!Next]_(Promised!vars)

LEMMA Quiet ==
  ASSUME seenFile' = seenFile, storedFile' = storedFile, written' = written
  PROVE  Step
  BY DEF Step, Promised!vars

LEMMA Starts ==
  ASSUME Init
  PROVE  IInv /\ Promised!Init
  <1>1. Blank \in Entries /\ NoParts \in PartMaps
    BY NoPartsMap DEF Blank, Entries
  <1>2. Types
    BY <1>1, Sizes DEF Types, TypeOK, Init, Outside
  <1>3. Pinned /\ Counted /\ Agrees
    BY DEF Init, Pinned, Counted, Agrees
  <1>4. seenFile = NoFile /\ storedFile = NoFile
    BY Looks DEF Init, Look
  <1>5. Promised!NoFile = NoFile
    BY DEF Promised!NoFile, NoFile
  <1>6. Promised!Init
    BY <1>4, <1>5 DEF Promised!Init, Init
  <1>. QED  BY <1>2, <1>3, <1>6 DEF IInv

LEMMA Pins ==
  ASSUME IInv, NEW c \in Callers, getEntryAndPin(c)
  PROVE  IInv' /\ Step
  <1>. DEFINE id == IF current = 0 THEN Unused ELSE current
              E == [IF current = 0 THEN Blank ELSE entries[current] EXCEPT !.pins = @ + 1]
  <1>1. /\ call[c] = Outside
        /\ current' = id
        /\ entries' = [entries EXCEPT ![id] = E]
        /\ call' = [call EXCEPT ![c] = [at |-> "pinned", id |-> id]]
        /\ UNCHANGED <<row, dbParts, written, faults>>
    <2>1. /\ call[c] = Outside /\ current' = id
          /\ call' = [call EXCEPT ![c] = [at |-> "pinned", id |-> id]]
          /\ UNCHANGED <<row, dbParts, written, faults>>
      BY DEF getEntryAndPin
    <2>2. entries' = [entries EXCEPT ![id] = E]
      BY DEF getEntryAndPin
    <2>. QED  BY <2>1, <2>2
  <1>0. id = (IF current = 0 THEN Unused ELSE current)
        /\ E = [IF current = 0 THEN Blank ELSE entries[current] EXCEPT !.pins = @ + 1]
    OBVIOUS
  <1>. HIDE DEF id, E
  <1>2. /\ call \in [Callers -> [at : {"outside", "pinned", "done"}, id : Ids \union {0}]]
        /\ entries \in [Ids -> Entries]
        /\ current \in Ids \union {0}
    BY DEF IInv, Types, TypeOK
  <1>3. id \in Ids /\ id # 0
    <2>1. CASE current = 0
      <3>1. \A x \in Callers : call[x].id = 0
        BY <2>1 DEF IInv, Pinned, Outside
      <3>2. 1 \in Ids /\ 1 # current /\ \A x \in Callers : call[x].id # 1
        BY <3>1, <2>1, IdsNat
      <3>. QED  BY <1>0, <2>1, <3>2, IdsNat DEF Unused
    <2>2. CASE current # 0
      BY <1>0, <2>2, <1>2
    <2>. QED  BY <2>1, <2>2
  <1>4. E \in Entries /\ E.pins = (IF current = 0 THEN 0 ELSE entries[id].pins) + 1
        /\ E.file = (IF current = 0 THEN NoFile ELSE entries[id].file)
        /\ E.parts = (IF current = 0 THEN NoParts ELSE entries[id].parts)
    <2>. PICK B : B = IF current = 0 THEN Blank ELSE entries[id]
      OBVIOUS
    <2>1. B \in Entries
      BY <1>2, <1>3, NoPartsMap DEF Blank, Entries
    <2>2. E = [B EXCEPT !.pins = @ + 1]
      BY <1>0
    <2>3. E \in Entries /\ E.pins = B.pins + 1 /\ E.file = B.file /\ E.parts = B.parts
      BY <2>1, <2>2 DEF Entries
    <2>. QED  BY <2>3 DEF Blank
  <1>5. entries' \in [Ids -> Entries] /\ entries'[id] = E
    BY <1>1, <1>2, <1>3, <1>4
  <1>6. /\ call' \in [Callers -> [at : {"outside", "pinned", "done"}, id : Ids \union {0}]]
        /\ call'[c] = [at |-> "pinned", id |-> id]
        /\ \A x \in Callers : x # c => call'[x] = call[x]
    BY <1>1, <1>2, <1>3
  <1>7. Types'
    BY <1>1, <1>2, <1>3, <1>5, <1>6 DEF Types, TypeOK, IInv
  <1>8. Pinned'
    <2>1. \A x \in Callers : x # c /\ call[x] # Outside => id = current
      BY <1>0 DEF IInv, Pinned
    <2>. QED  BY <1>1, <1>3, <1>6, <2>1 DEF IInv, Pinned, Outside
  <1>9. Counted'
    <2>1. Inside' = Inside \union {c} /\ c \notin Inside
      <3>1. call'[c] # Outside
        BY <1>6 DEF Outside
      <3>2. \A x \in Callers : call'[x] # Outside <=> call[x] # Outside \/ x = c
        BY <1>1, <1>6, <3>1
      <3>3. Inside' = {x \in Callers : call'[x] # Outside}
        BY DEF Inside, Outside
      <3>. QED  BY <1>1, <3>2, <3>3 DEF Inside
    <2>2. IsFiniteSet(Inside)
      BY CallersFinite, FS_Subset DEF Inside
    <2>3. Cardinality(Inside') = Cardinality(Inside) + 1
      BY <2>1, <2>2, FS_AddElement
    <2>4. E.pins = Cardinality(Inside) + 1
      <3>1. CASE current = 0
        <4>1. Inside = {}
          BY <3>1 DEF Inside, IInv, Pinned
        <4>. QED  BY <3>1, <4>1, <1>4, FS_EmptySet
      <3>2. CASE current # 0
        BY <3>2, <1>0, <1>4 DEF IInv, Counted
      <3>. QED  BY <3>1, <3>2
    <2>. QED  BY <1>1, <1>5, <2>3, <2>4 DEF Counted
  <1>10. Fits(E, row)
    <2>1. CASE current = 0
      BY <2>1, <1>4 DEF Fits
    <2>2. CASE current # 0
      BY <2>2, <1>0, <1>4 DEF IInv, Agrees, Fits
    <2>. QED  BY <2>1, <2>2
  <1>11. Agrees'
    BY <1>1, <1>5, <1>10 DEF Agrees, Fits, NoFile, NoParts
  <1>12. IInv'
    BY <1>7, <1>8, <1>9, <1>11 DEF IInv
  <1>13. seenFile' = View(E, row, dbParts) /\ storedFile' = Look(row, NoParts, dbParts)
    BY <1>1, <1>3, <1>5, LooksNext
  <1>14. seenFile = View(E, row, dbParts) /\ storedFile = Look(row, NoParts, dbParts)
    <2>1. CASE current = 0
      BY <2>1, <1>4, Looks DEF View
    <2>2. CASE current # 0
      BY <2>2, <1>0, <1>4, Looks DEF View
    <2>. QED  BY <2>1, <2>2
  <1>. QED  BY <1>1, <1>12, <1>13, <1>14, Quiet

LEMMA Unpins ==
  ASSUME IInv, NEW c \in Callers, unpinEntryAndTryDelete(c)
  PROVE  IInv' /\ Step
  <1>1. /\ call[c].at = "done"
        /\ call' = [call EXCEPT ![c] = Outside]
        /\ UNCHANGED <<row, dbParts, written, faults>>
    BY DEF unpinEntryAndTryDelete
  <1>2. /\ call \in [Callers -> [at : {"outside", "pinned", "done"}, id : Ids \union {0}]]
        /\ entries \in [Ids -> Entries]
        /\ current \in Ids \union {0}
    BY DEF IInv, Types, TypeOK
  <1>3. call[c] # Outside /\ current # 0 /\ current \in Ids
    <2>1. call[c] # Outside
      BY <1>1 DEF Outside
    <2>. QED  BY <2>1, <1>2 DEF IInv, Pinned
  <1>. PICK old : old = entries[current]
    OBVIOUS
  <1>. PICK entry : entry = [old EXCEPT !.pins = @ - 1]
    OBVIOUS
  <1>4. old \in Entries /\ entry \in Entries /\ entry.pins = old.pins - 1
        /\ entry.file = old.file /\ entry.parts = old.parts
    <2>1. old \in Entries
      BY <1>2, <1>3
    <2>2. entry = [old EXCEPT !.pins = @ - 1]
      OBVIOUS
    <2>. QED  BY ONLY <2>1, <2>2 DEF Entries
  <1>. PICK gone : gone = (entry.pins <= 0 /\ entry.file = NoFile)
    OBVIOUS
  <1>5. /\ entries' = [entries EXCEPT ![current] = IF entry.pins <= 0 /\ entry.file = NoFile THEN Blank ELSE entry]
        /\ current' = IF entry.pins <= 0 /\ entry.file = NoFile THEN 0 ELSE current
    BY <1>3 DEF unpinEntryAndTryDelete
  <1>6. /\ call' \in [Callers -> [at : {"outside", "pinned", "done"}, id : Ids \union {0}]]
        /\ call'[c] = Outside
        /\ \A x \in Callers : x # c => call'[x] = call[x]
    BY <1>1, <1>2 DEF Outside
  <1>7. Inside' = Inside \ {c} /\ c \in Inside
    <2>1. \A x \in Callers : call'[x] # Outside <=> call[x] # Outside /\ x # c
      BY <1>6
    <2>2. Inside' = {x \in Callers : call'[x] # Outside}
      BY DEF Inside, Outside
    <2>. QED  BY <1>3, <2>1, <2>2 DEF Inside
  <1>8. IsFiniteSet(Inside) /\ IsFiniteSet(Inside')
    BY CallersFinite, FS_Subset, <1>7 DEF Inside
  <1>9. Cardinality(Inside') = Cardinality(Inside) - 1 /\ Cardinality(Inside') \in Nat
    BY <1>7, <1>8, FS_RemoveElement, FS_CardinalityType
  <1>10. entry.pins = Cardinality(Inside')
    BY <1>3, <1>4, <1>9 DEF IInv, Counted
  <1>11. Fits(entry, row)
    BY <1>3, <1>4 DEF IInv, Agrees, Fits
  <1>12. seenFile = View(entry, row, dbParts) /\ storedFile = Look(row, NoParts, dbParts)
    BY <1>3, <1>4, Looks DEF View
  <1>13. CASE entry.pins <= 0 /\ entry.file = NoFile
    <2>1. entries' = [entries EXCEPT ![current] = Blank] /\ current' = 0
      BY <1>5, <1>13
    <2>0. Blank \in Entries
      BY NoPartsMap DEF Blank, Entries
    <2>2. entries' \in [Ids -> Entries]
      BY <1>2, <2>0, <2>1
    <2>3. Types'
      BY <1>1, <1>6, <2>1, <2>2 DEF IInv, Types, TypeOK
    <2>4. Inside' = {}
      BY <1>8, <1>9, <1>10, <1>13, FS_EmptySet
    <2>5. Pinned'
      BY <2>4 DEF Pinned, Inside, Outside
    <2>6. Counted' /\ Agrees'
      BY <2>1 DEF Counted, Agrees
    <2>7. IInv'
      BY <2>3, <2>5, <2>6 DEF IInv
    <2>8. seenFile' = Look(row, NoParts, dbParts) /\ storedFile' = Look(row, NoParts, dbParts)
      BY <1>1, <2>1, LooksNext
    <2>9. seenFile = Look(row, NoParts, dbParts)
      BY <1>12, <1>13 DEF View
    <2>. QED  BY <1>1, <1>12, <2>7, <2>8, <2>9, Quiet
  <1>14. CASE ~ (entry.pins <= 0 /\ entry.file = NoFile)
    <2>1. entries' = [entries EXCEPT ![current] = entry] /\ current' = current
      BY <1>5, <1>14
    <2>2. entries' \in [Ids -> Entries] /\ entries'[current] = entry
      BY <1>2, <1>3, <1>4, <2>1
    <2>3. Types'
      BY <1>1, <1>2, <1>6, <2>1, <2>2 DEF IInv, Types, TypeOK
    <2>5. Pinned'
      BY <1>3, <1>6, <2>1 DEF IInv, Pinned, Outside
    <2>6. Counted'
      BY <1>10, <2>1, <2>2 DEF Counted
    <2>7. Agrees'
      BY <1>1, <1>11, <2>1, <2>2 DEF Agrees, Fits, NoFile, NoParts
    <2>8. IInv'
      BY <2>3, <2>5, <2>6, <2>7 DEF IInv
    <2>9. seenFile' = View(entry, row, dbParts) /\ storedFile' = Look(row, NoParts, dbParts)
      BY <1>1, <1>3, <2>1, <2>2, LooksNext
    <2>. QED  BY <1>1, <1>12, <2>8, <2>9, Quiet
  <1>. QED  BY <1>13, <1>14

LEMMA Crashes ==
  ASSUME IInv, Crash
  PROVE  IInv' /\ Step
  <1>1. /\ entries' = [i \in Ids |-> Blank]
        /\ current' = 0
        /\ call' = [c \in Callers |-> Outside]
        /\ UNCHANGED <<row, dbParts, written>>
        /\ faults < MaxFaults /\ faults' = faults + 1
    BY DEF Crash, Fault
  <1>2. Types'
    <2>1. Blank \in Entries
      BY NoPartsMap DEF Blank, Entries
    <2>2. faults' \in 0 .. MaxFaults
      BY <1>1, Sizes DEF IInv, Types, TypeOK
    <2>3. Outside \in [at : {"outside", "pinned", "done"}, id : Ids \union {0}]
      BY DEF Outside
    <2>. QED  BY <1>1, <2>1, <2>2, <2>3 DEF IInv, Types, TypeOK
  <1>3. Pinned' /\ Counted' /\ Agrees'
    BY <1>1 DEF Pinned, Counted, Agrees, Outside
  <1>4. seenFile' = Look(row, NoParts, dbParts) /\ storedFile' = Look(row, NoParts, dbParts)
    BY <1>1, LooksNext
  <1>5. storedFile = Look(row, NoParts, dbParts)
    BY Looks
  <1>6. Promised!Revert
    BY <1>1, <1>4, <1>5 DEF Promised!Revert
  <1>. QED  BY <1>2, <1>3, <1>6 DEF IInv, Step, Promised!Next

LEMMA Numbers ==
  ASSUME IInv
  PROVE  /\ written \in Nat /\ written <= MaxBytes /\ written \in 0 .. MaxBytes
         /\ faults \in 0 .. MaxFaults
         /\ row \in File \union {NoFile} /\ dbParts \in PartMaps
         /\ Fault => faults' \in 0 .. MaxFaults
  <1>1. written \in 0 .. MaxBytes /\ faults \in 0 .. MaxFaults
    BY DEF IInv, Types, TypeOK
  <1>. QED  BY <1>1, Sizes DEF IInv, Types, Fault

LEMMA Bytes ==
  ASSUME IInv, NEW n \in Nat
  PROVE  NewBytes(n) \in Seq(Nat) /\ Len(NewBytes(n)) = n /\ Promised!NewBytes(n) = NewBytes(n)
  <1>1. written \in Nat
    BY Numbers
  <1>2. \A i \in 1 .. n : written + i \in Nat
    BY <1>1
  <1>3. NewBytes(n) \in Seq(Nat) /\ Len(NewBytes(n)) = n
    BY <1>2 DEF NewBytes
  <1>. QED  BY <1>3 DEF NewBytes, Promised!NewBytes

LEMMA Viewed ==
  ASSUME NEW E \in Entries, E.file \in File, NEW r, NEW db
  PROVE  /\ View(E, r, db) = Look(E.file, E.parts, db)
         /\ View(E, r, db) = [kind |-> E.file.kind, size |-> E.file.size,
                              data |-> Read(E.file, E.parts, db)]
         /\ E.file # NoFile /\ E.file.kind \in Kinds
  BY Files DEF View, Look

LEMMA Rows ==
  ASSUME IInv, row # NoFile
  PROVE  /\ row \in File /\ row.kind \in Kinds /\ row.kind # "none"
         /\ storedFile = [kind |-> row.kind, size |-> row.size, data |-> Read(row, NoParts, dbParts)]
  BY Looks, Files DEF IInv, Types, Look

LEMMA Keeps ==
  ASSUME IInv, NEW c \in Callers, call[c].at = "pinned", Finish(c, Entry(c)),
         UNCHANGED <<row, dbParts, written, faults>>
  PROVE  IInv' /\ Step
  <1>1. /\ Entry(c) \in Entries /\ Fits(Entry(c), row)
        /\ seenFile = View(Entry(c), row, dbParts) /\ storedFile = Look(row, NoParts, dbParts)
    BY AtWork
  <1>2. IInv' /\ seenFile' = View(Entry(c), row', dbParts') /\ storedFile' = Look(row', NoParts, dbParts')
    BY <1>1, Numbers, Finished
  <1>. QED  BY <1>1, <1>2, Quiet

LEMMA Caches ==
  ASSUME IInv, NEW c \in Callers, call[c].at = "pinned", row # NoFile,
         Finish(c, WithFile(Entry(c))),
         UNCHANGED <<row, dbParts, written>>, faults' \in 0 .. MaxFaults
  PROVE  IInv' /\ Step
  <1>. PICK E : E = WithFile(Entry(c))
    OBVIOUS
  <1>1. /\ E \in Entries /\ E.pins = Entry(c).pins /\ E.file \in File /\ E.file.kind = row.kind
        /\ seenFile = Look(E.file, E.parts, dbParts)
    BY WithFileIs
  <1>2. Fits(E, row)
    BY <1>1, Viewed DEF Fits
  <1>3. IInv' /\ seenFile' = View(E, row', dbParts') /\ storedFile' = Look(row', NoParts, dbParts')
    BY <1>1, <1>2, Numbers, Finished
  <1>4. seenFile' = seenFile
    BY <1>1, <1>3, Viewed
  <1>5. storedFile = Look(row, NoParts, dbParts)
    BY Looks
  <1>. QED  BY <1>3, <1>4, <1>5, Quiet

LEMMA Makes ==
  ASSUME IInv, NEW c \in Clients, NEW kind \in Kinds, MakeFile(c, kind)
  PROVE  IInv' /\ Step
  <1>1. c \in Callers /\ call[c].at = "pinned"
    BY DEF MakeFile, Working, Callers
  <1>2. CASE Entry(c).file = NoFile /\ row = NoFile
    <2>. PICK f : f = [kind |-> kind, size |-> 0]
      OBVIOUS
    <2>1. row' = f /\ Finish(c, Entry(c)) /\ UNCHANGED <<dbParts, written, faults>>
      BY <1>2 DEF MakeFile
    <2>2. f \in File
      BY DEF File
    <2>3. /\ Entry(c) \in Entries /\ Fits(Entry(c), row)
          /\ seenFile = View(Entry(c), row, dbParts)
      BY <1>1, AtWork
    <2>4. Fits(Entry(c), row')
      BY <1>2, <2>3 DEF Fits
    <2>5. IInv' /\ seenFile' = View(Entry(c), row', dbParts') /\ storedFile' = Look(row', NoParts, dbParts')
      BY <1>1, <2>1, <2>2, <2>3, <2>4, Numbers, Finished
    <2>6. seenFile = NoFile
      BY <1>2, <2>3 DEF View, Look
    <2>7. Look(f, NoParts, dbParts) = [kind |-> kind, size |-> 0, data |-> << >>]
      <3>1. f.kind = kind /\ f.size = 0 /\ f # NoFile
        BY <2>2, Files
      <3>2. Start(f) = 0
        BY <2>2, <3>1, Files
      <3>3. Read(f, NoParts, dbParts) = << >>
        BY <3>1, <3>2 DEF Read
      <3>. QED  BY <3>1, <3>3 DEF Look
    <2>8. Promised!Contents(kind, 0, << >>) = [kind |-> kind, size |-> 0, data |-> << >>]
      BY Sizes DEF Promised!Contents
    <2>9. Promised!Make
      BY <1>2, <2>1, <2>5, <2>6, <2>7, <2>8 DEF Promised!Make, Promised!NoFile, NoFile, View
    <2>. QED  BY <2>5, <2>9 DEF Step, Promised!Next
  <1>3. CASE ~ (Entry(c).file = NoFile /\ row = NoFile)
    <2>1. Finish(c, Entry(c)) /\ UNCHANGED <<row, dbParts, written, faults>>
      BY <1>3 DEF MakeFile
    <2>. QED  BY <1>1, <2>1, Keeps
  <1>. QED  BY <1>2, <1>3

LEMMA ClearIs ==
  ASSUME NEW E \in Entries
  PROVE  /\ clear(E) \in Entries /\ clear(E).pins = E.pins /\ clear(E).file = NoFile
         /\ clear(E).parts = NoParts
         /\ \A r, db : Fits(clear(E), r) /\ View(clear(E), r, db) = Look(r, NoParts, db)
  <1>1. /\ clear(E) \in Entries /\ clear(E).pins = E.pins /\ clear(E).file = NoFile
        /\ clear(E).parts = NoParts
    BY NoPartsMap DEF clear, Entries
  <1>. QED  BY <1>1 DEF Fits, View

LEMMA Deletes ==
  ASSUME IInv, NEW c \in Clients, DeleteFile(c)
  PROVE  IInv' /\ Step
  <1>1. c \in Callers /\ call[c].at = "pinned"
    BY DEF DeleteFile, Working, Callers
  <1>2. /\ row' = NoFile /\ dbParts' = NoParts /\ Finish(c, clear(Entry(c)))
        /\ UNCHANGED <<written, faults>>
    BY DEF DeleteFile
  <1>3. Entry(c) \in Entries
    BY <1>1, AtWork
  <1>. PICK E : E = clear(Entry(c))
    OBVIOUS
  <1>4. E \in Entries /\ E.pins = Entry(c).pins /\ Fits(E, row')
        /\ View(E, row', dbParts') = Look(row', NoParts, dbParts')
    BY <1>3, ClearIs
  <1>5. IInv' /\ seenFile' = View(E, row', dbParts') /\ storedFile' = Look(row', NoParts, dbParts')
    BY <1>1, <1>2, <1>4, Numbers, NoPartsMap, Finished
  <1>6. seenFile' = NoFile /\ storedFile' = NoFile
    BY <1>2, <1>4, <1>5 DEF Look
  <1>7. Promised!Delete
    BY <1>2, <1>6 DEF Promised!Delete, Promised!NoFile, NoFile
  <1>. QED  BY <1>5, <1>7 DEF Step, Promised!Next

LEMMA PreparedIs ==
  ASSUME NEW c, NEW offset, NEW n
  PROVE  Prepared(c, offset, n) = Loading(WithFile(Entry(c)), offset, n)
  BY DEF Prepared, Loading

Ready(R, e, offset, data) ==
  /\ e \in Entries /\ e.file \in File /\ dbParts \in PartMaps
  /\ offset \in 0 .. e.file.size /\ data \in Seq(Nat) /\ Len(data) > 0
  /\ e.file.kind = "circular" => offset >= e.file.size - MaxSize
  /\ After(R, e, offset, data)

LEMMA OverwriteReady ==
  ASSUME NEW R, NEW e, NEW offset, NEW data, Ready(R, e, offset, data)
  PROVE  Look(R.file, R.parts, dbParts)
           = Promised!Overwritten(Look(e.file, e.parts, dbParts), offset, data)
  BY Overwrite DEF Ready

(* A write within the window, as the promised file makes it. *)
LEMMA WriteLook ==
  ASSUME IInv, NEW c \in Callers, call[c].at = "pinned", row # NoFile,
         NEW n \in 1 .. MaxChunk, NEW e, e = WithFile(Entry(c)),
         NEW offset \in 0 .. e.file.size,
         e.file.kind = "circular" => offset >= e.file.size - MaxSize,
         NEW R, R = writeAt(Prepared(c, offset, n), offset, NewBytes(n), FALSE)
  PROVE  /\ Touched(R, e)
         /\ Look(R.file, R.parts, dbParts) = Promised!Overwritten(seenFile, offset, Promised!NewBytes(n))
  <1>1. /\ e \in Entries /\ e.file \in File
        /\ seenFile = Look(e.file, e.parts, dbParts)
    BY WithFileIs
  <1>. PICK data : data = NewBytes(n)
    OBVIOUS
  <1>2. data \in Seq(Nat) /\ Len(data) = n /\ data = Promised!NewBytes(n) /\ Len(data) > 0
    BY Bytes, Sizes
  <1>3. R = writeAt(Loading(e, offset, Len(data)), offset, data, FALSE)
    BY <1>2, PreparedIs
  <1>4. dbParts \in PartMaps
    BY Numbers
  <1>5. After(R, e, offset, data)
    BY <1>1, <1>2, <1>3, <1>4, WriteBytes
  <1>6. Look(R.file, R.parts, dbParts) = Promised!Overwritten(Look(e.file, e.parts, dbParts), offset, data)
    <2>1. Ready(R, e, offset, data)
      <3>1. e \in Entries /\ e.file \in File /\ dbParts \in PartMaps
        BY <1>1, <1>4
      <3>2. offset \in 0 .. e.file.size
        OBVIOUS
      <3>3. e.file.kind = "circular" => offset >= e.file.size - MaxSize
        OBVIOUS
      <3>4. data \in Seq(Nat) /\ Len(data) > 0
        BY <1>2
      <3>5. After(R, e, offset, data)
        BY <1>5
      <3>. QED  BY ONLY <3>1, <3>2, <3>3, <3>4, <3>5 DEF Ready
    <2>. QED  BY ONLY <2>1, OverwriteReady
  <1>7. Touched(R, e)
    BY ONLY <1>5 DEF After, Touched
  <1>. QED  BY <1>1, <1>2, <1>6, <1>7

LEMMA WritesOne ==
  ASSUME IInv, NEW c \in Clients, NEW n \in 1 .. MaxChunk, Writing(c, n),
         NEW e, e = WithFile(Entry(c)), NEW offset \in 0 .. e.file.size,
         e.file.kind = "circular" => offset >= e.file.size - MaxSize,
         Finish(c, writeAt(Prepared(c, offset, n), offset, NewBytes(n), FALSE)),
         UNCHANGED <<row, dbParts, faults>>
  PROVE  IInv' /\ Step
  <1>1. /\ c \in Callers /\ call[c].at = "pinned" /\ row # NoFile
        /\ written + n <= MaxBytes /\ written' = written + n /\ n \in Nat
    BY Sizes DEF Writing, Working, Callers
  <1>. PICK R : R = writeAt(Prepared(c, offset, n), offset, NewBytes(n), FALSE)
    OBVIOUS
  <1>2. /\ Touched(R, e)
        /\ Look(R.file, R.parts, dbParts) = Promised!Overwritten(seenFile, offset, Promised!NewBytes(n))
    BY <1>1, WriteLook
  <1>3. /\ e \in Entries /\ e.file \in File /\ e.pins = Entry(c).pins /\ e.file.kind = row.kind
        /\ seenFile # NoFile /\ seenFile.size = e.file.size
    BY <1>1, WithFileIs
  <1>4. R \in Entries /\ R.pins = Entry(c).pins /\ R.file \in File /\ Fits(R, row')
    BY <1>1, <1>2, <1>3, Files DEF Touched, Fits
  <1>5. written' \in 0 .. MaxBytes
    BY <1>1, Numbers, Sizes
  <1>6. IInv' /\ seenFile' = View(R, row', dbParts') /\ storedFile' = Look(row', NoParts, dbParts')
    BY <1>1, <1>4, <1>5, Numbers, Finished
  <1>7. seenFile' = Promised!Overwritten(seenFile, offset, Promised!NewBytes(n))
    BY <1>2, <1>4, <1>6, Viewed
  <1>8. storedFile' = storedFile
    BY <1>6, Looks
  <1>9. offset \in 0 .. seenFile.size /\ seenFile # Promised!NoFile
    BY <1>3 DEF Promised!NoFile, NoFile
  <1>10. Promised!Write
    BY <1>1, <1>7, <1>8, <1>9 DEF Promised!Write
  <1>. QED  BY <1>6, <1>10 DEF Step, Promised!Next

LEMMA Writes ==
  ASSUME IInv, NEW c \in Clients, NEW n \in 1 .. MaxChunk, NEW offset \in 0 .. MaxBytes,
         WriteAt(c, offset, n)
  PROVE  IInv' /\ (~BehindWindow => Step)
  <1>. PICK e : e = WithFile(Entry(c))
    OBVIOUS
  <1>. PICK R : R = writeAt(Prepared(c, offset, n), offset, NewBytes(n), FALSE)
    OBVIOUS
  <1>1. /\ c \in Callers /\ call[c].at = "pinned" /\ row # NoFile
        /\ written + n <= MaxBytes /\ written' = written + n /\ n \in Nat /\ offset \in Nat
    BY Sizes DEF WriteAt, Writing, Working, Callers
  <1>2. /\ Writing(c, n) /\ offset <= e.file.size
        /\ e.file.kind = "circular" /\ ~BehindWindow => offset >= e.file.size - MaxSize
        /\ Finish(c, R) /\ UNCHANGED <<row, dbParts, faults>>
    BY DEF WriteAt
  <1>3. e \in Entries /\ e.file \in File /\ e.pins = Entry(c).pins /\ e.file.kind = row.kind
    BY <1>1, WithFileIs
  <1>4. offset \in 0 .. e.file.size
    BY <1>1, <1>2, <1>3, Files
  <1>5. ASSUME ~BehindWindow PROVE Step
    BY <1>2, <1>4, <1>5, WritesOne
  <1>6. Touched(R, e)
    <2>. PICK P : P = Prepared(c, offset, n)
      OBVIOUS
    <2>1. P \in Entries /\ P.pins = e.pins /\ P.file = e.file
      BY <1>3, Numbers, PreparedIs, LoadingType
    <2>2. NewBytes(n) \in Seq(Nat)
      BY <1>1, Bytes
    <2>3. Touched(R, P)
      BY <1>1, <1>3, <2>1, <2>2, WriteAtType
    <2>. QED  BY <2>1, <2>3 DEF Touched
  <1>7. R \in Entries /\ R.pins = Entry(c).pins /\ R.file \in File /\ Fits(R, row')
    BY <1>1, <1>2, <1>3, <1>6, Files DEF Touched, Fits
  <1>8. written' \in 0 .. MaxBytes
    BY <1>1, Numbers, Sizes
  <1>9. IInv'
    BY <1>1, <1>2, <1>7, <1>8, Numbers, Finished
  <1>. QED  BY <1>5, <1>9

LEMMA Appends ==
  ASSUME IInv, NEW c \in Clients, NEW n \in 1 .. MaxChunk, AppendData(c, n)
  PROVE  IInv' /\ Step
  <1>. PICK e : e = WithFile(Entry(c))
    OBVIOUS
  <1>. PICK size : size = e.file.size
    OBVIOUS
  <1>1. Writing(c, n) /\ c \in Callers /\ call[c].at = "pinned" /\ row # NoFile
    BY DEF AppendData, Writing, Working, Callers
  <1>2. e.file \in File
    BY <1>1, WithFileIs
  <1>3. size \in 0 .. e.file.size /\ size >= e.file.size - MaxSize
    BY <1>2, Files, Sizes
  <1>4. Finish(c, writeAt(Prepared(c, size, n), size, NewBytes(n), FALSE)) /\ UNCHANGED <<row, dbParts, faults>>
    BY DEF AppendData
  <1>. QED  BY <1>1, <1>3, <1>4, WritesOne

(* Compaction of an entry, after a write to it or without one. *)
LEMMA AppendsIJson ==
  ASSUME IInv, NEW c \in Clients, NEW n \in 1 .. MaxChunk, AppendIJson(c, n)
  PROVE  IInv' /\ Step
  <1>. PICK e : e = WithFile(Entry(c))
    OBVIOUS
  <1>. PICK size : size = e.file.size
    OBVIOUS
  <1>. PICK A : A = writeAt(Prepared(c, size, n), size, NewBytes(n), FALSE)
    OBVIOUS
  <1>. PICK R : R = compactIJson(A)
    OBVIOUS
  <1>1. /\ c \in Callers /\ call[c].at = "pinned" /\ row # NoFile
        /\ written + n <= MaxBytes /\ written' = written + n /\ n \in Nat
    BY Sizes DEF AppendIJson, Writing, Working, Callers
  <1>2. e.file.kind = "ijson" /\ Finish(c, R) /\ UNCHANGED <<row, dbParts, faults>>
    BY DEF AppendIJson
  <1>3. /\ e \in Entries /\ e.file \in File /\ e.pins = Entry(c).pins /\ e.file.kind = row.kind
        /\ seenFile # NoFile /\ seenFile.size = size /\ seenFile.kind = "ijson"
    BY <1>1, <1>2, WithFileIs
  <1>4. size \in 0 .. e.file.size
    BY <1>3, Files
  <1>5. /\ Touched(A, e)
        /\ Look(A.file, A.parts, dbParts) = Promised!Overwritten(seenFile, size, Promised!NewBytes(n))
    BY <1>1, <1>2, <1>4, WriteLook
  <1>6. A \in Entries /\ A.file \in File /\ A.file.kind = "ijson" /\ A.pins = e.pins
    BY <1>2, <1>5 DEF Touched
  <1>7. /\ Touched(R, A)
        /\ Look(R.file, R.parts, dbParts) = Promised!Compacted(Look(A.file, A.parts, dbParts))
    BY <1>6, Numbers, CompactLook
  <1>8. R \in Entries /\ R.pins = Entry(c).pins /\ R.file \in File /\ Fits(R, row')
    BY <1>1, <1>2, <1>3, <1>6, <1>7, Files DEF Touched, Fits
  <1>9. written' \in 0 .. MaxBytes
    BY <1>1, Numbers, Sizes
  <1>10. IInv' /\ seenFile' = View(R, row', dbParts') /\ storedFile' = Look(row', NoParts, dbParts')
    <2>1. /\ row' \in File \union {NoFile} /\ dbParts' \in PartMaps
          /\ faults' \in 0 .. MaxFaults
      BY <1>2, Numbers
    <2>. QED  BY <1>1, <1>2, <1>8, <1>9, <2>1, Finished
  <1>11. seenFile' = Promised!Compacted(Promised!Overwritten(seenFile, size, Promised!NewBytes(n)))
    <2>1. R \in Entries /\ R.file \in File
      BY <1>8
    <2>2. View(R, row', dbParts') = Look(R.file, R.parts, dbParts')
      BY ONLY <2>1, Viewed
    <2>3. dbParts' = dbParts
      BY <1>2
    <2>. QED  BY <1>5, <1>7, <1>10, <2>2, <2>3
  <1>12. storedFile' = storedFile
    BY <1>2, <1>10, Looks
  <1>13. size \in 0 .. seenFile.size /\ seenFile # Promised!NoFile
    BY <1>3, <1>4 DEF Promised!NoFile, NoFile
  <1>14. Promised!Write
    BY <1>1, <1>3, <1>11, <1>12, <1>13 DEF Promised!Write
  <1>. QED  BY <1>10, <1>14 DEF Step, Promised!Next

LEMMA Compacts ==
  ASSUME IInv, NEW c \in Clients, CompactFile(c)
  PROVE  IInv' /\ Step
  <1>. PICK e : e = WithFile(Entry(c))
    OBVIOUS
  <1>. PICK R : R = compactIJson(e)
    OBVIOUS
  <1>1. /\ c \in Callers /\ call[c].at = "pinned" /\ row.kind = "ijson" /\ Finish(c, R)
        /\ UNCHANGED <<row, dbParts, written, faults>>
    BY DEF CompactFile, Working, Callers
  <1>2. row # NoFile
    BY <1>1 DEF NoFile
  <1>3. /\ e \in Entries /\ e.file \in File /\ e.pins = Entry(c).pins /\ e.file.kind = row.kind
        /\ seenFile = Look(e.file, e.parts, dbParts) /\ seenFile.kind = e.file.kind
    BY <1>1, <1>2, WithFileIs
  <1>4. /\ Touched(R, e)
        /\ Look(R.file, R.parts, dbParts) = Promised!Compacted(Look(e.file, e.parts, dbParts))
    BY <1>1, <1>3, Numbers, CompactLook
  <1>5. R \in Entries /\ R.pins = Entry(c).pins /\ R.file \in File /\ Fits(R, row')
    BY <1>1, <1>2, <1>3, <1>4, Files DEF Touched, Fits
  <1>6. IInv' /\ seenFile' = View(R, row', dbParts') /\ storedFile' = Look(row', NoParts, dbParts')
    BY <1>1, <1>5, Numbers, Finished
  <1>7. seenFile' = Promised!Compacted(seenFile)
    BY <1>1, <1>3, <1>4, <1>5, <1>6, Viewed
  <1>8. storedFile' = storedFile
    BY <1>1, <1>6, Looks
  <1>9. Promised!Compact
    BY <1>1, <1>3, <1>7, <1>8 DEF Promised!Compact
  <1>. QED  BY <1>6, <1>9 DEF Step, Promised!Next

(* A saved row is the file of the entry that was saved. *)
LEMMA SavedRow ==
  ASSUME IInv, NEW f \in File, row # NoFile, row.kind = f.kind
  PROVE  [row EXCEPT !.size = f.size] = f
  <1>1. row \in File
    BY DEF IInv, Types
  <1>. QED  BY <1>1 DEF File

(* A failed flush keeps what the entry holds, or gives it up. *)
LEMMA FailsIs ==
  ASSUME NEW E \in Entries
  PROVE  \/ FlushFails(E) = clear(E)
         \/ /\ FlushFails(E) \in Entries /\ FlushFails(E).pins = E.pins
            /\ FlushFails(E).file = E.file /\ FlushFails(E).parts = E.parts
  <1>1. CASE E.errs + 1 > FlushErrorLimit
    BY <1>1 DEF FlushFails
  <1>2. CASE ~ (E.errs + 1 > FlushErrorLimit)
    <2>1. FlushFails(E) = [E EXCEPT !.errs = E.errs + 1]
      BY <1>2 DEF FlushFails
    <2>2. E.errs + 1 \in Nat
      BY DEF Entries
    <2>. QED  BY <2>1, <2>2 DEF Entries
  <1>. QED  BY <1>1, <1>2

(* What is left of an entry after an attempt to save it. *)
Left(F, E) ==
  F \in Entries /\ F.pins = E.pins /\ (F = clear(E) \/ (F.file = E.file /\ F.parts = E.parts))

LEMMA Attempt ==
  ASSUME NEW c, NEW E \in Entries, NEW replace, flushToDB(c, E, replace), IInv
  PROVE  \E F : /\ Left(F, E) /\ Finish(c, F) /\ faults' \in 0 .. MaxFaults
                /\ \/ /\ dbWriteCacheEntry(E, replace)
                   \/ UNCHANGED <<row, dbParts>>
  <1>1. Left(clear(E), E)
    BY ClearIs DEF Left
  <1>2. Left(E, E)
    BY DEF Left
  <1>3. Left(FlushFails(E), E)
    BY FailsIs, ClearIs DEF Left
  <1>4. /\ Fault => faults' \in 0 .. MaxFaults
        /\ faults' = faults => faults' \in 0 .. MaxFaults
    BY Numbers
  <1>5. CASE dbWriteCacheEntry(E, replace) /\ Finish(c, clear(E)) /\ UNCHANGED faults
    BY <1>1, <1>4, <1>5
  <1>6. CASE Fault /\ dbWriteCacheEntry(E, replace) /\ Finish(c, E)
    BY <1>2, <1>4, <1>6
  <1>7. CASE Fault /\ Finish(c, E) /\ UNCHANGED <<row, dbParts>>
    BY <1>2, <1>4, <1>7
  <1>8. CASE Fault /\ Finish(c, FlushFails(E)) /\ UNCHANGED <<row, dbParts>>
    BY <1>3, <1>4, <1>8
  <1>. QED  BY <1>5, <1>6, <1>7, <1>8 DEF flushToDB

(* An attempt leaves the saved file as it was or saves the entry, and its   *)
(* readers see the entry or what is saved.                                  *)
LEMMA Attempted ==
  ASSUME IInv, NEW c \in Callers, call[c].at = "pinned", row # NoFile,
         NEW E \in Entries, E.pins = Entry(c).pins, E.file \in File, E.file.kind = row.kind,
         NEW replace, flushToDB(c, E, replace), written' \in 0 .. MaxBytes,
         NEW new, Look(E.file, E.parts, dbParts) = new,
         Look(E.file, E.parts, Over(E.parts, IF replace THEN NoParts ELSE dbParts)) = new,
         Look(E.file, NoParts, Over(E.parts, IF replace THEN NoParts ELSE dbParts)) = new
  PROVE  /\ IInv' /\ seenFile' \in {new, storedFile'} /\ storedFile' \in {storedFile, new}
  <1>. PICK F : /\ Left(F, E) /\ Finish(c, F) /\ faults' \in 0 .. MaxFaults
                /\ dbWriteCacheEntry(E, replace) \/ UNCHANGED <<row, dbParts>>
    BY Attempt
  <1>0. F \in Entries /\ F.pins = Entry(c).pins
    BY DEF Left
  <1>1. /\ row' \in File /\ row'.kind = row.kind /\ row' # NoFile
        /\ dbParts' \in PartMaps /\ Look(E.file, E.parts, dbParts') = new
        /\ Look(row', NoParts, dbParts') \in {storedFile, new}
    <2>1. CASE dbWriteCacheEntry(E, replace)
      <3>. PICK db : db = IF replace THEN NoParts ELSE dbParts
        OBVIOUS
      <3>1. row' = E.file /\ dbParts' = Over(E.parts, db)
        BY <2>1, SavedRow DEF dbWriteCacheEntry
      <3>2. db \in PartMaps /\ E.parts \in PartMaps
        BY NoPartsMap, Numbers DEF Entries
      <3>3. dbParts' \in PartMaps
        BY <3>1, <3>2, OverMap
      <3>. QED  BY <3>1, <3>3, Files
    <2>2. CASE UNCHANGED <<row, dbParts>>
      BY <2>2, Numbers, Rows, Looks
    <2>. QED  BY <2>1, <2>2
  <1>2. Fits(F, row') /\ View(F, row', dbParts') \in {new, Look(row', NoParts, dbParts')}
    <2>1. CASE F = clear(E)
      BY <2>1, ClearIs
    <2>2. CASE F.file = E.file /\ F.parts = E.parts
      <3>1. E.file # NoFile
        BY Files
      <3>. QED  BY <2>2, <3>1, <1>1 DEF Fits, View
    <2>. QED  BY <2>1, <2>2 DEF Left
  <1>3. IInv' /\ seenFile' = View(F, row', dbParts') /\ storedFile' = Look(row', NoParts, dbParts')
    BY <1>0, <1>1, <1>2, Finished
  <1>. QED  BY <1>1, <1>2, <1>3

LEMMA Replaces ==
  ASSUME IInv, NEW c \in Clients, NEW n \in 1 .. MaxChunk, WriteFile(c, n)
  PROVE  IInv' /\ Step
  <1>. PICK e : e = WithFile(Entry(c))
    OBVIOUS
  <1>. PICK data : data = NewBytes(n)
    OBVIOUS
  <1>. PICK R : R = writeAt(e, 0, data, TRUE)
    OBVIOUS
  <1>. PICK new : new = Promised!Contents(row.kind, n, data)
    OBVIOUS
  <1>1. /\ c \in Callers /\ call[c].at = "pinned" /\ row # NoFile
        /\ written + n <= MaxBytes /\ written' = written + n /\ n \in Nat /\ n > 0
    BY Sizes DEF WriteFile, Writing, Working, Callers
  <1>2. flushToDB(c, R, TRUE)
    BY DEF WriteFile
  <1>3. /\ e \in Entries /\ e.file \in File /\ e.pins = Entry(c).pins /\ e.file.kind = row.kind
        /\ seenFile # NoFile /\ seenFile.kind = row.kind
    BY <1>1, WithFileIs
  <1>4. data \in Seq(Nat) /\ Len(data) = n /\ data = Promised!NewBytes(n)
    BY <1>1, Bytes
  <1>5. Replaced(R, e, data)
    <2>1. e \in Entries /\ e.file \in File /\ data \in Seq(Nat) /\ Len(data) > 0
      BY <1>1, <1>3, <1>4
    <2>2. Replaced(writeAt(e, 0, data, TRUE), e, data)
      BY ONLY <2>1, WriteReplaced
    <2>3. R = writeAt(e, 0, data, TRUE)
      OBVIOUS
    <2>. QED  BY ONLY <2>2, <2>3
  <1>6. /\ R \in Entries /\ R.pins = Entry(c).pins /\ R.file \in File /\ R.file.kind = row.kind
        /\ R.parts \in PartMaps
    <2>1. R \in Entries /\ R.pins = e.pins /\ R.file = [kind |-> e.file.kind, size |-> Len(data)] /\ R.file \in File
      BY ONLY <1>5 DEF Replaced
    <2>2. R.file.kind = e.file.kind
      BY ONLY <2>1
    <2>3. R.parts \in PartMaps
      BY ONLY <2>1 DEF Entries
    <2>. QED  BY ONLY <1>3, <2>1, <2>2, <2>3
  <1>7. \A db \in PartMaps : Look(R.file, R.parts, db) = new
    <2>. SUFFICES ASSUME NEW db \in PartMaps PROVE Look(R.file, R.parts, db) = new
      OBVIOUS
    <2>1. Look(R.file, R.parts, db) = Promised!Contents(e.file.kind, Len(data), data)
      BY <1>3, <1>4, <1>5, ReplacedLook
    <2>. QED  BY <2>1, <1>3, <1>4
  <1>. PICK saved : saved = Over(R.parts, NoParts)
    OBVIOUS
  <1>8. saved \in PartMaps /\ NoParts \in PartMaps /\ dbParts \in PartMaps
    <2>1. NoParts \in PartMaps /\ R.parts \in PartMaps
      BY <1>6, NoPartsMap
    <2>2. Over(R.parts, NoParts) \in PartMaps
      BY ONLY <2>1, OverMap
    <2>3. saved = Over(R.parts, NoParts)
      OBVIOUS
    <2>4. dbParts \in PartMaps
      BY Numbers
    <2>. QED  BY ONLY <2>1, <2>2, <2>3, <2>4
  <1>9. Look(R.file, NoParts, saved) = Look(R.file, R.parts, NoParts)
    <2>1. saved = Over(R.parts, NoParts)
      OBVIOUS
    <2>2. Look(R.file, NoParts, Over(R.parts, NoParts)) = Look(R.file, R.parts, NoParts)
      BY ONLY <1>6, <1>8, SavedLook
    <2>. QED  BY ONLY <2>1, <2>2
  <1>10. written' \in 0 .. MaxBytes
    BY <1>1, Numbers, Sizes
  <1>11. IInv' /\ seenFile' \in {new, storedFile'} /\ storedFile' \in {storedFile, new}
    BY <1>1, <1>2, <1>6, <1>7, <1>8, <1>9, <1>10, Attempted
  <1>12. new = Promised!Contents(seenFile.kind, n, Promised!NewBytes(n))
    BY <1>3, <1>4
  <1>13. seenFile # Promised!NoFile
    BY <1>3 DEF Promised!NoFile, NoFile
  <1>14. Promised!Replace
    BY <1>1, <1>11, <1>12, <1>13 DEF Promised!Replace
  <1>. QED  BY <1>11, <1>14 DEF Step, Promised!Next

LEMMA Flushes ==
  ASSUME IInv, FlushCache
  PROVE  IInv' /\ Step
  <1>1. Flusher \in Callers /\ call[Flusher].at = "pinned" /\ written' = written
    BY DEF FlushCache, Callers
  <1>. PICK e : e = Entry(Flusher)
    OBVIOUS
  <1>2. e \in Entries /\ Fits(e, row) /\ seenFile = View(e, row, dbParts)
    BY <1>1, AtWork
  <1>3. CASE e.file = NoFile
    <2>1. Finish(Flusher, Entry(Flusher)) /\ UNCHANGED <<row, dbParts, written, faults>>
      BY <1>3 DEF FlushCache
    <2>. QED  BY <1>1, <2>1, Keeps
  <1>4. CASE e.file # NoFile
    <2>1. flushToDB(Flusher, e, FALSE)
      BY <1>4 DEF FlushCache
    <2>2. e.file \in File /\ row # NoFile /\ row.kind = e.file.kind /\ e.parts \in PartMaps
      BY <1>2, <1>4 DEF Entries, Fits
    <2>3. seenFile = Look(e.file, e.parts, dbParts)
      BY <1>2, <1>4 DEF View
    <2>4. dbParts \in PartMaps /\ written' \in 0 .. MaxBytes
      BY <1>1, Numbers
    <2>5. /\ Look(e.file, e.parts, Over(e.parts, dbParts)) = seenFile
          /\ Look(e.file, NoParts, Over(e.parts, dbParts)) = seenFile
      BY <2>2, <2>3, <2>4, SavedLook
    <2>6. IInv' /\ seenFile' \in {seenFile, storedFile'} /\ storedFile' \in {storedFile, seenFile}
      BY <1>1, <1>2, <2>1, <2>2, <2>3, <2>4, <2>5, Attempted
    <2>7. Step
      BY <1>1, <2>6
         DEF Step, Promised!Next, Promised!Store, Promised!Revert, Promised!vars
    <2>. QED  BY <2>6, <2>7
  <1>. QED  BY <1>3, <1>4

LEMMA Fails ==
  ASSUME IInv, NEW c \in Clients, LoadFails(c)
  PROVE  IInv' /\ Step
  <1>1. /\ c \in Callers /\ call[c].at = "pinned" /\ row # NoFile
        /\ Fault /\ Finish(c, WithFile(Entry(c))) /\ UNCHANGED <<row, dbParts, written>>
    BY DEF LoadFails, Working, Callers
  <1>2. faults' \in 0 .. MaxFaults
    BY <1>1, Numbers
  <1>. QED  BY <1>1, <1>2, Caches

LEMMA Calls ==
  ASSUME IInv, NEW c \in Clients, Call(c)
  PROVE  IInv' /\ (~BehindWindow => Step)
  <1>1. ASSUME NEW kind \in Kinds, MakeFile(c, kind) PROVE IInv' /\ Step
    BY <1>1, Makes
  <1>2. ASSUME DeleteFile(c) PROVE IInv' /\ Step
    BY <1>2, Deletes
  <1>3. ASSUME NoEffect(c) PROVE IInv' /\ Step
    <2>1. /\ c \in Callers /\ call[c].at = "pinned" /\ Finish(c, Entry(c))
          /\ UNCHANGED <<row, dbParts, written, faults>>
      BY <1>3 DEF NoEffect, Working, Callers
    <2>. QED  BY <2>1, Keeps
  <1>4. ASSUME WriteMeta(c) PROVE IInv' /\ Step
    <2>1. /\ c \in Callers /\ call[c].at = "pinned" /\ row # NoFile
          /\ Finish(c, WithFile(Entry(c))) /\ UNCHANGED <<row, dbParts, written, faults>>
      BY <1>4 DEF WriteMeta, Working, Callers
    <2>. QED  BY <2>1, Numbers, Caches
  <1>5. ASSUME NEW n \in 1 .. MaxChunk, NEW offset \in 0 .. MaxBytes, WriteAt(c, offset, n)
        PROVE  IInv' /\ (~BehindWindow => Step)
    BY <1>5, Writes
  <1>6. ASSUME NEW n \in 1 .. MaxChunk, AppendData(c, n) PROVE IInv' /\ Step
    BY <1>6, Appends
  <1>7. ASSUME NEW n \in 1 .. MaxChunk, AppendIJson(c, n) PROVE IInv' /\ Step
    BY <1>7, AppendsIJson
  <1>8. ASSUME NEW n \in 1 .. MaxChunk, WriteFile(c, n) PROVE IInv' /\ Step
    BY <1>8, Replaces
  <1>9. ASSUME LoadFails(c) PROVE IInv' /\ Step
    BY <1>9, Fails
  <1>10. ASSUME CompactFile(c) PROVE IInv' /\ Step
    BY <1>10, Compacts
  <1>. QED  BY <1>1, <1>2, <1>3, <1>4, <1>5, <1>6, <1>7, <1>8, <1>9, <1>10 DEF Call

(* A write behind the window keeps the invariant, but is no step of the     *)
(* promised file.                                                           *)
LEMMA Steps ==
  ASSUME IInv, [Next]_vars
  PROVE  IInv' /\ (~BehindWindow => Step)
  <1>1. ASSUME NEW c \in Clients, Enter(c) PROVE IInv' /\ Step
    BY <1>1, Pins DEF Enter, Callers
  <1>2. ASSUME NEW c \in Clients, Call(c) PROVE IInv' /\ (~BehindWindow => Step)
    BY <1>2, Calls
  <1>3. ASSUME FlushBegins PROVE IInv' /\ Step
    BY <1>3, Pins DEF FlushBegins, Callers
  <1>4. ASSUME FlushCache PROVE IInv' /\ Step
    BY <1>4, Flushes
  <1>5. ASSUME NEW c \in Callers, unpinEntryAndTryDelete(c) PROVE IInv' /\ Step
    BY <1>5, Unpins
  <1>6. ASSUME Crash PROVE IInv' /\ Step
    BY <1>6, Crashes
  <1>7. ASSUME UNCHANGED vars PROVE IInv' /\ Step
    <2>1. IInv'
      BY <1>7 DEF vars, IInv, Types, TypeOK, Pinned, Counted, Inside, Agrees, Fits, Outside, NoFile, NoParts
    <2>2. seenFile' = seenFile /\ storedFile' = storedFile
      BY <1>7, Looks, LooksNext DEF vars
    <2>. QED  BY <1>7, <2>1, <2>2, Quiet DEF vars
  <1>. QED  BY <1>1, <1>2, <1>3, <1>4, <1>5, <1>6, <1>7 DEF Next

-----------------------------------------------------------------------------
(* The theorems                                                              *)

LEMMA Invariant == Spec => []IInv
  <1>1. Init => IInv
    BY Starts
  <1>2. IInv /\ [Next]_vars => IInv'
    BY Steps
  <1>. QED  BY <1>1, <1>2, PTL DEF Spec

(* Every state of the file store is well formed, for any number of callers. *)
THEOREM TypeCorrect == Spec => []TypeOK
  <1>1. IInv => TypeOK
    BY DEF IInv, Types
  <1>. QED  BY <1>1, Invariant, PTL

(* The entry of a file is never replaced nor removed under a caller that    *)
(* has it pinned: all of them work on the entry the cache holds, and its    *)
(* pins count them (getEntryAndPin, unpinEntryAndTryDelete).                *)
THEOREM CallersShareOneEntry == Spec => []OneEntry
  <1>1. IInv => OneEntry
    BY DEF IInv, Pinned, Counted, Inside, OneEntry
  <1>. QED  BY <1>1, Invariant, PTL

(* Whatever part of a file is in the cache, in the database or in both, and *)
(* whatever fails: a reader sees the last write, and a restart goes back to *)
(* a whole earlier state of the file.                                       *)
THEOREM KeepsThePromise ==
  ASSUME ~BehindWindow
  PROVE  Spec => ImplementsStoredFile
  <1>1. Init => Promised!Init
    BY Starts
  <1>2. IInv /\ [Next]_vars => [Promised!Next]_(Promised!vars)
    BY Steps DEF Step
  <1>. QED  BY <1>1, <1>2, Invariant, PTL DEF Spec, ImplementsStoredFile, Promised!Spec

=============================================================================
