-------------------------- MODULE SemChannelProofs --------------------------
(***************************************************************************)
(* The semaphores account for every place of the ring buffer, for any      *)
(* number of threads; and with one that puts and one that gets nothing     *)
(* torn is read, and the buffer implements the bounded channel, although   *)
(* nobody locks anything.                                                  *)
(***************************************************************************)
EXTENDS SemChannel, SequenceTheorems, FiniteSetTheorems, TLAPS

-----------------------------------------------------------------------------
(***************************************************************************)
(* Any number of threads: the places are conserved.                        *)
(***************************************************************************)

Inside == {"put add", "put copy", "put copying", "put post",
           "get add", "get copy", "get copying", "get post"}

SemTypes ==
  /\ has_items \in Nat /\ has_space \in Nat
  /\ iput \in Slots /\ iget \in Slots
  /\ buffer \in [Slots -> Items \cup {NoItem, Torn}]
  /\ pc \in [Callers -> Inside \cup {"client"}]
  /\ pos \in [Callers -> Slots]
  /\ val \in [Callers -> Items \cup {NoItem, Torn}]

SemInv == SemTypes /\ has_items + has_space + Cardinality(At(Inside)) = Capacity

LEMMA InsideFinite ==
  ASSUME SemParameters, NEW S \in SUBSET Callers
  PROVE  /\ IsFiniteSet(S) /\ Cardinality(S) \in Nat
         /\ \A u : u \notin S => Cardinality(S \cup {u}) = Cardinality(S) + 1
         /\ \A u \in S : Cardinality(S \ {u}) = Cardinality(S) - 1
<1>1. IsFiniteSet(S)
  BY FS_Subset DEF SemParameters, Callers
<1>. QED BY <1>1, FS_CardinalityType, FS_AddElement, FS_RemoveElement

\* The next place of the ring.
LEMMA NextPlace ==
  ASSUME SemParameters, NEW i \in Slots
  PROVE  (i + 1) % Capacity \in Slots
BY DEF SemParameters, Slots

LEMMA SemInvInit ==
  ASSUME SemParameters, Init
  PROVE  SemInv
<1>1. SemTypes
  BY DEF SemParameters, Init, SemTypes, Slots
<1>2. At(Inside) = {}
  BY DEF Init, At, Inside
<1>. QED BY <1>1, <1>2, FS_EmptySet DEF Init, SemInv, SemParameters

\* Waiting for a semaphore takes a place from it.
LEMMA Enters ==
  ASSUME SemParameters, SemInv, NEW u \in Callers, NEW to \in Inside,
         pc[u] = "client", pc' = [pc EXCEPT ![u] = to]
  PROVE  /\ pc' \in [Callers -> Inside \cup {"client"}]
         /\ Cardinality(At(Inside)') = Cardinality(At(Inside)) + 1
         /\ Cardinality(At(Inside)) \in Nat
<1>1. At(Inside) \in SUBSET Callers
  BY DEF At
<1>2. u \notin At(Inside)
  BY DEF At, Inside
<1>3. At(Inside)' = At(Inside) \cup {u}
  BY DEF At, SemInv, SemTypes
<1>. QED BY <1>1, <1>2, <1>3, InsideFinite DEF SemInv, SemTypes

\* Posting the other one gives it back.
LEMMA Leaves ==
  ASSUME SemParameters, SemInv, NEW u \in Callers,
         pc[u] \in Inside, pc' = [pc EXCEPT ![u] = "client"]
  PROVE  /\ pc' \in [Callers -> Inside \cup {"client"}]
         /\ Cardinality(At(Inside)') = Cardinality(At(Inside)) - 1
         /\ Cardinality(At(Inside)) \in Nat
<1>1. At(Inside) \in SUBSET Callers
  BY DEF At
<1>2. u \in At(Inside)
  BY DEF At
<1>3. At(Inside)' = At(Inside) \ {u}
  BY DEF At, SemInv, SemTypes, Inside
<1>. QED BY <1>1, <1>2, <1>3, InsideFinite DEF SemInv, SemTypes

\* In between the thread keeps it.
LEMMA GoesOn ==
  ASSUME SemInv, NEW u \in Callers, NEW to \in Inside,
         pc[u] \in Inside, pc' = [pc EXCEPT ![u] = to]
  PROVE  /\ pc' \in [Callers -> Inside \cup {"client"}]
         /\ At(Inside)' = At(Inside)
BY DEF At, SemInv, SemTypes

\* What a semaphore counts less is in the hands of one thread more, and the other
\* way round.
LEMMA Sums ==
  ASSUME NEW x \in Nat, NEW y \in Nat, NEW n \in Nat, x + y + n = Capacity
  PROVE  /\ x > 0 => x - 1 \in Nat /\ (x - 1) + y + (n + 1) = Capacity
         /\ y > 0 => y - 1 \in Nat /\ x + (y - 1) + (n + 1) = Capacity
         /\ x + 1 \in Nat /\ (x + 1) + y + (n - 1) = Capacity
         /\ y + 1 \in Nat /\ x + (y + 1) + (n - 1) = Capacity
OBVIOUS

LEMMA PutKeepsPlaces ==
  ASSUME SemParameters, SemInv, NEW u \in Putters, PutStep(u)
  PROVE  SemInv'
<1>0. SemTypes /\ u \in Callers
  BY DEF SemInv, Callers
<1>1. CASE PutWait(u)
  <2>1. /\ pc[u] = "client" /\ pc' = [pc EXCEPT ![u] = "put add"] /\ "put add" \in Inside
        /\ has_space > 0 /\ has_space' = has_space - 1
        /\ UNCHANGED <<has_items, iput, iget, buffer, pos, val>>
    BY <1>1 DEF PutWait, Goes, Inside
  <2>2. /\ pc' \in [Callers -> Inside \cup {"client"}]
        /\ Cardinality(At(Inside)') = Cardinality(At(Inside)) + 1
        /\ Cardinality(At(Inside)) \in Nat
    BY <1>0, <2>1, Enters
  <2>3. /\ has_items' \in Nat /\ has_space' \in Nat
        /\ has_items' + has_space' + Cardinality(At(Inside)') = Capacity
    <3>1. /\ has_items \in Nat /\ has_space \in Nat
          /\ has_items + has_space + Cardinality(At(Inside)) = Capacity
      BY DEF SemInv, SemTypes
    <3>. DEFINE n == Cardinality(At(Inside))
                m == Cardinality(At(Inside)')
    <3>2. n \in Nat /\ m = n + 1 /\ has_items + has_space + n = Capacity
      BY <2>2, <3>1
    <3>3. has_space > 0 /\ has_space' = has_space - 1 /\ has_items' = has_items
      BY <2>1
    <3>. HIDE DEF n, m
    <3>4. has_items' \in Nat /\ has_space' \in Nat /\ has_items' + has_space' + m = Capacity
      BY <3>1, <3>2, <3>3, Sums
    <3>. QED BY <3>4 DEF m
  <2>4. SemTypes'
    BY <1>0, <2>1, <2>2, <2>3 DEF SemTypes
  <2>. QED BY <2>3, <2>4 DEF SemInv
<1>2. CASE PutAdd(u)
  <2>1. /\ pc[u] \in Inside /\ pc' = [pc EXCEPT ![u] = "put copy"] /\ "put copy" \in Inside
        /\ pos' = [pos EXCEPT ![u] = iput] /\ iput' = (iput + 1) % Capacity
        /\ UNCHANGED <<has_items, has_space, iget, buffer, val>>
    BY <1>2 DEF PutAdd, Goes, Inside
  <2>2. iput' \in Slots
    BY <1>0, <2>1, NextPlace DEF SemTypes
  <2>. QED BY <1>0, <2>1, <2>2, GoesOn DEF SemInv, SemTypes
<1>3. CASE PutCopy(u)
  <2>1. /\ pc[u] \in Inside /\ pc' = [pc EXCEPT ![u] = "put copying"] /\ "put copying" \in Inside
        /\ buffer' = [buffer EXCEPT ![pos[u]] = Torn]
        /\ UNCHANGED <<has_items, has_space, iput, iget, pos, val>>
    BY <1>3 DEF PutCopy, Goes, Inside
  <2>. QED BY <1>0, <2>1, GoesOn DEF SemInv, SemTypes
<1>4. ASSUME NEW x \in Items, PutCopied(u, x) PROVE SemInv'
  <2>1. /\ pc[u] \in Inside /\ pc' = [pc EXCEPT ![u] = "put post"] /\ "put post" \in Inside
        /\ buffer' = [buffer EXCEPT ![pos[u]] = x]
        /\ UNCHANGED <<has_items, has_space, iput, iget, pos, val>>
    BY <1>4 DEF PutCopied, Goes, Inside
  <2>. QED BY <1>0, <2>1, GoesOn DEF SemInv, SemTypes
<1>5. CASE PutPost(u)
  <2>1. /\ pc[u] \in Inside /\ pc' = [pc EXCEPT ![u] = "client"]
        /\ has_items' = has_items + 1
        /\ UNCHANGED <<has_space, iput, iget, buffer, pos, val>>
    BY <1>5 DEF PutPost, Goes, Inside
  <2>2. /\ pc' \in [Callers -> Inside \cup {"client"}]
        /\ Cardinality(At(Inside)') = Cardinality(At(Inside)) - 1
        /\ Cardinality(At(Inside)) \in Nat
    BY <1>0, <2>1, Leaves
  <2>3. /\ has_items' \in Nat /\ has_space' \in Nat
        /\ has_items' + has_space' + Cardinality(At(Inside)') = Capacity
    <3>1. /\ has_items \in Nat /\ has_space \in Nat
          /\ has_items + has_space + Cardinality(At(Inside)) = Capacity
      BY DEF SemInv, SemTypes
    <3>. QED BY <2>1, <2>2, <3>1, Sums
  <2>4. SemTypes'
    BY <1>0, <2>1, <2>2, <2>3 DEF SemTypes
  <2>. QED BY <2>3, <2>4 DEF SemInv
<1>. QED BY <1>1, <1>2, <1>3, <1>4, <1>5 DEF PutStep

LEMMA GetKeepsPlaces ==
  ASSUME SemParameters, SemInv, NEW u \in Getters, GetStep(u)
  PROVE  SemInv'
<1>0. SemTypes /\ u \in Callers
  BY DEF SemInv, Callers
<1>1. CASE GetWait(u)
  <2>1. /\ pc[u] = "client" /\ pc' = [pc EXCEPT ![u] = "get add"] /\ "get add" \in Inside
        /\ has_items > 0 /\ has_items' = has_items - 1
        /\ UNCHANGED <<has_space, iput, iget, buffer, pos, val>>
    BY <1>1 DEF GetWait, Goes, Inside
  <2>2. /\ pc' \in [Callers -> Inside \cup {"client"}]
        /\ Cardinality(At(Inside)') = Cardinality(At(Inside)) + 1
        /\ Cardinality(At(Inside)) \in Nat
    BY <1>0, <2>1, Enters
  <2>3. /\ has_items' \in Nat /\ has_space' \in Nat
        /\ has_items' + has_space' + Cardinality(At(Inside)') = Capacity
    <3>1. /\ has_items \in Nat /\ has_space \in Nat
          /\ has_items + has_space + Cardinality(At(Inside)) = Capacity
      BY DEF SemInv, SemTypes
    <3>. DEFINE n == Cardinality(At(Inside))
                m == Cardinality(At(Inside)')
    <3>2. n \in Nat /\ m = n + 1 /\ has_items + has_space + n = Capacity
      BY <2>2, <3>1
    <3>3. has_items > 0 /\ has_items' = has_items - 1 /\ has_space' = has_space
      BY <2>1
    <3>. HIDE DEF n, m
    <3>4. has_items' \in Nat /\ has_space' \in Nat /\ has_items' + has_space' + m = Capacity
      BY <3>1, <3>2, <3>3, Sums
    <3>. QED BY <3>4 DEF m
  <2>4. SemTypes'
    BY <1>0, <2>1, <2>2, <2>3 DEF SemTypes
  <2>. QED BY <2>3, <2>4 DEF SemInv
<1>2. CASE GetAdd(u)
  <2>1. /\ pc[u] \in Inside /\ pc' = [pc EXCEPT ![u] = "get copy"] /\ "get copy" \in Inside
        /\ pos' = [pos EXCEPT ![u] = iget] /\ iget' = (iget + 1) % Capacity
        /\ UNCHANGED <<has_items, has_space, iput, buffer, val>>
    BY <1>2 DEF GetAdd, Goes, Inside
  <2>2. iget' \in Slots
    BY <1>0, <2>1, NextPlace DEF SemTypes
  <2>. QED BY <1>0, <2>1, <2>2, GoesOn DEF SemInv, SemTypes
<1>3. CASE GetCopy(u) \/ GetCopied(u)
  <2>1. PICK to \in Inside : pc[u] \in Inside /\ pc' = [pc EXCEPT ![u] = to]
    BY <1>3 DEF GetCopy, GetCopied, Goes, Inside
  <2>2. UNCHANGED <<has_items, has_space, iput, iget, buffer, pos>>
    BY <1>3 DEF GetCopy, GetCopied
  <2>3. PICK y \in Items \cup {NoItem, Torn} : val' = [val EXCEPT ![u] = y]
    BY <1>0, <1>3 DEF GetCopy, GetCopied, SemTypes
  <2>4. val' \in [Callers -> Items \cup {NoItem, Torn}]
    BY <1>0, <2>3 DEF SemTypes
  <2>. QED BY <1>0, <2>1, <2>2, <2>4, GoesOn DEF SemInv, SemTypes
<1>4. CASE GetPost(u)
  <2>1. /\ pc[u] \in Inside /\ pc' = [pc EXCEPT ![u] = "client"]
        /\ has_space' = has_space + 1
        /\ UNCHANGED <<has_items, iput, iget, buffer, pos, val>>
    BY <1>4 DEF GetPost, Goes, Inside
  <2>2. /\ pc' \in [Callers -> Inside \cup {"client"}]
        /\ Cardinality(At(Inside)') = Cardinality(At(Inside)) - 1
        /\ Cardinality(At(Inside)) \in Nat
    BY <1>0, <2>1, Leaves
  <2>3. /\ has_items' \in Nat /\ has_space' \in Nat
        /\ has_items' + has_space' + Cardinality(At(Inside)') = Capacity
    <3>1. /\ has_items \in Nat /\ has_space \in Nat
          /\ has_items + has_space + Cardinality(At(Inside)) = Capacity
      BY DEF SemInv, SemTypes
    <3>. QED BY <2>1, <2>2, <3>1, Sums
  <2>4. SemTypes'
    BY <1>0, <2>1, <2>2, <2>3 DEF SemTypes
  <2>. QED BY <2>3, <2>4 DEF SemInv
<1>. QED BY <1>1, <1>2, <1>3, <1>4 DEF GetStep

LEMMA SemInvNext ==
  ASSUME SemParameters, SemInv, [Next]_vars
  PROVE  SemInv'
<1>1. CASE UNCHANGED vars
  BY <1>1 DEF vars, SemInv, SemTypes, At
<1>. QED BY <1>1, PutKeepsPlaces, GetKeepsPlaces DEF Next

LEMMA SemInvSound ==
  ASSUME SemParameters, SemInv
  PROVE  SemaphoresSound
<1>1. At(Inside) \in SUBSET Callers
  BY DEF At
<1>2. Cardinality(At(Inside)) \in Nat
  BY <1>1, InsideFinite
<1>3. has_items \in 0..Capacity /\ has_space \in 0..Capacity
  BY <1>2 DEF SemInv, SemTypes, SemParameters
<1>. QED BY <1>3 DEF SemInv, SemTypes, SemaphoresSound, TypeOK, PlacesConserved, Inside

\* Every place of the buffer is free, full, or in the hands of one thread that will
\* post it, and neither semaphore exceeds the capacity, for any number of threads
\* that put and get without a lock.
THEOREM PlacesAreConserved ==
  ASSUME SemParameters
  PROVE  Spec => []SemaphoresSound
<1>1. Init => SemInv
  BY SemInvInit
<1>2. SemInv /\ [Next]_vars => SemInv'
  BY SemInvNext
<1>3. SemInv => SemaphoresSound
  BY SemInvSound
<1>. QED BY <1>1, <1>2, <1>3, PTL DEF Spec

-----------------------------------------------------------------------------
(***************************************************************************)
(* The places of the ring, modulo the capacity.                            *)
(***************************************************************************)

Wrap(i) == i % Capacity

LEMMA WrapIsSmall ==
  ASSUME SemParameters, NEW i \in Slots
  PROVE  Wrap(i) = i
BY DEF SemParameters, Slots, Wrap

LEMMA WrapIsBig ==
  ASSUME SemParameters, NEW i \in Capacity..(Capacity + Capacity - 1)
  PROVE  Wrap(i) = i - Capacity
BY DEF SemParameters, Wrap

LEMMA WrapBefore ==
  ASSUME SemParameters
  PROVE  Wrap(0 - 1) = Capacity - 1
BY DEF SemParameters, Wrap

LEMMA WrapSum ==
  ASSUME SemParameters, NEW i \in Slots, NEW n \in 0..Capacity
  PROVE  /\ Wrap(i + n) \in Slots
         /\ i + n < Capacity => Wrap(i + n) = i + n
         /\ i + n >= Capacity => Wrap(i + n) = i + n - Capacity
<1>1. CASE i + n < Capacity
  BY <1>1, WrapIsSmall DEF SemParameters, Slots
<1>2. CASE i + n >= Capacity
  BY <1>2, WrapIsBig DEF SemParameters, Slots
<1>. QED BY <1>1, <1>2 DEF SemParameters, Slots

\* One place further, at either end.
LEMMA WrapNext ==
  ASSUME SemParameters, NEW i \in Slots, NEW n \in 0..(Capacity - 1)
  PROVE  /\ Wrap(i + 1) \in Slots
         /\ Wrap(Wrap(i + n) + 1) = Wrap(i + (n + 1))
         /\ Wrap(Wrap(i + 1) + n) = Wrap(i + (n + 1))
<1>1. /\ Capacity \in Nat \ {0} /\ n \in 0..Capacity /\ n + 1 \in 0..Capacity /\ 1 \in 0..Capacity
      /\ i \in 0..(Capacity - 1) /\ Slots = 0..(Capacity - 1)
  BY DEF SemParameters, Slots
<1>2. Wrap(i + 1) \in Slots /\ Wrap(i + n) \in Slots
  BY <1>1, WrapSum
<1>3. Wrap(Wrap(i + n) + 1) = Wrap(i + (n + 1))
  <2>1. CASE i + n < Capacity
    <3>1. Wrap(i + n) = i + n /\ i + (n + 1) = (i + n) + 1
      BY <1>1, <2>1, WrapSum
    <3>. QED BY <3>1
  <2>2. CASE i + n >= Capacity
    <3>1. Wrap(i + n) = i + n - Capacity /\ i + n - Capacity \in Slots
      BY <1>1, <1>2, <2>2, WrapSum
    <3>2. (i + n - Capacity) + 1 \in Slots /\ i + (n + 1) \in Capacity..(Capacity + Capacity - 1)
      BY <1>1, <2>2
    <3>3. Wrap((i + n - Capacity) + 1) = (i + n - Capacity) + 1
      BY <3>2, WrapIsSmall
    <3>4. \A k \in Capacity..(Capacity + Capacity - 1) : Wrap(k) = k - Capacity
      BY WrapIsBig
    <3>. QED BY <1>1, <3>1, <3>2, <3>3, <3>4
  <2>. QED BY <1>1, <2>1, <2>2
<1>4. Wrap(Wrap(i + 1) + n) = Wrap(i + (n + 1))
  <2>1. CASE i + 1 < Capacity
    <3>1. Wrap(i + 1) = i + 1 /\ i + (n + 1) = (i + 1) + n
      BY <1>1, <2>1, WrapSum
    <3>. QED BY <3>1
  <2>2. CASE i + 1 >= Capacity
    <3>1. Wrap(i + 1) = 0 /\ 0 + n = n /\ n \in Slots
      BY <1>1, <2>2, WrapSum
    <3>2. i + (n + 1) \in Capacity..(Capacity + Capacity - 1) /\ i + (n + 1) - Capacity = n
      BY <1>1, <2>2
    <3>3. \A k \in Capacity..(Capacity + Capacity - 1) : Wrap(k) = k - Capacity
      BY WrapIsBig
    <3>4. Wrap(n) = n
      BY <3>1, WrapIsSmall
    <3>5. Wrap(i + 1) + n = n
      BY <1>1, <3>1
    <3>6. Wrap(i + (n + 1)) = n
      <4>. DEFINE k == i + (n + 1)
      <4>1. k \in Capacity..(Capacity + Capacity - 1) /\ k - Capacity = n
        BY <1>1, <3>2
      <4>. HIDE DEF k
      <4>2. Wrap(k) = n
        BY <3>3, <4>1
      <4>. QED BY <4>2 DEF k
    <3>. QED BY <3>4, <3>5, <3>6
  <2>. QED BY <1>1, <2>1, <2>2
<1>. QED BY <1>2, <1>3, <1>4

\* Different distances lead to different places.
LEMMA WrapDiffers ==
  ASSUME SemParameters, NEW i \in Slots,
         NEW m \in 0..(Capacity - 1), NEW n \in 0..(Capacity - 1), m # n
  PROVE  Wrap(i + m) # Wrap(i + n)
<1>1. /\ Capacity \in Nat \ {0} /\ n \in 0..Capacity /\ m \in 0..Capacity
      /\ i \in 0..(Capacity - 1)
  BY DEF SemParameters, Slots
<1>. QED BY <1>1, WrapSum

-----------------------------------------------------------------------------
(***************************************************************************)
(* One thread that puts and one that gets: their positions never meet.     *)
(***************************************************************************)

OnePair(p, g) == Putters = {p} /\ Getters = {g}

\* The place that a thread has in its hands, full or free.
Posting(p) == IF pc[p] = "put post" THEN 1 ELSE 0
Taking(g) == IF pc[g] \in {"get add", "get copy"} THEN 1 ELSE 0
Filling(p) == IF pc[p] \in {"put add", "put copy", "put copying"} THEN 1 ELSE 0
Emptying(g) == IF pc[g] \in {"get copying", "get post"} THEN 1 ELSE 0

\* The items of the ring: Number of them, from Start on.
Start(g) == IF pc[g] = "get copy" THEN pos[g] ELSE iget
Number(p, g) ==
  has_items + Posting(p) + Taking(g)
End(p, g) == Wrap(Start(g) + Number(p, g))

PairPlaces(p, g) ==
  /\ pc[p] \in {"client", "put add", "put copy", "put copying", "put post"}
  /\ pc[g] \in {"client", "get add", "get copy", "get copying", "get post"}
  /\ Number(p, g) + has_space + Filling(p) + Emptying(g) = Capacity

\* The putter is one place behind the items, and the getter one place before them.
PairIndexes(p, g) ==
  /\ pc[p] \in {"put copy", "put copying"} => pos[p] = End(p, g) /\ iput = Wrap(pos[p] + 1)
  /\ pc[p] \notin {"put copy", "put copying"} => iput = End(p, g)
  /\ pc[g] \in {"get copy", "get copying"} => iget = Wrap(pos[g] + 1)

\* What is in the ring was copied there in full, and nobody writes over what the
\* getter is copying.
PairMemory(p, g) ==
  /\ \A i \in 1..Number(p, g) : buffer[Wrap(Start(g) + (i - 1))] \in Items
  /\ pc[g] = "get copying" => val[g] \in Items /\ val[g] = buffer[pos[g]]
  /\ pc[g] = "get post" => val[g] \in Items

PairInv(p, g) == SemInv /\ PairPlaces(p, g) /\ PairIndexes(p, g) /\ PairMemory(p, g)

LEMMA PairInit ==
  ASSUME SemParameters, NEW p, NEW g, OnePair(p, g), Init
  PROVE  PairInv(p, g)
<1>1. p \in Callers /\ g \in Callers /\ SemInv
  BY SemInvInit DEF OnePair, Callers
<1>2. pc[p] = "client" /\ pc[g] = "client" /\ has_items = 0 /\ has_space = Capacity
  BY <1>1 DEF Init
<1>3. Number(p, g) = 0 /\ Start(g) = 0 /\ Capacity \in Nat \ {0} /\ iput = 0
  <2>1. Start(g) = 0 /\ iput = 0
    BY <1>2 DEF Start, Init
  <2>2. Number(p, g) = 0
    BY <1>2 DEF Number, Posting, Taking, Filling, Emptying
  <2>. QED BY <2>1, <2>2 DEF SemParameters
<1>4. PairPlaces(p, g)
  BY <1>2, <1>3 DEF PairPlaces, Posting, Taking, Filling, Emptying
<1>5. End(p, g) = 0
  BY <1>3, WrapIsSmall DEF End, Slots
<1>6. PairIndexes(p, g)
  BY <1>2, <1>3, <1>5 DEF PairIndexes
<1>7. PairMemory(p, g)
  BY <1>2, <1>3 DEF PairMemory
<1>. QED BY <1>1, <1>4, <1>6, <1>7 DEF PairInv

\* What the invariant says of the numbers and the places.
LEMMA PairFacts ==
  ASSUME SemParameters, NEW p, NEW g, OnePair(p, g), PairInv(p, g)
  PROVE  /\ p \in Callers /\ g \in Callers /\ p # g
         /\ SemTypes /\ PairPlaces(p, g) /\ PairIndexes(p, g) /\ PairMemory(p, g)
         /\ Number(p, g) \in Nat /\ Number(p, g) \in 0..Capacity /\ Start(g) \in Slots /\ End(p, g) \in Slots
         /\ Filling(p) \in 0..1
         /\ Emptying(g) \in 0..1
         /\ Number(p, g) = Capacity - has_space - Filling(p) - Emptying(g)
<1>1. p \in Callers /\ g \in Callers /\ p # g
  BY DEF OnePair, SemParameters, Callers
<1>2. SemTypes /\ PairPlaces(p, g) /\ PairIndexes(p, g) /\ PairMemory(p, g)
  BY DEF PairInv, SemInv
<1>3. /\ has_items \in Nat /\ has_space \in Nat /\ Capacity \in Nat
      /\ iget \in Slots /\ pos[g] \in Slots
  BY <1>1, <1>2 DEF SemTypes, SemParameters
<1>5. /\ Posting(p) \in 0..1
      /\ Taking(g) \in 0..1
      /\ Filling(p) \in 0..1
      /\ Emptying(g) \in 0..1
  BY DEF Posting, Taking, Filling, Emptying
<1>6. Number(p, g) \in Nat
  BY <1>3, <1>5 DEF Number
<1>7. Number(p, g) = Capacity - has_space - Filling(p) - Emptying(g)
  <2>1. Number(p, g) + has_space + Filling(p) + Emptying(g) = Capacity
    BY <1>2 DEF PairPlaces
  <2>. QED BY <1>3, <1>5, <1>6, <2>1
<1>8. Number(p, g) \in 0..Capacity
  BY <1>3, <1>5, <1>6, <1>7
<1>9. Start(g) \in Slots
  BY <1>3 DEF Start
<1>10. End(p, g) \in Slots
  BY <1>8, <1>9, WrapSum DEF End
<1>. QED BY <1>1, <1>2, <1>5, <1>6, <1>7, <1>8, <1>9, <1>10

\* A semaphore gives the putter a place.
LEMMA PairPutWait ==
  ASSUME SemParameters, NEW p, NEW g, OnePair(p, g), PairInv(p, g), PutWait(p)
  PROVE  /\ PairPlaces(p, g)' /\ PairIndexes(p, g)' /\ PairMemory(p, g)'
         /\ UNCHANGED <<Start(g), Number(p, g)>>
<1>0. /\ p \in Callers /\ g \in Callers /\ p # g
      /\ SemTypes /\ PairPlaces(p, g) /\ PairIndexes(p, g) /\ PairMemory(p, g)
      /\ has_space \in Nat /\ Number(p, g) \in Nat
      /\ Filling(p) \in 0..1 /\ Emptying(g) \in 0..1
  BY PairFacts DEF SemTypes
<1>1. /\ pc[p] = "client" /\ pc'[p] = "put add" /\ pc'[g] = pc[g]
      /\ has_space' = has_space - 1
      /\ UNCHANGED <<has_items, iput, iget, buffer, pos, val>>
  BY <1>0 DEF PutWait, Goes, SemTypes
<1>2. Start(g)' = Start(g)
  BY <1>1 DEF Start
<1>3. Number(p, g)' = Number(p, g)
  BY <1>1 DEF Number, Posting, Taking, Filling, Emptying
<1>4. End(p, g)' = End(p, g)
  BY <1>2, <1>3 DEF End, Wrap
<1>5. PairPlaces(p, g)'
  <2>1. /\ Filling(p) = 0
        /\ Filling(p)' = 1
        /\ pc'[p] \in {"client", "put add", "put copy", "put copying", "put post"}
    BY <1>1 DEF Posting, Taking, Filling, Emptying
  <2>2. Number(p, g) + has_space + Filling(p) + Emptying(g) = Capacity /\ Emptying(g)' = Emptying(g)
    BY <1>0, <1>1 DEF PairPlaces, Emptying
  <2>3. Number(p, g) + (has_space - 1) + 1 + Emptying(g) = Capacity
    <3>. DEFINE n == Number(p, g)  f == Filling(p)  e == Emptying(g)
    <3>0. 0..1 \subseteq Nat
      OBVIOUS
    <3>1. n \in Nat /\ f \in Nat /\ e \in Nat /\ has_space \in Nat
      BY <1>0, <3>0, Zenon
    <3>2. n + has_space + 0 + e = Capacity
      BY <2>1, <2>2, Zenon
    <3>. HIDE DEF n, f, e
    <3>3. n + (has_space - 1) + 1 + e = Capacity
      BY <3>1, <3>2
    <3>. QED BY <3>3 DEF n, f, e
  <2>. QED BY <1>0, <1>1, <1>3, <2>1, <2>2, <2>3 DEF PairPlaces
<1>6. PairIndexes(p, g)'
  BY <1>0, <1>1, <1>4 DEF PairIndexes, Wrap
<1>7. PairMemory(p, g)'
  BY <1>0, <1>1, <1>2, <1>3 DEF PairMemory, Wrap
<1>. QED BY <1>2, <1>3, <1>5, <1>6, <1>7

\* The putter takes its position, which is the end of the items.
LEMMA PairPutAdd ==
  ASSUME SemParameters, NEW p, NEW g, OnePair(p, g), PairInv(p, g), PutAdd(p)
  PROVE  /\ PairPlaces(p, g)' /\ PairIndexes(p, g)' /\ PairMemory(p, g)'
         /\ UNCHANGED <<Start(g), Number(p, g)>>
<1>0. /\ p \in Callers /\ g \in Callers /\ p # g
      /\ SemTypes /\ PairPlaces(p, g) /\ PairIndexes(p, g) /\ PairMemory(p, g)
      /\ has_space \in Nat /\ Number(p, g) \in Nat
      /\ Filling(p) \in 0..1 /\ Emptying(g) \in 0..1
  BY PairFacts DEF SemTypes
<1>1. /\ pc[p] = "put add" /\ pc'[p] = "put copy" /\ pc'[g] = pc[g]
      /\ pos'[p] = iput /\ pos'[g] = pos[g] /\ iput' = Wrap(iput + 1)
      /\ UNCHANGED <<has_items, has_space, iget, buffer, val>>
  BY <1>0 DEF PutAdd, Goes, SemTypes, Wrap
<1>2. Start(g)' = Start(g)
  BY <1>1 DEF Start
<1>3. Number(p, g)' = Number(p, g)
  BY <1>1 DEF Number, Posting, Taking
<1>4. End(p, g)' = End(p, g)
  BY <1>2, <1>3 DEF End, Wrap
<1>5. PairPlaces(p, g)'
  <2>1. Filling(p)' = Filling(p) /\ Emptying(g)' = Emptying(g)
    BY <1>1 DEF Filling, Emptying
  <2>. QED BY <1>0, <1>1, <1>3, <2>1 DEF PairPlaces
<1>6. PairIndexes(p, g)'
  BY <1>0, <1>1, <1>4 DEF PairIndexes, Wrap
<1>7. PairMemory(p, g)'
  BY <1>0, <1>1, <1>2, <1>3 DEF PairMemory, Wrap
<1>. QED BY <1>2, <1>3, <1>5, <1>6, <1>7

\* A post of the items gives the getter a full place.
LEMMA PairPutPost ==
  ASSUME SemParameters, NEW p, NEW g, OnePair(p, g), PairInv(p, g), PutPost(p)
  PROVE  /\ PairPlaces(p, g)' /\ PairIndexes(p, g)' /\ PairMemory(p, g)'
         /\ UNCHANGED <<Start(g), Number(p, g)>>
<1>0. /\ p \in Callers /\ g \in Callers /\ p # g
      /\ SemTypes /\ PairPlaces(p, g) /\ PairIndexes(p, g) /\ PairMemory(p, g)
      /\ has_space \in Nat /\ Number(p, g) \in Nat
      /\ Filling(p) \in 0..1 /\ Emptying(g) \in 0..1
  BY PairFacts DEF SemTypes
<1>1. /\ pc[p] = "put post" /\ pc'[p] = "client" /\ pc'[g] = pc[g]
      /\ has_items' = has_items + 1 /\ has_items \in Nat
      /\ UNCHANGED <<has_space, iput, iget, buffer, pos, val>>
  BY <1>0 DEF PutPost, Goes, SemTypes
<1>2. Start(g)' = Start(g)
  BY <1>1 DEF Start
<1>3. Number(p, g)' = Number(p, g)
  <2>1. Posting(p) = 1 /\ Posting(p)' = 0 /\ Taking(g)' = Taking(g) /\ Taking(g) \in Nat
    BY <1>1 DEF Posting, Taking
  <2>. DEFINE k == Taking(g)
  <2>2. k \in Nat /\ has_items \in Nat
    BY <1>1, <2>1
  <2>3. Number(p, g) = has_items + 1 + k /\ Number(p, g)' = (has_items + 1) + 0 + k
    BY <1>1, <2>1 DEF Number
  <2>. HIDE DEF k
  <2>. QED BY <2>2, <2>3
<1>4. End(p, g)' = End(p, g)
  BY <1>2, <1>3 DEF End, Wrap
<1>5. PairPlaces(p, g)'
  <2>1. Filling(p)' = Filling(p) /\ Emptying(g)' = Emptying(g)
    BY <1>1 DEF Filling, Emptying
  <2>. QED BY <1>0, <1>1, <1>3, <2>1 DEF PairPlaces
<1>6. PairIndexes(p, g)'
  BY <1>0, <1>1, <1>4 DEF PairIndexes, Wrap
<1>7. PairMemory(p, g)'
  BY <1>0, <1>1, <1>2, <1>3 DEF PairMemory, Wrap
<1>. QED BY <1>2, <1>3, <1>5, <1>6, <1>7

\* A semaphore gives the getter a full place.
LEMMA PairGetWait ==
  ASSUME SemParameters, NEW p, NEW g, OnePair(p, g), PairInv(p, g), GetWait(g)
  PROVE  /\ PairPlaces(p, g)' /\ PairIndexes(p, g)' /\ PairMemory(p, g)'
         /\ UNCHANGED <<Start(g), Number(p, g)>>
<1>0. /\ p \in Callers /\ g \in Callers /\ p # g
      /\ SemTypes /\ PairPlaces(p, g) /\ PairIndexes(p, g) /\ PairMemory(p, g)
      /\ has_space \in Nat /\ Number(p, g) \in Nat
      /\ Filling(p) \in 0..1 /\ Emptying(g) \in 0..1
  BY PairFacts DEF SemTypes
<1>1. /\ pc[g] = "client" /\ pc'[g] = "get add" /\ pc'[p] = pc[p]
      /\ has_items' = has_items - 1 /\ has_items \in Nat
      /\ UNCHANGED <<has_space, iput, iget, buffer, pos, val>>
  BY <1>0 DEF GetWait, Goes, SemTypes
<1>2. Start(g)' = Start(g)
  BY <1>1 DEF Start
<1>3. Number(p, g)' = Number(p, g)
  <2>1. Taking(g) = 0 /\ Taking(g)' = 1 /\ Posting(p)' = Posting(p) /\ Posting(p) \in Nat
    BY <1>1 DEF Posting, Taking
  <2>. DEFINE k == Posting(p)
  <2>2. k \in Nat /\ has_items \in Nat
    BY <1>1, <2>1
  <2>3. Number(p, g) = has_items + k + 0 /\ Number(p, g)' = (has_items - 1) + k + 1
    BY <1>1, <2>1 DEF Number
  <2>. HIDE DEF k
  <2>. QED BY <2>2, <2>3
<1>4. End(p, g)' = End(p, g)
  BY <1>2, <1>3 DEF End, Wrap
<1>5. PairPlaces(p, g)'
  <2>1. Filling(p)' = Filling(p) /\ Emptying(g)' = Emptying(g)
    BY <1>1 DEF Filling, Emptying
  <2>. QED BY <1>0, <1>1, <1>3, <2>1 DEF PairPlaces
<1>6. PairIndexes(p, g)'
  BY <1>0, <1>1, <1>4 DEF PairIndexes, Wrap
<1>7. PairMemory(p, g)'
  BY <1>0, <1>1, <1>2, <1>3 DEF PairMemory, Wrap
<1>. QED BY <1>2, <1>3, <1>5, <1>6, <1>7

\* The getter takes its position, which is the start of the items.
LEMMA PairGetAdd ==
  ASSUME SemParameters, NEW p, NEW g, OnePair(p, g), PairInv(p, g), GetAdd(g)
  PROVE  /\ PairPlaces(p, g)' /\ PairIndexes(p, g)' /\ PairMemory(p, g)'
         /\ UNCHANGED <<Start(g), Number(p, g)>>
<1>0. /\ p \in Callers /\ g \in Callers /\ p # g
      /\ SemTypes /\ PairPlaces(p, g) /\ PairIndexes(p, g) /\ PairMemory(p, g)
      /\ has_space \in Nat /\ Number(p, g) \in Nat
      /\ Filling(p) \in 0..1 /\ Emptying(g) \in 0..1
  BY PairFacts DEF SemTypes
<1>1. /\ pc[g] = "get add" /\ pc'[g] = "get copy" /\ pc'[p] = pc[p]
      /\ pos'[g] = iget /\ pos'[p] = pos[p] /\ iget' = Wrap(iget + 1)
      /\ UNCHANGED <<has_items, has_space, iput, buffer, val>>
  BY <1>0 DEF GetAdd, Goes, SemTypes, Wrap
<1>2. Start(g)' = Start(g)
  BY <1>1 DEF Start
<1>3. Number(p, g)' = Number(p, g)
  BY <1>1 DEF Number, Posting, Taking
<1>4. End(p, g)' = End(p, g)
  BY <1>2, <1>3 DEF End, Wrap
<1>5. PairPlaces(p, g)'
  <2>1. Filling(p)' = Filling(p) /\ Emptying(g)' = Emptying(g)
    BY <1>1 DEF Filling, Emptying
  <2>. QED BY <1>0, <1>1, <1>3, <2>1 DEF PairPlaces
<1>6. PairIndexes(p, g)'
  BY <1>0, <1>1, <1>4 DEF PairIndexes, Wrap
<1>7. PairMemory(p, g)'
  BY <1>0, <1>1, <1>2, <1>3 DEF PairMemory, Wrap
<1>. QED BY <1>2, <1>3, <1>5, <1>6, <1>7

\* What was copied out is what was there: nobody wrote over it.
LEMMA PairGetCopied ==
  ASSUME SemParameters, NEW p, NEW g, OnePair(p, g), PairInv(p, g), GetCopied(g)
  PROVE  /\ PairPlaces(p, g)' /\ PairIndexes(p, g)' /\ PairMemory(p, g)'
         /\ UNCHANGED <<Start(g), Number(p, g), val>>
<1>0. /\ p \in Callers /\ g \in Callers /\ p # g
      /\ SemTypes /\ PairPlaces(p, g) /\ PairIndexes(p, g) /\ PairMemory(p, g)
      /\ has_space \in Nat /\ Number(p, g) \in Nat
      /\ Filling(p) \in 0..1 /\ Emptying(g) \in 0..1
  BY PairFacts DEF SemTypes
<1>1. /\ pc[g] = "get copying" /\ pc'[g] = "get post" /\ pc'[p] = pc[p]
      /\ UNCHANGED <<has_items, has_space, iput, iget, buffer, pos>>
  BY <1>0 DEF GetCopied, Goes, SemTypes
<1>8. val' = val /\ val[g] \in Items
  BY <1>0, <1>1 DEF GetCopied, PairMemory, SemTypes
<1>2. Start(g)' = Start(g)
  BY <1>1 DEF Start
<1>3. Number(p, g)' = Number(p, g)
  BY <1>1 DEF Number, Posting, Taking
<1>4. End(p, g)' = End(p, g)
  BY <1>2, <1>3 DEF End, Wrap
<1>5. PairPlaces(p, g)'
  <2>1. Filling(p)' = Filling(p) /\ Emptying(g)' = Emptying(g)
    BY <1>1 DEF Filling, Emptying
  <2>. QED BY <1>0, <1>1, <1>3, <2>1 DEF PairPlaces
<1>6. PairIndexes(p, g)'
  BY <1>0, <1>1, <1>4 DEF PairIndexes, Wrap
<1>7. PairMemory(p, g)'
  BY <1>0, <1>1, <1>2, <1>3, <1>8 DEF PairMemory, Wrap
<1>. QED BY <1>2, <1>3, <1>5, <1>6, <1>7, <1>8

\* A post of the space gives the putter a place.
LEMMA PairGetPost ==
  ASSUME SemParameters, NEW p, NEW g, OnePair(p, g), PairInv(p, g), GetPost(g)
  PROVE  /\ PairPlaces(p, g)' /\ PairIndexes(p, g)' /\ PairMemory(p, g)'
         /\ UNCHANGED <<Start(g), Number(p, g)>>
<1>0. /\ p \in Callers /\ g \in Callers /\ p # g
      /\ SemTypes /\ PairPlaces(p, g) /\ PairIndexes(p, g) /\ PairMemory(p, g)
      /\ has_space \in Nat /\ Number(p, g) \in Nat
      /\ Filling(p) \in 0..1 /\ Emptying(g) \in 0..1
  BY PairFacts DEF SemTypes
<1>1. /\ pc[g] = "get post" /\ pc'[g] = "client" /\ pc'[p] = pc[p]
      /\ has_space' = has_space + 1
      /\ UNCHANGED <<has_items, iput, iget, buffer, pos, val>>
  BY <1>0 DEF GetPost, Goes, SemTypes
<1>2. Start(g)' = Start(g)
  BY <1>1 DEF Start
<1>3. Number(p, g)' = Number(p, g)
  BY <1>1 DEF Number, Posting, Taking
<1>4. End(p, g)' = End(p, g)
  BY <1>2, <1>3 DEF End, Wrap
<1>5. PairPlaces(p, g)'
  <2>1. /\ Emptying(g) = 1 /\ Emptying(g)' = 0
        /\ pc'[g] \in {"client", "get add", "get copy", "get copying", "get post"}
    BY <1>1 DEF Emptying
  <2>2. Number(p, g) + has_space + Filling(p) + Emptying(g) = Capacity /\ Filling(p)' = Filling(p)
    BY <1>0, <1>1 DEF PairPlaces, Filling
  <2>3. Number(p, g) + (has_space + 1) + Filling(p) + 0 = Capacity
    <3>. DEFINE n == Number(p, g)  f == Filling(p)  e == Emptying(g)
    <3>0. 0..1 \subseteq Nat
      OBVIOUS
    <3>1. n \in Nat /\ f \in Nat /\ e \in Nat /\ has_space \in Nat
      BY <1>0, <3>0, Zenon
    <3>2. n + has_space + f + 1 = Capacity
      BY <2>1, <2>2, Zenon
    <3>. HIDE DEF n, f, e
    <3>3. n + (has_space + 1) + f + 0 = Capacity
      BY <3>1, <3>2
    <3>. QED BY <3>3 DEF n, f, e
  <2>. QED BY <1>0, <1>1, <1>3, <2>1, <2>2, <2>3 DEF PairPlaces
<1>6. PairIndexes(p, g)'
  BY <1>0, <1>1, <1>4 DEF PairIndexes, Wrap
<1>7. PairMemory(p, g)'
  BY <1>0, <1>1, <1>2, <1>3 DEF PairMemory, Wrap
<1>. QED BY <1>2, <1>3, <1>5, <1>6, <1>7

LEMMA NumberGrows ==
  ASSUME NEW h \in Nat, NEW k \in Nat
  PROVE  /\ h + 1 + k = (h + 0 + k) + 1
         /\ h + k + 0 = (h + k + 1) - 1 /\ h + k + 1 >= 1
OBVIOUS

LEMMA PairRoom ==
  ASSUME SemParameters, NEW n \in Nat, NEW s \in Nat, NEW e \in 0..1, n + s + 1 + e = Capacity
  PROVE  /\ n \in 0..(Capacity - 1) /\ 0 \in 0..(Capacity - 1)
         /\ e = 1 => n + 1 \in 0..(Capacity - 1) /\ n + 1 # 0
         /\ \A i \in 1..n : i - 1 \in 0..(Capacity - 1) /\ i - 1 \in 0..Capacity /\ i - 1 # n
BY DEF SemParameters

LEMMA NoFurther ==
  ASSUME NEW i \in Slots
  PROVE  i + 0 = i
BY DEF Slots

\* The place that the putter writes is none of the items', nor the one that the
\* getter is copying.
LEMMA PutsElsewhere ==
  ASSUME SemParameters, NEW p, NEW g, OnePair(p, g), PairInv(p, g),
         pc[p] \in {"put copy", "put copying"}
  PROVE  /\ Number(p, g) \in 0..(Capacity - 1)
         /\ pos[p] = Wrap(Start(g) + Number(p, g)) /\ pos[p] \in Slots
         /\ iput = Wrap(Start(g) + (Number(p, g) + 1))
         /\ \A i \in 1..Number(p, g) :
               Wrap(Start(g) + (i - 1)) \in Slots /\ Wrap(Start(g) + (i - 1)) # pos[p]
         /\ pc[g] = "get copying" => pos[g] # pos[p]
<1>. DEFINE n == Number(p, g)
            s == Start(g)
<1>1. /\ Capacity \in Nat \ {0} /\ has_space \in Nat
      /\ n \in Nat /\ s \in Slots
      /\ Filling(p) = 1 /\ Emptying(g) \in 0..1
      /\ pos[p] = Wrap(s + n) /\ pos[p] \in Slots /\ iput = Wrap(pos[p] + 1)
      /\ n + has_space + Filling(p) + Emptying(g) = Capacity
  BY PairFacts DEF SemParameters, SemTypes, PairPlaces, PairIndexes, End, Filling
<1>2. pc[g] = "get copying" => /\ Emptying(g) = 1 /\ s = Wrap(pos[g] + 1) /\ pos[g] \in Slots
  BY PairFacts DEF SemTypes, PairIndexes, Emptying, Start
<1>. HIDE DEF n, s
<1>3. /\ n \in 0..(Capacity - 1) /\ 0 \in 0..(Capacity - 1)
      /\ Emptying(g) = 1 => n + 1 \in 0..(Capacity - 1) /\ n + 1 # 0
      /\ \A i \in 1..n : i - 1 \in 0..(Capacity - 1) /\ i - 1 \in 0..Capacity /\ i - 1 # n
  BY <1>1, PairRoom
<1>4. iput = Wrap(s + (n + 1))
  <2>1. s \in Slots /\ n \in 0..(Capacity - 1)
    BY <1>1, <1>3
  <2>2. Wrap(Wrap(s + n) + 1) = Wrap(s + (n + 1))
    BY <2>1, WrapNext
  <2>. QED BY <1>1, <2>2
<1>5. ASSUME NEW i \in 1..n
      PROVE  Wrap(s + (i - 1)) \in Slots /\ Wrap(s + (i - 1)) # pos[p]
  <2>1. i - 1 \in 0..(Capacity - 1) /\ i - 1 \in 0..Capacity /\ i - 1 # n
    BY <1>3
  <2>2. Wrap(s + (i - 1)) \in Slots
    BY <1>1, <2>1, WrapSum
  <2>3. Wrap(s + (i - 1)) # Wrap(s + n)
    BY <1>1, <1>3, <2>1, WrapDiffers
  <2>. QED BY <1>1, <2>2, <2>3
<1>6. ASSUME pc[g] = "get copying"
      PROVE  pos[g] # pos[p]
  <2>1. n + 1 \in 0..(Capacity - 1) /\ 0 \in 0..(Capacity - 1) /\ n + 1 # 0
    BY <1>2, <1>3, <1>6
  <2>2. Wrap(pos[g] + 0) = pos[g]
    <3>1. pos[g] + 0 = pos[g]
      BY <1>2, <1>6, NoFurther
    <3>. QED BY <1>2, <1>6, <3>1, WrapIsSmall
  <2>3. pos[p] = Wrap(pos[g] + (n + 1))
    BY <1>1, <1>2, <1>3, <1>6, WrapNext
  <2>. QED BY <1>2, <1>6, <2>1, <2>2, <2>3, WrapDiffers
<1>. QED BY <1>1, <1>3, <1>4, <1>5, <1>6 DEF n, s

\* The copy to a place of the ring begins.
LEMMA PairPutCopy ==
  ASSUME SemParameters, NEW p, NEW g, OnePair(p, g), PairInv(p, g), PutCopy(p)
  PROVE  /\ PairPlaces(p, g)' /\ PairIndexes(p, g)' /\ PairMemory(p, g)'
         /\ UNCHANGED <<Start(g), Number(p, g)>>
<1>0. /\ p \in Callers /\ g \in Callers /\ p # g
      /\ SemTypes /\ PairPlaces(p, g) /\ PairIndexes(p, g) /\ PairMemory(p, g)
      /\ has_space \in Nat /\ Number(p, g) \in Nat
      /\ Filling(p) \in 0..1 /\ Emptying(g) \in 0..1
  BY PairFacts DEF SemTypes
<1>1. /\ pc[p] = "put copy" /\ pc'[p] = "put copying" /\ pc'[g] = pc[g]
      /\ buffer' = [buffer EXCEPT ![pos[p]] = Torn]
      /\ UNCHANGED <<has_items, has_space, iput, iget, pos, val>>
  BY <1>0 DEF PutCopy, Goes, SemTypes
<1>2. Start(g)' = Start(g)
  BY <1>1 DEF Start
<1>3. Number(p, g)' = Number(p, g)
  BY <1>1 DEF Number, Posting, Taking
<1>4. End(p, g)' = End(p, g)
  BY <1>2, <1>3 DEF End, Wrap
<1>5. PairPlaces(p, g)'
  <2>1. Filling(p)' = Filling(p) /\ Emptying(g)' = Emptying(g)
    BY <1>1 DEF Filling, Emptying
  <2>. QED BY <1>0, <1>1, <1>3, <2>1 DEF PairPlaces
<1>6. PairIndexes(p, g)'
  BY <1>0, <1>1, <1>4 DEF PairIndexes, Wrap
<1>7. PairMemory(p, g)'
  <2>1. /\ \A i \in 1..Number(p, g) :
             Wrap(Start(g) + (i - 1)) \in Slots /\ Wrap(Start(g) + (i - 1)) # pos[p]
        /\ pc[g] = "get copying" => pos[g] # pos[p]
    <3>1. pc[p] \in {"put copy", "put copying"}
      BY <1>1
    <3>. QED BY <3>1, PutsElsewhere
  <2>2. \A k \in Slots : k # pos[p] => buffer'[k] = buffer[k]
    BY <1>0, <1>1 DEF SemTypes
  <2>3. pos[g] \in Slots
    BY <1>0 DEF SemTypes
  <2>4. \A i \in 1..Number(p, g) : buffer'[Wrap(Start(g) + (i - 1))] \in Items
    BY <1>0, <2>1, <2>2 DEF PairMemory
  <2>. QED BY <1>0, <1>1, <1>2, <1>3, <2>1, <2>2, <2>3, <2>4 DEF PairMemory, Wrap
<1>. QED BY <1>2, <1>3, <1>5, <1>6, <1>7

\* The copy ends: there is an item more.
LEMMA PairPutCopied ==
  ASSUME SemParameters, NEW p, NEW g, OnePair(p, g), PairInv(p, g),
         NEW x \in Items, PutCopied(p, x)
  PROVE  /\ PairPlaces(p, g)' /\ PairIndexes(p, g)' /\ PairMemory(p, g)'
         /\ Start(g)' = Start(g) /\ Number(p, g)' = Number(p, g) + 1 /\ val' = val
         /\ buffer' = [buffer EXCEPT ![Wrap(Start(g) + Number(p, g))] = x]
         /\ Number(p, g) \in 0..(Capacity - 1)
<1>0. /\ p \in Callers /\ g \in Callers /\ p # g
      /\ SemTypes /\ PairPlaces(p, g) /\ PairIndexes(p, g) /\ PairMemory(p, g)
      /\ has_space \in Nat /\ Number(p, g) \in Nat
      /\ Filling(p) \in 0..1 /\ Emptying(g) \in 0..1
  BY PairFacts DEF SemTypes
<1>1. /\ pc[p] = "put copying" /\ pc'[p] = "put post" /\ pc'[g] = pc[g]
      /\ buffer' = [buffer EXCEPT ![pos[p]] = x]
      /\ UNCHANGED <<has_items, has_space, iput, iget, pos, val>>
  BY <1>0 DEF PutCopied, Goes, SemTypes
<1>2. Start(g)' = Start(g)
  BY <1>1 DEF Start
<1>3. Number(p, g)' = Number(p, g) + 1
  <2>1. /\ Posting(p) = 0 /\ Posting(p)' = 1 /\ Taking(g)' = Taking(g) /\ Taking(g) \in Nat
        /\ has_items \in Nat
    BY <1>0, <1>1 DEF Posting, Taking, SemTypes
  <2>. QED BY <1>1, <2>1, NumberGrows DEF Number
<1>4. /\ Number(p, g) \in 0..(Capacity - 1)
      /\ pos[p] = Wrap(Start(g) + Number(p, g)) /\ pos[p] \in Slots
      /\ iput = Wrap(Start(g) + (Number(p, g) + 1))
      /\ \A i \in 1..Number(p, g) :
            Wrap(Start(g) + (i - 1)) \in Slots /\ Wrap(Start(g) + (i - 1)) # pos[p]
      /\ pc[g] = "get copying" => pos[g] # pos[p]
  BY <1>1, PutsElsewhere
<1>5. PairPlaces(p, g)'
  <2>1. /\ Filling(p) = 1 /\ Filling(p)' = 0
        /\ pc'[p] \in {"client", "put add", "put copy", "put copying", "put post"}
    BY <1>1 DEF Filling
  <2>2. Number(p, g) + has_space + Filling(p) + Emptying(g) = Capacity /\ Emptying(g)' = Emptying(g)
    BY <1>0, <1>1 DEF PairPlaces, Emptying
  <2>3. (Number(p, g) + 1) + has_space + 0 + Emptying(g) = Capacity
    <3>. DEFINE n == Number(p, g)  f == Filling(p)  e == Emptying(g)
    <3>0. 0..1 \subseteq Nat
      OBVIOUS
    <3>1. n \in Nat /\ f \in Nat /\ e \in Nat /\ has_space \in Nat
      BY <1>0, <3>0, Zenon
    <3>2. n + has_space + 1 + e = Capacity
      BY <2>1, <2>2, Zenon
    <3>. HIDE DEF n, f, e
    <3>3. (n + 1) + has_space + 0 + e = Capacity
      BY <3>1, <3>2
    <3>. QED BY <3>3 DEF n, f, e
  <2>. QED BY <1>0, <1>1, <1>3, <2>1, <2>2, <2>3 DEF PairPlaces
<1>6. PairIndexes(p, g)'
  <2>1. iput = End(p, g)'
    BY <1>2, <1>3, <1>4 DEF End, Wrap
  <2>. QED BY <1>0, <1>1, <2>1 DEF PairIndexes, Wrap
<1>7. PairMemory(p, g)'
  <2>1. /\ \A k \in Slots : k # pos[p] => buffer'[k] = buffer[k]
        /\ buffer'[pos[p]] = x
    BY <1>0, <1>1, <1>4 DEF SemTypes
  <2>2. ASSUME NEW i \in 1..(Number(p, g) + 1)
        PROVE  buffer'[Wrap(Start(g) + (i - 1))] \in Items
    <3>1. i \in 1..Number(p, g) \/ i - 1 = Number(p, g)
      BY <1>0
    <3>. QED BY <1>0, <1>4, <2>1, <3>1 DEF PairMemory
  <2>3. pos[g] \in Slots
    BY <1>0 DEF SemTypes
  <2>. QED BY <1>0, <1>1, <1>2, <1>3, <1>4, <2>1, <2>2, <2>3 DEF PairMemory, Wrap
<1>. QED BY <1>1, <1>2, <1>3, <1>4, <1>5, <1>6, <1>7

LEMMA PairTail ==
  ASSUME SemParameters, NEW n \in 1..Capacity, NEW i \in 1..(n - 1)
  PROVE  /\ i - 1 \in 0..(Capacity - 1) /\ (i - 1) + 1 = (i + 1) - 1
         /\ i + 1 \in 1..n
BY DEF SemParameters

\* The getter begins to copy the first item out: there is an item less.
LEMMA PairGetCopy ==
  ASSUME SemParameters, NEW p, NEW g, OnePair(p, g), PairInv(p, g), GetCopy(g)
  PROVE  /\ PairPlaces(p, g)' /\ PairIndexes(p, g)' /\ PairMemory(p, g)'
         /\ Start(g)' = Wrap(Start(g) + 1) /\ Number(p, g)' = Number(p, g) - 1
         /\ buffer' = buffer /\ val' = [val EXCEPT ![g] = buffer[Start(g)]]
         /\ Number(p, g) \in 1..Capacity
<1>0. /\ p \in Callers /\ g \in Callers /\ p # g
      /\ SemTypes /\ PairPlaces(p, g) /\ PairIndexes(p, g) /\ PairMemory(p, g)
      /\ has_space \in Nat /\ Number(p, g) \in Nat
      /\ Filling(p) \in 0..1 /\ Emptying(g) \in 0..1
  BY PairFacts DEF SemTypes
<1>1. /\ pc[g] = "get copy" /\ pc'[g] = "get copying" /\ pc'[p] = pc[p]
      /\ val' = [val EXCEPT ![g] = buffer[pos[g]]] /\ val'[g] = buffer[pos[g]]
      /\ UNCHANGED <<has_items, has_space, iput, iget, buffer, pos>>
  BY <1>0 DEF GetCopy, Goes, SemTypes
<1>2. Start(g) = pos[g] /\ Start(g)' = Wrap(Start(g) + 1) /\ Start(g) \in Slots
  BY <1>0, <1>1 DEF Start, PairIndexes, SemTypes, Wrap
<1>3. Number(p, g)' = Number(p, g) - 1 /\ Number(p, g) >= 1
  <2>1. /\ Taking(g) = 1 /\ Taking(g)' = 0 /\ Posting(p)' = Posting(p) /\ Posting(p) \in Nat
        /\ has_items \in Nat
    BY <1>0, <1>1 DEF Posting, Taking, SemTypes
  <2>. DEFINE k == Posting(p)
  <2>2. k \in Nat /\ has_items \in Nat
    BY <2>1
  <2>3. Number(p, g) = has_items + k + 1 /\ Number(p, g)' = has_items + k + 0
    BY <1>1, <2>1 DEF Number
  <2>. HIDE DEF k
  <2>. QED BY <2>2, <2>3
<1>4. /\ Number(p, g) \in 1..Capacity /\ Number(p, g) - 1 \in 0..(Capacity - 1)
      /\ (Number(p, g) - 1) + 1 = Number(p, g) /\ Number(p, g) \in 0..Capacity
  <2>1. Number(p, g) \in 0..Capacity /\ Capacity \in Nat
    BY PairFacts DEF SemParameters
  <2>. QED BY <1>3, <2>1
<1>5. PairPlaces(p, g)'
  <2>1. /\ Emptying(g) = 0 /\ Emptying(g)' = 1
        /\ pc'[g] \in {"client", "get add", "get copy", "get copying", "get post"}
    BY <1>1 DEF Emptying
  <2>2. Number(p, g) + has_space + Filling(p) + Emptying(g) = Capacity /\ Filling(p)' = Filling(p)
    BY <1>0, <1>1 DEF PairPlaces, Filling
  <2>3. (Number(p, g) - 1) + has_space + Filling(p) + 1 = Capacity
    <3>. DEFINE n == Number(p, g)  f == Filling(p)  e == Emptying(g)
    <3>0. 0..1 \subseteq Nat
      OBVIOUS
    <3>1. n \in Nat /\ f \in Nat /\ e \in Nat /\ has_space \in Nat
      BY <1>0, <3>0, Zenon
    <3>2. n + has_space + f + 0 = Capacity
      BY <2>1, <2>2, Zenon
    <3>. HIDE DEF n, f, e
    <3>3. (n - 1) + has_space + f + 1 = Capacity
      BY <3>1, <3>2
    <3>. QED BY <3>3 DEF n, f, e
  <2>. QED BY <1>0, <1>1, <1>3, <2>1, <2>2, <2>3 DEF PairPlaces
<1>6. PairIndexes(p, g)'
  <2>1. Wrap(Wrap(Start(g) + 1) + (Number(p, g) - 1)) = Wrap(Start(g) + Number(p, g))
    BY <1>2, <1>4, WrapNext
  <2>2. End(p, g)' = End(p, g)
    BY <1>2, <1>3, <2>1 DEF End, Wrap
  <2>. QED BY <1>0, <1>1, <2>2 DEF PairIndexes, Wrap
<1>7. PairMemory(p, g)'
  <2>1. ASSUME NEW i \in 1..(Number(p, g) - 1)
        PROVE  buffer[Wrap(Wrap(Start(g) + 1) + (i - 1))] \in Items
    <3>1. /\ i - 1 \in 0..(Capacity - 1) /\ (i - 1) + 1 = (i + 1) - 1
          /\ i + 1 \in 1..Number(p, g)
      BY <1>4, PairTail
    <3>2. Wrap(Wrap(Start(g) + 1) + (i - 1)) = Wrap(Start(g) + ((i + 1) - 1))
      BY <1>2, <3>1, WrapNext
    <3>. QED BY <1>0, <3>1, <3>2 DEF PairMemory
  <2>2. buffer[pos[g]] \in Items
    <3>1. 1 \in 1..Number(p, g) /\ Start(g) + (1 - 1) = Start(g)
      BY <1>2, <1>4 DEF Slots
    <3>2. Wrap(Start(g)) = Start(g)
      BY <1>2, WrapIsSmall
    <3>. QED BY <1>0, <1>2, <3>1, <3>2 DEF PairMemory
  <2>. QED BY <1>1, <1>2, <1>3, <2>1, <2>2 DEF PairMemory, Wrap
<1>. QED BY <1>1, <1>2, <1>3, <1>4, <1>5, <1>6, <1>7

LEMMA PairNext ==
  ASSUME SemParameters, NEW p, NEW g, OnePair(p, g), PairInv(p, g), [Next]_vars
  PROVE  PairInv(p, g)'
<1>1. SemInv'
  BY SemInvNext DEF PairInv
<1>2. PairPlaces(p, g)' /\ PairIndexes(p, g)' /\ PairMemory(p, g)'
  <2>1. CASE UNCHANGED vars
    BY <2>1 DEF vars, PairInv, PairPlaces, PairIndexes, PairMemory, Number, Start, End, Wrap,
         Posting, Taking, Filling, Emptying
  <2>2. CASE PutStep(p)
    BY <2>2, PairPutWait, PairPutAdd, PairPutCopy, PairPutCopied, PairPutPost DEF PutStep
  <2>3. CASE GetStep(g)
    BY <2>3, PairGetWait, PairGetAdd, PairGetCopy, PairGetCopied, PairGetPost DEF GetStep
  <2>. QED BY <2>1, <2>2, <2>3 DEF Next, OnePair
<1>. QED BY <1>1, <1>2 DEF PairInv

\* A get returns an item that was put, in one piece, when one thread puts and one
\* gets, as a client and a server do: the copy out of a place and the copy into it
\* never overlap, without a lock.
THEOREM OneGetsItems ==
  ASSUME SemParameters, \E p, g : OnePair(p, g)
  PROVE  Spec => []GetsItems
<1>. PICK p, g : OnePair(p, g)
  OBVIOUS
<1>1. Init => PairInv(p, g)
  BY PairInit
<1>2. PairInv(p, g) /\ [Next]_vars => PairInv(p, g)'
  BY PairNext
<1>3. PairInv(p, g) => GetsItems
  BY DEF OnePair, PairInv, PairMemory, GetsItems
<1>. QED BY <1>1, <1>2, <1>3, PTL DEF Spec

-----------------------------------------------------------------------------
(***************************************************************************)
(* And so the two of them share a bounded channel.                         *)
(***************************************************************************)

Elements == Items \cup {NoItem, Torn}
Memory == [Slots -> Elements]

LEMMA FunctionIsSeq ==
  ASSUME NEW S, NEW n \in Nat, NEW f \in [1..n -> S]
  PROVE  f \in Seq(S) /\ Len(f) = n
<1>1. f \in Seq(S)
  BY SeqDef
<1>2. Len(f) \in Nat /\ DOMAIN f = 1..Len(f)
  BY <1>1, LenProperties
<1>. QED BY <1>1, <1>2

LEMMA RingSeq ==
  ASSUME SemParameters, NEW b \in Memory, NEW s \in Slots, NEW n \in 0..Capacity
  PROVE  /\ Ring(b, s, n) \in Seq(Elements)
         /\ Len(Ring(b, s, n)) = n
         /\ \A i \in 1..n : Ring(b, s, n)[i] = b[Wrap(s + (i - 1))]
<1>1. n \in Nat /\ \A i \in 1..n : i - 1 \in 0..Capacity /\ s + i - 1 = s + (i - 1)
  BY DEF SemParameters, Slots
<1>2. Ring(b, s, n) = [i \in 1..n |-> b[Wrap(s + (i - 1))]]
  BY <1>1 DEF Ring, Wrap
<1>3. \A i \in 1..n : Wrap(s + (i - 1)) \in Slots
  BY <1>1, WrapSum
<1>4. Ring(b, s, n) \in [1..n -> Elements]
  BY <1>2, <1>3 DEF Memory
<1>. QED BY <1>1, <1>2, <1>4, FunctionIsSeq

\* One more item at the end, where none of the others is.
LEMMA RingAppend ==
  ASSUME SemParameters, NEW b \in Memory, NEW s \in Slots,
         NEW n \in 0..(Capacity - 1), NEW x \in Elements
  PROVE  Ring([b EXCEPT ![Wrap(s + n)] = x], s, n + 1) = Append(Ring(b, s, n), x)
<1>. DEFINE c == [b EXCEPT ![Wrap(s + n)] = x]
            q == Ring(b, s, n)
            r == Ring(c, s, n + 1)
<1>1. /\ n \in 0..Capacity /\ n + 1 \in 0..Capacity /\ n \in Nat /\ (n + 1) - 1 = n
      /\ \A i \in 1..n : i - 1 \in 0..(Capacity - 1) /\ i - 1 \in 0..Capacity /\ i - 1 # n
      /\ \A i \in 1..(n + 1) : i \in 1..n \/ i = n + 1
      /\ n + 1 \in 1..(n + 1) /\ \A i \in 1..n : i \in 1..(n + 1)
  BY DEF SemParameters
<1>2. Wrap(s + n) \in Slots
  BY <1>1, WrapSum
<1>3. c \in Memory /\ c[Wrap(s + n)] = x
  BY <1>2 DEF Memory
<1>4. ASSUME NEW i \in 1..n PROVE c[Wrap(s + (i - 1))] = b[Wrap(s + (i - 1))]
  <2>1. i - 1 \in 0..(Capacity - 1) /\ i - 1 \in 0..Capacity /\ i - 1 # n
    BY <1>1
  <2>2. Wrap(s + (i - 1)) \in Slots
    BY <2>1, WrapSum
  <2>3. Wrap(s + (i - 1)) # Wrap(s + n)
    BY <2>1, WrapDiffers
  <2>. QED BY <1>2, <2>2, <2>3 DEF Memory
<1>5. q \in Seq(Elements) /\ Len(q) = n /\ \A i \in 1..n : q[i] = b[Wrap(s + (i - 1))]
  BY <1>1, RingSeq
<1>. HIDE DEF c
<1>6. /\ r \in Seq(Elements) /\ Len(r) = n + 1
      /\ \A i \in 1..(n + 1) : r[i] = c[Wrap(s + (i - 1))]
  BY <1>1, <1>3, RingSeq
<1>. HIDE DEF q, r
<1>7. /\ Append(q, x) \in Seq(Elements) /\ Len(Append(q, x)) = n + 1
      /\ \A i \in 1..n : Append(q, x)[i] = q[i]
      /\ Append(q, x)[n + 1] = x
  BY <1>5, AppendProperties
<1>8. \A i \in 1..(n + 1) : r[i] = Append(q, x)[i]
  <2>1. ASSUME NEW i \in 1..n PROVE r[i] = Append(q, x)[i]
    BY <1>1, <1>4, <1>5, <1>6, <1>7
  <2>2. r[n + 1] = Append(q, x)[n + 1]
    BY <1>1, <1>3, <1>6, <1>7
  <2>. QED BY <1>1, <2>1, <2>2
<1>9. r = Append(q, x)
  BY <1>6, <1>7, <1>8, SeqEqual
<1>. QED BY <1>9 DEF c, q, r

\* Without the first item.
LEMMA RingTail ==
  ASSUME SemParameters, NEW b \in Memory, NEW s \in Slots, NEW n \in 1..Capacity
  PROVE  /\ Ring(b, s, n) # <<>>
         /\ Head(Ring(b, s, n)) = b[s]
         /\ Tail(Ring(b, s, n)) = Ring(b, Wrap(s + 1), n - 1)
<1>. DEFINE q == Ring(b, s, n)
            r == Ring(b, Wrap(s + 1), n - 1)
<1>1. /\ n \in 0..Capacity /\ n - 1 \in 0..Capacity /\ 1 \in 1..n /\ 1 \in 0..Capacity
      /\ s + (1 - 1) = s
      /\ \A i \in 1..(n - 1) : /\ i - 1 \in 0..(Capacity - 1) /\ (i - 1) + 1 = (i + 1) - 1
                               /\ i + 1 \in 1..n
  BY DEF SemParameters, Slots
<1>2. Wrap(s + 1) \in Slots /\ Wrap(s) = s
  BY <1>1, WrapSum, WrapIsSmall
<1>3. q \in Seq(Elements) /\ Len(q) = n /\ \A i \in 1..n : q[i] = b[Wrap(s + (i - 1))]
  BY <1>1, RingSeq
<1>4. /\ r \in Seq(Elements) /\ Len(r) = n - 1
      /\ \A i \in 1..(n - 1) : r[i] = b[Wrap(Wrap(s + 1) + (i - 1))]
  BY <1>1, <1>2, RingSeq
<1>5. q[1] = b[s]
  BY <1>1, <1>2, <1>3
<1>6. ASSUME NEW i \in 1..(n - 1) PROVE r[i] = q[i + 1]
  <2>1. Wrap(Wrap(s + 1) + (i - 1)) = Wrap(s + ((i + 1) - 1))
    BY <1>1, WrapNext
  <2>. QED BY <1>1, <1>3, <1>4, <2>1
<1>. HIDE DEF q, r
<1>7. q # <<>>
  BY <1>1, <1>3, EmptySeq
<1>8. /\ Tail(q) \in Seq(Elements) /\ Len(Tail(q)) = n - 1
      /\ \A i \in 1..(n - 1) : Tail(q)[i] = q[i + 1]
  BY <1>3, <1>7, HeadTailProperties
<1>9. Tail(q) = r
  BY <1>4, <1>6, <1>8, SeqEqual
<1>10. Head(q) = q[1]
  BY <1>3, <1>7
<1>. QED BY <1>5, <1>7, <1>9, <1>10 DEF q, r

\* The place before the next one is the place itself.
LEMMA RingFromBefore ==
  ASSUME SemParameters, NEW b, NEW s \in Slots, NEW n \in 0..Capacity
  PROVE  Ring(b, Wrap(s + 1) - 1, n) = Ring(b, s, n)
<1>1. ASSUME NEW i \in 1..n
      PROVE  Wrap((Wrap(s + 1) - 1) + i - 1) = Wrap(s + i - 1)
  <2>0. Capacity \in Nat \ {0} /\ s \in 0..(Capacity - 1) /\ i \in 1..Capacity /\ 1 \in 0..Capacity
    BY DEF SemParameters, Slots
  <2>1. CASE s + 1 < Capacity
    <3>1. Wrap(s + 1) - 1 = s
      BY <2>0, <2>1, WrapSum
    <3>. QED BY <3>1
  <2>2. CASE s + 1 >= Capacity
    <3>1. Wrap(s + 1) = 0 /\ s = Capacity - 1
      BY <2>0, <2>2, WrapSum
    <3>2. CASE i = 1
      <4>1. (Wrap(s + 1) - 1) + i - 1 = 0 - 1 /\ s + i - 1 = s
        BY <2>0, <3>1, <3>2
      <4>2. Wrap(s) = s
        BY WrapIsSmall
      <4>. QED BY <3>1, <4>1, <4>2, WrapBefore
    <3>3. CASE i # 1
      <4>1. (Wrap(s + 1) - 1) + i - 1 = i - 2 /\ i - 2 \in Slots
        BY <2>0, <3>1, <3>3 DEF Slots
      <4>2. /\ s + i - 1 \in Capacity..(Capacity + Capacity - 1)
            /\ (s + i - 1) - Capacity = i - 2
        BY <2>0, <3>1, <3>3
      <4>3. Wrap(i - 2) = i - 2
        BY <4>1, WrapIsSmall
      <4>4. \A k \in Capacity..(Capacity + Capacity - 1) : Wrap(k) = k - Capacity
        BY WrapIsBig
      <4>. QED BY <4>1, <4>2, <4>3, <4>4
    <3>. QED BY <3>2, <3>3
  <2>. QED BY <2>0, <2>1, <2>2
<1>. QED BY <1>1 DEF Ring, Wrap

LEMMA NoFewer ==
  ASSUME NEW i \in Slots
  PROVE  i - 0 = i
BY DEF Slots

LEMMA SumsAgree ==
  ASSUME NEW h \in Nat, NEW a \in Nat, NEW b \in Nat
  PROVE  h + (a + b) = h + a + b
OBVIOUS

\* With one pair the items that Contents lists are those of the invariant.
LEMMA PairContents ==
  ASSUME SemParameters, NEW p, NEW g, OnePair(p, g), PairInv(p, g)
  PROVE  /\ Contents = Ring(buffer, Start(g), Number(p, g))
         /\ buffer \in Memory /\ Start(g) \in Slots /\ Number(p, g) \in 0..Capacity
<1>0. /\ p \in Callers /\ g \in Callers /\ p # g /\ Callers = {p, g}
      /\ SemTypes /\ PairPlaces(p, g) /\ PairIndexes(p, g)
      /\ Number(p, g) \in 0..Capacity /\ Start(g) \in Slots
  BY PairFacts DEF OnePair, Callers
<1>1. buffer \in Memory /\ has_items \in Nat /\ iget \in Slots
  BY <1>0 DEF SemTypes, Memory, Elements
<1>2. /\ Cardinality({}) = 0 /\ Cardinality({p}) = 1 /\ Cardinality({g}) = 1
      /\ Cardinality({p, g}) = 2
  <2>1. Cardinality({p} \cup {g}) = Cardinality({p}) + 1
    BY <1>0, FS_Singleton, FS_AddElement
  <2>2. {p} \cup {g} = {p, g}
    OBVIOUS
  <2>3. Cardinality({p}) = 1 /\ Cardinality({g}) = 1 /\ Cardinality({}) = 0
    BY FS_EmptySet, FS_Singleton
  <2>. QED BY <2>1, <2>2, <2>3
<1>3. Cardinality(At({"put post", "get add", "get copy"})) = Posting(p) + Taking(g)
  <2>. DEFINE S == At({"put post", "get add", "get copy"})
  <2>1. p \in S <=> pc[p] = "put post"
    BY <1>0 DEF At, PairPlaces
  <2>2. g \in S <=> pc[g] \in {"get add", "get copy"}
    BY <1>0 DEF At, PairPlaces
  <2>3. S \subseteq {p, g}
    BY <1>0 DEF At
  <2>4. /\ Posting(p) = IF p \in S THEN 1 ELSE 0
        /\ Taking(g) = IF g \in S THEN 1 ELSE 0
    BY <2>1, <2>2 DEF Posting, Taking
  <2>. HIDE DEF S
  <2>5. S = IF p \in S THEN (IF g \in S THEN {p, g} ELSE {p})
                       ELSE (IF g \in S THEN {g} ELSE {})
    BY <2>3
  <2>6. Cardinality(S) = IF p \in S THEN (IF g \in S THEN 2 ELSE 1)
                                    ELSE (IF g \in S THEN 1 ELSE 0)
    BY <1>2, <2>5
  <2>7. Cardinality(S) = Posting(p) + Taking(g)
    BY <2>4, <2>6
  <2>. QED BY <2>7 DEF S
<1>4. Full = Number(p, g)
  <2>1. Posting(p) \in Nat /\ Taking(g) \in Nat
    BY DEF Posting, Taking
  <2>2. Full = has_items + (Posting(p) + Taking(g))
    BY <1>3 DEF Full
  <2>. QED BY <1>1, <2>1, <2>2, SumsAgree DEF Number
<1>5. CASE pc[g] = "get copy"
  <2>1. At({"get copy"}) = {g}
    BY <1>0, <1>5 DEF At, PairPlaces
  <2>2. Start(g) = pos[g] /\ iget = Wrap(Start(g) + 1)
    BY <1>0, <1>5 DEF Start, PairIndexes
  <2>3. First = Wrap(Start(g) + 1) - 1
    BY <1>2, <2>1, <2>2 DEF First
  <2>4. Ring(buffer, Wrap(Start(g) + 1) - 1, Number(p, g)) = Ring(buffer, Start(g), Number(p, g))
    BY <1>0, RingFromBefore
  <2>. QED BY <1>0, <1>1, <1>4, <2>3, <2>4 DEF Contents
<1>6. CASE pc[g] # "get copy"
  <2>1. At({"get copy"}) = {}
    BY <1>0, <1>6 DEF At, PairPlaces
  <2>2. iget - 0 = iget
    BY <1>1, NoFewer
  <2>3. First = Start(g)
    BY <1>2, <1>6, <2>1, <2>2 DEF First, Start
  <2>. QED BY <1>0, <1>1, <1>4, <2>3 DEF Contents
<1>. QED BY <1>5, <1>6

LEMMA PutStepRefines ==
  ASSUME SemParameters, NEW p, NEW g, OnePair(p, g), PairInv(p, g),
         Contents' = Ring(buffer', Start(g)', Number(p, g)'), PutStep(p)
  PROVE  (\E x \in Items : Abstract!Put(x)) \/ UNCHANGED <<Contents, val>>
<1>0. /\ Contents = Ring(buffer, Start(g), Number(p, g))
      /\ buffer \in Memory /\ Start(g) \in Slots /\ Number(p, g) \in 0..Capacity
      /\ p \in Callers /\ g \in Callers /\ p # g /\ SemTypes
  BY PairContents, PairFacts
<1>1. CASE PutWait(p) \/ PutAdd(p) \/ PutPost(p)
  <2>1. UNCHANGED <<Start(g), Number(p, g)>>
    BY <1>1, PairPutWait, PairPutAdd, PairPutPost
  <2>2. UNCHANGED <<buffer, val>>
    BY <1>1 DEF PutWait, PutAdd, PutPost
  <2>. QED BY <1>0, <2>1, <2>2
<1>2. CASE PutCopy(p)
  <2>1. UNCHANGED <<Start(g), Number(p, g)>>
    BY <1>2, PairPutCopy
  <2>2. buffer' = [buffer EXCEPT ![pos[p]] = Torn] /\ UNCHANGED val /\ pc[p] = "put copy"
    BY <1>2 DEF PutCopy, Goes
  <2>3. \A i \in 1..Number(p, g) :
          Wrap(Start(g) + (i - 1)) \in Slots /\ Wrap(Start(g) + (i - 1)) # pos[p]
    BY <2>2, PutsElsewhere
  <2>4. \A i \in 1..Number(p, g) :
          buffer'[Wrap(Start(g) + (i - 1))] = buffer[Wrap(Start(g) + (i - 1))]
    BY <1>0, <2>2, <2>3 DEF Memory
  <2>5. \A i \in 1..Number(p, g) : Start(g) + i - 1 = Start(g) + (i - 1)
    BY <1>0 DEF Slots
  <2>6. Ring(buffer', Start(g), Number(p, g)) = Ring(buffer, Start(g), Number(p, g))
    BY <2>4, <2>5 DEF Ring, Wrap
  <2>. QED BY <1>0, <2>1, <2>2, <2>6
<1>3. ASSUME NEW x \in Items, PutCopied(p, x)
      PROVE  Abstract!Put(x)
  <2>1. /\ Start(g)' = Start(g) /\ Number(p, g)' = Number(p, g) + 1 /\ val' = val
        /\ buffer' = [buffer EXCEPT ![Wrap(Start(g) + Number(p, g))] = x]
        /\ Number(p, g) \in 0..(Capacity - 1)
    BY <1>3, PairPutCopied
  <2>2. x \in Elements
    BY DEF Elements
  <2>3. Contents' = Append(Contents, x)
    BY <1>0, <2>1, <2>2, RingAppend
  <2>4. Len(Contents) = Number(p, g)
    BY <1>0, RingSeq
  <2>5. Len(Contents) < Capacity
    BY <2>1, <2>4 DEF SemParameters
  <2>. QED BY <2>1, <2>3, <2>5 DEF Abstract!Put
<1>. QED BY <1>1, <1>2, <1>3 DEF PutStep

LEMMA GetStepRefines ==
  ASSUME SemParameters, NEW p, NEW g, OnePair(p, g), PairInv(p, g),
         Contents' = Ring(buffer', Start(g)', Number(p, g)'), GetStep(g)
  PROVE  Abstract!Get(g) \/ UNCHANGED <<Contents, val>>
<1>0. /\ Contents = Ring(buffer, Start(g), Number(p, g))
      /\ buffer \in Memory /\ Start(g) \in Slots /\ Number(p, g) \in 0..Capacity
  BY PairContents
<1>1. CASE GetWait(g) \/ GetAdd(g) \/ GetPost(g)
  <2>1. UNCHANGED <<Start(g), Number(p, g)>>
    BY <1>1, PairGetWait, PairGetAdd, PairGetPost
  <2>2. UNCHANGED <<buffer, val>>
    BY <1>1 DEF GetWait, GetAdd, GetPost
  <2>. QED BY <1>0, <2>1, <2>2
<1>2. CASE GetCopied(g)
  <2>1. UNCHANGED <<Start(g), Number(p, g), val>>
    BY <1>2, PairGetCopied
  <2>2. UNCHANGED buffer
    BY <1>2 DEF GetCopied
  <2>. QED BY <1>0, <2>1, <2>2
<1>3. CASE GetCopy(g)
  <2>1. /\ Start(g)' = Wrap(Start(g) + 1) /\ Number(p, g)' = Number(p, g) - 1
        /\ buffer' = buffer /\ val' = [val EXCEPT ![g] = buffer[Start(g)]]
        /\ Number(p, g) \in 1..Capacity
    BY <1>3, PairGetCopy
  <2>2. /\ Contents # <<>> /\ Head(Contents) = buffer[Start(g)]
        /\ Contents' = Tail(Contents)
    BY <1>0, <2>1, RingTail
  <2>. QED BY <2>1, <2>2 DEF Abstract!Get
<1>. QED BY <1>1, <1>2, <1>3 DEF GetStep

\* One thread that puts and one that gets exchange the items through the buffer in
\* the order in which they were put, each once and never more than the capacity,
\* whatever the capacity, with no lock.
THEOREM OneImplementsChannel ==
  ASSUME SemParameters, \E p, g : OnePair(p, g)
  PROVE  Spec => ImplementsChannel
<1>. PICK p, g : OnePair(p, g)
  OBVIOUS
<1>1. Init => PairInv(p, g)
  BY PairInit
<1>2. PairInv(p, g) /\ [Next]_vars => PairInv(p, g)'
  BY PairNext
<1>3. PairInv(p, g) => Contents = Ring(buffer, Start(g), Number(p, g))
  BY PairContents
<1>4. Init => Abstract!ChannelInit
  <2>. SUFFICES ASSUME Init PROVE Abstract!ChannelInit
    OBVIOUS
  <2>1. PairInv(p, g)
    BY <1>1
  <2>2. p \in Callers /\ g \in Callers
    BY <2>1, PairFacts
  <2>3. Number(p, g) = 0
    BY <2>2 DEF Init, Number, Posting, Taking
  <2>4. Len(Contents) = 0 /\ Contents \in Seq(Elements)
    BY <2>1, <2>3, PairContents, RingSeq
  <2>5. Contents = <<>>
    BY <2>4, EmptySeq
  <2>. QED BY <2>5 DEF Init, Abstract!ChannelInit
<1>5. PairInv(p, g) /\ (Contents = Ring(buffer, Start(g), Number(p, g)))' /\ [Next]_vars
        => [Abstract!ChannelNext]_<<Contents, val>>
  <2>. SUFFICES ASSUME PairInv(p, g), [Next]_vars,
                       Contents' = Ring(buffer', Start(g)', Number(p, g)')
                PROVE  Abstract!ChannelNext \/ UNCHANGED <<Contents, val>>
    BY DEF Ring
  <2>1. CASE UNCHANGED vars
    BY <2>1 DEF vars, Contents, Ring, First, Full, At
  <2>2. CASE PutStep(p)
    BY <2>2, PutStepRefines DEF Abstract!ChannelNext
  <2>3. CASE GetStep(g)
    <3>1. g \in Callers
      BY PairFacts
    <3>. QED BY <2>3, <3>1, GetStepRefines DEF Abstract!ChannelNext
  <2>. QED BY <2>1, <2>2, <2>3 DEF Next, OnePair
<1>. QED BY <1>1, <1>2, <1>3, <1>4, <1>5, PTL
     DEF Spec, ImplementsChannel, Abstract!ChannelSpec

=====
