-------------------------- MODULE MemChannelProofs --------------------------
(***************************************************************************)
(* The ring buffer's indexes and its size agree, and it implements the     *)
(* bounded channel, for any number of threads, any items and any capacity. *)
(***************************************************************************)
EXTENDS MCChannels, SequenceTheorems, FiniteSetTheorems, TLAPS

-----------------------------------------------------------------------------
(***************************************************************************)
(* The inductive invariant.  Between the copy of an element and the update *)
(* of the indexes a thread relies on nobody else having changed them, and  *)
(* on the condition of its while loop to hold still.                       *)
(***************************************************************************)

Putting(u) ==
  pc[u] = "put advance" => owner["lock"] = u /\ size # Capacity /\ buf[iput] \in Items

Getting(u) ==
  pc[u] = "get advance" => owner["lock"] = u /\ size # 0

Critical == \A u \in Users : Putting(u) /\ Getting(u)


Inv == ChannelSound /\ Critical

-----------------------------------------------------------------------------

LEMMA InvInit == Init => Inv
<1>. USE MemChannelAssumption
<1>. SUFFICES ASSUME Init PROVE Inv
  OBVIOUS
<1>1. TypeOK
  BY DEF Init, PThreadsInit, TypeOK, Slots
<1>2. RingSound /\ Critical
  BY DEF Init, RingSound, Wrap, Critical, Putting, Getting
<1>. QED BY <1>1, <1>2 DEF Inv, ChannelSound

\* Moving an index forward stays inside the buffer.
LEMMA WrapNext ==
  ASSUME NEW i \in Slots, NEW n \in 0..(Capacity - 1)
  PROVE  /\ NextIndex(i) \in Slots
         /\ Wrap(i + n + 1) = NextIndex(Wrap(i + n))
         /\ Wrap(NextIndex(i) + n) = Wrap(i + n + 1)
         /\ Wrap(i + n) \in Slots
BY MemChannelAssumption DEF Slots, NextIndex, Wrap

\* Entering, waiting and signalling: the ring is left alone, and no thread is
\* between a copy and its update that was not there before.
LEMMA FrameNext ==
  ASSUME Inv, UNCHANGED <<ring, val>>,
         owner' \in [{"lock"} -> Users \cup {NoOwner}],
         waiting' \in [{"hasItems", "hasSpace"} -> SUBSET Users],
         pc' \in [Users -> {"client", "put", "put advance", "signal items",
                            "get", "get advance", "signal space"}],
         \A u \in Users : pc'[u] \in {"put advance", "get advance"} =>
                            pc'[u] = pc[u] /\ owner'["lock"] = owner["lock"]
  PROVE  Inv'
BY DEF Inv, ChannelSound, TypeOK, RingSound, Wrap, ring, Slots, Critical, Putting, Getting

\* A signal, and a wakeup without one, concern the waiting threads alone.
LEMMA WakeupTypes ==
  ASSUME TypeOK, NEW c \in Conds, CondSignal(c) \/ SpuriousWakeup(c)
  PROVE  /\ waiting' \in [{"hasItems", "hasSpace"} -> SUBSET Users]
         /\ UNCHANGED owner
<1>1. c \in {"hasItems", "hasSpace"}
  BY MemChannelAssumption
<1>2. waiting \in [{"hasItems", "hasSpace"} -> SUBSET Users]
  BY DEF TypeOK
<1>3. CASE UNCHANGED <<waiting, owner>>
  BY <1>2, <1>3
<1>4. ASSUME NEW t \in waiting[c], waiting' = [waiting EXCEPT ![c] = @ \ {t}]
      PROVE  waiting' \in [{"hasItems", "hasSpace"} -> SUBSET Users]
  <2>1. waiting[c] \ {t} \in SUBSET Users
    BY <1>1, <1>2
  <2>. QED BY <1>2, <1>4, <2>1
<1>. QED BY <1>3, <1>4 DEF CondSignal, SpuriousWakeup

\* The arithmetic of the indexes.
LEMMA Sizes ==
  ASSUME NEW i \in Slots, NEW n \in 0..Capacity
  PROVE  /\ n # Capacity => n \in 0..(Capacity - 1) /\ n + 1 \in 0..Capacity
         /\ n # 0 => n - 1 \in 0..(Capacity - 1) /\ n - 1 \in 0..Capacity /\ n \in 1..Capacity
         /\ i \in 0..Capacity /\ i + 0 = i /\ n - 0 = n
         /\ n \in 0..(Capacity - 1) => n + 1 \in 0..Capacity
         /\ n + 1 - 0 = n + 1 /\ n - 1 - 0 = n - 1
         /\ i + n + 1 = i + (n + 1)
         /\ i + (n - 1) + 1 = i + n
BY MemChannelAssumption DEF Slots

LEMMA InvStep ==
  ASSUME Inv, NEW u \in Users, Step(u)
  PROVE  Inv'
<1>. USE MemChannelAssumption
<1>0. TypeOK /\ RingSound /\ Critical
  BY DEF Inv, ChannelSound
<1>1. ASSUME NEW op \in {"put", "get"}, Enter(u, op) PROVE Inv'
  BY <1>0, <1>1, FrameNext DEF Enter, Goes, Lock, TypeOK, Critical, Putting, Getting
<1>2. CASE Relock(u)
  BY <1>0, <1>2, FrameNext DEF Relock, Lock, TypeOK, Critical, Putting, Getting
<1>3. CASE PutWait(u) \/ GetWait(u)
  <2>1. PICK c \in {"hasItems", "hasSpace"} :
          waiting' = [waiting EXCEPT ![c] = @ \cup {u}]
    BY <1>3 DEF PutWait, GetWait, CondWait
  <2>2. waiting' \in [{"hasItems", "hasSpace"} -> SUBSET Users]
    <3>1. waiting[c] \cup {u} \in SUBSET Users
      BY <1>0 DEF TypeOK
    <3>. QED BY <1>0, <2>1, <3>1 DEF TypeOK
  <2>3. /\ owner["lock"] = u /\ pc[u] \in {"put", "get"}
        /\ owner' = [owner EXCEPT !["lock"] = NoOwner]
        /\ UNCHANGED <<ring, pc, val>>
    BY <1>3 DEF PutWait, GetWait, CondWait
  <2>4. \A v \in Users : pc[v] \notin {"put advance", "get advance"}
    BY <1>0, <2>3 DEF Critical, Putting, Getting
  <2>5. owner' \in [{"lock"} -> Users \cup {NoOwner}]
    BY <1>0, <2>3 DEF TypeOK
  <2>. QED BY <1>0, <2>2, <2>3, <2>4, <2>5, FrameNext DEF TypeOK
<1>4. ASSUME NEW x \in Items, PutCopy(u, x) PROVE Inv'
  <2>1. \A v \in Users : v # u => pc[v] \notin {"put advance", "get advance"}
    BY <1>0, <1>4 DEF PutCopy, Critical, Putting, Getting
  <2>2. TypeOK' /\ RingSound'
    BY <1>0, <1>4 DEF PutCopy, Goes, TypeOK, RingSound, Wrap
  <2>3. Critical'
    BY <1>0, <1>4, <2>1 DEF PutCopy, Goes, TypeOK, Critical, Putting, Getting
  <2>. QED BY <2>2, <2>3 DEF Inv, ChannelSound
<1>5. CASE GetCopy(u)
  <2>1. \A v \in Users : v # u => pc[v] \notin {"put advance", "get advance"}
    BY <1>0, <1>5 DEF GetCopy, Critical, Putting, Getting
  <2>2. TypeOK' /\ RingSound'
    BY <1>0, <1>5 DEF GetCopy, Goes, TypeOK, RingSound, Wrap, ring
  <2>3. Critical'
    BY <1>0, <1>5, <2>1 DEF GetCopy, Goes, TypeOK, Critical, Putting, Getting, ring
  <2>. QED BY <2>2, <2>3 DEF Inv, ChannelSound
<1>6. CASE PutAdvance(u)
  <2>1. size \in 0..(Capacity - 1) /\ size + 1 \in 0..Capacity /\ owner["lock"] = u
    <3>1. size # Capacity /\ owner["lock"] = u
      BY <1>0, <1>6 DEF PutAdvance, Goes, Critical, Putting
    <3>. QED BY <1>0, <3>1, Sizes DEF TypeOK
  <2>2. \A v \in Users : v # u => pc[v] \notin {"put advance", "get advance"}
    BY <1>0, <2>1 DEF Critical, Putting, Getting
  <2>3. iput' \in Slots /\ iput' = Wrap(iget + size + 1)
    BY <1>0, <1>6, <2>1, WrapNext DEF PutAdvance, TypeOK, RingSound
  <2>4. RingSound'
    <3>1. iget' = iget /\ size' = size + 1
      BY <1>6 DEF PutAdvance
    <3>2. iget \in Slots /\ size \in 0..Capacity
      BY <1>0 DEF TypeOK
    <3>3. iget + size + 1 = iget + (size + 1)
      BY <3>2, Sizes
    <3>. QED BY <2>3, <3>1, <3>3 DEF RingSound, Wrap
  <2>5. TypeOK'
    BY <1>0, <1>6, <2>1, <2>3 DEF PutAdvance, Goes, Unlock, TypeOK
  <2>6. Critical'
    BY <1>0, <1>6, <2>2 DEF PutAdvance, Goes, TypeOK, Critical, Putting, Getting
  <2>. QED BY <2>4, <2>5, <2>6 DEF Inv, ChannelSound
<1>7. CASE GetAdvance(u)
  <2>1. size - 1 \in 0..(Capacity - 1) /\ size - 1 \in 0..Capacity /\ owner["lock"] = u
    <3>1. size # 0 /\ owner["lock"] = u
      BY <1>0, <1>7 DEF GetAdvance, Goes, Critical, Getting
    <3>. QED BY <1>0, <3>1, Sizes DEF TypeOK
  <2>2. \A v \in Users : v # u => pc[v] \notin {"put advance", "get advance"}
    BY <1>0, <2>1 DEF Critical, Putting, Getting
  <2>3. iget' \in Slots /\ Wrap(iget' + (size - 1)) = Wrap(iget + (size - 1) + 1)
    BY <1>0, <1>7, <2>1, WrapNext DEF GetAdvance, TypeOK
  <2>4. RingSound'
    <3>1. iput' = iput /\ size' = size - 1
      BY <1>7 DEF GetAdvance
    <3>2. iget + (size - 1) + 1 = iget + size
      <4>1. iget \in Slots /\ size \in 0..Capacity
        BY <1>0 DEF TypeOK
      <4>2. iget \in Int /\ size \in Int
        BY <4>1 DEF Slots
      <4>. QED BY <4>2
    <3>. QED BY <1>0, <2>3, <3>1, <3>2 DEF RingSound, Wrap
  <2>5. TypeOK'
    BY <1>0, <1>7, <2>1, <2>3 DEF GetAdvance, Goes, Unlock, TypeOK
  <2>6. Critical'
    BY <1>0, <1>7, <2>2 DEF GetAdvance, Goes, TypeOK, Critical, Putting, Getting
  <2>. QED BY <2>4, <2>5, <2>6 DEF Inv, ChannelSound
<1>8. CASE PutSignal(u) \/ GetSignal(u)
  <2>1. /\ waiting' \in [{"hasItems", "hasSpace"} -> SUBSET Users]
        /\ UNCHANGED owner
    BY <1>0, <1>8, WakeupTypes DEF PutSignal, GetSignal
  <2>2. /\ pc' = [pc EXCEPT ![u] = "client"]
        /\ UNCHANGED <<ring, val>>
    BY <1>8 DEF PutSignal, GetSignal, Goes
  <2>. QED BY <1>0, <2>1, <2>2, FrameNext DEF TypeOK
<1>. QED BY <1>1, <1>2, <1>3, <1>4, <1>5, <1>6, <1>7, <1>8 DEF Step

LEMMA InvNext == Inv /\ [Next]_vars => Inv'
<1>. SUFFICES ASSUME Inv, [Next]_vars PROVE Inv'
  OBVIOUS
<1>1. CASE Spurious \/ UNCHANGED vars
  <2>1. TypeOK
    BY DEF Inv, ChannelSound
  <2>2. /\ waiting' \in [{"hasItems", "hasSpace"} -> SUBSET Users]
        /\ UNCHANGED <<owner, ring, pc, val>>
    BY <1>1, <2>1, WakeupTypes DEF Spurious, vars, ring, TypeOK
  <2>. QED BY <2>1, <2>2, FrameNext DEF TypeOK
<1>. QED BY <1>1, InvStep DEF Next

-----------------------------------------------------------------------------
(***************************************************************************)
(* The state in the shared memory.                                         *)
(***************************************************************************)

\* iput, iget and size stay in their ranges and agree, whatever threads put
\* and get, wait and are woken, spuriously too.
THEOREM ChannelIsSound == Spec => []ChannelSound
<1>1. Inv => ChannelSound
  BY DEF Inv
<1>. QED BY <1>1, InvInit, InvNext, PTL DEF Spec

-----------------------------------------------------------------------------
(***************************************************************************)
(* The channel implements the bounded channel.                             *)
(***************************************************************************)

Elements == Items \cup {NoItem}
Memory == [Slots -> Elements]

LEMMA FunctionIsSeq ==
  ASSUME NEW S, NEW n \in Nat, NEW f \in [1..n -> S]
  PROVE  f \in Seq(S) /\ Len(f) = n
<1>1. f \in Seq(S)
  BY SeqDef
<1>2. Len(f) \in Nat /\ DOMAIN f = 1..Len(f)
  BY <1>1, LenProperties
<1>. QED BY <1>1, <1>2

LEMMA SegmentSeq ==
  ASSUME NEW b \in Memory, NEW g \in 0..Capacity, NEW n \in 0..Capacity
  PROVE  /\ Segment(b, g, n) \in Seq(Elements)
         /\ Len(Segment(b, g, n)) = n
         /\ \A i \in 1..n : Segment(b, g, n)[i] = b[Wrap(g + i - 1)]
<1>1. \A i \in 1..n : Wrap(g + i - 1) \in Slots
  BY MemChannelAssumption DEF Wrap, Slots
<1>2. Segment(b, g, n) \in [1..n -> Elements]
  BY <1>1 DEF Segment, Memory
<1>3. n \in Nat
  BY MemChannelAssumption
<1>4. Segment(b, g, n) \in Seq(Elements) /\ Len(Segment(b, g, n)) = n
  BY ONLY <1>2, <1>3, FunctionIsSeq
<1>. QED BY <1>4 DEF Segment

\* One more element at the end.
LEMMA SegmentAppend ==
  ASSUME NEW b \in Memory, NEW g \in Slots, NEW n \in 0..(Capacity - 1)
  PROVE  Segment(b, g, n + 1) = Append(Segment(b, g, n), b[Wrap(g + n)])
<1>. DEFINE s == Segment(b, g, n)
            e == b[Wrap(g + n)]
            r == Segment(b, g, n + 1)
<1>1. /\ Capacity \in Nat /\ g \in 0..Capacity /\ n \in 0..Capacity /\ n + 1 \in 0..Capacity
      /\ g + (n + 1) - 1 = g + n
  BY MemChannelAssumption DEF Slots
<1>2. s \in Seq(Elements) /\ Len(s) = n /\ \A i \in 1..n : s[i] = b[Wrap(g + i - 1)]
  BY <1>1, SegmentSeq
<1>3. /\ r \in Seq(Elements) /\ Len(r) = n + 1
      /\ \A i \in 1..(n + 1) : r[i] = b[Wrap(g + i - 1)]
  BY <1>1, SegmentSeq
<1>4. r[n + 1] = e
  BY <1>1, <1>3
<1>5. e \in Elements
  BY <1>1 DEF Memory, Wrap, Slots
<1>. HIDE DEF s, e, r
<1>6. /\ Append(s, e) \in Seq(Elements) /\ Len(Append(s, e)) = n + 1
      /\ \A i \in 1..n : Append(s, e)[i] = s[i]
      /\ Append(s, e)[n + 1] = e
  BY <1>2, <1>5, AppendProperties
<1>7. \A i \in 1..(n + 1) : r[i] = Append(s, e)[i]
  <2>1. \A i \in 1..(n + 1) : i = n + 1 \/ i \in 1..n
    BY <1>1
  <2>2. \A i \in 1..n : i \in 1..(n + 1)
    BY <1>1
  <2>3. ASSUME NEW i \in 1..n PROVE r[i] = Append(s, e)[i]
    BY <1>2, <1>3, <1>6, <2>2
  <2>. QED BY <1>4, <1>6, <2>1, <2>3
<1>8. r = Append(s, e)
  BY <1>3, <1>6, <1>7, SeqEqual
<1>. QED BY <1>8 DEF s, e, r

\* Without the first element.
LEMMA SegmentTail ==
  ASSUME NEW b \in Memory, NEW g \in Slots, NEW n \in 1..Capacity
  PROVE  /\ Segment(b, g, n) # <<>>
         /\ Head(Segment(b, g, n)) = b[g]
         /\ Tail(Segment(b, g, n)) = Segment(b, g + 1, n - 1)
<1>. DEFINE s == Segment(b, g, n)
            r == Segment(b, g + 1, n - 1)
<1>1. /\ Capacity \in Nat /\ g \in 0..Capacity /\ n \in 0..Capacity
      /\ g + 1 \in 0..Capacity /\ n - 1 \in 0..Capacity
      /\ 1 \in 1..n /\ Wrap(g + 1 - 1) = g
  BY MemChannelAssumption DEF Slots, Wrap
<1>2. s \in Seq(Elements) /\ Len(s) = n /\ \A i \in 1..n : s[i] = b[Wrap(g + i - 1)]
  BY <1>1, SegmentSeq
<1>3. /\ r \in Seq(Elements) /\ Len(r) = n - 1
      /\ \A i \in 1..(n - 1) : r[i] = b[Wrap((g + 1) + i - 1)]
  BY <1>1, SegmentSeq
<1>4. s[1] = b[g]
  BY <1>1, <1>2
<1>5. \A i \in 1..(n - 1) : i + 1 \in 1..n /\ g + (i + 1) - 1 = (g + 1) + i - 1
  BY <1>1 DEF Slots
<1>6. \A i \in 1..(n - 1) : r[i] = s[i + 1]
  BY <1>2, <1>3, <1>5
<1>. HIDE DEF s, r
<1>7. s # <<>>
  BY <1>1, <1>2, EmptySeq
<1>8. /\ Tail(s) \in Seq(Elements) /\ Len(Tail(s)) = n - 1
      /\ \A i \in 1..(n - 1) : Tail(s)[i] = s[i + 1]
  BY <1>2, <1>7, HeadTailProperties
<1>9. Tail(s) = r
  BY <1>3, <1>6, <1>8, SeqEqual
<1>10. Head(s) = s[1]
  BY <1>2, <1>7
<1>. QED BY <1>4, <1>7, <1>9, <1>10 DEF s, r

\* From the place after the last slot, which is the first.
LEMMA SegmentNext ==
  ASSUME NEW b \in Memory, NEW g \in Slots, NEW n \in 0..(Capacity - 1)
  PROVE  Segment(b, NextIndex(g), n) = Segment(b, g + 1, n)
<1>1. \A i \in 1..n : Wrap(NextIndex(g) + i - 1) = Wrap((g + 1) + i - 1)
  BY MemChannelAssumption DEF Slots, Wrap, NextIndex
<1>. QED BY <1>1 DEF Segment

\* The slot after the last element is none of theirs.
LEMMA SegmentExcept ==
  ASSUME NEW b \in Memory, NEW g \in Slots, NEW n \in 0..(Capacity - 1), NEW x
  PROVE  Segment([b EXCEPT ![Wrap(g + n)] = x], g, n) = Segment(b, g, n)
<1>1. \A i \in 1..n : Wrap(g + i - 1) # Wrap(g + n) /\ Wrap(g + i - 1) \in Slots
  BY MemChannelAssumption DEF Slots, Wrap
<1>. QED BY <1>1 DEF Segment, Memory

-----------------------------------------------------------------------------

\* A thread that has the mutex and has not just copied an element out: nobody has.
LEMMA TakenByNobody ==
  ASSUME Critical, NEW u \in Users, owner["lock"] = u, pc[u] # "get advance"
  PROVE  Taken = 0 /\ \A v \in Users : pc[v] # "get advance"
BY DEF Critical, Getting, Taken

\* What the invariant says of the memory.
LEMMA ChannelTypes ==
  ASSUME Inv
  PROVE  /\ Capacity \in Nat \ {0} /\ size \in 0..Capacity /\ buf \in Memory
         /\ iput \in Slots /\ iget \in Slots
         /\ iput = Wrap(iget + size)
         /\ Critical
         /\ pc \in [Users -> {"client", "put", "put advance", "signal items",
                              "get", "get advance", "signal space"}]
BY MemChannelAssumption
DEF Inv, ChannelSound, TypeOK, RingSound, Memory, Elements

\* The elements copied in are put.
LEMMA PutRefines ==
  ASSUME Inv, NEW u \in Users, PutAdvance(u)
  PROVE  \E x \in Items : Abstract!Put(x)
<1>0. /\ size \in 0..Capacity /\ buf \in Memory /\ iget \in Slots
      /\ iput = Wrap(iget + size) /\ Critical
      /\ pc \in [Users -> {"client", "put", "put advance", "signal items",
                           "get", "get advance", "signal space"}]
  BY ChannelTypes
<1>1. /\ owner["lock"] = u /\ pc[u] = "put advance" /\ size # Capacity /\ buf[iput] \in Items
  BY <1>0 DEF PutAdvance, Goes, Critical, Putting
<1>2. Taken = 0 /\ \A v \in Users : pc[v] # "get advance"
  BY <1>0, <1>1, TakenByNobody
<1>3. Taken' = 0
  BY <1>0, <1>2 DEF PutAdvance, Goes, Taken
<1>4. size' = size + 1 /\ UNCHANGED <<iget, buf, val>>
  BY DEF PutAdvance
<1>5. size \in 0..(Capacity - 1)
  BY <1>0, <1>1, Sizes
<1>6. Contents = Segment(buf, iget, size)
  BY <1>0, <1>2, Sizes DEF Contents
<1>7. Contents' = Segment(buf, iget, size + 1)
  <2>1. Contents' = Segment(buf', iget' + Taken', size' - Taken')
    BY DEF Contents, Segment, Wrap
  <2>2. iget' \in Slots /\ size' \in 0..Capacity
    BY <1>0, <1>4, <1>5, Sizes
  <2>. QED BY <1>3, <1>4, <2>1, <2>2, Sizes
<1>8. Contents' = Append(Contents, buf[iput])
  BY <1>0, <1>5, <1>6, <1>7, SegmentAppend
<1>9. Len(Contents) < Capacity
  <2>1. iget \in 0..Capacity /\ size \in 0..Capacity
    BY <1>0, Sizes
  <2>2. Len(Contents) = size
    BY <1>0, <1>6, <2>1, SegmentSeq
  <2>. QED BY <1>5, <2>2, MemChannelAssumption
<1>. QED BY <1>1, <1>4, <1>8, <1>9 DEF Abstract!Put

\* The element copied out is got.
LEMMA GetRefines ==
  ASSUME Inv, NEW u \in Users, GetCopy(u)
  PROVE  Abstract!Get(u)
<1>0. /\ size \in 0..Capacity /\ buf \in Memory /\ iget \in Slots
      /\ iput = Wrap(iget + size) /\ Critical
      /\ pc \in [Users -> {"client", "put", "put advance", "signal items",
                           "get", "get advance", "signal space"}]
  BY ChannelTypes
<1>1. /\ owner["lock"] = u /\ pc[u] = "get" /\ size # 0
      /\ pc' = [pc EXCEPT ![u] = "get advance"]
      /\ val' = [val EXCEPT ![u] = buf[iget]] /\ UNCHANGED <<size, iget, buf>>
  BY DEF GetCopy, Goes, ring
<1>2. Taken = 0
  BY <1>0, <1>1, TakenByNobody
<1>3. Taken' = 1
  BY <1>0, <1>1 DEF Taken
<1>4. size \in 1..Capacity
  BY <1>0, <1>1, Sizes
<1>5. Contents = Segment(buf, iget, size)
  BY <1>0, <1>2, Sizes DEF Contents
<1>6. Contents' = Segment(buf, iget + 1, size - 1)
  BY <1>1, <1>3 DEF Contents
<1>7. Contents # <<>> /\ Head(Contents) = buf[iget] /\ Contents' = Tail(Contents)
  BY <1>0, <1>4, <1>5, <1>6, SegmentTail
<1>. QED BY <1>1, <1>7 DEF Abstract!Get

\* Storing an element after the last one, and moving iget past one that was
\* got, changes nothing yet, or any more.
LEMMA CopyStutters ==
  ASSUME Inv, NEW u \in Users, NEW x \in Items, PutCopy(u, x)
  PROVE  UNCHANGED <<Contents, val>>
<1>0. /\ size \in 0..Capacity /\ buf \in Memory /\ iget \in Slots
      /\ iput = Wrap(iget + size) /\ Critical
      /\ pc \in [Users -> {"client", "put", "put advance", "signal items",
                           "get", "get advance", "signal space"}]
  BY ChannelTypes
<1>1. /\ owner["lock"] = u /\ pc[u] = "put" /\ size # Capacity
      /\ buf' = [buf EXCEPT ![Wrap(iget + size)] = x]
      /\ UNCHANGED <<iget, size, val>>
  BY <1>0 DEF PutCopy, Goes
<1>2. Taken = 0 /\ \A v \in Users : pc[v] # "get advance"
  BY <1>0, <1>1, TakenByNobody
<1>3. Taken' = 0
  BY <1>0, <1>2 DEF PutCopy, Goes, Taken
<1>4. size \in 0..(Capacity - 1)
  BY <1>0, <1>1, Sizes
<1>5. Contents = Segment(buf, iget, size)
  BY <1>0, <1>2, Sizes DEF Contents
<1>6. Contents' = Segment([buf EXCEPT ![Wrap(iget + size)] = x], iget, size)
  <2>1. Contents' = Segment(buf', iget' + Taken', size' - Taken')
    BY DEF Contents, Segment, Wrap
  <2>. QED BY <1>0, <1>1, <1>3, <2>1, Sizes
<1>7. Contents' = Contents
  BY <1>0, <1>4, <1>5, <1>6, SegmentExcept
<1>. QED BY <1>1, <1>7

LEMMA AdvanceStutters ==
  ASSUME Inv, NEW u \in Users, GetAdvance(u)
  PROVE  UNCHANGED <<Contents, val>>
<1>0. /\ size \in 0..Capacity /\ buf \in Memory /\ iget \in Slots
      /\ iput = Wrap(iget + size) /\ Critical
      /\ pc \in [Users -> {"client", "put", "put advance", "signal items",
                           "get", "get advance", "signal space"}]
  BY ChannelTypes
<1>1. /\ owner["lock"] = u /\ pc[u] = "get advance" /\ size # 0
      /\ pc' = [pc EXCEPT ![u] = "signal space"]
      /\ iget' = NextIndex(iget) /\ size' = size - 1 /\ UNCHANGED <<buf, val>>
  BY <1>0 DEF GetAdvance, Goes, Critical, Getting
<1>2. Taken = 1
  BY <1>1 DEF Taken
<1>3. Taken' = 0
  BY <1>0, <1>1 DEF Critical, Getting, Taken
<1>4. size - 1 \in 0..(Capacity - 1)
  BY <1>0, <1>1, Sizes
<1>5. Contents = Segment(buf, iget + 1, size - 1)
  BY <1>2 DEF Contents
<1>6. Contents' = Segment(buf, NextIndex(iget), size - 1)
  <2>1. Contents' = Segment(buf', iget' + Taken', size' - Taken')
    BY DEF Contents, Segment, Wrap
  <2>2. iget' \in Slots /\ size' \in 0..Capacity
    BY <1>0, <1>1, <1>4, WrapNext, Sizes
  <2>. QED BY <1>1, <1>3, <2>1, <2>2, Sizes
<1>7. Contents' = Contents
  BY <1>0, <1>4, <1>5, <1>6, SegmentNext
<1>. QED BY <1>1, <1>7

\* The other steps leave the elements, and the threads that have taken one, alone.
LEMMA OthersStutter ==
  ASSUME UNCHANGED <<ring, val>>,
         \A u \in Users : (pc'[u] = "get advance") <=> (pc[u] = "get advance")
  PROVE  UNCHANGED <<Contents, val>>
<1>1. Taken' = Taken
  BY DEF Taken
<1>. QED BY <1>1 DEF Contents, ring, Wrap

LEMMA StepRefines ==
  ASSUME Inv, NEW u \in Users, Step(u)
  PROVE  Abstract!ChannelNext \/ UNCHANGED <<Contents, val>>
<1>0. pc \in [Users -> {"client", "put", "put advance", "signal items",
                        "get", "get advance", "signal space"}]
  BY ChannelTypes
<1>1. ASSUME NEW op \in {"put", "get"}, Enter(u, op) PROVE UNCHANGED <<Contents, val>>
  BY <1>0, <1>1, OthersStutter DEF Enter, Goes
<1>2. CASE Relock(u) \/ PutWait(u) \/ GetWait(u)
  BY <1>2, OthersStutter DEF Relock, PutWait, GetWait
<1>3. ASSUME NEW x \in Items, PutCopy(u, x) PROVE UNCHANGED <<Contents, val>>
  BY <1>3, CopyStutters
<1>4. CASE PutAdvance(u)
  BY <1>4, PutRefines DEF Abstract!ChannelNext
<1>5. CASE GetCopy(u)
  BY <1>5, GetRefines DEF Abstract!ChannelNext
<1>6. CASE GetAdvance(u)
  BY <1>6, AdvanceStutters
<1>7. CASE PutSignal(u) \/ GetSignal(u)
  BY <1>0, <1>7, OthersStutter DEF PutSignal, GetSignal, Goes
<1>. QED BY <1>1, <1>2, <1>3, <1>4, <1>5, <1>6, <1>7 DEF Step

\* Items come out of the shared memory in the order in which they were put in,
\* each once, and there are never more than Capacity of them, for any number
\* of threads of any number of processes.
THEOREM ChannelImplements == Spec => ImplementsChannel
<1>1. Init => Abstract!ChannelInit
  <2>. SUFFICES ASSUME Init PROVE Abstract!ChannelInit
    OBVIOUS
  <2>1. Taken = 0 /\ size = 0 /\ val = [u \in Users |-> NoItem]
    BY DEF Init, Taken
  <2>2. Len(Contents) = 0 /\ Contents \in Seq(Elements)
    <3>1. buf \in Memory /\ iget \in Slots /\ size \in 0..Capacity
      BY InvInit, ChannelTypes
    <3>2. Contents = Segment(buf, iget, size)
      BY <2>1, <3>1, Sizes DEF Contents
    <3>3. iget \in 0..Capacity
      BY <3>1, Sizes
    <3>. QED BY <2>1, <3>1, <3>2, <3>3, SegmentSeq
  <2>3. Contents = <<>>
    BY <2>2, EmptySeq
  <2>. QED BY <2>1, <2>3 DEF Abstract!ChannelInit
<1>2. Inv /\ [Next]_vars => [Abstract!ChannelNext]_<<Contents, val>>
  <2>. SUFFICES ASSUME Inv, [Next]_vars
                PROVE  Abstract!ChannelNext \/ UNCHANGED <<Contents, val>>
    OBVIOUS
  <2>1. CASE Spurious \/ UNCHANGED vars
    BY <2>1, OthersStutter DEF Spurious, vars, ring
  <2>. QED BY <2>1, StepRefines DEF Next
<1>. QED BY <1>1, <1>2, InvInit, InvNext, PTL
     DEF Spec, ImplementsChannel, Abstract!ChannelSpec

-----------------------------------------------------------------------------
(***************************************************************************)
(* No wakeup is lost, although mc_put and mc_get signal after they have    *)
(* released the mutex, and to a single thread.                             *)
(***************************************************************************)

\* The two conjuncts of NoLostWakeup.
ItemsWoken == waiting["hasItems"] # {} => size <= Cardinality(ItemTakers)
SpaceWoken == waiting["hasSpace"] # {} => Capacity - size <= Cardinality(SpaceTakers)

\* A thread that waits is in the loop of its call, and does not own the mutex.
WaitersSound ==
  \A u \in Users :
    /\ u \in waiting["hasItems"] => pc[u] = "get" /\ owner["lock"] # u
    /\ u \in waiting["hasSpace"] => pc[u] = "put" /\ owner["lock"] # u

WInv == Inv /\ WaitersSound /\ ItemsWoken /\ SpaceWoken

-----------------------------------------------------------------------------
(***************************************************************************)
(* Counting the threads on their way.                                      *)
(***************************************************************************)

LEMMA TakersFinite ==
  /\ IsFiniteSet(ItemTakers) /\ Cardinality(ItemTakers) \in Nat
  /\ IsFiniteSet(SpaceTakers) /\ Cardinality(SpaceTakers) \in Nat
<1>1. ItemTakers \subseteq Users /\ SpaceTakers \subseteq Users
  BY DEF ItemTakers, SpaceTakers
<1>. QED BY <1>1, MemChannelAssumption, FS_Subset, FS_CardinalityType

LEMMA TakersFiniteNext ==
  /\ IsFiniteSet(ItemTakers') /\ Cardinality(ItemTakers') \in Nat
  /\ IsFiniteSet(SpaceTakers') /\ Cardinality(SpaceTakers') \in Nat
<1>1. ItemTakers' \subseteq Users /\ SpaceTakers' \subseteq Users
  BY DEF ItemTakers, SpaceTakers
<1>. QED BY <1>1, MemChannelAssumption, FS_Subset, FS_CardinalityType

\* A set that loses a member, gains one, or exchanges one for another.
LEMMA Loses ==
  ASSUME NEW S, NEW T, IsFiniteSet(S), IsFiniteSet(T), NEW u \in S, S \ {u} \subseteq T
  PROVE  Cardinality(S) - 1 <= Cardinality(T)
<1>1. IsFiniteSet(S \ {u}) /\ Cardinality(S \ {u}) = Cardinality(S) - 1
  BY FS_RemoveElement
<1>2. Cardinality(S \ {u}) <= Cardinality(T)
  BY FS_Subset
<1>. QED BY <1>1, <1>2

LEMMA Gains ==
  ASSUME NEW S, NEW T, IsFiniteSet(S), IsFiniteSet(T), NEW u, u \notin S, S \cup {u} \subseteq T
  PROVE  Cardinality(S) + 1 <= Cardinality(T)
<1>1. IsFiniteSet(S \cup {u}) /\ Cardinality(S \cup {u}) = Cardinality(S) + 1
  BY FS_AddElement
<1>2. Cardinality(S \cup {u}) <= Cardinality(T)
  BY <1>1, FS_Subset
<1>. QED BY <1>1, <1>2

LEMMA Exchanges ==
  ASSUME NEW S, NEW T, IsFiniteSet(S), IsFiniteSet(T),
         NEW u \in S, NEW t, t \notin S, (S \ {u}) \cup {t} \subseteq T
  PROVE  Cardinality(S) <= Cardinality(T)
<1>1. IsFiniteSet(S \ {u}) /\ Cardinality(S \ {u}) = Cardinality(S) - 1
  BY FS_RemoveElement
<1>2. t \notin S \ {u}
  OBVIOUS
<1>3. Cardinality(S \ {u}) + 1 <= Cardinality(T)
  BY <1>1, <1>2, Gains
<1>4. Cardinality(S) \in Nat /\ Cardinality(T) \in Nat
  BY FS_CardinalityType
<1>. QED BY <1>1, <1>3, <1>4

-----------------------------------------------------------------------------
(***************************************************************************)
(* The threads on their way change with the elements, or the places.       *)
(***************************************************************************)

LEMMA SizeType ==
  ASSUME TypeOK
  PROVE  size \in Int /\ Capacity \in Int
<1>1. size \in 0..Capacity
  BY DEF TypeOK
<1>2. Capacity \in Nat
  BY MemChannelAssumption
<1>. QED BY <1>1, <1>2

LEMMA ItemsFollow ==
  ASSUME TypeOK, ItemsWoken, NEW d \in Int, size' = size + d,
         Cardinality(ItemTakers) + d <= Cardinality(ItemTakers'),
         waiting'["hasItems"] # {} => waiting["hasItems"] # {}
  PROVE  ItemsWoken'
<1>. SUFFICES ASSUME waiting'["hasItems"] # {}
              PROVE  size' <= Cardinality(ItemTakers')
  BY DEF ItemsWoken
<1>1. size \in Int
  BY SizeType
<1>2. size <= Cardinality(ItemTakers)
  BY DEF ItemsWoken
<1>3. Cardinality(ItemTakers) \in Int /\ Cardinality(ItemTakers') \in Int
  BY TakersFinite, TakersFiniteNext
<1>. QED BY <1>1, <1>2, <1>3

LEMMA SpaceFollows ==
  ASSUME TypeOK, SpaceWoken, NEW d \in Int, size' = size - d,
         Cardinality(SpaceTakers) + d <= Cardinality(SpaceTakers'),
         waiting'["hasSpace"] # {} => waiting["hasSpace"] # {}
  PROVE  SpaceWoken'
<1>. SUFFICES ASSUME waiting'["hasSpace"] # {}
              PROVE  Capacity - size' <= Cardinality(SpaceTakers')
  BY DEF SpaceWoken
<1>1. size \in Int /\ Capacity \in Int
  BY SizeType
<1>2. Capacity - size <= Cardinality(SpaceTakers)
  BY DEF SpaceWoken
<1>3. Cardinality(SpaceTakers) \in Int /\ Cardinality(SpaceTakers') \in Int
  BY TakersFinite, TakersFiniteNext
<1>. QED BY <1>1, <1>2, <1>3

LEMMA ItemsStay ==
  ASSUME TypeOK, ItemsWoken, size' = size, ItemTakers \subseteq ItemTakers',
         waiting'["hasItems"] # {} => waiting["hasItems"] # {}
  PROVE  ItemsWoken'
<1>1. Cardinality(ItemTakers) <= Cardinality(ItemTakers')
  BY TakersFiniteNext, FS_Subset
<1>2. size \in Int /\ Cardinality(ItemTakers) \in Int
  BY TakersFinite, SizeType
<1>3. size' = size + 0 /\ Cardinality(ItemTakers) + 0 <= Cardinality(ItemTakers')
  BY <1>1, <1>2
<1>. QED BY <1>3, ItemsFollow

LEMMA SpaceStays ==
  ASSUME TypeOK, SpaceWoken, size' = size, SpaceTakers \subseteq SpaceTakers',
         waiting'["hasSpace"] # {} => waiting["hasSpace"] # {}
  PROVE  SpaceWoken'
<1>1. Cardinality(SpaceTakers) <= Cardinality(SpaceTakers')
  BY TakersFiniteNext, FS_Subset
<1>2. size \in Int /\ Cardinality(SpaceTakers) \in Int
  BY TakersFinite, SizeType
<1>3. size' = size - 0 /\ Cardinality(SpaceTakers) + 0 <= Cardinality(SpaceTakers')
  BY <1>1, <1>2
<1>. QED BY <1>3, SpaceFollows

-----------------------------------------------------------------------------
(***************************************************************************)
(* The waiting threads, at each step.                                      *)
(***************************************************************************)

LEMMA Signalled ==
  ASSUME TypeOK, NEW c \in {"hasItems", "hasSpace"}, CondSignal(c)
  PROVE  /\ waiting'["hasItems"] \subseteq waiting["hasItems"]
         /\ waiting'["hasSpace"] \subseteq waiting["hasSpace"]
         /\ owner' = owner
<1>1. CASE UNCHANGED waiting
  BY <1>1 DEF CondSignal
<1>2. ASSUME NEW t \in waiting[c], waiting' = [waiting EXCEPT ![c] = @ \ {t}]
      PROVE  /\ waiting'["hasItems"] \subseteq waiting["hasItems"]
             /\ waiting'["hasSpace"] \subseteq waiting["hasSpace"]
  BY <1>2 DEF TypeOK
<1>. QED BY <1>1, <1>2 DEF CondSignal

LEMMA WaitersStep ==
  ASSUME WInv, NEW u \in Users, Step(u)
  PROVE  WaitersSound'
<1>. USE MemChannelAssumption
<1>0. TypeOK /\ WaitersSound
  BY DEF WInv, Inv, ChannelSound
<1>1. ASSUME NEW op \in {"put", "get"}, Enter(u, op) PROVE WaitersSound'
  BY <1>0, <1>1 DEF Enter, Goes, Lock, TypeOK, WaitersSound
<1>2. CASE Relock(u)
  BY <1>0, <1>2 DEF Relock, IsWaiting, Lock, TypeOK, WaitersSound
<1>3. CASE PutWait(u)
  BY <1>0, <1>3 DEF PutWait, CondWait, TypeOK, WaitersSound
<1>4. CASE GetWait(u)
  BY <1>0, <1>4 DEF GetWait, CondWait, TypeOK, WaitersSound
<1>5. ASSUME NEW x \in Items, PutCopy(u, x) PROVE WaitersSound'
  BY <1>0, <1>5 DEF PutCopy, Goes, TypeOK, WaitersSound
<1>6. CASE GetCopy(u)
  BY <1>0, <1>6 DEF GetCopy, Goes, TypeOK, WaitersSound
<1>7. CASE PutAdvance(u)
  BY <1>0, <1>7 DEF PutAdvance, Goes, Unlock, TypeOK, WaitersSound
<1>8. CASE GetAdvance(u)
  BY <1>0, <1>8 DEF GetAdvance, Goes, Unlock, TypeOK, WaitersSound
<1>9. CASE PutSignal(u)
  <2>1. /\ waiting'["hasItems"] \subseteq waiting["hasItems"]
        /\ waiting'["hasSpace"] \subseteq waiting["hasSpace"]
        /\ owner' = owner
    BY <1>0, <1>9, Signalled DEF PutSignal
  <2>2. \A v \in Users : v # u => pc'[v] = pc[v]
    BY <1>0, <1>9 DEF PutSignal, Goes, TypeOK
  <2>3. u \notin waiting["hasItems"] /\ u \notin waiting["hasSpace"]
    BY <1>0, <1>9 DEF PutSignal, Goes, WaitersSound
  <2>. QED BY <1>0, <2>1, <2>2, <2>3 DEF WaitersSound
<1>10. CASE GetSignal(u)
  <2>1. /\ waiting'["hasItems"] \subseteq waiting["hasItems"]
        /\ waiting'["hasSpace"] \subseteq waiting["hasSpace"]
        /\ owner' = owner
    BY <1>0, <1>10, Signalled DEF GetSignal
  <2>2. \A v \in Users : v # u => pc'[v] = pc[v]
    BY <1>0, <1>10 DEF GetSignal, Goes, TypeOK
  <2>3. u \notin waiting["hasItems"] /\ u \notin waiting["hasSpace"]
    BY <1>0, <1>10 DEF GetSignal, Goes, WaitersSound
  <2>. QED BY <1>0, <2>1, <2>2, <2>3 DEF WaitersSound
<1>. QED
  BY <1>1, <1>2, <1>3, <1>4, <1>5, <1>6, <1>7, <1>8, <1>9, <1>10 DEF Step

-----------------------------------------------------------------------------
(***************************************************************************)
(* The items.                                                              *)
(***************************************************************************)

LEMMA ItemsStep ==
  ASSUME WInv, NEW u \in Users, Step(u)
  PROVE  ItemsWoken'
<1>. USE MemChannelAssumption
<1>0. TypeOK /\ WaitersSound /\ ItemsWoken /\ Critical
  BY DEF WInv, Inv, ChannelSound
<1>1. ASSUME NEW op \in {"put", "get"}, Enter(u, op) PROVE ItemsWoken'
  <2>1. ItemTakers \subseteq ItemTakers'
    BY <1>0, <1>1 DEF Enter, Goes, Lock, TypeOK, ItemTakers
  <2>. QED BY <1>0, <1>1, <2>1, ItemsStay DEF Enter, Lock, ring
<1>2. CASE Relock(u)
  BY <1>0, <1>2, ItemsStay DEF Relock, Lock, ring, ItemTakers
<1>3. CASE PutWait(u)
  <2>1. waiting'["hasItems"] = waiting["hasItems"]
    BY <1>0, <1>3 DEF PutWait, CondWait, TypeOK
  <2>. QED BY <1>0, <1>3, <2>1, ItemsStay DEF PutWait, ring, ItemTakers
<1>4. CASE GetWait(u)
  BY <1>4, TakersFiniteNext DEF GetWait, ring, ItemsWoken
<1>5. ASSUME NEW x \in Items, PutCopy(u, x) PROVE ItemsWoken'
  <2>1. ItemTakers \subseteq ItemTakers'
    BY <1>0, <1>5 DEF PutCopy, Goes, TypeOK, ItemTakers
  <2>. QED BY <1>0, <1>5, <2>1, ItemsStay DEF PutCopy
<1>6. CASE GetCopy(u)
  <2>1. ItemTakers \subseteq ItemTakers'
    BY <1>0, <1>6 DEF GetCopy, Goes, TypeOK, ItemTakers
  <2>. QED BY <1>0, <1>6, <2>1, ItemsStay DEF GetCopy, ring
<1>7. CASE PutAdvance(u)
  <2>1. u \notin ItemTakers /\ ItemTakers \cup {u} \subseteq ItemTakers'
    BY <1>0, <1>7 DEF PutAdvance, Goes, Unlock, TypeOK, ItemTakers
  <2>2. Cardinality(ItemTakers) + 1 <= Cardinality(ItemTakers')
    BY <2>1, TakersFinite, TakersFiniteNext, Gains
  <2>3. waiting' = waiting /\ size' = size + 1
    BY <1>7 DEF PutAdvance, Unlock
  <2>. QED BY <1>0, <2>2, <2>3, ItemsFollow
<1>8. CASE GetAdvance(u)
  <2>1. u \in ItemTakers /\ ItemTakers \ {u} \subseteq ItemTakers'
    BY <1>0, <1>8 DEF GetAdvance, Goes, Unlock, TypeOK, WaitersSound, ItemTakers
  <2>2. Cardinality(ItemTakers) + (-1) <= Cardinality(ItemTakers')
    BY <2>1, TakersFinite, TakersFiniteNext, Loses
  <2>3. waiting' = waiting /\ size' = size + (-1)
    BY <1>0, <1>8, SizeType DEF GetAdvance, Unlock
  <2>. QED BY <1>0, <2>2, <2>3, ItemsFollow
<1>9. CASE PutSignal(u)
  <2>1. CASE waiting["hasItems"] = {}
    <3>1. waiting'["hasItems"] = {}
      BY <1>9, <2>1 DEF PutSignal, CondSignal
    <3>. QED BY <3>1 DEF ItemsWoken
  <2>2. CASE waiting["hasItems"] # {}
    <3>1. PICK t \in waiting["hasItems"] : waiting' = [waiting EXCEPT !["hasItems"] = @ \ {t}]
      BY <1>9, <2>2 DEF PutSignal, CondSignal
    <3>2. u \in ItemTakers /\ t \in Users /\ t # u /\ pc[t] = "get" /\ t \notin ItemTakers
      BY <1>0, <1>9, <3>1 DEF PutSignal, Goes, TypeOK, WaitersSound, ItemTakers
    <3>3. (ItemTakers \ {u}) \cup {t} \subseteq ItemTakers'
      BY <1>0, <1>9, <3>1, <3>2 DEF PutSignal, Goes, TypeOK, ItemTakers
    <3>4. Cardinality(ItemTakers) <= Cardinality(ItemTakers')
      BY <3>2, <3>3, TakersFinite, TakersFiniteNext, Exchanges
    <3>5. size' = size
      BY <1>9 DEF PutSignal, ring
    <3>6. size \in Int /\ Cardinality(ItemTakers) \in Int
      BY <1>0, TakersFinite, SizeType
    <3>7. size' = size + 0 /\ Cardinality(ItemTakers) + 0 <= Cardinality(ItemTakers')
      BY <3>4, <3>5, <3>6
    <3>. QED BY <1>0, <2>2, <3>7, ItemsFollow
  <2>. QED BY <2>1, <2>2
<1>10. CASE GetSignal(u)
  <2>1. waiting'["hasItems"] = waiting["hasItems"]
    BY <1>0, <1>10 DEF GetSignal, CondSignal, TypeOK
  <2>2. ItemTakers \subseteq ItemTakers'
    BY <1>0, <1>10, <2>1 DEF GetSignal, Goes, TypeOK, ItemTakers
  <2>. QED BY <1>0, <1>10, <2>1, <2>2, ItemsStay DEF GetSignal, ring
<1>. QED
  BY <1>1, <1>2, <1>3, <1>4, <1>5, <1>6, <1>7, <1>8, <1>9, <1>10 DEF Step

-----------------------------------------------------------------------------
(***************************************************************************)
(* The space, in the same way.                                             *)
(***************************************************************************)

LEMMA SpaceStep ==
  ASSUME WInv, NEW u \in Users, Step(u)
  PROVE  SpaceWoken'
<1>. USE MemChannelAssumption
<1>0. TypeOK /\ WaitersSound /\ SpaceWoken /\ Critical
  BY DEF WInv, Inv, ChannelSound
<1>1. ASSUME NEW op \in {"put", "get"}, Enter(u, op) PROVE SpaceWoken'
  <2>1. SpaceTakers \subseteq SpaceTakers'
    BY <1>0, <1>1 DEF Enter, Goes, Lock, TypeOK, SpaceTakers
  <2>. QED BY <1>0, <1>1, <2>1, SpaceStays DEF Enter, Lock, ring
<1>2. CASE Relock(u)
  BY <1>0, <1>2, SpaceStays DEF Relock, Lock, ring, SpaceTakers
<1>3. CASE PutWait(u)
  <2>1. Capacity - size' = 0
    BY <1>3 DEF PutWait, ring
  <2>. QED BY <2>1, TakersFiniteNext DEF SpaceWoken
<1>4. CASE GetWait(u)
  <2>1. waiting'["hasSpace"] = waiting["hasSpace"]
    BY <1>0, <1>4 DEF GetWait, CondWait, TypeOK
  <2>. QED BY <1>0, <1>4, <2>1, SpaceStays DEF GetWait, ring, SpaceTakers
<1>5. ASSUME NEW x \in Items, PutCopy(u, x) PROVE SpaceWoken'
  <2>1. SpaceTakers \subseteq SpaceTakers'
    BY <1>0, <1>5 DEF PutCopy, Goes, TypeOK, SpaceTakers
  <2>. QED BY <1>0, <1>5, <2>1, SpaceStays DEF PutCopy
<1>6. CASE GetCopy(u)
  <2>1. SpaceTakers \subseteq SpaceTakers'
    BY <1>0, <1>6 DEF GetCopy, Goes, TypeOK, SpaceTakers
  <2>. QED BY <1>0, <1>6, <2>1, SpaceStays DEF GetCopy, ring
<1>7. CASE PutAdvance(u)
  <2>1. u \in SpaceTakers /\ SpaceTakers \ {u} \subseteq SpaceTakers'
    BY <1>0, <1>7 DEF PutAdvance, Goes, Unlock, TypeOK, WaitersSound, SpaceTakers
  <2>2. Cardinality(SpaceTakers) + (-1) <= Cardinality(SpaceTakers')
    BY <2>1, TakersFinite, TakersFiniteNext, Loses
  <2>3. waiting' = waiting /\ size' = size + 1
    BY <1>7 DEF PutAdvance, Unlock
  <2>4. size' = size - (-1)
    BY <1>0, <2>3, SizeType
  <2>. QED BY <1>0, <2>2, <2>3, <2>4, SpaceFollows
<1>8. CASE GetAdvance(u)
  <2>1. u \notin SpaceTakers /\ SpaceTakers \cup {u} \subseteq SpaceTakers'
    BY <1>0, <1>8 DEF GetAdvance, Goes, Unlock, TypeOK, SpaceTakers
  <2>2. Cardinality(SpaceTakers) + 1 <= Cardinality(SpaceTakers')
    BY <2>1, TakersFinite, TakersFiniteNext, Gains
  <2>3. waiting' = waiting /\ size' = size - 1
    BY <1>8 DEF GetAdvance, Unlock
  <2>. QED BY <1>0, <2>2, <2>3, SpaceFollows
<1>9. CASE PutSignal(u)
  <2>1. waiting'["hasSpace"] = waiting["hasSpace"]
    BY <1>0, <1>9 DEF PutSignal, CondSignal, TypeOK
  <2>2. SpaceTakers \subseteq SpaceTakers'
    BY <1>0, <1>9, <2>1 DEF PutSignal, Goes, TypeOK, SpaceTakers
  <2>. QED BY <1>0, <1>9, <2>1, <2>2, SpaceStays DEF PutSignal, ring
<1>10. CASE GetSignal(u)
  <2>1. CASE waiting["hasSpace"] = {}
    <3>1. waiting'["hasSpace"] = {}
      BY <1>10, <2>1 DEF GetSignal, CondSignal
    <3>. QED BY <3>1 DEF SpaceWoken
  <2>2. CASE waiting["hasSpace"] # {}
    <3>1. PICK t \in waiting["hasSpace"] : waiting' = [waiting EXCEPT !["hasSpace"] = @ \ {t}]
      BY <1>10, <2>2 DEF GetSignal, CondSignal
    <3>2. u \in SpaceTakers /\ t \in Users /\ t # u /\ pc[t] = "put" /\ t \notin SpaceTakers
      BY <1>0, <1>10, <3>1 DEF GetSignal, Goes, TypeOK, WaitersSound, SpaceTakers
    <3>3. (SpaceTakers \ {u}) \cup {t} \subseteq SpaceTakers'
      BY <1>0, <1>10, <3>1, <3>2 DEF GetSignal, Goes, TypeOK, SpaceTakers
    <3>4. Cardinality(SpaceTakers) <= Cardinality(SpaceTakers')
      BY <3>2, <3>3, TakersFinite, TakersFiniteNext, Exchanges
    <3>5. size' = size
      BY <1>10 DEF GetSignal, ring
    <3>6. size \in Int /\ Cardinality(SpaceTakers) \in Int
      BY <1>0, TakersFinite, SizeType
    <3>7. size' = size - 0 /\ Cardinality(SpaceTakers) + 0 <= Cardinality(SpaceTakers')
      BY <3>4, <3>5, <3>6
    <3>. QED BY <1>0, <2>2, <3>7, SpaceFollows
  <2>. QED BY <2>1, <2>2
<1>. QED
  BY <1>1, <1>2, <1>3, <1>4, <1>5, <1>6, <1>7, <1>8, <1>9, <1>10 DEF Step

-----------------------------------------------------------------------------
(***************************************************************************)
(* The theorem.                                                            *)
(***************************************************************************)

\* A thread that is woken by nobody joins those on their way.
LEMMA SpuriousKeeps ==
  ASSUME WInv, Spurious
  PROVE  WaitersSound' /\ ItemsWoken' /\ SpaceWoken'
<1>. USE MemChannelAssumption
<1>0. TypeOK /\ WaitersSound /\ ItemsWoken /\ SpaceWoken
  BY DEF WInv, Inv, ChannelSound
<1>1. PICK c \in {"hasItems", "hasSpace"} : SpuriousWakeup(c)
  BY DEF Spurious
<1>2. PICK t \in waiting[c] : waiting' = [waiting EXCEPT ![c] = @ \ {t}]
  BY <1>1 DEF SpuriousWakeup
<1>3. UNCHANGED <<owner, ring, pc, val>>
  BY <1>1 DEF Spurious, SpuriousWakeup
<1>4. WaitersSound'
  BY <1>0, <1>2, <1>3 DEF TypeOK, WaitersSound
<1>5. waiting'["hasItems"] \subseteq waiting["hasItems"] /\ waiting'["hasSpace"] \subseteq waiting["hasSpace"]
  BY <1>0, <1>2 DEF TypeOK
<1>6. ItemTakers \subseteq ItemTakers' /\ SpaceTakers \subseteq SpaceTakers'
  BY <1>3, <1>5 DEF ItemTakers, SpaceTakers
<1>. QED BY <1>0, <1>3, <1>4, <1>5, <1>6, ItemsStay, SpaceStays DEF ring

\* Whatever threads use the channel, while some wait there is, for every element
\* and every free place, a thread on its way to take it, or to wake one that will.
THEOREM ChannelNoLostWakeup == Spec => []NoLostWakeup
<1>1. Init => WInv
  <2>. SUFFICES ASSUME Init PROVE WInv
    OBVIOUS
  <2>1. waiting["hasItems"] = {} /\ waiting["hasSpace"] = {}
    BY MemChannelAssumption DEF Init, PThreadsInit
  <2>. QED BY <2>1, InvInit DEF WInv, WaitersSound, ItemsWoken, SpaceWoken
<1>2. WInv /\ [Next]_vars => WInv'
  <2>. SUFFICES ASSUME WInv, [Next]_vars PROVE WInv'
    OBVIOUS
  <2>1. Inv'
    BY InvNext DEF WInv
  <2>2. ASSUME NEW u \in Users, Step(u) PROVE WInv'
    BY <2>1, <2>2, WaitersStep, ItemsStep, SpaceStep DEF WInv
  <2>3. CASE Spurious
    BY <2>1, <2>3, SpuriousKeeps DEF WInv
  <2>4. CASE UNCHANGED vars
    <3>1. ItemTakers' = ItemTakers /\ SpaceTakers' = SpaceTakers
      BY <2>4 DEF vars, ItemTakers, SpaceTakers
    <3>. QED BY <2>1, <2>4, <3>1 DEF WInv, vars, WaitersSound, ItemsWoken, SpaceWoken
  <2>. QED BY <2>2, <2>3, <2>4 DEF Next
<1>3. WInv => NoLostWakeup
  BY DEF WInv, ItemsWoken, SpaceWoken, NoLostWakeup
<1>. QED BY <1>1, <1>2, <1>3, PTL DEF Spec
-----------------------------------------------------------------------------
(***************************************************************************)
(* The channel with semaphores as MCChannels has it, beside this one.      *)
(* What SemChannelProofs shows holds in every behaviour in which the one   *)
(* or the other is used.                                                   *)
(***************************************************************************)

SemP == INSTANCE SemChannelProofs WITH
  Capacity <- SemCapacity, iput <- sem_iput, iget <- sem_iget, pc <- sem_pc, val <- sem_val

LEMMA SemSameParameters == SemP!SemParameters
BY SemChannelAssumption
   DEF Sem!SemParameters, SemP!SemParameters, Sem!IsFiniteSet, SemP!IsFiniteSet

LEMMA SemSameInit == Sem!Init => SemP!Init
BY DEF Sem!Init, SemP!Init, Sem!Slots, SemP!Slots, Sem!Callers, SemP!Callers

LEMMA SemSamePut ==
  ASSUME NEW u \in Putters, Sem!PutStep(u)
  PROVE  SemP!PutStep(u)
BY DEF Sem!PutStep, SemP!PutStep, Sem!Goes, SemP!Goes,
       Sem!PutWait, SemP!PutWait, Sem!PutAdd, SemP!PutAdd, Sem!PutCopy, SemP!PutCopy,
       Sem!PutCopied, SemP!PutCopied, Sem!PutPost, SemP!PutPost

LEMMA SemSameGet ==
  ASSUME NEW u \in Getters, Sem!GetStep(u)
  PROVE  SemP!GetStep(u)
BY DEF Sem!GetStep, SemP!GetStep, Sem!Goes, SemP!Goes,
       Sem!GetWait, SemP!GetWait, Sem!GetAdd, SemP!GetAdd, Sem!GetCopy, SemP!GetCopy,
       Sem!GetCopied, SemP!GetCopied, Sem!GetPost, SemP!GetPost

LEMMA SemSameStep == [MutexNext \/ SemNext]_<<which, vars, semVars>> => [SemP!Next]_SemP!vars
<1>1. UNCHANGED semVars => UNCHANGED SemP!vars
  BY DEF semVars, SemP!vars
<1>2. Sem!Next => SemP!Next
  BY SemSamePut, SemSameGet DEF Sem!Next, SemP!Next
<1>. QED BY <1>1, <1>2 DEF MutexNext, SemNext

LEMMA SemSameSpec == MCSpec => SemP!Spec
BY SemSameInit, SemSameStep, PTL DEF MCSpec, MCInit, SemP!Spec

LEMMA SemSameSound == SemP!SemaphoresSound => SemaphoresSound
BY DEF SemaphoresSound, Sem!SemaphoresSound, SemP!SemaphoresSound,
       Sem!TypeOK, SemP!TypeOK, Sem!PlacesConserved, SemP!PlacesConserved,
       Sem!Slots, SemP!Slots, Sem!Callers, SemP!Callers, Sem!At, SemP!At,
       Sem!Cardinality, SemP!Cardinality, Sem!IsFiniteSet, SemP!IsFiniteSet

LEMMA SemSameGets == SemP!GetsItems => GetsItems
BY DEF GetsItems, Sem!GetsItems, SemP!GetsItems

\* The semaphores account for every place of the buffer, whatever the numbers of
\* threads that put and that get, and the capacity.
THEOREM SemChannelConserves == MCSpec => []SemaphoresSound
BY SemSameParameters, SemSameSpec, SemSameSound, SemP!PlacesAreConserved, PTL

\* With one thread that puts and one that gets, as the programs of the directory
\* have them, a get returns an item that was put, in one piece.
THEOREM SemChannelGetsItems ==
  ASSUME \E p, g : Putters = {p} /\ Getters = {g}
  PROVE  MCSpec => []GetsItems
<1>1. \E p, g : SemP!OnePair(p, g)
  BY DEF SemP!OnePair
<1>2. SemP!Spec => []SemP!GetsItems
  BY <1>1, SemSameParameters, SemP!OneGetsItems
<1>. QED BY <1>2, SemSameSpec, SemSameGets, PTL

LEMMA SemSameContents == SemP!Contents = Sem!Contents
BY DEF Sem!Contents, SemP!Contents, Sem!Ring, SemP!Ring, Sem!First, SemP!First,
       Sem!Full, SemP!Full, Sem!At, SemP!At, Sem!Callers, SemP!Callers,
       Sem!Cardinality, SemP!Cardinality, Sem!IsFiniteSet, SemP!IsFiniteSet

LEMMA SemSameAbstractInit == SemP!Abstract!ChannelInit => Sem!Abstract!ChannelInit
BY SemSameContents
   DEF SemP!Abstract!ChannelInit, Sem!Abstract!ChannelInit, Sem!Callers, SemP!Callers

LEMMA SemSameAbstractStep ==
  (SemP!Contents = Sem!Contents)' /\ [SemP!Abstract!ChannelNext]_<<SemP!Contents, sem_val>>
    => [Sem!Abstract!ChannelNext]_<<Sem!Contents, sem_val>>
BY SemSameContents
   DEF SemP!Abstract!ChannelNext, Sem!Abstract!ChannelNext,
       SemP!Abstract!Put, Sem!Abstract!Put, SemP!Abstract!Get, Sem!Abstract!Get,
       Sem!Callers, SemP!Callers

\* With one thread that puts and one that gets the buffer is a bounded first-in
\* first-out channel, of any capacity, without a lock.
THEOREM SemChannelImplements ==
  ASSUME \E p, g : Putters = {p} /\ Getters = {g}
  PROVE  MCSpec => SemImplementsChannel
<1>1. \E p, g : SemP!OnePair(p, g)
  BY DEF SemP!OnePair
<1>2. SemP!Spec => SemP!ImplementsChannel
  BY <1>1, SemSameParameters, SemP!OneImplementsChannel
<1>. QED
  BY <1>2, SemSameContents, SemSameSpec, SemSameAbstractInit, SemSameAbstractStep, PTL
  DEF SemImplementsChannel, SemP!ImplementsChannel, Sem!ImplementsChannel,
      SemP!Abstract!ChannelSpec, Sem!Abstract!ChannelSpec
=============================================================================
