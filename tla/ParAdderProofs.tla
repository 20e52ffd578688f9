--------------------------- MODULE ParAdderProofs ---------------------------
(***************************************************************************)
(* The parallel adder over its three pools, for any number of workers, of  *)
(* ranges, of threads that submit work of their own and of places and      *)
(* rounds: each accepted work item is executed once, none gets behind a    *)
(* NULL, the queue and the latch are destroyed when nobody uses them, and  *)
(* a free place is always found.                                           *)
(***************************************************************************)
EXTENDS MCParAdder, SequenceTheorems, FiniteSetTheorems, TLAPS

-----------------------------------------------------------------------------
(***************************************************************************)
(* The inductive invariant of the two pools that are destroyed.            *)
(***************************************************************************)

Entries == Work \cup {NULL}

WorkerPoints == {"loop", "get", "run", "ended"}
SubmitPoints == {"submit lock", "submit test", "submit put"}
DestroyPoints == {"destroy lock", "destroy put", "destroy join", "destroy queue", "destroyed"}
CallerPoints == {"client", "submit unlock"} \cup SubmitPoints \cup DestroyPoints

PoolTypes ==
  /\ version \in {"current", "early"}
  /\ owner = [m \in Mutexes |-> owner[m]]
  /\ owner["pool"] \in Callers \cup {NoOwner}
  /\ list \in Seq(Entries)
  /\ destroying \in {0, 1}
  /\ pc \in [Workers \cup Callers -> WorkerPoints \cup CallerPoints]
  /\ \A w \in Workers : pc[w] \in WorkerPoints
  /\ \A t \in Callers : pc[t] \in CallerPoints
  /\ version = "current" => \A w \in Workers : pc[w] # "loop"
  /\ item \in [Workers \cup Callers -> Entries]
  /\ pills \in 0..Cardinality(Workers)
  /\ accepted \subseteq submitted /\ submitted \subseteq Work
  /\ executed \in [Work -> Nat]
  /\ queue_gone \in BOOLEAN

\* The lock of the pool is held from the second test of destroying to the end of
\* tp_submit, and while the NULL items are put.
Locked ==
  \A t \in Callers :
    pc[t] \in {"submit test", "submit put", "submit unlock", "destroy put"} => owner["pool"] = t

\* What the threads inside tp_submit submit has not been accepted, is different
\* for each, and is a range for the main thread only; which submits every range
\* that is not accepted.
Submits ==
  /\ \A t \in Callers :
       pc[t] \in SubmitPoints => item[t] \in submitted \ accepted /\ (item[t] \in Ranges => t = main)
  /\ \A t, u \in Callers :
       pc[t] \in SubmitPoints /\ pc[u] \in SubmitPoints /\ item[t] = item[u] => t = u
  /\ \A r \in Ranges : r \in submitted \ accepted => pc[main] \in SubmitPoints /\ item[main] = r

\* The main thread destroys the pool, after par_adder has returned; when the queue
\* is destroyed the workers have ended.
Destroys ==
  /\ \A t \in Callers : pc[t] \in DestroyPoints => t = main
  /\ destroying = 1 <=> /\ pc[main] \in DestroyPoints
                        /\ version = "early" => pc[main] # "destroy lock"
  /\ pc[main] \in DestroyPoints => at[main] = "destroyed"
  /\ pc[main] \in {"destroy queue", "destroyed"} => \A w \in Workers : pc[w] = "ended"
  /\ queue_gone => pc[main] = "destroyed"
  /\ at[main] # "client" => Ranges \subseteq accepted

\* From the first NULL item on, and when a worker has ended, no submitter is past its
\* test; in the early version, where destroying is set with the lock held, no
\* submitter ever is once it is set.
Pilled == (\E i \in 1..Len(list) : list[i] = NULL) \/ (\E w \in Workers : pc[w] = "ended")
PilledSound ==
  /\ Pilled => destroying = 1 /\ \A t \in Callers : pc[t] # "submit put"
  /\ version = "early" => \A t \in Callers : pc[t] = "submit put" => destroying = 0

\* Every work item is ahead of every NULL, and in the later version the workers that
\* have ended left no work.
Ordered == \A i, j \in 1..Len(list) : i < j /\ list[i] = NULL => list[j] = NULL
Drained ==
  version = "current" /\ (\E w \in Workers : pc[w] = "ended") => \A i \in 1..Len(list) : list[i] = NULL

\* An item is in the queue once, with a worker, executed, or nowhere.
InList(s, x) == \E i \in 1..Len(s) : s[i] = x
OnceIn(s, x) == \A i, j \in 1..Len(s) : s[i] = x /\ s[j] = x => i = j
Runs(w, x) == pc[w] = "run" /\ item[w] = x
Runner(x) == \E w \in Workers : Runs(w, x)

ItemSound(x) ==
  /\ executed[x] \in {0, 1}
  /\ OnceIn(list, x)
  /\ \A v, w \in Workers : Runs(v, x) /\ Runs(w, x) => v = w
  /\ ~(InList(list, x) /\ Runner(x))
  /\ InList(list, x) \/ Runner(x) => x \in accepted /\ executed[x] = 0
  /\ x \in accepted => InList(list, x) \/ Runner(x) \/ executed[x] = 1
  /\ executed[x] = 1 => x \in accepted

Items ==
  /\ \A x \in Work : ItemSound(x)
  /\ \A w \in Workers : pc[w] = "run" => item[w] \in Work

\* A range signals the latch only while a worker executes it.
RangesSignal == \A r \in Ranges : at[r] # "client" => Runner(r) \/ executed[r] = 1

-----------------------------------------------------------------------------
(***************************************************************************)
(* The latch.  That the last call is over and not only counted follows     *)
(* from the mutex: the waiter reads a counter of zero with the mutex       *)
(* locked, and a call that has counted holds it until its end.             *)
(***************************************************************************)

LatchPoints ==
  {"client", "signal lock", "signal count", "signal unlock", "signalled",
   "wait", "wait block", "waited", "destroyed"}

LatchTypes ==
  /\ owner = [m \in Mutexes |-> owner[m]]
  /\ at \in [Signallers \cup {Waiter} -> LatchPoints]
  /\ \A t \in Signallers :
       at[t] \in {"client", "signal lock", "signal count", "signal unlock", "signalled"}

\* The calls that are still to be counted.
Uncounted == {t \in Signallers : at[t] \in {"client", "signal count"}}

\* A call that is inside holds the mutex.
InsideLocked ==
  \A t \in Signallers :
    at[t] # "signal lock" /\ (at[t] \in {"signal count", "signal unlock"} => owner["latch"] = t)

LatchInv == LatchTypes /\ counter = Cardinality(Uncounted) /\ InsideLocked /\ WaitsForAll

\* In the early version a single call goes on when it has counted, the last.
EarlyUncounted == {t \in Signallers : at[t] = "client"}
EarlyInside(t) == at[t] \in {"signal lock", "signal count", "signal unlock"}
EarlyLast ==
  /\ \A t \in Signallers : EarlyInside(t) => \A u \in Signallers : at[u] # "client"
  /\ \A t, u \in Signallers : EarlyInside(t) /\ EarlyInside(u) => t = u
EarlyWaits == at[Waiter] \in {"waited", "destroyed"} => \A t \in Signallers : at[t] # "client"

EarlyLatchInv ==
  LatchTypes /\ counter = Cardinality(EarlyUncounted) /\ EarlyLast /\ EarlyWaits

AdderInv ==
  /\ PoolTypes /\ Locked /\ Submits /\ Destroys
  /\ PilledSound /\ Ordered /\ Drained
  /\ Items /\ RangesSignal
  /\ version = "current" => LatchInv
  /\ version = "early" => EarlyLatchInv

-----------------------------------------------------------------------------
(***************************************************************************)
(* The inductive invariant of the pool with the free list.                 *)
(***************************************************************************)

FreeTypes ==
  /\ version = "free list"
  /\ list \in Seq(Nodes) /\ free \in Seq(Nodes)
  /\ work \in [Nodes -> Ranges \cup {NULL}]
  /\ pc \in [Workers \cup Callers -> {"get", "run", "client", "destroyed"}]
  /\ \A w \in Workers : pc[w] \in {"get", "run"}
  /\ pc[main] \in {"client", "destroyed"}
  /\ item \in [Workers \cup Callers -> Nodes \cup {NULL}]
  /\ \A w \in Workers : pc[w] = "run" => item[w] \in Nodes
  /\ submitted = accepted /\ accepted \subseteq Ranges
  /\ executed \in [Work -> Nat]
  /\ round \in Nat \ {0}
  /\ at[main] = "client"

\* A place is free, queued, or held by one worker.
Held(n) == \E w \in Workers : item[w] = n
PlaceSound(n) ==
  /\ OnceIn(free, n) /\ OnceIn(list, n)
  /\ \A v, w \in Workers : item[v] = n /\ item[w] = n => v = w
  /\ InList(free, n) \/ InList(list, n) \/ Held(n)
  /\ ~(InList(free, n) /\ InList(list, n)) /\ ~(InList(free, n) /\ Held(n))
  /\ ~(InList(list, n) /\ Held(n))

\* The range x is at the place n, queued or being executed.
QueuedAt(n, x) == InList(list, n) /\ work[n] = x
RunsAt(w, x) == pc[w] = "run" /\ work[item[w]] = x

Pends(x) == (\E n \in Nodes : QueuedAt(n, x)) \/ (\E w \in Workers : RunsAt(w, x))

RangeSound(x) ==
  /\ \A m, n \in Nodes : QueuedAt(m, x) /\ QueuedAt(n, x) => m = n
  /\ \A v, w \in Workers : RunsAt(v, x) /\ RunsAt(w, x) => v = w
  /\ \A n \in Nodes, w \in Workers : ~(QueuedAt(n, x) /\ RunsAt(w, x))
  /\ Pends(x) => x \in accepted
  /\ executed[x] = IF x \in accepted /\ ~Pends(x) THEN round ELSE round - 1

\* What is queued, and what is executed, is work.
QueuedWork ==
  /\ \A n \in Nodes : InList(list, n) => work[n] \in Ranges
  /\ \A w \in Workers : pc[w] = "run" => work[item[w]] \in Ranges

Undone == Ranges \ {x \in submitted : executed[x] = round}

FreeInv ==
  /\ FreeTypes
  /\ \A n \in Nodes : PlaceSound(n)
  /\ \A x \in Ranges : RangeSound(x)
  /\ QueuedWork
  /\ counter = Cardinality(Undone)

AllInv == IF version = "free list" THEN FreeInv ELSE AdderInv

-----------------------------------------------------------------------------
(***************************************************************************)
(* Constants, small sets and lists.                                        *)
(***************************************************************************)

LEMMA Constants ==
  /\ main \in Callers /\ Submitters \subseteq Callers /\ Waiter = main /\ main \notin Ranges
  /\ \A w \in Workers : w \notin Callers
  /\ Signallers = Ranges /\ Ranges \subseteq Work /\ IsFiniteSet(Ranges)
  /\ NULL \notin Work /\ NULL \in Entries /\ NoOwner \notin Callers
  /\ "pool" \in Mutexes /\ "latch" \in Mutexes
  /\ IsFiniteSet(Workers) /\ Workers # {}
BY ParAdderAssumption, ThreadPoolAssumption, LatchAssumption DEF Callers, Entries

LEMMA OneMinusOne == 1 - 1 = 0
OBVIOUS

LEMMA OneIsNotZero == 1 # 0
OBVIOUS

LEMMA OneMore ==
  ASSUME NEW n \in Nat, NEW p \in 0..n, p < n
  PROVE  p + 1 \in 0..n
OBVIOUS

LEMMA OneLess ==
  ASSUME NEW n \in Nat, ~(n > 1)
  PROVE  n - 1 <= 0
OBVIOUS

LEMMA OneAtMost ==
  ASSUME NEW S, \A a, b \in S : a = b
  PROVE  /\ S = {} => Cardinality(S) = 0
         /\ S # {} => Cardinality(S) = 1
<1>1. ASSUME S # {} PROVE Cardinality(S) = 1
  <2>1. PICK a \in S : TRUE
    BY <1>1
  <2>2. S = {a}
    BY <2>1
  <2>. QED BY <2>2, FS_Singleton
<1>. QED BY <1>1, FS_EmptySet

LEMMA Appended ==
  ASSUME NEW S, NEW s \in Seq(S), NEW e \in S
  PROVE  /\ Append(s, e) \in Seq(S)
         /\ \A x : InList(Append(s, e), x) <=> InList(s, x) \/ x = e
         /\ \A x : OnceIn(s, x) /\ (x = e => ~InList(s, x)) => OnceIn(Append(s, e), x)
         /\ Len(s) \in Nat /\ Len(Append(s, e)) = Len(s) + 1 /\ Append(s, e)[Len(s) + 1] = e
         /\ \A i \in 1..Len(s) : Append(s, e)[i] = s[i]
         /\ \A i \in 1..Len(Append(s, e)) : i \in 1..Len(s) \/ i = Len(s) + 1
         /\ \A i, j \in 1..Len(Append(s, e)) : i < j => i \in 1..Len(s)
<1>1. /\ Append(s, e) \in Seq(S) /\ Len(s) \in Nat /\ Len(Append(s, e)) = Len(s) + 1
      /\ \A i \in 1..Len(s) : Append(s, e)[i] = s[i]
      /\ Append(s, e)[Len(s) + 1] = e
  OBVIOUS
<1>2. /\ \A i \in 1..Len(Append(s, e)) : i \in 1..Len(s) \/ i = Len(s) + 1
      /\ \A i \in 1..Len(s) : i \in 1..Len(Append(s, e))
      /\ Len(s) + 1 \in 1..Len(Append(s, e))
      /\ \A i, j \in 1..Len(Append(s, e)) : i < j => i \in 1..Len(s)
  BY <1>1
<1>. QED BY <1>1, <1>2 DEF InList, OnceIn

LEMMA Taken ==
  ASSUME NEW S, NEW s \in Seq(S), s # <<>>
  PROVE  /\ Tail(s) \in Seq(S) /\ Head(s) \in S
         /\ \A x : InList(s, x) <=> InList(Tail(s), x) \/ x = Head(s)
         /\ \A x : OnceIn(s, x) => OnceIn(Tail(s), x)
         /\ OnceIn(s, Head(s)) => ~InList(Tail(s), Head(s))
<1>1. /\ Tail(s) \in Seq(S) /\ Head(s) \in S /\ Head(s) = s[1]
      /\ Len(s) \in Nat \ {0} /\ Len(Tail(s)) = Len(s) - 1
      /\ \A i \in 1..Len(Tail(s)) : Tail(s)[i] = s[i + 1] /\ i + 1 \in 1..Len(s) /\ i + 1 # 1
  OBVIOUS
<1>2. /\ 1 \in 1..Len(s)
      /\ \A i \in 1..Len(s) : i = 1 \/ (i - 1 \in 1..Len(Tail(s)) /\ i = (i - 1) + 1)
      /\ \A i, j \in 1..Len(Tail(s)) : i + 1 = j + 1 => i = j
  BY <1>1
<1>3. ASSUME NEW x PROVE InList(s, x) <=> InList(Tail(s), x) \/ x = Head(s)
  <2>1. ASSUME NEW i \in 1..Len(s), s[i] = x PROVE InList(Tail(s), x) \/ x = Head(s)
    <3>1. CASE i = 1
      BY <1>1, <2>1, <3>1
    <3>2. CASE i # 1
      <4>1. i - 1 \in 1..Len(Tail(s)) /\ (i - 1) + 1 = i
        BY <1>2, <3>2
      <4>2. Tail(s)[i - 1] = x
        BY <1>1, <2>1, <4>1
      <4>. QED BY <4>1, <4>2 DEF InList
    <3>. QED BY <3>1, <3>2
  <2>2. ASSUME NEW i \in 1..Len(Tail(s)), Tail(s)[i] = x PROVE InList(s, x)
    BY <1>1, <2>2 DEF InList
  <2>3. x = Head(s) => InList(s, x)
    BY <1>1, <1>2 DEF InList
  <2>. QED BY <2>1, <2>2, <2>3 DEF InList
<1>4. \A x : OnceIn(s, x) => OnceIn(Tail(s), x)
  BY <1>1, <1>2 DEF OnceIn
<1>5. OnceIn(s, Head(s)) => ~InList(Tail(s), Head(s))
  BY <1>1, <1>2 DEF OnceIn, InList
<1>. QED BY <1>1, <1>3, <1>4, <1>5

LEMMA TailEntries ==
  ASSUME NEW S, NEW s \in Seq(S), s # <<>>
  PROVE  /\ Len(s) \in Nat \ {0} /\ 1 \in 1..Len(s) /\ Head(s) = s[1]
         /\ \A i \in 1..Len(Tail(s)) : Tail(s)[i] = s[i + 1] /\ i + 1 \in 1..Len(s) /\ 1 < i + 1
         /\ \A i, j \in 1..Len(Tail(s)) : i < j => i + 1 < j + 1
OBVIOUS

LEMMA Prepended ==
  ASSUME NEW S, NEW s \in Seq(S), NEW e \in S
  PROVE  /\ <<e>> \o s \in Seq(S)
         /\ \A x : InList(<<e>> \o s, x) <=> InList(s, x) \/ x = e
         /\ \A x : OnceIn(s, x) /\ (x = e => ~InList(s, x)) => OnceIn(<<e>> \o s, x)
<1>1. /\ <<e>> \o s \in Seq(S) /\ Len(s) \in Nat /\ Len(<<e>> \o s) = Len(s) + 1
      /\ \A i \in 1..Len(s) : (<<e>> \o s)[i + 1] = s[i] /\ i + 1 \in 1..Len(<<e>> \o s)
      /\ (<<e>> \o s)[1] = e
  OBVIOUS
<1>2. /\ 1 \in 1..Len(<<e>> \o s)
      /\ \A i \in 1..Len(<<e>> \o s) : i = 1 \/ (i - 1 \in 1..Len(s) /\ i = (i - 1) + 1)
  BY <1>1
<1>3. ASSUME NEW x PROVE InList(<<e>> \o s, x) <=> InList(s, x) \/ x = e
  <2>1. ASSUME NEW i \in 1..Len(<<e>> \o s), (<<e>> \o s)[i] = x PROVE InList(s, x) \/ x = e
    BY <1>1, <1>2, <2>1 DEF InList
  <2>2. ASSUME NEW i \in 1..Len(s), s[i] = x PROVE InList(<<e>> \o s, x)
    BY <1>1, <2>2 DEF InList
  <2>3. x = e => InList(<<e>> \o s, x)
    BY <1>1, <1>2 DEF InList
  <2>. QED BY <2>1, <2>2, <2>3 DEF InList
<1>4. ASSUME NEW x, OnceIn(s, x), x = e => ~InList(s, x)
      PROVE  OnceIn(<<e>> \o s, x)
  <2>. SUFFICES ASSUME NEW i \in 1..Len(<<e>> \o s), NEW j \in 1..Len(<<e>> \o s),
                       (<<e>> \o s)[i] = x, (<<e>> \o s)[j] = x
                PROVE  i = j
    BY DEF OnceIn
  <2>1. CASE i = 1 \/ j = 1
    BY <1>1, <1>2, <1>4, <2>1 DEF InList
  <2>2. CASE i # 1 /\ j # 1
    <3>1. /\ i - 1 \in 1..Len(s) /\ j - 1 \in 1..Len(s)
          /\ s[i - 1] = x /\ s[j - 1] = x
      BY <1>1, <1>2, <2>2
    <3>2. i - 1 = j - 1
      BY <1>4, <3>1 DEF OnceIn
    <3>. QED BY <3>2
  <2>. QED BY <2>1, <2>2
<1>. QED BY <1>1, <1>3, <1>4

-----------------------------------------------------------------------------
(***************************************************************************)
(* What keeps each part of the invariant.                                  *)
(***************************************************************************)

LEMMA ItemsStay ==
  ASSUME Items, RangesSignal, UNCHANGED <<list, accepted, executed>>,
         \A r \in Ranges : at'[r] = at[r],
         \A w \in Workers : pc'[w] = "run" <=> pc[w] = "run",
         \A w \in Workers : item'[w] = item[w]
  PROVE  Items' /\ RangesSignal'
<1>1. \A x : (\A w \in Workers : Runs(w, x)' <=> Runs(w, x)) /\ (Runner(x)' <=> Runner(x))
  BY DEF Runs, Runner
<1>2. Items'
  <2>. SUFFICES ASSUME NEW x \in Work PROVE ItemSound(x)'
    BY DEF Items
  <2>1. ItemSound(x)
    BY DEF Items
  <2>. QED BY <1>1, <2>1 DEF ItemSound
<1>3. RangesSignal'
  BY <1>1 DEF RangesSignal
<1>. QED BY <1>2, <1>3

\* The queue stays, and nobody gets past the test once destroying is set.
LEMMA PillsStay ==
  ASSUME PilledSound, Ordered, Drained, UNCHANGED <<list, version>>,
         destroying = 1 => destroying' = 1,
         \A w \in Workers : pc'[w] = "ended" <=> pc[w] = "ended",
         \A t \in Callers : pc'[t] = "submit put" =>
           \/ destroying' = 0
           \/ pc[t] = "submit put" /\ (version = "early" => destroying' = destroying)
  PROVE  PilledSound' /\ Ordered' /\ Drained'
<1>1. Pilled' <=> Pilled
  BY DEF Pilled
<1>2. ASSUME Pilled PROVE destroying' = 1 /\ \A t \in Callers : pc'[t] # "submit put"
  <2>1. destroying = 1 /\ \A t \in Callers : pc[t] # "submit put"
    BY <1>2 DEF PilledSound
  <2>2. destroying' = 1
    BY <2>1, Zenon
  <2>. QED BY <2>1, <2>2, OneIsNotZero, Zenon
<1>3. version' = "early" => \A t \in Callers : pc'[t] = "submit put" => destroying' = 0
  BY DEF PilledSound
<1>4. Ordered' /\ Drained'
  BY DEF Ordered, Drained
<1>. QED BY <1>1, <1>2, <1>3, <1>4 DEF PilledSound

LEMMA SubmitsStay ==
  ASSUME Submits, UNCHANGED <<submitted, accepted>>,
         \A t \in Callers : pc'[t] = pc[t] /\ item'[t] = item[t]
  PROVE  Submits'
BY Constants DEF Submits

LEMMA DestroysStay ==
  ASSUME Destroys, UNCHANGED <<destroying, version, queue_gone, accepted>>,
         at'[main] = at[main],
         \A t \in Callers : pc'[t] = pc[t],
         \A w \in Workers : pc[w] = "ended" => pc'[w] = "ended"
  PROVE  Destroys'
BY Constants DEF Destroys

LEMMA LatchStays ==
  ASSUME LatchInv \/ EarlyLatchInv, UNCHANGED <<at, counter>>,
         owner'["latch"] = owner["latch"], owner' = [m \in Mutexes |-> owner'[m]]
  PROVE  (LatchInv => LatchInv') /\ (EarlyLatchInv => EarlyLatchInv')
<1>1. LatchTypes => LatchTypes'
  BY DEF LatchTypes
<1>2. Uncounted' = Uncounted /\ EarlyUncounted' = EarlyUncounted
  BY DEF Uncounted, EarlyUncounted
<1>3. (InsideLocked => InsideLocked') /\ (WaitsForAll => WaitsForAll')
  BY DEF InsideLocked, WaitsForAll
<1>4. (EarlyLast => EarlyLast') /\ (EarlyWaits => EarlyWaits')
  BY DEF EarlyLast, EarlyInside, EarlyWaits
<1>5. LatchInv => LatchInv'
  BY <1>1, <1>2, <1>3 DEF LatchInv
<1>6. EarlyLatchInv => EarlyLatchInv'
  BY <1>1, <1>2, <1>4 DEF EarlyLatchInv
<1>. QED BY <1>5, <1>6

-----------------------------------------------------------------------------
(***************************************************************************)
(* A thread that calls tp_submit or tp_destroy goes from one point to      *)
(* another, and locks or unlocks the mutex of the pool, or leaves it; the  *)
(* queue is as it was.                                                     *)
(***************************************************************************)

LEMMA CallerMoves ==
  ASSUME AdderInv, NEW t \in Callers, NEW to \in CallerPoints,
         pc' = [pc EXCEPT ![t] = to],
         UNCHANGED <<version, list, accepted, executed, pills, latchVars>>,
         owner' = [m \in Mutexes |-> owner'[m]], owner'["latch"] = owner["latch"],
         \/ owner'["pool"] = owner["pool"]
         \/ owner["pool"] \in {NoOwner, t} /\ owner'["pool"] \in {NoOwner, t},
         to \in {"submit test", "submit put", "submit unlock", "destroy put"} => owner'["pool"] = t,
         item' \in [Workers \cup Callers -> Entries],
         \A w \in Workers : item'[w] = item[w],
         submitted \subseteq submitted', submitted' \subseteq Work, queue_gone' \in BOOLEAN,
         destroying' \in {0, 1}, destroying = 1 => destroying' = 1,
         to = "submit put" => destroying' = 0,
         version = "early" /\ destroying' # destroying =>
           \A u \in Callers : pc[u] # "submit put",
         Submits', Destroys'
  PROVE  AdderInv'
<1>. USE Constants
<1>0. /\ PoolTypes /\ Locked /\ PilledSound /\ Ordered /\ Drained
      /\ Items /\ RangesSignal
      /\ (version = "current" => LatchInv) /\ (version = "early" => EarlyLatchInv)
  BY DEF AdderInv
<1>1. /\ pc'[t] = to
      /\ \A u \in Workers \cup Callers : u # t => pc'[u] = pc[u]
      /\ \A w \in Workers : pc'[w] = pc[w]
  BY <1>0 DEF PoolTypes
<1>2. PoolTypes'
  <2>1. owner'["pool"] \in Callers \cup {NoOwner}
    BY <1>0 DEF PoolTypes
  <2>2. /\ pc' \in [Workers \cup Callers -> WorkerPoints \cup CallerPoints]
        /\ \A u \in Callers : pc'[u] \in CallerPoints
    BY <1>0, <1>1 DEF PoolTypes
  <2>. QED BY <1>0, <1>1, <2>1, <2>2 DEF PoolTypes
<1>3. Locked'
  <2>. SUFFICES ASSUME NEW u \in Callers,
                       pc'[u] \in {"submit test", "submit put", "submit unlock", "destroy put"}
                PROVE  owner'["pool"] = u
    BY DEF Locked
  <2>1. CASE u = t
    BY <1>1, <2>1
  <2>2. CASE u # t
    <3>1. owner["pool"] = u
      BY <1>0, <1>1, <2>2 DEF Locked
    <3>2. u # NoOwner
      OBVIOUS
    <3>. QED BY <2>2, <3>1, <3>2
  <2>. QED BY <2>1, <2>2
<1>4. Items' /\ RangesSignal'
  BY <1>0, <1>1, ItemsStay DEF latchVars
<1>5. PilledSound' /\ Ordered' /\ Drained'
  <2>1. \A u \in Callers : pc'[u] = "submit put" =>
          \/ destroying' = 0
          \/ pc[u] = "submit put" /\ (version = "early" => destroying' = destroying)
    BY <1>1
  <2>. QED BY <1>0, <1>1, <2>1, PillsStay
<1>6. (version' = "current" => LatchInv') /\ (version' = "early" => EarlyLatchInv')
  BY <1>0, LatchStays DEF latchVars
<1>. QED BY <1>2, <1>3, <1>4, <1>5, <1>6 DEF AdderInv

-----------------------------------------------------------------------------
(***************************************************************************)
(* tp_submit.                                                              *)
(***************************************************************************)

LEMMA SubmitsMove ==
  ASSUME PoolTypes, Submits, NEW t \in Callers, NEW to \in CallerPoints,
         pc' = [pc EXCEPT ![t] = to], UNCHANGED <<submitted, accepted, item>>,
         to \in SubmitPoints => pc[t] \in SubmitPoints,
         t = main /\ pc[t] \in SubmitPoints => to \in SubmitPoints
  PROVE  Submits'
<1>1. /\ pc'[t] = to
      /\ \A u \in Callers : u # t => pc'[u] = pc[u]
      /\ \A u \in Callers : pc'[u] \in SubmitPoints => pc[u] \in SubmitPoints
  BY DEF PoolTypes
<1>2. \A u \in Callers :
        pc'[u] \in SubmitPoints => item[u] \in submitted \ accepted /\ (item[u] \in Ranges => u = main)
  BY <1>1 DEF Submits
<1>3. \A u, v \in Callers :
        pc'[u] \in SubmitPoints /\ pc'[v] \in SubmitPoints /\ item[u] = item[v] => u = v
  BY <1>1 DEF Submits
<1>4. \A r \in Ranges : r \in submitted \ accepted => pc'[main] \in SubmitPoints /\ item[main] = r
  BY <1>1, Constants DEF Submits
<1>. QED BY <1>2, <1>3, <1>4 DEF Submits

\* A thread moves that does not destroy the pool.
LEMMA DestroysMove ==
  ASSUME PoolTypes, Destroys, NEW t \in Callers, NEW to \in CallerPoints,
         pc' = [pc EXCEPT ![t] = to], UNCHANGED <<version, destroying, queue_gone, at>>,
         accepted \subseteq accepted',
         pc[t] \notin DestroyPoints, to \notin DestroyPoints
  PROVE  Destroys'
<1>1. /\ pc'[t] = to
      /\ \A u \in Callers : u # t => pc'[u] = pc[u]
      /\ \A w \in Workers : pc'[w] = pc[w]
  BY Constants DEF PoolTypes
<1>2. \A u \in Callers : pc'[u] \in DestroyPoints <=> pc[u] \in DestroyPoints
  BY <1>1
<1>3. \A u \in Callers, d \in DestroyPoints : pc'[u] = d <=> pc[u] = d
  BY <1>1
<1>4. main \in Callers /\ {"destroy lock", "destroy queue", "destroyed"} \subseteq DestroyPoints
  BY Constants DEF DestroyPoints
<1>5. /\ \A u \in Callers : pc'[u] \in DestroyPoints => u = main
      /\ pc'[main] \in DestroyPoints <=> pc[main] \in DestroyPoints
      /\ \A d \in {"destroy lock", "destroy queue", "destroyed"} : pc'[main] = d <=> pc[main] = d
  BY <1>2, <1>3, <1>4 DEF Destroys
<1>6. destroying' = 1 <=> /\ pc'[main] \in DestroyPoints
                          /\ version' = "early" => pc'[main] # "destroy lock"
  BY <1>5 DEF Destroys
<1>7. pc'[main] \in {"destroy queue", "destroyed"} => \A w \in Workers : pc'[w] = "ended"
  BY <1>1, <1>5 DEF Destroys
<1>8. /\ pc'[main] \in DestroyPoints => at'[main] = "destroyed"
      /\ queue_gone' => pc'[main] = "destroyed"
      /\ at'[main] # "client" => Ranges \subseteq accepted'
  BY <1>5 DEF Destroys
<1>. QED BY <1>5, <1>6, <1>7, <1>8 DEF Destroys

LEMMA SubmitKeeps ==
  ASSUME AdderInv, NEW t \in Callers, NEW x \in Work \ submitted, NEW to \in {"submit lock", "client"},
         x \in Ranges <=> t = main, to = "client" => destroying = 1,
         pc[t] = "client", pc' = [pc EXCEPT ![t] = to],
         submitted' = submitted \cup {x}, item' = [item EXCEPT ![t] = x],
         UNCHANGED <<version, owner, list, destroying, pills, accepted, executed, queue_gone, latchVars>>
  PROVE  AdderInv'
<1>. USE Constants
<1>0. PoolTypes /\ Submits /\ Destroys
  BY DEF AdderInv
<1>1. /\ item' \in [Workers \cup Callers -> Entries] /\ item'[t] = x
      /\ \A u \in Workers \cup Callers : u # t => item'[u] = item[u]
      /\ pc'[t] = to
      /\ \A u \in Callers : u # t => pc'[u] = pc[u]
  BY <1>0 DEF PoolTypes, Entries
<1>2. to \in CallerPoints \ DestroyPoints /\ pc[t] \notin DestroyPoints \cup SubmitPoints
  BY DEF CallerPoints, DestroyPoints, SubmitPoints
<1>3. x \notin accepted /\ submitted' \subseteq Work
  BY <1>0 DEF PoolTypes
<1>4. Submits'
  <2>1. \A u \in Callers :
          pc'[u] \in SubmitPoints => item'[u] \in submitted' \ accepted /\ (item'[u] \in Ranges => u = main)
    BY <1>0, <1>1, <1>3 DEF Submits
  <2>2. ASSUME NEW u \in Callers, u # t, pc'[u] \in SubmitPoints PROVE item'[u] # x
    <3>1. pc[u] \in SubmitPoints /\ item'[u] = item[u]
      BY <1>1, <2>2
    <3>2. item[u] \in submitted
      BY <1>0, <3>1 DEF Submits
    <3>. QED BY <3>1, <3>2
  <2>3. \A u, v \in Callers :
          pc'[u] \in SubmitPoints /\ pc'[v] \in SubmitPoints /\ item'[u] = item'[v] => u = v
    <3>. SUFFICES ASSUME NEW u \in Callers, NEW v \in Callers, pc'[u] \in SubmitPoints,
                         pc'[v] \in SubmitPoints, item'[u] = item'[v]
                  PROVE  u = v
      OBVIOUS
    <3>1. CASE u = t
      BY <1>1, <2>2, <3>1
    <3>2. CASE v = t
      BY <1>1, <2>2, <3>2
    <3>3. CASE u # t /\ v # t
      <4>1. pc[u] \in SubmitPoints /\ pc[v] \in SubmitPoints /\ item[u] = item[v]
        BY <1>1, <3>3
      <4>. QED BY <1>0, <4>1 DEF Submits
    <3>. QED BY <3>1, <3>2, <3>3
  <2>4. ASSUME NEW r \in Ranges, r \in submitted' \ accepted
        PROVE  pc'[main] \in SubmitPoints /\ item'[main] = r
    <3>1. CASE r = x
      <4>1. t = main /\ to # "client"
        BY <1>0, <1>2, <3>1 DEF Destroys
      <4>. QED BY <1>1, <3>1, <4>1 DEF SubmitPoints
    <3>2. CASE r # x
      <4>1. pc[main] \in SubmitPoints /\ item[main] = r
        BY <1>0, <2>4, <3>2 DEF Submits
      <4>2. t # main
        BY <1>2, <4>1
      <4>. QED BY <1>1, <4>1, <4>2
    <3>. QED BY <3>1, <3>2
  <2>. QED BY <2>1, <2>3, <2>4 DEF Submits
<1>5. Destroys'
  BY <1>0, <1>2, DestroysMove DEF latchVars
<1>6. owner' = [m \in Mutexes |-> owner'[m]] /\ \A w \in Workers : item'[w] = item[w]
  <2>1. owner = [m \in Mutexes |-> owner[m]] /\ owner' = owner
    BY <1>0 DEF PoolTypes
  <2>2. \A w \in Workers : item'[w] = item[w]
    BY <1>1
  <2>. QED BY <2>1, <2>2
<1>7. destroying' \in {0, 1} /\ queue_gone' \in BOOLEAN
  BY <1>0 DEF PoolTypes
<1>8. to \notin {"submit test", "submit put", "submit unlock", "destroy put"}
  OBVIOUS
<1>. QED BY <1>1, <1>2, <1>3, <1>4, <1>5, <1>6, <1>7, <1>8, CallerMoves DEF CallerPoints

LEMMA QueuePutKeeps ==
  ASSUME NEW x, QueuePut(x)
  PROVE  owner' = owner /\ list' = Append(list, x)
BY DEF QueuePut, CondSignal

\* The work item is queued, while no NULL item has been.
LEMMA SubmitPutKeeps ==
  ASSUME AdderInv, NEW t \in Callers, SubmitPut(t), UNCHANGED <<version, latchVars>>
  PROVE  AdderInv'
<1>. USE Constants
<1>0. /\ PoolTypes /\ Locked /\ Submits /\ Destroys /\ PilledSound /\ Ordered /\ Drained
      /\ Items /\ RangesSignal
      /\ (version = "current" => LatchInv) /\ (version = "early" => EarlyLatchInv)
  BY DEF AdderInv
<1>1. /\ pc[t] = "submit put" /\ pc' = [pc EXCEPT ![t] = "submit unlock"]
      /\ owner' = owner /\ list' = Append(list, item[t]) /\ accepted' = accepted \cup {item[t]}
      /\ UNCHANGED <<version, destroying, item, pills, submitted, executed, queue_gone, at, counter>>
  BY QueuePutKeeps DEF SubmitPut, Goes, latchVars
<1> DEFINE x == item[t]
<1>2. /\ pc[t] \in SubmitPoints /\ pc[t] \notin DestroyPoints /\ x \in submitted \ accepted
      /\ x \in Work /\ x \in Entries /\ x # NULL
  BY <1>0, <1>1 DEF Submits, SubmitPoints, DestroyPoints, PoolTypes, Entries
<1>3. /\ pc'[t] = "submit unlock"
      /\ \A u \in Workers \cup Callers : u # t => pc'[u] = pc[u]
      /\ \A w \in Workers : pc'[w] = pc[w]
  BY <1>0, <1>1 DEF PoolTypes
<1>a. list \in Seq(Entries)
  BY <1>0 DEF PoolTypes
<1>b. list' = Append(list, x)
  BY <1>1
<1> HIDE DEF x
<1>4. /\ list' \in Seq(Entries)
      /\ \A y : InList(list', y) <=> InList(list, y) \/ y = x
      /\ \A y : OnceIn(list, y) /\ (y = x => ~InList(list, y)) => OnceIn(list', y)
  BY <1>2, <1>a, <1>b, Appended
<1>5. /\ list'[Len(list) + 1] = x
      /\ \A i \in 1..Len(list) : list'[i] = list[i]
      /\ \A i \in 1..Len(list') : i \in 1..Len(list) \/ i = Len(list) + 1
  BY <1>2, <1>a, <1>b, Appended
<1> USE DEF x
<1>6. PoolTypes'
  BY <1>0, <1>1, <1>2, <1>3, <1>4 DEF PoolTypes, CallerPoints
<1>7. Locked'
  <2>1. owner["pool"] = t
    BY <1>0, <1>1 DEF Locked
  <2>. QED BY <1>0, <1>1, <1>3, <2>1 DEF Locked
<1>8. Submits'
  <2>1. \A u \in Callers :
          pc'[u] \in SubmitPoints => u # t /\ pc[u] \in SubmitPoints /\ item[u] # x
    BY <1>0, <1>2, <1>3 DEF Submits, SubmitPoints
  <2>2. \A u \in Callers :
          pc'[u] \in SubmitPoints => item[u] \in submitted \ accepted' /\ (item[u] \in Ranges => u = main)
    BY <1>0, <1>1, <2>1 DEF Submits
  <2>3. \A u, v \in Callers :
          pc'[u] \in SubmitPoints /\ pc'[v] \in SubmitPoints /\ item[u] = item[v] => u = v
    BY <1>0, <2>1 DEF Submits
  <2>4. ASSUME NEW r \in Ranges, r \in submitted \ accepted'
        PROVE  pc'[main] \in SubmitPoints /\ item[main] = r
    <3>1. pc[main] \in SubmitPoints /\ item[main] = r /\ r # x
      BY <1>0, <1>1, <2>4 DEF Submits
    <3>. QED BY <1>3, <3>1
  <2>. QED BY <1>1, <2>2, <2>3, <2>4 DEF Submits
<1>9. Destroys'
  BY <1>0, <1>1, <1>2, DestroysMove DEF CallerPoints, DestroyPoints
<1>10. PilledSound' /\ Ordered' /\ Drained'
  <2>1. ~Pilled
    BY <1>0, <1>1 DEF PilledSound
  <2>2. \A i \in 1..Len(list') : list'[i] # NULL
    BY <1>2, <1>5, <2>1 DEF Pilled
  <2>3. ~\E w \in Workers : pc'[w] = "ended"
    BY <1>3, <2>1 DEF Pilled
  <2>4. \A u \in Callers : pc'[u] = "submit put" => pc[u] = "submit put"
    BY <1>3
  <2>5. PilledSound'
    BY <1>0, <1>1, <2>2, <2>3, <2>4 DEF PilledSound, Pilled
  <2>. QED BY <2>2, <2>3, <2>5 DEF Ordered, Drained
<1>11. Items' /\ RangesSignal'
  <2>1. \A y : (\A w \in Workers : Runs(w, y)' <=> Runs(w, y)) /\ (Runner(y)' <=> Runner(y))
    BY <1>1, <1>3 DEF Runs, Runner
  <2>2. ASSUME NEW y \in Work PROVE ItemSound(y)'
    <3>1. ItemSound(y)
      BY <1>0 DEF Items
    <3>2. CASE y = x
      BY <1>1, <1>2, <1>4, <2>1, <3>1, <3>2 DEF ItemSound
    <3>3. CASE y # x
      BY <1>1, <1>4, <2>1, <3>1, <3>3 DEF ItemSound
    <3>. QED BY <3>2, <3>3
  <2>3. RangesSignal'
    BY <1>0, <1>1, <2>1 DEF RangesSignal
  <2>4. \A w \in Workers : pc'[w] = "run" => item'[w] \in Work
    BY <1>0, <1>1, <1>3 DEF Items
  <2>. QED BY <2>2, <2>3, <2>4 DEF Items
<1>12. (version' = "current" => LatchInv') /\ (version' = "early" => EarlyLatchInv')
  <2>1. owner' = [m \in Mutexes |-> owner'[m]] /\ owner'["latch"] = owner["latch"]
    BY <1>0, <1>1 DEF PoolTypes
  <2>. QED BY <1>0, <1>1, <2>1, LatchStays
<1>. QED BY <1>6, <1>7, <1>8, <1>9, <1>10, <1>11, <1>12 DEF AdderInv

LEMMA SubmitStepKeeps ==
  ASSUME AdderInv, NEW t \in Callers, SubmitStep(t), UNCHANGED <<version, latchVars>>
  PROVE  AdderInv'
<1>. USE Constants
<1>0. PoolTypes /\ Locked /\ Submits /\ Destroys /\ PilledSound
  BY DEF AdderInv
<1>a. /\ item \in [Workers \cup Callers -> Entries] /\ submitted \subseteq Work
      /\ queue_gone \in BOOLEAN /\ destroying \in {0, 1}
      /\ owner = [m \in Mutexes |-> owner[m]]
  BY <1>0 DEF PoolTypes
<1>b. "pool" # "latch"
  OBVIOUS
<1>1. CASE SubmitLock(t)
  <2>1. /\ pc[t] = "submit lock" /\ pc' = [pc EXCEPT ![t] = "submit test"]
        /\ owner["pool"] = NoOwner /\ owner' = [owner EXCEPT !["pool"] = t]
        /\ UNCHANGED <<list, destroying, item, pills, submitted, accepted, executed, queue_gone>>
    BY <1>1 DEF SubmitLock, Goes, Lock, counts
  <2>2. /\ owner' = [m \in Mutexes |-> owner'[m]] /\ owner'["latch"] = owner["latch"]
        /\ owner'["pool"] = t
    BY <1>a, <2>1
  <2>3. Submits' /\ Destroys'
    BY <1>0, <2>1, SubmitsMove, DestroysMove DEF CallerPoints, SubmitPoints, DestroyPoints, latchVars
  <2>. QED BY <1>a, <2>1, <2>2, <2>3, CallerMoves DEF CallerPoints, SubmitPoints
<1>2. CASE SubmitTest(t)
  <2>1. /\ pc[t] = "submit test"
        /\ UNCHANGED <<owner, list, destroying, item, pills, submitted, accepted, executed, queue_gone>>
    BY <1>2 DEF SubmitTest, Goes, counts
  <2>2. PICK to \in {"submit put", "submit unlock"} :
          /\ pc' = [pc EXCEPT ![t] = to]
          /\ to = "submit put" <=> destroying = 0
    BY <1>2 DEF SubmitTest, Goes
  <2>3. owner["pool"] = t
    BY <1>0, <2>1 DEF Locked
  <2>4. t = main => destroying = 0
    BY <1>0, <2>1, <1>a DEF Destroys, DestroyPoints
  <2>5. Submits' /\ Destroys'
    BY <1>0, <2>1, <2>2, <2>4, SubmitsMove, DestroysMove
       DEF CallerPoints, SubmitPoints, DestroyPoints, latchVars
  <2>. QED BY <1>a, <2>1, <2>2, <2>3, <2>5, CallerMoves DEF CallerPoints, SubmitPoints
<1>3. CASE SubmitPut(t)
  BY <1>3, SubmitPutKeeps
<1>4. CASE SubmitUnlock(t)
  <2>1. /\ pc[t] = "submit unlock" /\ pc' = [pc EXCEPT ![t] = "client"]
        /\ owner["pool"] = t /\ owner' = [owner EXCEPT !["pool"] = NoOwner]
        /\ UNCHANGED <<list, destroying, item, pills, submitted, accepted, executed, queue_gone>>
    BY <1>4 DEF SubmitUnlock, Goes, Unlock, counts
  <2>2. /\ owner' = [m \in Mutexes |-> owner'[m]] /\ owner'["latch"] = owner["latch"]
        /\ owner'["pool"] = NoOwner
    BY <1>a, <2>1
  <2>3. Submits' /\ Destroys'
    BY <1>0, <2>1, SubmitsMove, DestroysMove DEF CallerPoints, SubmitPoints, DestroyPoints, latchVars
  <2>. QED BY <1>a, <2>1, <2>2, <2>3, CallerMoves DEF CallerPoints, SubmitPoints
<1>. QED BY <1>1, <1>2, <1>3, <1>4 DEF SubmitStep

-----------------------------------------------------------------------------
(***************************************************************************)
(* tp_destroy, called by the main thread.                                  *)
(***************************************************************************)

LEMMA DestroyMoves ==
  ASSUME AdderInv, NEW to \in DestroyPoints, pc' = [pc EXCEPT ![main] = to],
         pc[main] \notin SubmitPoints, at[main] = "destroyed",
         UNCHANGED <<version, list, accepted, executed, pills, item, submitted, latchVars>>,
         owner' = [m \in Mutexes |-> owner'[m]], owner'["latch"] = owner["latch"],
         \/ owner'["pool"] = owner["pool"]
         \/ owner["pool"] \in {NoOwner, main} /\ owner'["pool"] \in {NoOwner, main},
         to = "destroy put" => owner'["pool"] = main,
         destroying' \in {0, 1}, destroying = 1 => destroying' = 1,
         destroying' = 1 <=> (version = "early" => to # "destroy lock"),
         version = "early" /\ destroying' # destroying => \A u \in Callers : pc[u] # "submit put",
         to \in {"destroy queue", "destroyed"} => \A w \in Workers : pc[w] = "ended",
         queue_gone' \in BOOLEAN, queue_gone' => to = "destroyed"
  PROVE  AdderInv'
<1>. USE Constants
<1>0. PoolTypes /\ Submits /\ Destroys
  BY DEF AdderInv
<1>1. to \in CallerPoints /\ to \notin SubmitPoints
  BY DEF CallerPoints, DestroyPoints, SubmitPoints
<1>2. Submits'
  BY <1>0, <1>1, SubmitsMove
<1>3. /\ pc'[main] = to
      /\ \A u \in Callers : u # main => pc'[u] = pc[u]
      /\ \A w \in Workers : pc'[w] = pc[w]
  BY <1>0 DEF PoolTypes
<1>4. Destroys'
  <2>1. \A u \in Callers : pc'[u] \in DestroyPoints => u = main
    BY <1>0, <1>3 DEF Destroys
  <2>2. Ranges \subseteq accepted /\ at' = at /\ accepted' = accepted
    BY <1>0 DEF Destroys, latchVars
  <2>3. destroying' = 1 <=> /\ pc'[main] \in DestroyPoints
                            /\ version' = "early" => pc'[main] # "destroy lock"
    BY <1>3
  <2>4. pc'[main] \in {"destroy queue", "destroyed"} => \A w \in Workers : pc'[w] = "ended"
    BY <1>3
  <2>. QED BY <1>3, <2>1, <2>2, <2>3, <2>4 DEF Destroys
<1>5. /\ item' \in [Workers \cup Callers -> Entries] /\ \A w \in Workers : item'[w] = item[w]
      /\ submitted \subseteq submitted' /\ submitted' \subseteq Work
  BY <1>0 DEF PoolTypes
<1>6. to \notin {"submit test", "submit put", "submit unlock"} /\ to # "submit put"
  BY DEF DestroyPoints
<1>. QED BY <1>1, <1>2, <1>4, <1>5, <1>6, CallerMoves

\* A NULL item is put, while no submitter is past its test.
LEMMA DestroyPutKeeps ==
  ASSUME AdderInv, DestroyPut(main), UNCHANGED <<version, latchVars>>
  PROVE  AdderInv'
<1>. USE Constants
<1>0. /\ PoolTypes /\ Locked /\ Submits /\ Destroys /\ PilledSound /\ Ordered /\ Drained
      /\ Items /\ RangesSignal
      /\ (version = "current" => LatchInv) /\ (version = "early" => EarlyLatchInv)
  BY DEF AdderInv
<1>1. /\ pc[main] = "destroy put" /\ pills < Cardinality(Workers) /\ pills' = pills + 1
      /\ owner' = owner /\ list' = Append(list, NULL)
      /\ UNCHANGED <<version, destroying, pc, item, submitted, accepted, executed, queue_gone, at, counter>>
  BY QueuePutKeeps DEF DestroyPut, counts, latchVars
<1>2. list \in Seq(Entries) /\ NULL \in Entries
  BY <1>0 DEF PoolTypes
<1>3. /\ list' \in Seq(Entries)
      /\ \A x : InList(list', x) <=> InList(list, x) \/ x = NULL
      /\ \A x : OnceIn(list, x) /\ (x = NULL => ~InList(list, x)) => OnceIn(list', x)
      /\ list'[Len(list) + 1] = NULL
      /\ \A i \in 1..Len(list) : list'[i] = list[i]
      /\ \A i \in 1..Len(list') : i \in 1..Len(list) \/ i = Len(list) + 1
      /\ \A i, j \in 1..Len(list') : i < j => i \in 1..Len(list)
  <2>1. list' = Append(list, NULL)
    BY <1>1
  <2>2. /\ Append(list, NULL) \in Seq(Entries)
        /\ \A x : InList(Append(list, NULL), x) <=> InList(list, x) \/ x = NULL
        /\ \A x : OnceIn(list, x) /\ (x = NULL => ~InList(list, x)) => OnceIn(Append(list, NULL), x)
    BY <1>2, Appended
  <2>3. /\ Append(list, NULL)[Len(list) + 1] = NULL
        /\ \A i \in 1..Len(list) : Append(list, NULL)[i] = list[i]
        /\ \A i \in 1..Len(Append(list, NULL)) : i \in 1..Len(list) \/ i = Len(list) + 1
        /\ \A i, j \in 1..Len(Append(list, NULL)) : i < j => i \in 1..Len(list)
    BY <1>2, Appended
  <2>. QED BY <2>1, <2>2, <2>3
<1>4. PoolTypes'
  <2>1. pills' \in 0..Cardinality(Workers)
    <3>1. Cardinality(Workers) \in Nat /\ pills \in 0..Cardinality(Workers)
      BY <1>0, FS_CardinalityType DEF PoolTypes
    <3>2. pills + 1 \in 0..Cardinality(Workers)
      BY <1>1, <3>1, OneMore
    <3>. QED BY <1>1, <3>2
  <2>. QED BY <1>0, <1>1, <1>3, <2>1 DEF PoolTypes
<1>5. destroying = 1 /\ \A t \in Callers : pc[t] # "submit put"
  BY <1>0, <1>1 DEF Destroys, Locked, DestroyPoints
<1>6. PilledSound' /\ Ordered' /\ Drained'
  <2>1. PilledSound'
    BY <1>1, <1>5 DEF PilledSound
  <2>2. ASSUME NEW i \in 1..Len(list'), NEW j \in 1..Len(list'), i < j, list'[i] = NULL
        PROVE  list'[j] = NULL
    <3>1. i \in 1..Len(list) /\ list[i] = NULL
      BY <1>3, <2>2
    <3>2. CASE j \in 1..Len(list)
      BY <1>0, <1>3, <2>2, <3>1, <3>2 DEF Ordered
    <3>. QED BY <1>3, <3>2
  <2>3. Drained'
    BY <1>0, <1>1, <1>3 DEF Drained
  <2>. QED BY <2>1, <2>2, <2>3 DEF Ordered
<1>7. Items' /\ RangesSignal'
  <2>1. \A y : (\A w \in Workers : Runs(w, y)' <=> Runs(w, y)) /\ (Runner(y)' <=> Runner(y))
    BY <1>1 DEF Runs, Runner
  <2>2. ASSUME NEW y \in Work PROVE ItemSound(y)'
    <3>1. ItemSound(y) /\ y # NULL
      BY <1>0 DEF Items
    <3>. QED BY <1>1, <1>3, <2>1, <3>1 DEF ItemSound
  <2>3. RangesSignal'
    BY <1>0, <1>1, <2>1 DEF RangesSignal
  <2>4. \A w \in Workers : pc'[w] = "run" => item'[w] \in Work
    BY <1>0, <1>1 DEF Items
  <2>. QED BY <2>2, <2>3, <2>4 DEF Items
<1>8. (version' = "current" => LatchInv') /\ (version' = "early" => EarlyLatchInv')
  <2>1. owner' = [m \in Mutexes |-> owner'[m]] /\ owner'["latch"] = owner["latch"]
    BY <1>0, <1>1 DEF PoolTypes
  <2>. QED BY <1>0, <1>1, <2>1, LatchStays
<1>9. Submits' /\ Destroys' /\ Locked'
  BY <1>0, <1>1, SubmitsStay, DestroysStay DEF Locked
<1>. QED BY <1>4, <1>6, <1>7, <1>8, <1>9 DEF AdderInv

\* tp_destroy of the current version.
LEMMA DestroyKeeps ==
  ASSUME AdderInv, version = "current", UNCHANGED <<version, latchVars>>,
         (at[main] = "destroyed" /\ Destroy(main)) \/ DestroyStep(main)
  PROVE  AdderInv'
<1>. USE Constants DEF DestroyPoints, SubmitPoints
<1>0. PoolTypes /\ Destroys
  BY DEF AdderInv
<1>a. /\ queue_gone \in BOOLEAN /\ destroying \in {0, 1}
      /\ owner = [m \in Mutexes |-> owner[m]] /\ "pool" # "latch"
      /\ (queue_gone => pc[main] = "destroyed")
  BY <1>0 DEF PoolTypes, Destroys
<1>1. CASE at[main] = "destroyed" /\ Destroy(main)
  <2>1. /\ pc[main] = "client" /\ destroying' = 1
        /\ UNCHANGED <<owner, list, item, pills, submitted, accepted, executed, queue_gone>>
    BY <1>1 DEF Destroy, Goes, counts
  <2>2. destroying = 0
    BY <1>a, <1>0, <2>1 DEF Destroys
  <2>3. pc' = [pc EXCEPT ![main] = "destroy lock"]
    BY <1>1, <2>2 DEF Destroy, Goes
  <2>. QED BY <1>a, <1>1, <2>1, <2>3, DestroyMoves
<1>2. CASE DestroyLock(main)
  <2>1. /\ pc[main] = "destroy lock" /\ pc' = [pc EXCEPT ![main] = "destroy put"]
        /\ owner["pool"] = NoOwner /\ owner' = [owner EXCEPT !["pool"] = main]
        /\ UNCHANGED <<list, destroying, item, pills, submitted, accepted, executed, queue_gone>>
    BY <1>2 DEF DestroyLock, Goes, Lock, counts
  <2>2. destroying = 1 /\ at[main] = "destroyed"
    BY <1>0, <2>1 DEF Destroys
  <2>3. /\ owner' = [m \in Mutexes |-> owner'[m]] /\ owner'["latch"] = owner["latch"]
        /\ owner'["pool"] = main
    BY <1>a, <2>1
  <2>. QED BY <1>a, <2>1, <2>2, <2>3, DestroyMoves
<1>3. CASE DestroyPut(main)
  BY <1>3, DestroyPutKeeps
<1>4. CASE DestroyUnlock(main)
  <2>1. /\ pc[main] = "destroy put" /\ pc' = [pc EXCEPT ![main] = "destroy join"]
        /\ owner["pool"] = main /\ owner' = [owner EXCEPT !["pool"] = NoOwner]
        /\ UNCHANGED <<list, destroying, item, pills, submitted, accepted, executed, queue_gone>>
    BY <1>4 DEF DestroyUnlock, Goes, Unlock, counts
  <2>2. destroying = 1 /\ at[main] = "destroyed"
    BY <1>0, <2>1 DEF Destroys
  <2>3. /\ owner' = [m \in Mutexes |-> owner'[m]] /\ owner'["latch"] = owner["latch"]
        /\ owner'["pool"] = NoOwner
    BY <1>a, <2>1
  <2>. QED BY <1>a, <2>1, <2>2, <2>3, DestroyMoves
<1>5. CASE DestroyJoin(main)
  <2>1. /\ pc[main] = "destroy join" /\ pc' = [pc EXCEPT ![main] = "destroy queue"]
        /\ \A w \in Workers : pc[w] = "ended"
        /\ UNCHANGED <<owner, list, destroying, item, pills, submitted, accepted, executed, queue_gone>>
    BY <1>5 DEF DestroyJoin, Goes, counts
  <2>2. destroying = 1 /\ at[main] = "destroyed"
    BY <1>0, <2>1 DEF Destroys
  <2>. QED BY <1>a, <2>1, <2>2, DestroyMoves
<1>6. CASE DestroyQueue(main)
  <2>1. /\ pc[main] = "destroy queue" /\ pc' = [pc EXCEPT ![main] = "destroyed"]
        /\ queue_gone' = TRUE
        /\ UNCHANGED <<owner, list, destroying, item, pills, submitted, accepted, executed>>
    BY <1>6 DEF DestroyQueue, Goes, counts
  <2>2. destroying = 1 /\ at[main] = "destroyed" /\ \A w \in Workers : pc[w] = "ended"
    BY <1>0, <2>1 DEF Destroys
  <2>. QED BY <1>a, <2>1, <2>2, DestroyMoves
<1>. QED BY <1>1, <1>2, <1>3, <1>4, <1>5, <1>6 DEF DestroyStep

\* tp_destroy of the early version.
LEMMA EarlyDestroyKeeps ==
  ASSUME AdderInv, version = "early", UNCHANGED <<version, latchVars>>,
         \/ at[main] = "destroyed" /\ EarlyDestroy(main)
         \/ EarlyDestroyLock(main) \/ DestroyPut(main) \/ EarlyDestroyJoin(main) \/ DestroyQueue(main)
  PROVE  AdderInv'
<1>. USE Constants DEF DestroyPoints, SubmitPoints
<1>0. PoolTypes /\ Locked /\ Destroys
  BY DEF AdderInv
<1>a. /\ queue_gone \in BOOLEAN /\ destroying \in {0, 1}
      /\ owner = [m \in Mutexes |-> owner[m]] /\ "pool" # "latch"
      /\ (queue_gone => pc[main] = "destroyed")
  BY <1>0 DEF PoolTypes, Destroys
<1>1. CASE at[main] = "destroyed" /\ EarlyDestroy(main)
  <2>1. /\ pc[main] = "client" /\ pc' = [pc EXCEPT ![main] = "destroy lock"]
        /\ UNCHANGED <<owner, list, destroying, item, pills, submitted, accepted, executed, queue_gone>>
    BY <1>1 DEF EarlyDestroy, Goes, counts
  <2>2. destroying = 0
    BY <1>a, <1>0, <2>1 DEF Destroys
  <2>3. destroying' \in {0, 1} /\ destroying' # 1
    <3>1. destroying' = 0
      BY <2>1, <2>2
    <3>. QED BY <3>1, OneIsNotZero
  <2>. QED BY <1>a, <1>1, <2>1, <2>2, <2>3, DestroyMoves
<1>2. CASE EarlyDestroyLock(main)
  <2>1. /\ pc[main] = "destroy lock" /\ destroying' = 1
        /\ owner["pool"] = NoOwner /\ owner' = [owner EXCEPT !["pool"] = main]
        /\ UNCHANGED <<list, item, pills, submitted, accepted, executed, queue_gone>>
    BY <1>2 DEF EarlyDestroyLock, Goes, Lock, counts
  <2>2. PICK to \in {"destroy put", "destroy join"} : pc' = [pc EXCEPT ![main] = to]
    BY <1>2 DEF EarlyDestroyLock, Goes
  <2>3. at[main] = "destroyed" /\ \A u \in Callers : pc[u] # "submit put"
    BY <1>0, <2>1 DEF Destroys, Locked
  <2>4. /\ owner' = [m \in Mutexes |-> owner'[m]] /\ owner'["latch"] = owner["latch"]
        /\ owner'["pool"] = main
    BY <1>a, <2>1
  <2>. QED BY <1>a, <2>1, <2>2, <2>3, <2>4, DestroyMoves
<1>3. CASE DestroyPut(main)
  BY <1>3, DestroyPutKeeps
<1>4. CASE EarlyDestroyJoin(main)
  <2>1. /\ pc[main] \in {"destroy put", "destroy join"} /\ pc' = [pc EXCEPT ![main] = "destroy queue"]
        /\ owner["pool"] = main /\ owner' = [owner EXCEPT !["pool"] = NoOwner]
        /\ \A w \in Workers : pc[w] = "ended"
        /\ UNCHANGED <<list, destroying, item, pills, submitted, accepted, executed, queue_gone>>
    BY <1>4 DEF EarlyDestroyJoin, Unlock, counts
  <2>2. destroying = 1 /\ at[main] = "destroyed"
    BY <1>0, <2>1 DEF Destroys
  <2>3. /\ owner' = [m \in Mutexes |-> owner'[m]] /\ owner'["latch"] = owner["latch"]
        /\ owner'["pool"] = NoOwner
    BY <1>a, <2>1
  <2>. QED BY <1>a, <2>1, <2>2, <2>3, DestroyMoves
<1>5. CASE DestroyQueue(main)
  <2>1. /\ pc[main] = "destroy queue" /\ pc' = [pc EXCEPT ![main] = "destroyed"]
        /\ queue_gone' = TRUE
        /\ UNCHANGED <<owner, list, destroying, item, pills, submitted, accepted, executed>>
    BY <1>5 DEF DestroyQueue, Goes, counts
  <2>2. destroying = 1 /\ at[main] = "destroyed" /\ \A w \in Workers : pc[w] = "ended"
    BY <1>0, <2>1 DEF Destroys
  <2>. QED BY <1>a, <2>1, <2>2, DestroyMoves
<1>. QED BY <1>1, <1>2, <1>3, <1>4, <1>5

-----------------------------------------------------------------------------
(***************************************************************************)
(* The workers.                                                            *)
(***************************************************************************)

\* A step that only wakes threads up, or puts them to sleep.
LEMMA NothingMoves ==
  ASSUME AdderInv, UNCHANGED <<version, owner, poolVars, latchVars>>
  PROVE  AdderInv'
<1>1. UNCHANGED <<version, owner, list, destroying, pc, item, pills, submitted, accepted, executed,
                  queue_gone, at, counter>>
  BY DEF poolVars, counts, latchVars
<1>2. PoolTypes' /\ Locked'
  BY <1>1 DEF AdderInv, PoolTypes, Locked
<1>3. PilledSound' /\ Ordered' /\ Drained'
  BY <1>1 DEF AdderInv, PilledSound, Pilled, Ordered, Drained
<1>4. Items' /\ RangesSignal'
  BY <1>1, ItemsStay DEF AdderInv
<1>5. Submits' /\ Destroys'
  BY <1>1, SubmitsStay, DestroysStay DEF AdderInv
<1>6. (version' = "current" => LatchInv') /\ (version' = "early" => EarlyLatchInv')
  BY <1>1, LatchStays DEF AdderInv, PoolTypes
<1>. QED BY <1>2, <1>3, <1>4, <1>5, <1>6 DEF AdderInv

\* What a worker's move to another point leaves alone.
LEMMA WorkerMoves ==
  ASSUME AdderInv, NEW w \in Workers, NEW to \in WorkerPoints,
         pc' = [pc EXCEPT ![w] = to], to = "loop" => version = "early",
         pc[w] # "ended",
         item' \in [Workers \cup Callers -> Entries], \A t \in Callers : item'[t] = item[t],
         list' \in Seq(Entries), executed' \in [Work -> Nat],
         UNCHANGED <<version, owner, destroying, pills, submitted, accepted, queue_gone, latchVars>>
  PROVE  /\ PoolTypes' /\ Locked' /\ Submits' /\ Destroys'
         /\ \A v \in Workers : v # w => pc'[v] = pc[v]
         /\ pc'[w] = to
         /\ \A t \in Callers : pc'[t] = pc[t]
         /\ version' = "current" => LatchInv'
         /\ version' = "early" => EarlyLatchInv'
<1>. USE Constants
<1>0. /\ PoolTypes /\ Locked /\ Submits /\ Destroys
      /\ (version = "current" => LatchInv) /\ (version = "early" => EarlyLatchInv)
  BY DEF AdderInv
<1>1. /\ pc'[w] = to
      /\ \A u \in Workers \cup Callers : u # w => pc'[u] = pc[u]
      /\ \A t \in Callers : pc'[t] = pc[t]
  BY <1>0 DEF PoolTypes
<1>2. /\ pc' \in [Workers \cup Callers -> WorkerPoints \cup CallerPoints]
      /\ \A v \in Workers : pc'[v] \in WorkerPoints
      /\ \A t \in Callers : pc'[t] \in CallerPoints
      /\ version = "current" => \A v \in Workers : pc'[v] # "loop"
  BY <1>0, <1>1 DEF PoolTypes
<1>3. PoolTypes'
  BY <1>0, <1>2 DEF PoolTypes
<1>4. Locked' /\ Submits'
  BY <1>0, <1>1, SubmitsStay DEF Locked
<1>5. Destroys'
  BY <1>0, <1>1, DestroysStay DEF latchVars
<1>6. (version' = "current" => LatchInv') /\ (version' = "early" => EarlyLatchInv')
  <2>1. owner' = [m \in Mutexes |-> owner'[m]] /\ owner'["latch"] = owner["latch"]
    BY <1>0 DEF PoolTypes
  <2>. QED BY <1>0, <2>1, LatchStays DEF latchVars
<1>. QED BY <1>1, <1>3, <1>4, <1>5, <1>6

\* The early version's worker goes on, or ends when the pool is being destroyed.
LEMMA LoopKeeps ==
  ASSUME AdderInv, version = "early", NEW w \in Workers, EarlyLoop(w), UNCHANGED <<version, latchVars>>
  PROVE  AdderInv'
<1>. USE Constants
<1>0. /\ PoolTypes /\ PilledSound /\ Ordered /\ Items /\ RangesSignal
  BY DEF AdderInv
<1>1. /\ pc[w] = "loop"
      /\ UNCHANGED <<owner, list, destroying, item, pills, submitted, accepted, executed, queue_gone, at>>
  BY DEF EarlyLoop, Goes, counts, latchVars
<1>2. PICK to \in {"get", "ended"} :
        pc' = [pc EXCEPT ![w] = to] /\ (to = "ended" => destroying # 0)
  BY DEF EarlyLoop, Goes
<1>3. /\ PoolTypes' /\ Locked' /\ Submits' /\ Destroys'
      /\ \A v \in Workers : v # w => pc'[v] = pc[v]
      /\ pc'[w] = to
      /\ \A t \in Callers : pc'[t] = pc[t]
      /\ version' = "current" => LatchInv'
      /\ version' = "early" => EarlyLatchInv'
  BY <1>0, <1>1, <1>2, WorkerMoves DEF PoolTypes, WorkerPoints
<1>4. Items' /\ RangesSignal'
  <2>1. \A v \in Workers : pc'[v] = "run" <=> pc[v] = "run"
    BY <1>1, <1>3
  <2>. QED BY <1>0, <1>1, <2>1, ItemsStay
<1>5. PilledSound' /\ Ordered' /\ Drained'
  <2>1. to = "ended" => destroying = 1 /\ \A t \in Callers : pc[t] # "submit put"
    BY <1>0, <1>2 DEF PilledSound, PoolTypes
  <2>2. Pilled' => destroying = 1 /\ \A t \in Callers : pc[t] # "submit put"
    BY <1>0, <1>1, <1>3, <2>1 DEF PilledSound, Pilled
  <2>3. PilledSound'
    BY <1>0, <1>1, <1>3, <2>2 DEF PilledSound
  <2>. QED BY <1>0, <1>1, <2>3 DEF Ordered, Drained
<1>. QED BY <1>3, <1>4, <1>5 DEF AdderInv

\* An item's function returns.
LEMMA ExecuteKeeps ==
  ASSUME AdderInv, NEW w \in Workers, NEW to \in {"get", "loop"},
         to = "loop" => version = "early",
         item[w] \in Ranges => at[item[w]] = "signalled",
         pc[w] = "run", pc' = [pc EXCEPT ![w] = to],
         executed' = [executed EXCEPT ![item[w]] = @ + 1],
         UNCHANGED <<version, owner, list, destroying, item, pills, submitted, accepted, queue_gone, latchVars>>
  PROVE  AdderInv'
<1>. USE Constants
<1>0. /\ PoolTypes /\ PilledSound /\ Ordered /\ Drained /\ Items /\ RangesSignal
  BY DEF AdderInv
<1> DEFINE x == item[w]
<1>1. x \in Work
  BY <1>0 DEF Items
<1>2. Runs(w, x) /\ executed[x] = 0 /\ ItemSound(x) /\ x \in accepted /\ ~InList(list, x)
  BY <1>0, <1>1 DEF Items, ItemSound, Runs, Runner
<1>3. /\ executed' \in [Work -> Nat] /\ executed'[x] = 1
      /\ \A y \in Work : y # x => executed'[y] = executed[y]
  BY <1>0, <1>1, <1>2 DEF PoolTypes
<1>4. /\ PoolTypes' /\ Locked' /\ Submits' /\ Destroys'
      /\ \A v \in Workers : v # w => pc'[v] = pc[v]
      /\ pc'[w] = to
      /\ \A t \in Callers : pc'[t] = pc[t]
      /\ version' = "current" => LatchInv'
      /\ version' = "early" => EarlyLatchInv'
  BY <1>0, <1>3, WorkerMoves DEF PoolTypes, WorkerPoints
<1>5. PilledSound' /\ Ordered' /\ Drained'
  BY <1>0, <1>4, PillsStay
<1>6. \A y : \A v \in Workers : Runs(v, y)' <=> Runs(v, y) /\ v # w
  BY <1>4 DEF Runs
<1>7. ~Runner(x)' /\ \A y : y # x => (Runner(y)' <=> Runner(y))
  BY <1>2, <1>6 DEF Runner, Runs, ItemSound
<1>8. Items'
  <2>0. \A v \in Workers : pc'[v] = "run" => item'[v] \in Work
    BY <1>0, <1>4 DEF Items
  <2>. SUFFICES ASSUME NEW y \in Work PROVE ItemSound(y)'
    BY <2>0 DEF Items
  <2>1. ItemSound(y)
    BY <1>0 DEF Items
  <2>2. CASE y = x
    BY <1>2, <1>3, <1>6, <1>7, <2>1, <2>2 DEF ItemSound
  <2>3. CASE y # x
    BY <1>3, <1>6, <1>7, <2>1, <2>3 DEF ItemSound
  <2>. QED BY <2>2, <2>3
<1>9. RangesSignal'
  BY <1>0, <1>3, <1>7 DEF RangesSignal, latchVars
<1>. QED BY <1>4, <1>5, <1>8, <1>9 DEF AdderInv

\* The first entry of the queue goes to a worker, which ends if it is NULL.
LEMMA GetKeeps ==
  ASSUME AdderInv, NEW w \in Workers, QueueGet(w), UNCHANGED <<version, latchVars>>
  PROVE  AdderInv'
<1>. USE Constants
<1>0. /\ PoolTypes /\ PilledSound /\ Ordered /\ Drained /\ Items /\ RangesSignal
  BY DEF AdderInv
<1> DEFINE x == Head(list)
<1> DEFINE to == IF x = NULL THEN "ended" ELSE "run"
<1>1. /\ pc[w] = "get" /\ pc' = [pc EXCEPT ![w] = to]
      /\ list # <<>> /\ list' = Tail(list) /\ item' = [item EXCEPT ![w] = x]
      /\ UNCHANGED <<version, owner, destroying, pills, submitted, accepted, executed, queue_gone, at>>
  BY DEF QueueGet, Goes, counts, latchVars
<1>2. list \in Seq(Entries)
  BY <1>0 DEF PoolTypes
<1>3. /\ Tail(list) \in Seq(Entries) /\ x \in Entries
      /\ \A y : InList(list, y) <=> InList(Tail(list), y) \/ y = x
      /\ \A y : OnceIn(list, y) => OnceIn(Tail(list), y)
      /\ OnceIn(list, x) => ~InList(Tail(list), x)
  BY <1>1, <1>2, Taken
<1>4. /\ Len(list) \in Nat \ {0} /\ 1 \in 1..Len(list) /\ x = list[1]
      /\ \A i \in 1..Len(Tail(list)) :
           Tail(list)[i] = list[i + 1] /\ i + 1 \in 1..Len(list) /\ 1 < i + 1
      /\ \A i, j \in 1..Len(Tail(list)) : i < j => i + 1 < j + 1
  BY <1>1, <1>2, TailEntries
<1> HIDE DEF x
<1>5. /\ item' \in [Workers \cup Callers -> Entries] /\ item'[w] = x
      /\ \A t \in Callers : item'[t] = item[t]
      /\ \A v \in Workers : v # w => item'[v] = item[v]
  BY <1>0, <1>1, <1>3 DEF PoolTypes
<1>6. /\ PoolTypes' /\ Locked' /\ Submits' /\ Destroys'
      /\ \A v \in Workers : v # w => pc'[v] = pc[v]
      /\ pc'[w] = to
      /\ \A t \in Callers : pc'[t] = pc[t]
      /\ version' = "current" => LatchInv'
      /\ version' = "early" => EarlyLatchInv'
  BY <1>0, <1>1, <1>3, <1>5, WorkerMoves DEF PoolTypes, WorkerPoints
<1>7. \A v \in Workers : pc'[v] = "ended" => pc[v] = "ended" \/ x = NULL
  BY <1>6
<1>8. PilledSound'
  <2>1. Pilled' => Pilled
    <3>1. ASSUME NEW i \in 1..Len(list'), list'[i] = NULL PROVE Pilled
      BY <1>1, <1>4, <3>1 DEF Pilled
    <3>2. ASSUME NEW v \in Workers, pc'[v] = "ended" PROVE Pilled
      BY <1>4, <1>7, <3>2 DEF Pilled
    <3>. QED BY <3>1, <3>2 DEF Pilled
  <2>. QED BY <1>0, <1>1, <1>6, <2>1 DEF PilledSound
<1>9. Ordered'
  <2>. SUFFICES ASSUME NEW i \in 1..Len(list'), NEW j \in 1..Len(list'), i < j, list'[i] = NULL
                PROVE  list'[j] = NULL
    BY DEF Ordered
  <2>1. i \in 1..Len(Tail(list)) /\ j \in 1..Len(Tail(list))
    BY <1>1
  <2>2. list[i + 1] = NULL /\ i + 1 < j + 1 /\ i + 1 \in 1..Len(list) /\ j + 1 \in 1..Len(list)
    BY <1>1, <1>4, <2>1
  <2>3. list[j + 1] = NULL
    BY <1>0, <2>2 DEF Ordered
  <2>. QED BY <1>1, <1>4, <2>1, <2>3
<1>10. Drained'
  <2>. SUFFICES ASSUME version = "current", NEW v \in Workers, pc'[v] = "ended",
                       NEW i \in 1..Len(list')
                PROVE  list'[i] = NULL
    BY <1>1 DEF Drained
  <2>1. i \in 1..Len(Tail(list))
    BY <1>1
  <2>2. i + 1 \in 1..Len(list) /\ 1 < i + 1 /\ list'[i] = list[i + 1]
    BY <1>1, <1>4, <2>1
  <2>3. CASE pc[v] = "ended"
    BY <1>0, <2>2, <2>3 DEF Drained
  <2>4. CASE x = NULL
    BY <1>0, <1>4, <2>2, <2>4 DEF Ordered
  <2>. QED BY <1>7, <2>3, <2>4
<1>11. \A y \in Work, v \in Workers : Runs(v, y)' <=> Runs(v, y) \/ (v = w /\ y = x)
  BY <1>1, <1>5, <1>6 DEF Runs
<1>12. Items'
  <2>0. \A v \in Workers : pc'[v] = "run" => item'[v] \in Work
    BY <1>0, <1>3, <1>5, <1>6 DEF Items, Entries
  <2>. SUFFICES ASSUME NEW y \in Work PROVE ItemSound(y)'
    BY <2>0 DEF Items
  <2>1. ItemSound(y)
    BY <1>0 DEF Items
  <2>2. CASE y = x
    <3>1. InList(list, y) /\ ~Runner(y) /\ ~InList(list', y) /\ OnceIn(list', y)
      BY <1>1, <1>3, <2>1, <2>2 DEF ItemSound
    <3>2. Runner(y)' /\ \A v \in Workers : Runs(v, y)' => v = w
      BY <1>11, <2>2, <3>1 DEF Runner
    <3>. QED BY <1>1, <2>1, <3>1, <3>2 DEF ItemSound
  <2>3. CASE y # x
    <3>1. \A v \in Workers : Runs(v, y)' <=> Runs(v, y)
      BY <1>11, <2>3
    <3>2. Runner(y)' <=> Runner(y)
      BY <3>1 DEF Runner
    <3>3. (InList(list', y) <=> InList(list, y)) /\ OnceIn(list', y)
      BY <1>1, <1>3, <2>1, <2>3 DEF ItemSound
    <3>. QED BY <1>1, <2>1, <3>1, <3>2, <3>3 DEF ItemSound
  <2>. QED BY <2>2, <2>3
<1>13. RangesSignal'
  BY <1>0, <1>1, <1>11 DEF RangesSignal, Runner
<1>. QED BY <1>6, <1>8, <1>9, <1>10, <1>12, <1>13 DEF AdderInv

-----------------------------------------------------------------------------
(***************************************************************************)
(* The latch of the current version.                                       *)
(***************************************************************************)

LEMMA UncountedFinite ==
  ASSUME NEW S, S \subseteq Signallers
  PROVE  /\ IsFiniteSet(S)
         /\ Cardinality(S) \in Nat /\ Cardinality(S) <= Cardinality(Signallers)
         /\ Cardinality(S) <= 0 => S = {}
<1>1. IsFiniteSet(S) /\ Cardinality(S) <= Cardinality(Signallers)
  BY FS_Subset, LatchAssumption
<1>2. Cardinality(S) \in Nat
  BY <1>1, FS_CardinalityType
<1>3. Cardinality(S) <= 0 => Cardinality(S) = 0
  BY <1>2
<1>. QED BY <1>1, <1>2, <1>3, FS_EmptySet

LEMMA SignalKeeps ==
  ASSUME LatchInv, NEW t \in Signallers, SignalStep(t)
  PROVE  LatchInv'
<1>. USE DEF LatchTypes, LatchPoints, InsideLocked, WaitsForAll, At
<1>. USE LatchAssumption
<1>0. LatchTypes /\ counter = Cardinality(Uncounted) /\ InsideLocked /\ WaitsForAll
  BY DEF LatchInv
<1>1. CASE SignalLock(t)
  <2>1. Uncounted' = Uncounted /\ counter' = counter
    BY <1>0, <1>1 DEF SignalLock, Uncounted
  <2>2. LatchTypes' /\ InsideLocked' /\ WaitsForAll'
    BY <1>0, <1>1 DEF SignalLock, Lock
  <2>. QED BY <1>0, <2>1, <2>2 DEF LatchInv
<1>2. CASE SignalCount(t)
  <2>1. Uncounted' = Uncounted \ {t} /\ t \in Uncounted /\ Uncounted \subseteq Signallers
    BY <1>0, <1>2 DEF SignalCount, Uncounted
  <2>2. Cardinality(Uncounted') = Cardinality(Uncounted) - 1
    BY <2>1, UncountedFinite, FS_RemoveElement
  <2>3. counter' = Cardinality(Uncounted')
    BY <1>0, <1>2, <2>2 DEF SignalCount
  <2>4. owner' = owner
    BY <1>2 DEF SignalCount, CondBroadcast
  <2>5. LatchTypes' /\ InsideLocked' /\ WaitsForAll'
    BY <1>0, <1>2, <2>4 DEF SignalCount
  <2>. QED BY <2>3, <2>5 DEF LatchInv
<1>3. CASE SignalUnlock(t)
  <2>1. Uncounted' = Uncounted /\ counter' = counter
    BY <1>0, <1>3 DEF SignalUnlock, Uncounted
  <2>2. LatchTypes' /\ InsideLocked' /\ WaitsForAll'
    BY <1>0, <1>3 DEF SignalUnlock, Unlock
  <2>. QED BY <1>0, <2>1, <2>2 DEF LatchInv
<1>. QED BY <1>1, <1>2, <1>3 DEF SignalStep

LEMMA WaitKeeps ==
  ASSUME LatchInv, WaitStep(Waiter)
  PROVE  LatchInv'
<1>. USE DEF LatchTypes, LatchPoints, InsideLocked, WaitsForAll, At
<1>. USE LatchAssumption
<1>0. LatchTypes /\ counter = Cardinality(Uncounted) /\ InsideLocked /\ WaitsForAll
  BY DEF LatchInv
<1>1. /\ counter' = counter
      /\ \A t \in Signallers : at'[t] = at[t]
      /\ at' \in [Signallers \cup {Waiter} -> LatchPoints]
  BY <1>0 DEF WaitStep, WaitLock, WaitRelock, WaitBlock, WaitReturn, LatchDestroy, latchVars
<1>2. counter' = Cardinality(Uncounted')
  <2>1. Uncounted' = Uncounted
    BY <1>1 DEF Uncounted
  <2>. QED BY <1>0, <1>1, <2>1
<1>3. CASE WaitLock(Waiter) \/ WaitRelock(Waiter)
  <2>1. /\ owner["latch"] = NoOwner /\ owner' = [owner EXCEPT !["latch"] = Waiter]
        /\ at'[Waiter] = "wait"
    BY <1>0, <1>3 DEF WaitLock, WaitRelock, Lock, latchVars
  <2>2. LatchTypes'
    BY <1>0, <1>1, <2>1
  <2>3. \A t \in Signallers : at[t] \notin {"signal count", "signal unlock"}
    BY <1>0, <2>1
  <2>4. InsideLocked' /\ WaitsForAll'
    BY <1>0, <1>1, <2>1, <2>3
  <2>. QED BY <1>2, <2>2, <2>4 DEF LatchInv
<1>4. CASE WaitBlock(Waiter)
  BY <1>0, <1>1, <1>2, <1>4 DEF WaitBlock, CondWait, latchVars, LatchInv
<1>5. CASE WaitReturn(Waiter)
  <2>1. Uncounted = {}
    BY <1>0, <1>5, UncountedFinite DEF WaitReturn, Uncounted
  <2>2. owner["latch"] = Waiter
    BY <1>5 DEF WaitReturn, Unlock
  <2>3. \A t \in Signallers : at[t] = "signalled"
    BY <1>0, <2>1, <2>2 DEF Uncounted
  <2>. QED BY <1>0, <1>1, <1>2, <1>5, <2>3 DEF WaitReturn, Unlock, LatchInv
<1>6. CASE LatchDestroy(Waiter)
  BY <1>0, <1>1, <1>2, <1>6 DEF LatchDestroy, LatchInv
<1>. QED BY <1>3, <1>4, <1>5, <1>6 DEF WaitStep

-----------------------------------------------------------------------------
(***************************************************************************)
(* The latch of the early version.                                         *)
(***************************************************************************)

LEMMA EarlySignalKeeps ==
  ASSUME EarlyLatchInv, NEW t \in Signallers, EarlySignalStep(t)
  PROVE  EarlyLatchInv'
<1>. USE DEF LatchTypes, LatchPoints, EarlyLast, EarlyInside, EarlyWaits, At
<1>. USE LatchAssumption
<1>0. LatchTypes /\ counter = Cardinality(EarlyUncounted) /\ EarlyLast /\ EarlyWaits
  BY DEF EarlyLatchInv
<1>1. CASE EarlySignal(t)
  <2>1. EarlyUncounted' = EarlyUncounted \ {t} /\ t \in EarlyUncounted /\ EarlyUncounted \subseteq Signallers
    BY <1>0, <1>1 DEF EarlySignal, EarlyUncounted
  <2>2. IsFiniteSet(EarlyUncounted') /\ Cardinality(EarlyUncounted') = Cardinality(EarlyUncounted) - 1
    BY <2>1, UncountedFinite, FS_RemoveElement
  <2>3. counter' = Cardinality(EarlyUncounted')
    BY <1>0, <1>1, <2>2 DEF EarlySignal
  <2>4. at[t] = "client" /\ \A u \in Signallers : ~EarlyInside(u)
    BY <1>0, <1>1 DEF EarlySignal
  <2>5. owner' = owner /\ \A u \in Signallers : u # t => at'[u] = at[u]
    BY <1>0, <1>1 DEF EarlySignal
  <2>6. LatchTypes' /\ EarlyWaits'
    BY <1>0, <1>1 DEF EarlySignal
  <2>7. CASE counter > 1
    BY <1>0, <1>1, <2>3, <2>4, <2>5, <2>6, <2>7 DEF EarlySignal, EarlyLatchInv
  <2>8. CASE ~(counter > 1)
    <3>1. Cardinality(EarlyUncounted') \in Nat /\ Cardinality(EarlyUncounted) \in Nat
      BY <2>1, UncountedFinite
    <3>2. Cardinality(EarlyUncounted') <= 0
      <4>1. Cardinality(EarlyUncounted) - 1 <= 0
        BY <1>0, <2>8, <3>1, OneLess
      <4>. QED BY <2>2, <4>1
    <3>3. EarlyUncounted' = {}
      BY <3>1, <3>2, <2>1, UncountedFinite
    <3>4. \A u \in Signallers : at'[u] # "client"
      BY <3>3 DEF EarlyUncounted
    <3>5. EarlyLast'
      BY <2>4, <2>5, <3>4
    <3>. QED BY <2>3, <2>6, <3>5 DEF EarlyLatchInv
  <2>. QED BY <2>7, <2>8
<1>2. CASE EarlySignalLock(t) \/ EarlySignalBroadcast(t) \/ SignalUnlock(t)
  <2>1. /\ EarlyInside(t) /\ at'[t] # "client" /\ counter' = counter
        /\ \A u \in Signallers : u # t => at'[u] = at[u]
        /\ at'[Waiter] = at[Waiter]
    BY <1>0, <1>2 DEF EarlySignalLock, EarlySignalBroadcast, SignalUnlock
  <2>2. EarlyUncounted' = EarlyUncounted
    BY <2>1 DEF EarlyUncounted
  <2>3. LatchTypes'
    <3>1. owner' = [m \in Mutexes |-> owner'[m]]
      BY <1>0, <1>2
         DEF EarlySignalLock, EarlySignalBroadcast, SignalUnlock, Lock, Unlock, CondBroadcast
    <3>2. at' \in [Signallers \cup {Waiter} -> LatchPoints]
      BY <1>0, <1>2 DEF EarlySignalLock, EarlySignalBroadcast, SignalUnlock
    <3>3. at'[t] \in {"client", "signal lock", "signal count", "signal unlock", "signalled"}
      BY <1>0, <1>2 DEF EarlySignalLock, EarlySignalBroadcast, SignalUnlock
    <3>. QED BY <1>0, <2>1, <3>1, <3>2, <3>3
  <2>4. EarlyLast' /\ EarlyWaits'
    BY <1>0, <2>1
  <2>. QED BY <1>0, <2>1, <2>2, <2>3, <2>4 DEF EarlyLatchInv
<1>. QED BY <1>1, <1>2 DEF EarlySignalStep

LEMMA EarlyWaitKeeps ==
  ASSUME EarlyLatchInv, EarlyWaitStep(Waiter)
  PROVE  EarlyLatchInv'
<1>. USE DEF LatchTypes, LatchPoints, EarlyLast, EarlyInside, EarlyWaits, At
<1>. USE LatchAssumption
<1>0. LatchTypes /\ counter = Cardinality(EarlyUncounted) /\ EarlyLast /\ EarlyWaits
  BY DEF EarlyLatchInv
<1>1. /\ counter' = counter
      /\ \A t \in Signallers : at'[t] = at[t]
      /\ at' \in [Signallers \cup {Waiter} -> LatchPoints]
  BY <1>0 DEF EarlyWaitStep, WaitLock, WaitRelock, WaitReturn, EarlyWaitTest, EarlyWaitBlock,
              EarlyReturn, LatchDestroy, latchVars
<1>2. owner' = [m \in Mutexes |-> owner'[m]]
  BY <1>0 DEF EarlyWaitStep, WaitLock, WaitRelock, WaitReturn, EarlyWaitTest, EarlyWaitBlock,
              EarlyReturn, LatchDestroy, Lock, Unlock, CondWait
<1>3. EarlyUncounted' = EarlyUncounted
  BY <1>1 DEF EarlyUncounted
<1>4. EarlyLast'
  BY <1>0, <1>1
<1>5. EarlyWaits'
  <2>1. CASE WaitReturn(Waiter)
    <3>1. EarlyUncounted = {}
      BY <1>0, <2>1, UncountedFinite DEF WaitReturn, EarlyUncounted
    <3>. QED BY <1>1, <3>1 DEF EarlyUncounted
  <2>2. CASE EarlyReturn(Waiter)
    BY <1>0, <1>1, <2>2 DEF EarlyReturn, LatchDestroy
  <2>3. CASE WaitLock(Waiter) \/ WaitRelock(Waiter) \/ EarlyWaitTest(Waiter) \/ EarlyWaitBlock(Waiter)
    BY <1>0, <1>1, <2>3 DEF WaitLock, WaitRelock, EarlyWaitTest, EarlyWaitBlock, latchVars
  <2>. QED BY <2>1, <2>2, <2>3 DEF EarlyWaitStep
<1>. QED BY <1>0, <1>1, <1>2, <1>3, <1>4, <1>5 DEF EarlyLatchInv

-----------------------------------------------------------------------------
(***************************************************************************)
(* The latch's steps in the adder.                                         *)
(***************************************************************************)

LEMMA LatchMoves ==
  ASSUME AdderInv, UNCHANGED <<version, poolVars>>,
         owner' = [m \in Mutexes |-> owner'[m]], owner'["pool"] = owner["pool"],
         \A r \in Ranges : at'[r] # "client" => at[r] # "client" \/ Runner(r),
         pc[main] \in DestroyPoints => at'[main] = "destroyed",
         at'[main] # "client" => Ranges \subseteq accepted,
         version = "current" => LatchInv',
         version = "early" => EarlyLatchInv'
  PROVE  AdderInv'
<1>0. /\ PoolTypes /\ Locked /\ Submits /\ Destroys
      /\ PilledSound /\ Ordered /\ Drained /\ Items /\ RangesSignal
  BY DEF AdderInv
<1>1. UNCHANGED <<version, list, destroying, pc, item, pills, submitted, accepted, executed, queue_gone>>
  BY DEF poolVars, counts
<1>2. PoolTypes' /\ Locked'
  BY <1>0, <1>1 DEF PoolTypes, Locked
<1>3. PilledSound' /\ Ordered' /\ Drained'
  BY <1>0, <1>1 DEF PilledSound, Pilled, Ordered, Drained
<1>4. \A y : Runner(y)' <=> Runner(y)
  BY <1>1 DEF Runner, Runs
<1>5. Items' /\ RangesSignal'
  <2>1. \A y : \A w \in Workers : Runs(w, y)' <=> Runs(w, y)
    BY <1>1 DEF Runs
  <2>2. Items'
    <3>0. \A v \in Workers : pc'[v] = "run" => item'[v] \in Work
      BY <1>0, <1>1 DEF Items
    <3>. SUFFICES ASSUME NEW x \in Work PROVE ItemSound(x)'
      BY <3>0 DEF Items
    <3>1. ItemSound(x)
      BY <1>0 DEF Items
    <3>. QED BY <1>1, <1>4, <2>1, <3>1 DEF ItemSound
  <2>3. RangesSignal'
    BY <1>0, <1>1, <1>4 DEF RangesSignal
  <2>. QED BY <2>2, <2>3
<1>6. Submits'
  BY <1>0, <1>1, SubmitsStay
<1>7. Destroys'
  BY <1>0, <1>1 DEF Destroys
<1>. QED BY <1>1, <1>2, <1>3, <1>5, <1>6, <1>7 DEF AdderInv

\* What a step of the latch does to the mutexes.
LEMMA LatchOwner ==
  ASSUME owner = [m \in Mutexes |-> owner[m]], NEW t, NEW u,
         SignalStep(t) \/ EarlySignalStep(t) \/ WaitStep(u) \/ EarlyWaitStep(u)
  PROVE  owner' = [m \in Mutexes |-> owner'[m]] /\ owner'["pool"] = owner["pool"]
<1>1. \/ owner' = owner
      \/ \E v : owner' = [owner EXCEPT !["latch"] = v]
  BY DEF SignalStep, SignalLock, SignalCount, SignalUnlock,
         EarlySignalStep, EarlySignal, EarlySignalLock, EarlySignalBroadcast,
         WaitStep, WaitLock, WaitRelock, WaitBlock, WaitReturn, LatchDestroy,
         EarlyWaitStep, EarlyWaitTest, EarlyWaitBlock, EarlyReturn,
         Lock, Unlock, CondWait, CondBroadcast
<1>2. ASSUME NEW v, owner' = [owner EXCEPT !["latch"] = v]
      PROVE  owner' = [m \in Mutexes |-> owner'[m]] /\ owner'["pool"] = owner["pool"]
  <2>1. "pool" # "latch"
    OBVIOUS
  <2>. QED BY <1>2, <2>1, Constants
<1>. QED BY <1>1, <1>2

\* A worker's item signals the latch.
LEMMA AdderSignalKeeps ==
  ASSUME AdderInv, NEW w \in Workers, pc[w] = "run", item[w] \in Ranges,
         \/ version = "current" /\ SignalStep(item[w])
         \/ version = "early" /\ EarlySignalStep(item[w]),
         UNCHANGED <<version, poolVars>>
  PROVE  AdderInv'
<1> DEFINE r == item[w]
<1>. USE Constants
<1>0. /\ PoolTypes /\ Destroys
      /\ (version = "current" => LatchInv) /\ (version = "early" => EarlyLatchInv)
  BY DEF AdderInv
<1>1. (version = "current" => LatchInv') /\ (version = "early" => EarlyLatchInv')
  BY <1>0, SignalKeeps, EarlySignalKeeps
<1>2. owner' = [m \in Mutexes |-> owner'[m]] /\ owner'["pool"] = owner["pool"]
  <2>1. owner = [m \in Mutexes |-> owner[m]]
    BY <1>0 DEF PoolTypes
  <2>. QED BY <2>1, LatchOwner
<1>3. \A u \in Signallers \cup {Waiter} : u # r => at'[u] = at[u]
  <2>1. LatchTypes
    BY <1>0 DEF PoolTypes, LatchInv, EarlyLatchInv
  <2>2. at' = [at EXCEPT ![r] = at'[r]]
    BY <2>1 DEF LatchTypes, At, SignalStep, SignalLock, SignalCount, SignalUnlock,
                EarlySignalStep, EarlySignal, EarlySignalLock, EarlySignalBroadcast
  <2>. QED BY <2>1, <2>2 DEF LatchTypes
<1>4. at'[main] = at[main]
  BY <1>3
<1>5. Runner(r)
  BY DEF Runner, Runs
<1>. QED BY <1>0, <1>1, <1>2, <1>3, <1>4, <1>5, LatchMoves DEF Destroys

\* par_adder waits for the latch, and destroys it.
LEMMA AdderWaitKeeps ==
  ASSUME AdderInv, pc[main] = "client", Ranges \subseteq submitted,
         \/ version = "current" /\ WaitStep(main)
         \/ version = "early" /\ EarlyWaitStep(main),
         UNCHANGED <<version, poolVars>>
  PROVE  AdderInv'
<1>. USE Constants
<1>0. /\ PoolTypes /\ Submits
      /\ (version = "current" => LatchInv) /\ (version = "early" => EarlyLatchInv)
  BY DEF AdderInv
<1>1. (version = "current" => LatchInv') /\ (version = "early" => EarlyLatchInv')
  BY <1>0, WaitKeeps, EarlyWaitKeeps
<1>2. owner' = [m \in Mutexes |-> owner'[m]] /\ owner'["pool"] = owner["pool"]
  <2>1. owner = [m \in Mutexes |-> owner[m]]
    BY <1>0 DEF PoolTypes
  <2>. QED BY <2>1, LatchOwner
<1>3. \A r \in Ranges : at'[r] = at[r]
  <2>1. LatchTypes
    BY <1>0 DEF PoolTypes, LatchInv, EarlyLatchInv
  <2>. QED BY <2>1 DEF LatchTypes, At, latchVars,
                WaitStep, WaitLock, WaitRelock, WaitBlock, WaitReturn, LatchDestroy,
                EarlyWaitStep, EarlyWaitTest, EarlyWaitBlock, EarlyReturn
<1>4. pc[main] \notin DestroyPoints \cup SubmitPoints
  BY DEF DestroyPoints, SubmitPoints
<1>5. Ranges \subseteq accepted
  BY <1>0, <1>4 DEF Submits
<1>. QED BY <1>1, <1>2, <1>3, <1>4, <1>5, LatchMoves

-----------------------------------------------------------------------------
(***************************************************************************)
(* Every step.                                                             *)
(***************************************************************************)

LEMMA AdderInvInit == MCInit /\ version \in {"current", "early"} => AdderInv
<1>. USE Constants, LatchAssumption
<1>. SUFFICES ASSUME MCInit, version \in {"current", "early"} PROVE AdderInv
  OBVIOUS
<1>1. /\ owner = [m \in Mutexes |-> NoOwner]
      /\ list = <<>> /\ destroying = 0 /\ pills = 0 /\ queue_gone = FALSE
      /\ item = [t \in Workers \cup Callers |-> NULL]
      /\ submitted = {} /\ accepted = {} /\ executed = [x \in Work |-> 0]
      /\ LatchInit
  BY DEF MCInit, FreeInit, AdderInit, Init, PThreadsInit, PoolInit, EarlyInit
<1>2. PICK first \in {"get", "loop"} :
        /\ pc = [t \in Workers \cup Callers |-> IF t \in Workers THEN first ELSE "client"]
        /\ first = "loop" => version = "early"
  BY DEF MCInit, FreeInit, AdderInit, Init, PoolInit, EarlyInit
<1>3. /\ \A w \in Workers : pc[w] = first
      /\ \A t \in Callers : pc[t] = "client"
      /\ pc \in [Workers \cup Callers -> {"get", "loop", "client"}]
  BY <1>2
<1>4. Len(list) = 0 /\ \A i \in 1..Len(list) : FALSE
  BY <1>1
<1>5. PoolTypes
  <2>1. 0 \in 0..Cardinality(Workers)
    BY FS_CardinalityType
  <2>2. list \in Seq(Entries)
    BY <1>1
  <2>. QED BY <1>1, <1>2, <1>3, <2>1, <2>2
         DEF PoolTypes, WorkerPoints, CallerPoints, Entries
<1>6. Locked /\ Submits /\ ~Pilled
  BY <1>1, <1>2, <1>3, <1>4 DEF Locked, Submits, Pilled, SubmitPoints
<1>7. Destroys /\ at[main] = "client" /\ \A r \in Ranges : at[r] = "client"
  <2>1. at[main] = "client" /\ \A r \in Ranges : at[r] = "client"
    BY <1>1 DEF LatchInit
  <2>2. pc[main] = "client" /\ \A t \in Callers : pc[t] \notin DestroyPoints
    BY <1>3 DEF DestroyPoints
  <2>3. destroying # 1 /\ ~queue_gone
    BY <1>1
  <2>. QED BY <2>1, <2>2, <2>3 DEF Destroys
<1>8. PilledSound /\ Ordered /\ Drained
  BY <1>1, <1>3, <1>4, <1>6 DEF PilledSound, Ordered, Drained
<1>9. Items /\ RangesSignal
  BY <1>1, <1>2, <1>3, <1>4, <1>7 DEF Items, ItemSound, RangesSignal, InList, OnceIn, Runs, Runner
<1>10. Uncounted = Signallers /\ EarlyUncounted = Signallers
  BY <1>1 DEF LatchInit, Uncounted, EarlyUncounted
<1>11. LatchTypes
  BY <1>1 DEF LatchInit, LatchTypes, LatchPoints
<1>12. LatchInv /\ EarlyLatchInv
  BY <1>1, <1>7, <1>10, <1>11
     DEF LatchInit, LatchInv, EarlyLatchInv, InsideLocked, WaitsForAll, EarlyLast, EarlyInside, EarlyWaits
<1>. QED BY <1>5, <1>6, <1>7, <1>8, <1>9, <1>12 DEF AdderInv

\* The steps that both versions have.
LEMMA CommonKeeps ==
  ASSUME AdderInv, version' = version,
         \/ \E t \in Submitters : InSubmit(t)
         \/ \E w \in Workers : QueueGet(w) /\ UNCHANGED latchVars
         \/ \E w \in Workers : QueueGetWait(w) /\ UNCHANGED latchVars
         \/ AdderSpurious \/ AdderEnded
  PROVE  AdderInv'
<1>. USE Constants
<1>1. ASSUME NEW t \in Submitters, InSubmit(t) PROVE AdderInv'
  BY <1>1, SubmitStepKeeps DEF InSubmit
<1>2. ASSUME NEW w \in Workers, QueueGet(w), UNCHANGED latchVars PROVE AdderInv'
  BY <1>2, GetKeeps
<1>3. CASE \/ \E w \in Workers : QueueGetWait(w) /\ UNCHANGED latchVars
           \/ AdderSpurious \/ AdderEnded
  <2>1. UNCHANGED <<version, owner, poolVars, latchVars>>
    BY <1>3 DEF QueueGetWait, AdderSpurious, Spurious, LatchSpurious, SpuriousWakeup, AdderEnded,
                Ended, vars
  <2>. QED BY <2>1, NothingMoves
<1>. QED BY <1>1, <1>2, <1>3

LEMMA CurrentNext ==
  ASSUME AdderInv, version = "current", version' = version, AdderNext
  PROVE  AdderInv'
<1>. USE Constants
<1>0. PoolTypes /\ Destroys
  BY DEF AdderInv
<1>a. main \in Submitters /\ \A t \in Submitters : t \in Callers
  BY ThreadPoolAssumption, ParAdderAssumption
<1>1. ASSUME NEW t \in Submitters, NEW x \in Work, x \in Ranges <=> t = main,
             Submit(t, x), UNCHANGED latchVars
      PROVE  AdderInv'
  <2>1. /\ x \notin submitted /\ pc[t] = "client"
        /\ submitted' = submitted \cup {x} /\ item' = [item EXCEPT ![t] = x]
        /\ UNCHANGED <<version, owner, list, destroying, pills, accepted, executed, queue_gone, latchVars>>
    BY <1>1 DEF Submit, Goes
  <2>2. PICK to \in {"submit lock", "client"} :
          pc' = [pc EXCEPT ![t] = to] /\ (to = "client" => destroying # 0)
    BY <1>1 DEF Submit, Goes
  <2>3. to = "client" => destroying = 1
    BY <1>0, <2>2 DEF PoolTypes
  <2>. QED BY <1>1, <1>a, <2>1, <2>2, <2>3, SubmitKeeps
<1>2. CASE MainSubmit \/ OthersSubmit
  BY <1>1, <1>2, <1>a DEF MainSubmit, OthersSubmit
<1>3. CASE MainWait
  BY <1>3, AdderWaitKeeps DEF MainWait
<1>4. CASE MainDestroy \/ InDestroy
  BY <1>4, DestroyKeeps DEF MainDestroy, InDestroy
<1>5. CASE (\E t \in Submitters : InSubmit(t)) \/ AdderSpurious \/ AdderEnded
  BY <1>5, CommonKeeps
<1>6. ASSUME NEW w \in Workers, WorkerNext(w) PROVE AdderInv'
  <2>1. CASE (QueueGet(w) \/ QueueGetWait(w)) /\ UNCHANGED latchVars
    BY <2>1, CommonKeeps
  <2>2. CASE SignalOne(w)
    BY <2>2, AdderSignalKeeps DEF SignalOne
  <2>3. CASE (item[w] \in Ranges => at[item[w]] = "signalled") /\ Execute(w) /\ UNCHANGED latchVars
    BY <2>3, ExecuteKeeps DEF Execute, Goes
  <2>. QED BY <1>6, <2>1, <2>2, <2>3 DEF WorkerNext, RunItem
<1>7. CASE MainNext
  BY <1>2, <1>3, <1>4, <1>5, <1>7, <1>a DEF MainNext
<1>. QED BY <1>2, <1>5, <1>6, <1>7 DEF AdderNext

LEMMA EarlyNextKeeps ==
  ASSUME AdderInv, version = "early", version' = version, EarlyNext
  PROVE  AdderInv'
<1>. USE Constants
<1>a. main \in Submitters /\ \A t \in Submitters : t \in Callers
  BY ThreadPoolAssumption, ParAdderAssumption
<1>1. ASSUME NEW t \in Submitters, NEW x \in Work, x \in Ranges <=> t = main,
             EarlySubmit(t, x), UNCHANGED latchVars
      PROVE  AdderInv'
  <2>1. /\ x \notin submitted /\ pc[t] = "client" /\ pc' = [pc EXCEPT ![t] = "submit lock"]
        /\ submitted' = submitted \cup {x} /\ item' = [item EXCEPT ![t] = x]
        /\ UNCHANGED <<version, owner, list, destroying, pills, accepted, executed, queue_gone, latchVars>>
    BY <1>1 DEF EarlySubmit, Goes
  <2>. QED BY <1>1, <1>a, <2>1, SubmitKeeps
<1>2. CASE EarlyOthers \/ \E x \in Ranges : EarlySubmit(main, x) /\ UNCHANGED latchVars
  BY <1>1, <1>2, <1>a DEF EarlyOthers
<1>3. CASE /\ \/ at[main] = "destroyed" /\ EarlyDestroy(main)
              \/ EarlyDestroyLock(main) \/ DestroyPut(main) \/ EarlyDestroyJoin(main) \/ DestroyQueue(main)
           /\ UNCHANGED latchVars
  BY <1>3, EarlyDestroyKeeps
<1>4. CASE pc[main] = "client" /\ Ranges \subseteq submitted /\ EarlyWaitStep(main) /\ UNCHANGED poolVars
  BY <1>4, AdderWaitKeeps
<1>5. CASE (\E t \in Submitters : InSubmit(t)) \/ AdderSpurious \/ AdderEnded
  BY <1>5, CommonKeeps
<1>6. ASSUME NEW w \in Workers, EarlyWorker(w) PROVE AdderInv'
  <2>1. CASE (QueueGet(w) \/ QueueGetWait(w)) /\ UNCHANGED latchVars
    BY <2>1, CommonKeeps
  <2>2. CASE pc[w] = "run" /\ item[w] \in Ranges /\ EarlySignalStep(item[w]) /\ UNCHANGED poolVars
    BY <2>2, AdderSignalKeeps
  <2>3. CASE EarlyLoop(w) /\ UNCHANGED latchVars
    BY <2>3, LoopKeeps
  <2>4. CASE EarlyExecute(w) /\ UNCHANGED latchVars
    BY <2>4, ExecuteKeeps DEF EarlyExecute, Goes
  <2>. QED BY <1>6, <2>1, <2>2, <2>3, <2>4 DEF EarlyWorker
<1>7. CASE EarlyMain
  BY <1>2, <1>3, <1>4, <1>5, <1>7, <1>a DEF EarlyMain, InSubmit
<1>. QED BY <1>2, <1>5, <1>6, <1>7 DEF EarlyNext

-----------------------------------------------------------------------------
(***************************************************************************)
(* The pool with the free list.                                            *)
(***************************************************************************)

LEMMA FreeConstants ==
  /\ NULL \notin Nodes /\ IsFiniteSet(Nodes) /\ Cardinality(Nodes) = Places /\ Places \in Nat
  /\ Cardinality(Ranges) \in Nat /\ Cardinality(Workers) \in Nat
  /\ Places >= Cardinality(Ranges) + Cardinality(Workers)
<1>1. Places \in Nat
  BY FreeListAssumption
<1>2. IsFiniteSet(Nodes) /\ Cardinality(Nodes) = Places
  <2>1. Nodes = 1..Places
    BY DEF Nodes
  <2>2. IsFiniteSet(1..Places) /\ Cardinality(1..Places) = Places
    <3>1. Cardinality(1..Places) = IF 1 > Places THEN 0 ELSE Places - 1 + 1
      BY <1>1, FS_Interval
    <3>2. (IF 1 > Places THEN 0 ELSE Places - 1 + 1) = Places
      BY <1>1
    <3>. QED BY <1>1, <3>1, <3>2, FS_Interval
  <2>. QED BY <2>1, <2>2
<1>. QED BY <1>1, <1>2, FreeListAssumption, Constants, FS_CardinalityType

\* What a worker gives back.
LEMMA ReturnedSound ==
  ASSUME FreeInv, NEW w \in Workers
  PROVE  /\ Returned(w) \in Seq(Nodes)
         /\ \A m \in Nodes : InList(Returned(w), m) <=> InList(free, m) \/ item[w] = m
         /\ \A m \in Nodes : OnceIn(Returned(w), m)
<1>0. FreeTypes /\ \A n \in Nodes : PlaceSound(n)
  BY DEF FreeInv
<1>1. free \in Seq(Nodes) /\ item[w] \in Nodes \cup {NULL} /\ NULL \notin Nodes
  BY <1>0, FreeConstants DEF FreeTypes
<1>2. \A m \in Nodes : OnceIn(free, m)
  BY <1>0 DEF PlaceSound
<1>3. CASE item[w] = NULL
  <2>1. Returned(w) = free
    BY <1>3 DEF Returned
  <2>. QED BY <1>1, <1>2, <1>3, <2>1
<1>4. CASE item[w] # NULL
  <2>1. Returned(w) = <<item[w]>> \o free /\ item[w] \in Nodes
    BY <1>1, <1>4 DEF Returned
  <2>2. ~InList(free, item[w])
    BY <1>0, <2>1 DEF PlaceSound, Held
  <2>3. /\ <<item[w]>> \o free \in Seq(Nodes)
        /\ \A x : InList(<<item[w]>> \o free, x) <=> InList(free, x) \/ x = item[w]
        /\ \A x : OnceIn(free, x) /\ (x = item[w] => ~InList(free, x)) => OnceIn(<<item[w]>> \o free, x)
    BY <1>1, <2>1, Prepended
  <2>. QED BY <1>2, <2>1, <2>2, <2>3
<1>. QED BY <1>3, <1>4

\* What makes no difference to the ranges makes none to the counter.
LEMMA RangesStay ==
  ASSUME FreeInv, UNCHANGED <<counter, round, submitted, accepted, executed>>,
         \A x \in Ranges :
           /\ \A m, n \in Nodes : QueuedAt(m, x)' /\ QueuedAt(n, x)' => m = n
           /\ \A v, w \in Workers : RunsAt(v, x)' /\ RunsAt(w, x)' => v = w
           /\ \A n \in Nodes, w \in Workers : ~(QueuedAt(n, x)' /\ RunsAt(w, x)')
           /\ Pends(x)' <=> Pends(x)
  PROVE  (\A x \in Ranges : RangeSound(x)') /\ counter' = Cardinality(Undone')
<1>1. ASSUME NEW x \in Ranges PROVE RangeSound(x)'
  <2>1. RangeSound(x)
    BY DEF FreeInv
  <2>. QED BY <2>1 DEF RangeSound
<1>2. Undone' = Undone
  BY DEF Undone
<1>. QED BY <1>1, <1>2 DEF FreeInv

LEMMA FreeGetKeeps ==
  ASSUME FreeInv, NEW w \in Workers, FreeGet(w), version' = version
  PROVE  FreeInv'
<1>. USE Constants
<1>0. /\ FreeTypes /\ QueuedWork
      /\ \A m \in Nodes : PlaceSound(m)
      /\ \A x \in Ranges : RangeSound(x)
  BY DEF FreeInv
<1> DEFINE n == Head(list)
<1>1. /\ pc[w] = "get" /\ pc' = [pc EXCEPT ![w] = "run"]
      /\ list # <<>> /\ list' = Tail(list) /\ item' = [item EXCEPT ![w] = n]
      /\ free' = Returned(w)
      /\ UNCHANGED <<version, submitted, accepted, executed, counter, at, work, round>>
  BY DEF FreeGet, Goes, counts, latchVars
<1>2. list \in Seq(Nodes)
  BY <1>0 DEF FreeTypes
<1>3. /\ Tail(list) \in Seq(Nodes) /\ n \in Nodes
      /\ \A y : InList(list, y) <=> InList(Tail(list), y) \/ y = n
      /\ \A y : OnceIn(list, y) => OnceIn(Tail(list), y)
      /\ OnceIn(list, n) => ~InList(Tail(list), n)
  BY <1>1, <1>2, Taken
<1> HIDE DEF n
<1>4. /\ \A m \in Nodes : OnceIn(list', m)
      /\ \A m \in Nodes : InList(list', m) <=> InList(list, m) /\ m # n
      /\ InList(list, n)
  BY <1>0, <1>1, <1>3 DEF PlaceSound
<1>5. /\ free' \in Seq(Nodes)
      /\ \A m \in Nodes : InList(free', m) <=> InList(free, m) \/ item[w] = m
      /\ \A m \in Nodes : OnceIn(free', m)
  BY <1>1, ReturnedSound
<1>6. /\ item' \in [Workers \cup Callers -> Nodes \cup {NULL}] /\ item'[w] = n
      /\ \A v \in Workers : v # w => item'[v] = item[v]
      /\ pc'[w] = "run" /\ \A v \in Workers \cup Callers : v # w => pc'[v] = pc[v]
  BY <1>0, <1>1, <1>3 DEF FreeTypes
<1>7. FreeTypes'
  BY <1>0, <1>1, <1>3, <1>5, <1>6 DEF FreeTypes
<1>8. \A v \in Workers : ~(item[v] = n)
  BY <1>0, <1>3, <1>4 DEF PlaceSound, Held
<1>9. ASSUME NEW m \in Nodes PROVE PlaceSound(m)'
  <2>1. PlaceSound(m)
    BY <1>0
  <2>2. Held(m)' <=> m = n \/ \E v \in Workers : v # w /\ item[v] = m
    BY <1>6 DEF Held
  <2>3. \A u, v \in Workers : item'[u] = m /\ item'[v] = m => u = v
    BY <1>6, <1>8, <2>1 DEF PlaceSound
  <2>4. CASE m = n
    <3>1. ~InList(free, m) /\ ~InList(list', m)
      BY <1>4, <2>1, <2>4 DEF PlaceSound
    <3>. QED BY <1>4, <1>5, <1>8, <2>2, <2>3, <2>4, <3>1 DEF PlaceSound
  <2>5. CASE m # n
    <3>1. /\ InList(list', m) <=> InList(list, m)
          /\ InList(free', m) <=> InList(free, m) \/ item[w] = m
          /\ Held(m)' <=> \E v \in Workers : v # w /\ item[v] = m
      BY <1>4, <1>5, <2>2, <2>5
    <3>2. item[w] = m => ~Held(m)'
      BY <2>1, <3>1 DEF PlaceSound
    <3>3. Held(m) <=> item[w] = m \/ Held(m)'
      BY <3>1 DEF Held
    <3>. QED BY <1>4, <1>5, <2>1, <2>3, <3>1, <3>2, <3>3 DEF PlaceSound
  <2>. QED BY <2>4, <2>5
<1>10. /\ \A x : \A m \in Nodes : QueuedAt(m, x)' <=> QueuedAt(m, x) /\ m # n
       /\ \A x : \A v \in Workers : RunsAt(v, x)' <=> RunsAt(v, x) \/ (v = w /\ QueuedAt(n, x))
       /\ \A x : ~RunsAt(w, x)
  BY <1>1, <1>4, <1>6 DEF QueuedAt, RunsAt
<1>11. \A x \in Ranges :
         /\ \A m, l \in Nodes : QueuedAt(m, x)' /\ QueuedAt(l, x)' => m = l
         /\ \A v, u \in Workers : RunsAt(v, x)' /\ RunsAt(u, x)' => v = u
         /\ \A m \in Nodes, v \in Workers : ~(QueuedAt(m, x)' /\ RunsAt(v, x)')
         /\ Pends(x)' <=> Pends(x)
  <2>. SUFFICES ASSUME NEW x \in Ranges
                PROVE  /\ \A m, l \in Nodes : QueuedAt(m, x)' /\ QueuedAt(l, x)' => m = l
                       /\ \A v, u \in Workers : RunsAt(v, x)' /\ RunsAt(u, x)' => v = u
                       /\ \A m \in Nodes, v \in Workers : ~(QueuedAt(m, x)' /\ RunsAt(v, x)')
                       /\ Pends(x)' <=> Pends(x)
    OBVIOUS
  <2>1. RangeSound(x)
    BY <1>0
  <2>2. Pends(x)' <=> Pends(x)
    BY <1>3, <1>10 DEF Pends
  <2>. QED BY <1>3, <1>10, <2>1, <2>2 DEF RangeSound
<1>12. (\A x \in Ranges : RangeSound(x)') /\ counter' = Cardinality(Undone')
  BY <1>1, <1>11, RangesStay
<1>13. QueuedWork'
  BY <1>0, <1>1, <1>3, <1>4, <1>6 DEF QueuedWork
<1>. QED BY <1>7, <1>9, <1>12, <1>13 DEF FreeInv

LEMMA FreeGetWaitKeeps ==
  ASSUME FreeInv, NEW w \in Workers, FreeGetWait(w), version' = version
  PROVE  FreeInv'
<1>. USE Constants
<1>0. /\ FreeTypes /\ QueuedWork
      /\ \A m \in Nodes : PlaceSound(m)
      /\ \A x \in Ranges : RangeSound(x)
  BY DEF FreeInv
<1>1. /\ pc[w] = "get" /\ item' = [item EXCEPT ![w] = NULL] /\ free' = Returned(w)
      /\ UNCHANGED <<version, list, pc, submitted, accepted, executed, counter, at, work, round>>
  BY DEF FreeGetWait, counts, latchVars
<1>2. /\ free' \in Seq(Nodes)
      /\ \A m \in Nodes : InList(free', m) <=> InList(free, m) \/ item[w] = m
      /\ \A m \in Nodes : OnceIn(free', m)
  BY <1>1, ReturnedSound
<1>3. /\ item' \in [Workers \cup Callers -> Nodes \cup {NULL}] /\ item'[w] = NULL /\ NULL \notin Nodes
      /\ \A v \in Workers : v # w => item'[v] = item[v]
  BY <1>0, <1>1, FreeConstants DEF FreeTypes
<1>4. FreeTypes'
  BY <1>0, <1>1, <1>2, <1>3 DEF FreeTypes
<1>5. ASSUME NEW m \in Nodes PROVE PlaceSound(m)'
  <2>1. PlaceSound(m)
    BY <1>0
  <2>2. Held(m)' <=> \E v \in Workers : v # w /\ item[v] = m
    BY <1>3 DEF Held
  <2>3. \A u, v \in Workers : item'[u] = m /\ item'[v] = m => u = v
    BY <1>3, <2>1 DEF PlaceSound
  <2>4. item[w] = m => ~Held(m)'
    BY <2>1, <2>2 DEF PlaceSound
  <2>5. Held(m) <=> item[w] = m \/ Held(m)'
    BY <2>2 DEF Held
  <2>. QED BY <1>1, <1>2, <2>1, <2>3, <2>4, <2>5 DEF PlaceSound
<1>6. /\ \A x : \A m \in Nodes : QueuedAt(m, x)' <=> QueuedAt(m, x)
      /\ \A x : \A v \in Workers : RunsAt(v, x)' <=> RunsAt(v, x)
  BY <1>1, <1>3 DEF QueuedAt, RunsAt
<1>7. \A x \in Ranges :
        /\ \A m, l \in Nodes : QueuedAt(m, x)' /\ QueuedAt(l, x)' => m = l
        /\ \A v, u \in Workers : RunsAt(v, x)' /\ RunsAt(u, x)' => v = u
        /\ \A m \in Nodes, v \in Workers : ~(QueuedAt(m, x)' /\ RunsAt(v, x)')
        /\ Pends(x)' <=> Pends(x)
  BY <1>0, <1>6 DEF RangeSound, Pends
<1>8. (\A x \in Ranges : RangeSound(x)') /\ counter' = Cardinality(Undone')
  BY <1>1, <1>7, RangesStay
<1>9. QueuedWork'
  BY <1>0, <1>1, <1>3 DEF QueuedWork
<1>. QED BY <1>4, <1>5, <1>8, <1>9 DEF FreeInv

LEMMA Rounds1 ==
  ASSUME NEW r \in Nat \ {0}
  PROVE  /\ r + 1 \in Nat \ {0} /\ (r + 1) - 1 = r
         /\ r - 1 \in Nat /\ (r - 1) + 1 = r /\ r - 1 # r
OBVIOUS

LEMMA FreeExecuteKeeps ==
  ASSUME FreeInv, NEW w \in Workers, FreeExecute(w), version' = version
  PROVE  FreeInv'
<1>. USE Constants
<1>0. /\ FreeTypes /\ QueuedWork
      /\ \A m \in Nodes : PlaceSound(m)
      /\ \A y \in Ranges : RangeSound(y)
      /\ counter = Cardinality(Undone)
  BY DEF FreeInv
<1> DEFINE x == work[item[w]]
<1>1. /\ pc[w] = "run" /\ pc' = [pc EXCEPT ![w] = "get"]
      /\ executed' = [executed EXCEPT ![x] = @ + 1] /\ counter' = counter - 1
      /\ UNCHANGED <<version, list, item, submitted, accepted, at, free, work, round>>
  BY DEF FreeExecute, Goes, freeVars
<1>2. x \in Ranges /\ x \in Work /\ round \in Nat \ {0}
  BY <1>0, <1>1 DEF QueuedWork, FreeTypes
<1>3. RunsAt(w, x) /\ RangeSound(x) /\ \A y : RunsAt(w, y) => y = x
  BY <1>0, <1>1, <1>2 DEF RunsAt
<1> HIDE DEF x
<1>4. Pends(x) /\ x \in accepted /\ executed[x] = round - 1
  BY <1>3 DEF Pends, RangeSound
<1>5. /\ executed' \in [Work -> Nat] /\ executed'[x] = round
      /\ \A y \in Ranges : y # x => executed'[y] = executed[y]
  <2>1. executed \in [Work -> Nat] /\ Ranges \subseteq Work
    BY <1>0 DEF FreeTypes
  <2>2. executed[x] + 1 = round /\ round \in Nat
    BY <1>2, <1>4, Rounds1
  <2>3. executed' = [executed EXCEPT ![x] = round]
    BY <1>1, <2>2
  <2>. QED BY <1>2, <2>1, <2>2, <2>3
<1>6. pc'[w] = "get" /\ \A v \in Workers \cup Callers : v # w => pc'[v] = pc[v]
  BY <1>0, <1>1 DEF FreeTypes
<1>7. FreeTypes'
  BY <1>0, <1>1, <1>5, <1>6 DEF FreeTypes
<1>8. \A m \in Nodes : PlaceSound(m)'
  BY <1>0, <1>1 DEF PlaceSound, Held
<1>9. /\ \A y : \A m \in Nodes : QueuedAt(m, y)' <=> QueuedAt(m, y)
      /\ \A y : \A v \in Workers : RunsAt(v, y)' <=> RunsAt(v, y) /\ v # w
  BY <1>1, <1>6 DEF QueuedAt, RunsAt
<1>10. ASSUME NEW y \in Ranges PROVE RangeSound(y)'
  <2>1. RangeSound(y)
    BY <1>0
  <2>2. CASE y = x
    <3>1. ~Pends(y)'
      BY <1>3, <1>9, <2>2 DEF Pends, RangeSound
    <3>. QED BY <1>1, <1>4, <1>5, <1>9, <2>1, <2>2, <3>1 DEF RangeSound
  <2>3. CASE y # x
    <3>1. Pends(y)' <=> Pends(y)
      BY <1>3, <1>9, <2>3 DEF Pends
    <3>. QED BY <1>1, <1>5, <1>9, <2>1, <2>3, <3>1 DEF RangeSound
  <2>. QED BY <2>2, <2>3
<1>11. counter' = Cardinality(Undone')
  <2>1. x \in submitted /\ executed[x] # round
    BY <1>0, <1>2, <1>4, Rounds1 DEF FreeTypes
  <2>2. x \in Undone /\ Undone' = Undone \ {x}
    BY <1>1, <1>2, <1>5, <2>1 DEF Undone
  <2>3. IsFiniteSet(Undone)
    BY FS_Subset DEF Undone
  <2>4. Cardinality(Undone') = Cardinality(Undone) - 1
    BY <2>2, <2>3, FS_RemoveElement
  <2>. QED BY <1>0, <1>1, <2>4
<1>12. QueuedWork'
  BY <1>0, <1>1, <1>6 DEF QueuedWork
<1>. QED BY <1>7, <1>8, <1>10, <1>11, <1>12 DEF FreeInv

-----------------------------------------------------------------------------
(***************************************************************************)
(* A free place is found.  The places that are queued have different       *)
(* ranges, and none of them the one that is submitted next; those that are *)
(* held have different workers.  Together they are fewer than all places.  *)
(***************************************************************************)

LEMMA FreeFound ==
  ASSUME FreeInv, NEW x \in Ranges \ submitted
  PROVE  free # <<>>
<1>. USE Constants
<1>0. /\ FreeTypes /\ QueuedWork
      /\ \A m \in Nodes : PlaceSound(m)
      /\ \A y \in Ranges : RangeSound(y)
  BY DEF FreeInv
<1> DEFINE Q == {n \in Nodes : InList(list, n)}
           H == {n \in Nodes : Held(n)}
           R == Ranges \ {x}
<1>1. IsFiniteSet(Q) /\ IsFiniteSet(H) /\ IsFiniteSet(R)
  BY FreeConstants, FS_Subset
<1>2. Cardinality(Q) <= Cardinality(R)
  <2> DEFINE f == [n \in Q |-> work[n]]
  <2>1. ASSUME NEW n \in Q PROVE work[n] \in R
    <3>1. work[n] \in Ranges /\ QueuedAt(n, work[n])
      BY <1>0 DEF QueuedWork, QueuedAt
    <3>2. work[n] \in submitted
      BY <1>0, <3>1 DEF RangeSound, Pends, FreeTypes
    <3>. QED BY <3>1, <3>2
  <2>2. ASSUME NEW m \in Q, NEW n \in Q, work[m] = work[n] PROVE m = n
    BY <1>0, <2>1, <2>2 DEF RangeSound, QueuedAt
  <2>3. f \in Injection(Q, R)
    BY <2>1, <2>2 DEF Injection, IsInjective
  <2> HIDE DEF f, Q, R
  <2>. QED BY <1>1, <2>3, FS_Injection
<1>3. Cardinality(H) <= Cardinality(Workers)
  <2> DEFINE g == [n \in H |-> CHOOSE w \in Workers : item[w] = n]
  <2>1. ASSUME NEW n \in H PROVE g[n] \in Workers /\ item[g[n]] = n
    BY DEF Held
  <2> HIDE DEF g
  <2>2. g \in [H -> Workers]
    BY <2>1 DEF g
  <2>3. \A m, n \in H : g[m] = g[n] => m = n
    BY <2>1
  <2>4. g \in Injection(H, Workers)
    BY <2>2, <2>3 DEF Injection, IsInjective
  <2> HIDE DEF H
  <2>. QED BY <1>1, <2>4, FS_Injection
<1>4. Cardinality(R) = Cardinality(Ranges) - 1
  BY FS_RemoveElement
<1>5. SUFFICES ASSUME free = <<>> PROVE FALSE
  OBVIOUS
<1>6. Nodes = Q \cup H
  <2>1. \A n \in Nodes : ~InList(free, n)
    BY <1>5 DEF InList
  <2>. QED BY <1>0, <2>1 DEF PlaceSound
<1>7. Cardinality(Nodes) <= Cardinality(Q) + Cardinality(H)
  <2>1. Cardinality(Q \cup H) = Cardinality(Q) + Cardinality(H) - Cardinality(Q \cap H)
    BY <1>1, FS_Union
  <2>2. Cardinality(Q \cap H) \in Nat /\ Cardinality(Q) \in Nat /\ Cardinality(H) \in Nat
    BY <1>1, FS_Intersection, FS_CardinalityType
  <2> HIDE DEF Q, H
  <2>. QED BY <1>6, <2>1, <2>2
<1>8. Cardinality(Q) \in Nat /\ Cardinality(H) \in Nat /\ Cardinality(R) \in Nat
  BY <1>1, FS_CardinalityType
<1> HIDE DEF Q, H, R
<1>. QED BY <1>2, <1>3, <1>4, <1>7, <1>8, FreeConstants

LEMMA FreeSubmitKeeps ==
  ASSUME FreeInv, NEW x \in Ranges, FreeSubmit(x), version' = version
  PROVE  FreeInv'
<1>. USE Constants
<1>0. /\ FreeTypes /\ QueuedWork
      /\ \A m \in Nodes : PlaceSound(m)
      /\ \A y \in Ranges : RangeSound(y)
      /\ counter = Cardinality(Undone)
  BY DEF FreeInv
<1>a. x \notin submitted /\ free # <<>>
  BY FreeFound DEF FreeSubmit
<1> DEFINE n == Head(free)
<1>1. /\ pc[main] = "client" /\ pc' = [pc EXCEPT ![main] = "client"]
      /\ submitted' = submitted \cup {x} /\ accepted' = accepted \cup {x}
      /\ free' = Tail(free) /\ list' = Append(list, n) /\ work' = [work EXCEPT ![n] = x]
      /\ UNCHANGED <<version, item, executed, counter, at, round>>
  BY <1>a DEF FreeSubmit, WiCreate, Goes, CondSignal, latchVars
<1>2. list \in Seq(Nodes) /\ free \in Seq(Nodes)
  BY <1>0 DEF FreeTypes
<1>3. /\ Tail(free) \in Seq(Nodes) /\ n \in Nodes
      /\ \A y : InList(free, y) <=> InList(Tail(free), y) \/ y = n
      /\ \A y : OnceIn(free, y) => OnceIn(Tail(free), y)
      /\ OnceIn(free, n) => ~InList(Tail(free), n)
  BY <1>a, <1>2, Taken
<1> HIDE DEF n
<1>4. /\ Append(list, n) \in Seq(Nodes)
      /\ \A y : InList(Append(list, n), y) <=> InList(list, y) \/ y = n
      /\ \A y : OnceIn(list, y) /\ (y = n => ~InList(list, y)) => OnceIn(Append(list, n), y)
  BY <1>2, <1>3, Appended
<1>5. InList(free, n) /\ ~InList(list, n) /\ ~Held(n) /\ OnceIn(free, n)
  BY <1>0, <1>3 DEF PlaceSound
<1>6. pc' = pc
  BY <1>0, <1>1 DEF FreeTypes
<1>7. /\ work' \in [Nodes -> Ranges \cup {NULL}] /\ work'[n] = x
      /\ \A m \in Nodes : m # n => work'[m] = work[m]
  BY <1>0, <1>1, <1>3 DEF FreeTypes
<1>8. FreeTypes'
  <2>1. submitted' = accepted' /\ accepted' \subseteq Ranges
    BY <1>0, <1>1 DEF FreeTypes
  <2>2. free' \in Seq(Nodes) /\ list' \in Seq(Nodes)
    BY <1>1, <1>3, <1>4
  <2>3. /\ version' = "free list" /\ round' \in Nat \ {0} /\ at'[main] = "client"
        /\ item' \in [Workers \cup Callers -> Nodes \cup {NULL}]
        /\ executed' \in [Work -> Nat]
    BY <1>0, <1>1 DEF FreeTypes
  <2>4. \A w \in Workers : pc'[w] = "run" => item'[w] \in Nodes
    BY <1>0, <1>1, <1>6 DEF FreeTypes
  <2>5. /\ pc' \in [Workers \cup Callers -> {"get", "run", "client", "destroyed"}]
        /\ \A w \in Workers : pc'[w] \in {"get", "run"}
        /\ pc'[main] \in {"client", "destroyed"}
    BY <1>0, <1>6 DEF FreeTypes
  <2>. QED BY <1>7, <2>1, <2>2, <2>3, <2>4, <2>5 DEF FreeTypes
<1>9. ASSUME NEW m \in Nodes PROVE PlaceSound(m)'
  <2>1. PlaceSound(m) /\ (Held(m)' <=> Held(m))
    BY <1>0, <1>1 DEF Held
  <2>2. /\ OnceIn(free', m) /\ OnceIn(list', m)
        /\ InList(free', m) <=> InList(free, m) /\ m # n
        /\ InList(list', m) <=> InList(list, m) \/ m = n
    BY <1>1, <1>3, <1>4, <1>5, <2>1 DEF PlaceSound
  <2>. QED BY <1>1, <1>5, <2>1, <2>2 DEF PlaceSound
<1>10. /\ \A y : \A m \in Nodes : QueuedAt(m, y)' <=> (QueuedAt(m, y) \/ (m = n /\ y = x))
       /\ \A y : ~QueuedAt(n, y)
  BY <1>1, <1>4, <1>5, <1>7 DEF QueuedAt
<1>11. \A y : \A v \in Workers : RunsAt(v, y)' <=> RunsAt(v, y)
  <2>1. \A v \in Workers : pc[v] = "run" => item[v] \in Nodes /\ item[v] # n
    BY <1>0, <1>5 DEF FreeTypes, Held
  <2>. QED BY <1>1, <1>6, <1>7, <2>1 DEF RunsAt
<1>12. x \notin accepted /\ ~Pends(x) /\ executed[x] = round - 1
  BY <1>0, <1>a DEF FreeTypes, RangeSound
<1>13. ASSUME NEW y \in Ranges PROVE RangeSound(y)'
  <2>1. RangeSound(y)
    BY <1>0
  <2>2. CASE y = x
    <3>1. Pends(y)' /\ y \in accepted'
      BY <1>1, <1>3, <1>10, <2>2 DEF Pends
    <3>2. /\ \A m \in Nodes : QueuedAt(m, y)' <=> m = n
          /\ \A v \in Workers : ~RunsAt(v, y)'
      BY <1>10, <1>11, <1>12, <2>2 DEF Pends
    <3>. QED BY <1>1, <1>12, <2>2, <3>1, <3>2 DEF RangeSound
  <2>3. CASE y # x
    <3>1. Pends(y)' <=> Pends(y)
      BY <1>10, <1>11, <2>3 DEF Pends
    <3>. QED BY <1>1, <1>10, <1>11, <2>1, <2>3, <3>1 DEF RangeSound
  <2>. QED BY <2>2, <2>3
<1>14. counter' = Cardinality(Undone')
  <2>1. round \in Nat \ {0}
    BY <1>0 DEF FreeTypes
  <2>2. executed[x] # round
    BY <1>12, <2>1, Rounds1
  <2>3. Undone' = Undone
    BY <1>1, <2>2 DEF Undone
  <2>. QED BY <1>0, <1>1, <2>3
<1>15. QueuedWork'
  <2>1. \A m \in Nodes : InList(list', m) => work'[m] \in Ranges
    BY <1>0, <1>1, <1>4, <1>7 DEF QueuedWork
  <2>2. \A v \in Workers : pc[v] = "run" => item[v] \in Nodes /\ item[v] # n
    BY <1>0, <1>5 DEF FreeTypes, Held
  <2>. QED BY <1>0, <1>1, <1>6, <1>7, <2>1, <2>2 DEF QueuedWork
<1>. QED BY <1>8, <1>9, <1>13, <1>14, <1>15 DEF FreeInv

\* A round ends when its work is done, and the next begins.
LEMMA FreeRoundKeeps ==
  ASSUME FreeInv, FreeRound, version' = version
  PROVE  FreeInv'
<1>. USE Constants
<1>0. /\ FreeTypes /\ QueuedWork
      /\ \A m \in Nodes : PlaceSound(m)
      /\ \A y \in Ranges : RangeSound(y)
      /\ counter = Cardinality(Undone)
  BY DEF FreeInv
<1>1. /\ submitted = Ranges /\ counter = 0 /\ round' = round + 1
      /\ submitted' = {} /\ accepted' = {} /\ counter' = Cardinality(Ranges)
      /\ UNCHANGED <<version, list, item, executed, at, free, work>>
  BY DEF FreeRound
<1>2. PICK to \in {"client", "destroyed"} : pc' = [pc EXCEPT ![main] = to]
  BY DEF FreeRound, Goes
<1>3. /\ pc' \in [Workers \cup Callers -> {"get", "run", "client", "destroyed"}]
      /\ pc'[main] \in {"client", "destroyed"}
      /\ \A w \in Workers : pc'[w] = pc[w]
  BY <1>0, <1>2 DEF FreeTypes
<1>4. round \in Nat \ {0} /\ round + 1 \in Nat \ {0} /\ (round + 1) - 1 = round /\ round - 1 # round
  BY <1>0, Rounds1 DEF FreeTypes
<1>5. Undone = {}
  <2>1. IsFiniteSet(Undone)
    BY FS_Subset DEF Undone
  <2>. QED BY <1>0, <1>1, <2>1, FS_EmptySet
<1>6. \A x \in Ranges : executed[x] = round /\ ~Pends(x)
  BY <1>0, <1>4, <1>5 DEF Undone, RangeSound
<1>7. FreeTypes'
  BY <1>0, <1>1, <1>3, <1>4 DEF FreeTypes
<1>8. \A m \in Nodes : PlaceSound(m)'
  BY <1>0, <1>1 DEF PlaceSound, Held
<1>9. /\ \A x : \A m \in Nodes : QueuedAt(m, x)' <=> QueuedAt(m, x)
      /\ \A x : \A w \in Workers : RunsAt(w, x)' <=> RunsAt(w, x)
  BY <1>1, <1>3 DEF QueuedAt, RunsAt
<1>10. ASSUME NEW x \in Ranges PROVE RangeSound(x)'
  <2>1. RangeSound(x) /\ ~Pends(x)'
    BY <1>0, <1>6, <1>9 DEF Pends
  <2>2. executed'[x] = round' - 1
    BY <1>1, <1>4, <1>6
  <2>. QED BY <1>1, <1>9, <2>1, <2>2 DEF RangeSound
<1>11. counter' = Cardinality(Undone')
  <2>1. Undone' = Ranges
    BY <1>1 DEF Undone
  <2>. QED BY <1>1, <2>1
<1>12. QueuedWork'
  BY <1>0, <1>1, <1>3 DEF QueuedWork
<1>. QED BY <1>7, <1>8, <1>10, <1>11, <1>12 DEF FreeInv

\* The lists to begin with: none, and every place.
LEMMA FirstLists ==
  ASSUME NEW S, NEW n \in Nat
  PROVE  /\ <<>> \in Seq(S) /\ Len(<<>>) = 0 /\ \A i \in 1..Len(<<>>) : FALSE
         /\ [i \in 1..n |-> i] \in Seq(1..n) /\ Len([i \in 1..n |-> i]) = n
OBVIOUS

LEMMA FreeInvInit == MCInit /\ version = "free list" => FreeInv
<1>. SUFFICES ASSUME MCInit, version = "free list" PROVE FreeInv
  OBVIOUS
<1>1. /\ list = <<>> /\ free = [n \in Nodes |-> n] /\ work = [n \in Nodes |-> NULL] /\ round = 1
      /\ pc = [t \in Workers \cup Callers |-> IF t \in Workers THEN "get" ELSE "client"]
      /\ item = [t \in Workers \cup Callers |-> NULL]
      /\ submitted = {} /\ accepted = {} /\ executed = [x \in Work |-> 0]
      /\ counter = Cardinality(Ranges) /\ at[main] = "client"
  <2>1. AdderInit /\ FreeInit
    BY DEF MCInit, FreeInit
  <2>2. /\ list = <<>> /\ submitted = {} /\ accepted = {} /\ executed = [x \in Work |-> 0]
        /\ pc = [t \in Workers \cup Callers |-> IF t \in Workers THEN "get" ELSE "client"]
        /\ item = [t \in Workers \cup Callers |-> NULL]
    BY <2>1 DEF AdderInit, Init, PoolInit
  <2>3. counter = Cardinality(Ranges) /\ at[main] = "client"
    BY <2>1, Constants DEF AdderInit, LatchInit
  <2>4. free = [n \in Nodes |-> n] /\ work = [n \in Nodes |-> NULL] /\ round = 1
    BY <2>1 DEF FreeInit
  <2>. QED BY <2>2, <2>3, <2>4
<1>2. free \in Seq(Nodes) /\ Len(free) = Places /\ \A i \in 1..Places : free[i] = i
  <2>1. Nodes = 1..Places
    BY DEF Nodes
  <2>2. free = [n \in 1..Places |-> n] /\ Places \in Nat
    BY <1>1, <2>1, FreeConstants
  <2>. QED BY <2>1, <2>2, FirstLists
<1>3. Len(list) = 0 /\ list \in Seq(Nodes) /\ \A i \in 1..Len(list) : FALSE
  BY <1>1, FreeConstants, FirstLists
<1>4. FreeTypes
  <2>1. round \in Nat \ {0}
    <3>1. round = 1
      BY <1>1
    <3>. QED BY <3>1, OneIsNotZero
  <2>2. pc[main] = "client" /\ \A w \in Workers : pc[w] = "get"
    BY <1>1, Constants
  <2>. QED BY <1>1, <1>2, <1>3, <2>1, <2>2 DEF FreeTypes
<1>5. \A y : ~InList(list, y)
  BY <1>3 DEF InList
<1>6. ASSUME NEW n \in Nodes PROVE PlaceSound(n)
  <2>1. n \in 1..Places
    BY DEF Nodes
  <2>2. InList(free, n) /\ OnceIn(free, n)
    BY <1>2, <2>1 DEF InList, OnceIn
  <2>3. ~Held(n) /\ \A w \in Workers : item[w] # n
    BY <1>1, FreeConstants DEF Held
  <2>. QED BY <1>3, <1>5, <2>2, <2>3 DEF PlaceSound, OnceIn
<1>7. ASSUME NEW x \in Ranges PROVE RangeSound(x)
  <2>1. /\ \A n \in Nodes : ~QueuedAt(n, x)
        /\ \A w \in Workers : ~RunsAt(w, x)
    BY <1>1, <1>5 DEF QueuedAt, RunsAt
  <2>2. x \in Work
    BY Constants
  <2>3. ~Pends(x)
    BY <2>1 DEF Pends
  <2>4. executed[x] = 0 /\ x \notin accepted
    BY <1>1, <2>2
  <2>5. executed[x] = round - 1
    BY <1>1, <2>4, OneMinusOne
  <2>. QED BY <2>1, <2>3, <2>4, <2>5 DEF RangeSound
<1>8. QueuedWork
  BY <1>1, <1>5 DEF QueuedWork
<1>9. Undone = Ranges
  BY <1>1 DEF Undone
<1>. QED BY <1>1, <1>4, <1>6, <1>7, <1>8, <1>9 DEF FreeInv

LEMMA FreeNextKeeps ==
  ASSUME FreeInv, version' = version,
         \/ FreeMain \/ (\E w \in Workers : FreeWorker(w)) \/ FreeSpurious \/ FreeEnded
         \/ \E t \in Submitters \ {main} : InSubmit(t) /\ UNCHANGED freeVars
         \/ UNCHANGED freeAdderVars
  PROVE  FreeInv'
<1>1. CASE FreeMain
  BY <1>1, FreeRoundKeeps, FreeSubmitKeeps DEF FreeMain
<1>2. CASE \E w \in Workers : FreeWorker(w)
  BY <1>2, FreeGetKeeps, FreeGetWaitKeeps, FreeExecuteKeeps DEF FreeWorker
<1>3. CASE FreeSpurious \/ FreeEnded \/ UNCHANGED freeAdderVars
  <2>1. UNCHANGED <<version, list, free, work, pc, item, submitted, accepted, executed, round, counter, at>>
    BY <1>3 DEF FreeSpurious, Spurious, FreeEnded, freeAdderVars, adderVars, vars, poolVars, counts,
                latchVars, freeVars
  <2>2. FreeTypes' /\ QueuedWork'
    BY <2>1 DEF FreeInv, FreeTypes, QueuedWork
  <2>3. \A m \in Nodes : PlaceSound(m)'
    BY <2>1 DEF FreeInv, PlaceSound, Held
  <2>4. /\ \A x : \A m \in Nodes : QueuedAt(m, x)' <=> QueuedAt(m, x)
        /\ \A x : \A w \in Workers : RunsAt(w, x)' <=> RunsAt(w, x)
    BY <2>1 DEF QueuedAt, RunsAt
  <2>5. ASSUME NEW x \in Ranges PROVE RangeSound(x)'
    <3>1. RangeSound(x) /\ (Pends(x)' <=> Pends(x))
      BY <2>4 DEF FreeInv, Pends
    <3>. QED BY <2>1, <2>4, <3>1 DEF RangeSound
  <2>6. Undone' = Undone /\ counter' = counter
    BY <2>1 DEF Undone
  <2>. QED BY <2>2, <2>3, <2>5, <2>6 DEF FreeInv
<1>4. CASE \E t \in Submitters \ {main} : InSubmit(t) /\ UNCHANGED freeVars
  <2>1. ASSUME NEW t \in Submitters, SubmitStep(t) PROVE FALSE
    <3>1. pc[t] \in {"get", "run", "client", "destroyed"}
      BY Constants DEF FreeInv, FreeTypes
    <3>. QED BY <2>1, <3>1 DEF SubmitStep, SubmitLock, SubmitTest, SubmitPut, SubmitUnlock, Goes
  <2>. QED BY <1>4, <2>1 DEF InSubmit
<1>. QED BY <1>1, <1>2, <1>3, <1>4

-----------------------------------------------------------------------------
(***************************************************************************)
(* The invariant of all three.                                             *)
(***************************************************************************)

LEMMA AllInvInit == MCInit => AllInv
BY AdderInvInit, FreeInvInit DEF MCInit, AllInv

LEMMA AllInvNext == AllInv /\ [MCNext]_mcVars => AllInv'
<1>. SUFFICES ASSUME AllInv, [MCNext]_mcVars PROVE AllInv'
  OBVIOUS
<1>1. version' = version
  <2>v. \A v : Version(v) => version' = version
    BY DEF Version
  <2>1. CASE UNCHANGED mcVars
    BY <2>1 DEF mcVars
  <2>2. CASE MCMain \/ \E w \in Workers : MCWorker(w)
    <3>1. MCMain => version' = version
      BY <2>v DEF MCMain
    <3>2. \A w \in Workers : MCWorker(w) => version' = version
      BY <2>v DEF MCWorker
    <3>. QED BY <2>2, <3>1, <3>2
  <2>3. CASE \E t \in Submitters \ {main} : MCInSubmit(t)
    BY <2>3 DEF MCInSubmit
  <2>4. CASE \/ Version("current") /\ (OthersSubmit \/ AdderSpurious \/ AdderEnded) /\ UNCHANGED freeVars
             \/ Version("early") /\ (EarlyOthers \/ AdderSpurious \/ AdderEnded) /\ UNCHANGED freeVars
             \/ Version("free list") /\ (FreeSpurious \/ FreeEnded)
    BY <2>4, <2>v, Zenon
  <2>. QED BY <2>1, <2>2, <2>3, <2>4 DEF MCNext
<1>2. CASE version = "free list"
  <2>1. \/ FreeMain \/ (\E w \in Workers : FreeWorker(w)) \/ FreeSpurious \/ FreeEnded
        \/ \E t \in Submitters \ {main} : InSubmit(t) /\ UNCHANGED freeVars
        \/ UNCHANGED freeAdderVars
    BY <1>2 DEF MCNext, MCMain, MCWorker, MCInSubmit, Version, mcVars
  <2>. QED BY <1>1, <1>2, <2>1, FreeNextKeeps DEF AllInv
<1>3. CASE version = "current"
  <2>1. AdderNext \/ UNCHANGED adderVars
    BY <1>3 DEF MCNext, MCMain, MCWorker, MCInSubmit, Version, mcVars, freeAdderVars, AdderNext
  <2>. QED BY <1>1, <1>3, <2>1, CurrentNext, NothingMoves DEF AllInv, adderVars, vars
<1>4. CASE version = "early"
  <2>1. EarlyNext \/ UNCHANGED adderVars
    BY <1>4 DEF MCNext, MCMain, MCWorker, MCInSubmit, Version, mcVars, freeAdderVars, EarlyNext
  <2>. QED BY <1>1, <1>4, <2>1, EarlyNextKeeps, NothingMoves DEF AllInv, adderVars, vars
<1>5. version \in {"free list", "current", "early"}
  BY DEF AllInv, AdderInv, PoolTypes
<1>. QED BY <1>2, <1>3, <1>4, <1>5

LEMMA AllInvAlways == MCSpec => []AllInv
BY AllInvInit, AllInvNext, PTL DEF MCSpec

-----------------------------------------------------------------------------
(***************************************************************************)
(* Theorems.                                                               *)
(***************************************************************************)

\* Sets with one element at most: the number of elements.
LEMMA CountOnce ==
  ASSUME NEW A, NEW B, NEW n \in Nat,
         \A a, b \in A : a = b, \A a, b \in B : a = b,
         A = {} \/ B = {}
  PROVE  Cardinality(A) + Cardinality(B) + n = (IF A = {} /\ B = {} THEN 0 ELSE 1) + n
<1>1. /\ Cardinality(A) = IF A = {} THEN 0 ELSE 1
      /\ Cardinality(B) = IF B = {} THEN 0 ELSE 1
  BY OneAtMost
<1>. QED BY <1>1

\* The items of the pools that are destroyed.
LEMMA ItemsCounted ==
  ASSUME AdderInv, NEW x \in Work
  PROVE  Cardinality(Queued(x)) + Cardinality(Running(x)) + executed[x]
           = IF x \in accepted THEN 1 ELSE 0
<1>1. ItemSound(x)
  BY DEF AdderInv, Items
<1>2. /\ \A i, j \in Queued(x) : i = j
      /\ \A v, w \in Running(x) : v = w
      /\ Queued(x) # {} <=> InList(list, x)
      /\ Running(x) # {} <=> Runner(x)
  BY <1>1 DEF Queued, Running, ItemSound, OnceIn, InList, Runner, Runs
<1>3. Queued(x) = {} \/ Running(x) = {}
  BY <1>1, <1>2 DEF ItemSound
<1>4. executed[x] \in Nat
  BY <1>1 DEF ItemSound
<1>5. Cardinality(Queued(x)) + Cardinality(Running(x)) + executed[x]
        = (IF Queued(x) = {} /\ Running(x) = {} THEN 0 ELSE 1) + executed[x]
  BY <1>2, <1>3, <1>4, CountOnce
<1>6. CASE Queued(x) = {} /\ Running(x) = {}
  <2>1. (IF Queued(x) = {} /\ Running(x) = {} THEN 0 ELSE 1) = 0
    BY <1>6
  <2>2. executed[x] = IF x \in accepted THEN 1 ELSE 0
    BY <1>1, <1>2, <1>6 DEF ItemSound
  <2>. QED BY <1>5, <2>1, <2>2
<1>7. CASE ~(Queued(x) = {} /\ Running(x) = {})
  <2>1. (IF Queued(x) = {} /\ Running(x) = {} THEN 0 ELSE 1) = 1
    BY <1>7
  <2>2. executed[x] = 0 /\ x \in accepted
    BY <1>1, <1>2, <1>7 DEF ItemSound
  <2>. QED BY <1>5, <2>1, <2>2
<1>. QED BY <1>6, <1>7

LEMMA PlacesCounted ==
  ASSUME FreeInv
  PROVE  PlacesSound
<1>. SUFFICES ASSUME NEW n \in Nodes
              PROVE  Cardinality({i \in DOMAIN free : free[i] = n})
                       + Cardinality(Queued(n)) + Cardinality(Holders(n)) = 1
  BY DEF PlacesSound
<1> DEFINE F == {i \in DOMAIN free : free[i] = n}
<1>1. PlaceSound(n) /\ DOMAIN free = 1..Len(free)
  <2>1. free \in Seq(Nodes) /\ PlaceSound(n)
    BY DEF FreeInv, FreeTypes
  <2>. QED BY <2>1, LenProperties
<1>2. /\ \A i, j \in F : i = j
      /\ \A i, j \in Queued(n) : i = j
      /\ \A v, w \in Holders(n) : v = w
      /\ F # {} <=> InList(free, n)
      /\ Queued(n) # {} <=> InList(list, n)
      /\ Holders(n) # {} <=> Held(n)
  BY <1>1 DEF Queued, Holders, PlaceSound, OnceIn, InList, Held
<1>3. /\ Cardinality(F) = IF F = {} THEN 0 ELSE 1
      /\ Cardinality(Queued(n)) = IF Queued(n) = {} THEN 0 ELSE 1
      /\ Cardinality(Holders(n)) = IF Holders(n) = {} THEN 0 ELSE 1
  BY <1>2, OneAtMost
<1>4. \/ F # {} /\ Queued(n) = {} /\ Holders(n) = {}
      \/ F = {} /\ Queued(n) # {} /\ Holders(n) = {}
      \/ F = {} /\ Queued(n) = {} /\ Holders(n) # {}
  BY <1>1, <1>2 DEF PlaceSound
<1>. QED BY <1>3, <1>4

LEMMA RangesCounted ==
  ASSUME FreeInv, NEW x \in Ranges
  PROVE  Cardinality({i \in DOMAIN list : work[list[i]] = x})
           + Cardinality({w \in Workers : pc[w] = "run" /\ work[item[w]] = x}) + executed[x]
           = (round - 1) + (IF x \in accepted THEN 1 ELSE 0)
<1> DEFINE Q == {i \in DOMAIN list : work[list[i]] = x}
           R == {w \in Workers : pc[w] = "run" /\ work[item[w]] = x}
<1>1. /\ RangeSound(x) /\ DOMAIN list = 1..Len(list) /\ round \in Nat \ {0}
      /\ \A i \in 1..Len(list) : list[i] \in Nodes
      /\ \A n \in Nodes : OnceIn(list, n)
  <2>1. list \in Seq(Nodes) /\ RangeSound(x) /\ round \in Nat \ {0} /\ \A n \in Nodes : PlaceSound(n)
    BY DEF FreeInv, FreeTypes
  <2>2. DOMAIN list = 1..Len(list) /\ \A i \in 1..Len(list) : list[i] \in Nodes
    BY <2>1, LenProperties, ElementOfSeq
  <2>. QED BY <2>1, <2>2 DEF PlaceSound
<1>2. /\ \A i \in Q : i \in 1..Len(list) /\ list[i] \in Nodes /\ QueuedAt(list[i], x)
      /\ \A n \in Nodes : QueuedAt(n, x) => Q # {}
      /\ \A w \in Workers : w \in R <=> RunsAt(w, x)
  BY <1>1 DEF QueuedAt, InList, RunsAt
<1>3. \A i, j \in Q : i = j
  <2>. SUFFICES ASSUME NEW i \in Q, NEW j \in Q PROVE i = j
    OBVIOUS
  <2>1. list[i] = list[j] /\ list[i] \in Nodes /\ OnceIn(list, list[i])
    BY <1>1, <1>2 DEF RangeSound
  <2>2. i \in 1..Len(list) /\ j \in 1..Len(list)
    BY <1>2
  <2>. QED BY <2>1, <2>2 DEF OnceIn
<1>4. \A v, w \in R : v = w
  BY <1>1, <1>2 DEF RangeSound
<1>5. Pends(x) <=> ~(Q = {} /\ R = {})
  BY <1>2 DEF Pends
<1>6. Q = {} \/ R = {}
  BY <1>1, <1>2 DEF RangeSound
<1>7. executed[x] = IF x \in accepted /\ ~Pends(x) THEN round ELSE round - 1
  BY <1>1 DEF RangeSound
<1>8. round - 1 \in Nat /\ (round - 1) + 1 = round /\ round \in Nat /\ executed[x] \in Nat
  BY <1>1, <1>7, Rounds1
<1> HIDE DEF Q, R
<1>9. Cardinality(Q) + Cardinality(R) + executed[x]
        = (IF Q = {} /\ R = {} THEN 0 ELSE 1) + executed[x]
  BY <1>3, <1>4, <1>6, <1>8, CountOnce
<1>10. CASE Pends(x)
  <2>1. x \in accepted /\ executed[x] = round - 1 /\ (IF Q = {} /\ R = {} THEN 0 ELSE 1) = 1
    BY <1>1, <1>5, <1>7, <1>10 DEF RangeSound
  <2>2. Cardinality(Q) + Cardinality(R) + executed[x] = 1 + (round - 1)
    BY <1>9, <2>1
  <2>. QED BY <1>8, <2>1, <2>2 DEF Q, R
<1>11. CASE ~Pends(x)
  <2>1. (IF Q = {} /\ R = {} THEN 0 ELSE 1) = 0
    BY <1>5, <1>11
  <2>2. Cardinality(Q) + Cardinality(R) + executed[x] = executed[x]
    BY <1>8, <1>9, <2>1
  <2>3. executed[x] = (round - 1) + (IF x \in accepted THEN 1 ELSE 0)
    BY <1>7, <1>8, <1>11
  <2>. QED BY <2>2, <2>3 DEF Q, R
<1>. QED BY <1>10, <1>11

\* A work item that was accepted is queued, being executed, or executed, in one place
\* and once; over the free list, once in every round, and no place is used twice.
THEOREM AdderItemsOnce == MCSpec => []ItemsOnce
<1>1. AllInv => ItemsOnce
  <2>. SUFFICES ASSUME AllInv PROVE ItemsOnce
    OBVIOUS
  <2>1. CASE version = "free list"
    <3>1. FreeInv
      BY <2>1 DEF AllInv
    <3>2. FreeEachOnce
      BY <3>1, PlacesCounted, RangesCounted DEF FreeEachOnce
    <3>. QED BY <2>1, <3>2 DEF ItemsOnce
  <2>2. CASE version # "free list"
    <3>1. AdderInv /\ PoolTypes
      BY <2>2 DEF AllInv, AdderInv
    <3>2. EarlyEachOnce
      BY <3>1, ItemsCounted DEF EarlyEachOnce
    <3>3. version = "current" => TypeOK
      <4>1. ASSUME version = "current" 
            PROVE  pc \in [Workers \cup Callers ->
                     {"client", "get", "run", "ended", "submit lock", "submit test", "submit put",
                      "submit unlock", "destroy lock", "destroy put", "destroy join",
                      "destroy queue", "destroyed"}]
        BY <3>1, <4>1 DEF PoolTypes, WorkerPoints, CallerPoints, SubmitPoints, DestroyPoints
      <4>. QED BY <3>1, <4>1 DEF PoolTypes, TypeOK, Entries
    <3>4. version = "current" => EachOnce
      BY <3>2, <3>3 DEF EachOnce, EarlyEachOnce
    <3>5. version \in {"current", "early"}
      BY <3>1 DEF PoolTypes
    <3>. QED BY <3>2, <3>4, <3>5 DEF ItemsOnce
  <2>. QED BY <2>1, <2>2
<1>. QED BY <1>1, AllInvAlways, PTL

\* No work item gets behind a NULL, whoever submits while the pool is destroyed; and
\* in the later version no worker ends while work is queued.
THEOREM AdderPillsLast == MCSpec => []PillsLast
<1>1. AllInv => PillsLast
  <2>. SUFFICES ASSUME AllInv, version # "free list" PROVE PillsLast
    BY DEF PillsLast
  <2>1. Ordered /\ Drained /\ version \in {"current", "early"}
    BY DEF AllInv, AdderInv, PoolTypes
  <2>2. EarlyPillsLast /\ (version = "current" => NoWorkBehindPills)
    BY <2>1 DEF Ordered, Drained, EarlyPillsLast, NoWorkBehindPills
  <2>. QED BY <2>1, <2>2 DEF PillsLast
<1>. QED BY <1>1, AllInvAlways, PTL

\* When the queue is destroyed nobody uses it any more, and what was accepted has been
\* executed, but for what the early version leaves in the queue, none of it the
\* adder's; over the free list, a place is always found.
THEOREM AdderPoolAlive == MCSpec => []PoolAlive
<1>1. AllInv => PoolAlive
  <2>. SUFFICES ASSUME AllInv PROVE PoolAlive
    OBVIOUS
  <2>1. CASE version = "free list"
    <3>1. FreeInv
      BY <2>1 DEF AllInv
    <3>2. FreeSuffices
      BY <3>1 DEF FreeSuffices, FreeInv, FreeTypes, Undone
    <3>. QED BY <2>1, <3>2 DEF PoolAlive
  <2>2. CASE version # "free list"
    <3>1. /\ PoolTypes /\ Destroys /\ PilledSound /\ Drained /\ Items /\ RangesSignal
      BY <2>2 DEF AllInv, AdderInv
    <3>2. version \in {"current", "early"}
      BY <3>1 DEF PoolTypes
    <3>3. ASSUME queue_gone
          PROVE  /\ \A w \in Workers : pc[w] = "ended"
                 /\ pc[main] = "destroyed" /\ destroying = 1 /\ at[main] = "destroyed"
                 /\ \A t \in Callers : pc[t] \notin {"destroy put", "submit put"}
                 /\ \A x \in accepted : executed[x] = 1 \/ InList(list, x)
                 /\ \A r \in Ranges : executed[r] = 1 \/ at[r] = "client"
      <4>1. pc[main] = "destroyed" /\ \A w \in Workers : pc[w] = "ended"
        BY <3>1, <3>3 DEF Destroys
      <4>2. destroying = 1 /\ at[main] = "destroyed"
        BY <3>1, <4>1 DEF Destroys, DestroyPoints
      <4>3. \A t \in Callers : pc[t] \notin {"destroy put", "submit put"}
        <5>1. Pilled
          BY <4>1, Constants DEF Pilled
        <5>. QED BY <3>1, <4>1, <5>1 DEF PilledSound, Destroys, DestroyPoints
      <4>4. \A x : ~Runner(x)
        BY <4>1 DEF Runner, Runs
      <4>5. \A x \in accepted : executed[x] = 1 \/ InList(list, x)
        BY <3>1, <4>4 DEF PoolTypes, Items, ItemSound
      <4>6. \A r \in Ranges : executed[r] = 1 \/ at[r] = "client"
        BY <3>1, <4>4 DEF RangesSignal
      <4>. QED BY <4>1, <4>2, <4>3, <4>5, <4>6
    <3>4. version = "current" => QueueAlive
      <4>. SUFFICES ASSUME version = "current", queue_gone, NEW x \in accepted
                    PROVE  executed[x] = 1
        BY <3>3 DEF QueueAlive
      <4>1. \A i \in 1..Len(list) : list[i] = NULL
        BY <3>1, <3>3, Constants DEF Drained
      <4>2. x # NULL
        BY <3>1, Constants DEF PoolTypes
      <4>. QED BY <3>3, <4>1, <4>2 DEF InList
    <3>5. version = "early" => EarlyQueueAlive
      <4>. SUFFICES ASSUME version = "early", queue_gone, NEW x \in accepted, executed[x] # 1
                    PROVE  x \notin Ranges /\ Queued(x) # {}
        BY <3>3, Constants DEF EarlyQueueAlive
      <4>1. Queued(x) # {}
        BY <3>3 DEF InList, Queued
      <4>2. \A t \in Signallers : at[t] # "client"
        BY <2>2, <3>3, Constants DEF AllInv, AdderInv, EarlyLatchInv, EarlyWaits
      <4>. QED BY <3>3, <4>1, <4>2, Constants
    <3>. QED BY <2>2, <3>2, <3>4, <3>5 DEF PoolAlive
  <2>. QED BY <2>1, <2>2
<1>. QED BY <1>1, AllInvAlways, PTL

\* When par_adder adds up the partial sums they are there, and nobody uses the latch in
\* its stack frame any more; in the early version the last signaller may.
THEOREM AdderSumsReady == MCSpec => []SumsReady
<1>1. AllInv => SumsReady
  <2>. SUFFICES ASSUME AllInv PROVE SumsReady
    OBVIOUS
  <2>1. CASE version = "free list"
    BY <2>1, Constants DEF AllInv, FreeInv, FreeTypes, SumsReady, AdderSound, WaitsForAll
  <2>2. CASE version = "current"
    <3>1. Destroys /\ LatchInv
      BY <2>2 DEF AllInv, AdderInv
    <3>. QED BY <2>2, <3>1 DEF Destroys, LatchInv, SumsReady, AdderSound
  <2>3. CASE version = "early"
    <3>1. Destroys /\ LatchTypes /\ EarlyLast /\ EarlyWaits
      BY <2>3 DEF AllInv, AdderInv, EarlyLatchInv
    <3>2. ASSUME at[main] \in {"waited", "destroyed"}
          PROVE  /\ \A t \in Signallers : at[t] # "client"
                 /\ \A t, u \in Signallers : at[t] # "signalled" /\ at[u] # "signalled" => t = u
      BY <3>1, <3>2, Constants DEF LatchTypes, EarlyLast, EarlyInside, EarlyWaits
    <3>3. at[main] # "client" => Ranges \subseteq accepted
      BY <3>1 DEF Destroys
    <3>. QED BY <2>3, <3>2, <3>3 DEF SumsReady, EarlyAdderSound
  <2>4. version \in {"free list", "current", "early"}
    BY DEF AllInv, AdderInv, PoolTypes
  <2>. QED BY <2>1, <2>2, <2>3, <2>4
<1>. QED BY <1>1, AllInvAlways, PTL

-----------------------------------------------------------------------------
(***************************************************************************)
(* The thread pool with nothing else: any number of workers, of threads    *)
(* that submit work, and of threads that destroy the pool at any moment.   *)
(***************************************************************************)

PoolPoints ==
  {"client", "get", "run", "ended", "submit lock", "submit test", "submit put",
   "submit unlock", "destroy lock", "destroy put", "destroy join", "destroy queue", "destroyed"}

\* What the argument needs of the types.
AnyPoolTypes ==
  /\ owner \in [Mutexes -> Callers \cup {NoOwner}]
  /\ list \in Seq(Entries)
  /\ pc \in [Workers \cup Callers -> PoolPoints]
  /\ item \in [Workers \cup Callers -> Entries]

\* The lock of the pool is held from the second test of destroying to the end of
\* tp_submit, and while the NULL items are put.
AnyLocked ==
  \A t \in Callers :
    pc[t] \in {"submit test", "submit put", "submit unlock", "destroy put"} => owner["pool"] = t

\* A caller submits work, and puts NULL items only after it has set destroying.
AnyCallers ==
  \A t \in Callers :
    /\ pc[t] \in {"submit lock", "submit test", "submit put"} => item[t] \in Work
    /\ pc[t] \in {"destroy lock", "destroy put"} => destroying = 1

\* The first NULL item has been put; from then on no submitter is past its test.
AnyPilledSound == Pilled => destroying = 1 /\ \A t \in Callers : pc[t] # "submit put"

AnyPoolInv == AnyPoolTypes /\ AnyLocked /\ AnyCallers /\ AnyPilledSound /\ NoWorkBehindPills

-----------------------------------------------------------------------------

LEMMA AnyPoolInit == Init => AnyPoolInv
<1>. USE ThreadPoolAssumption
<1>. SUFFICES ASSUME Init PROVE AnyPoolInv
  OBVIOUS
<1>1. AnyPoolTypes
  BY DEF Init, PThreadsInit, PoolInit, AnyPoolTypes, Entries, PoolPoints
<1>2. \A t \in Callers : pc[t] = "client"
  BY DEF Init, PoolInit, Callers
<1>3. Len(list) = 0 /\ \A w \in Workers : pc[w] = "get"
  BY DEF Init, PoolInit
<1>. QED
  <2>1. AnyLocked /\ AnyCallers
    BY <1>2 DEF AnyLocked, AnyCallers
  <2>2. \A i \in 1..Len(list) : FALSE
    BY <1>3
  <2>3. ~Pilled
    BY <1>3, <2>2 DEF Pilled
  <2>4. AnyPilledSound
    BY <2>3 DEF AnyPilledSound
  <2>5. NoWorkBehindPills
    BY <2>2 DEF NoWorkBehindPills
  <2>. QED BY <1>1, <2>1, <2>4, <2>5 DEF AnyPoolInv

LEMMA LastIndex ==
  ASSUME NEW n \in Nat
  PROVE  /\ \A i \in 1..n + 1 : i \in 1..n \/ i = n + 1
         /\ \A i, j \in 1..n + 1 : i < j => i \in 1..n
OBVIOUS

\* An item at the end, or the first one gone: what the others are.
LEMMA AppendEntry ==
  ASSUME NEW s \in Seq(Entries), NEW x \in Entries
  PROVE  /\ Append(s, x) \in Seq(Entries) /\ Len(s) \in Nat
         /\ Len(Append(s, x)) = Len(s) + 1
         /\ \A i \in 1..Len(s) : Append(s, x)[i] = s[i]
         /\ Append(s, x)[Len(s) + 1] = x
OBVIOUS

LEMMA TailEntry ==
  ASSUME NEW s \in Seq(Entries), s # <<>>
  PROVE  /\ Tail(s) \in Seq(Entries) /\ Head(s) \in Entries /\ Head(s) = s[1]
         /\ Len(s) \in Nat \ {0} /\ Len(Tail(s)) = Len(s) - 1
         /\ \A i \in 1..Len(Tail(s)) : Tail(s)[i] = s[i + 1] /\ i + 1 \in 1..Len(s)
OBVIOUS

-----------------------------------------------------------------------------
(***************************************************************************)
(* Steps that leave the queue alone, and let nobody past the test.         *)
(***************************************************************************)

LEMMA AnyQueueStays ==
  ASSUME AnyPilledSound, NoWorkBehindPills, list' = list,
         destroying = 1 => destroying' = 1,
         \A w \in Workers : pc'[w] = "ended" <=> pc[w] = "ended",
         \A t \in Callers : pc'[t] = "submit put" => pc[t] = "submit put" \/ destroying = 0
  PROVE  AnyPilledSound' /\ NoWorkBehindPills'
<1>1. Pilled' <=> Pilled
  BY DEF Pilled
<1>2. AnyPilledSound'
  <2>. SUFFICES ASSUME Pilled' PROVE destroying' = 1 /\ \A t \in Callers : pc'[t] # "submit put"
    BY DEF AnyPilledSound
  <2>1. destroying = 1 /\ \A t \in Callers : pc[t] # "submit put"
    BY <1>1 DEF AnyPilledSound
  <2>2. destroying' = 1
    BY <2>1, Zenon
  <2>3. \A t \in Callers : pc'[t] # "submit put"
    BY <2>1, OneIsNotZero, Zenon
  <2>. QED BY <2>2, <2>3
<1>3. NoWorkBehindPills'
  BY DEF NoWorkBehindPills
<1>. QED BY <1>2, <1>3

\* The first NULL item, or another one, is put, while no submitter is past its test.
LEMMA AnyPillPut ==
  ASSUME AnyPoolTypes, NoWorkBehindPills, list' = Append(list, NULL),
         destroying' = 1, UNCHANGED pc, \A t \in Callers : pc[t] # "submit put"
  PROVE  AnyPilledSound' /\ NoWorkBehindPills'
<1>0. list \in Seq(Entries) /\ NULL \in Entries
  BY DEF AnyPoolTypes, Entries
<1>1. /\ Len(list') = Len(list) + 1 /\ Len(list) \in Nat
      /\ \A i \in 1..Len(list) : list'[i] = list[i]
      /\ list'[Len(list) + 1] = NULL
  BY <1>0, AppendEntry, Zenon
<1>2. /\ \A i \in 1..Len(list') : i \in 1..Len(list) \/ i = Len(list) + 1
      /\ \A i, j \in 1..Len(list') : i < j => i \in 1..Len(list)
  BY <1>1, LastIndex, Zenon
<1>3. \A i, j \in 1..Len(list') : i < j /\ list'[i] = NULL => list'[j] = NULL
  <2>. SUFFICES ASSUME NEW i \in 1..Len(list'), NEW j \in 1..Len(list'), i < j, list'[i] = NULL
                PROVE  list'[j] = NULL
    OBVIOUS
  <2>1. i \in 1..Len(list) /\ list[i] = NULL
    BY <1>1, <1>2, Zenon
  <2>2. CASE j \in 1..Len(list)
    BY <1>1, <2>1, <2>2 DEF NoWorkBehindPills
  <2>. QED BY <1>1, <1>2, <2>2
<1>4. (\E w \in Workers : pc'[w] = "ended") => \A i \in 1..Len(list') : list'[i] = NULL
  BY <1>1, <1>2 DEF NoWorkBehindPills
<1>. QED BY <1>3, <1>4 DEF AnyPilledSound, NoWorkBehindPills

\* Work is put, while no NULL item has been.
LEMMA AnyWorkPut ==
  ASSUME AnyPoolTypes, NEW x \in Work, list' = Append(list, x), ~Pilled,
         \A w \in Workers : pc'[w] = pc[w]
  PROVE  AnyPilledSound' /\ NoWorkBehindPills'
<1>0. list \in Seq(Entries) /\ x \in Entries /\ x # NULL
  BY ThreadPoolAssumption DEF AnyPoolTypes, Entries
<1>1. /\ Len(list') = Len(list) + 1 /\ Len(list) \in Nat
      /\ \A i \in 1..Len(list) : list'[i] = list[i]
      /\ list'[Len(list) + 1] = x
  BY <1>0, AppendEntry
<1>2. \A i \in 1..Len(list') : i \in 1..Len(list) \/ i = Len(list) + 1
  BY <1>1
<1>3. \A i \in 1..Len(list') : list'[i] # NULL
  BY <1>0, <1>1, <1>2 DEF Pilled
<1>4. ~\E w \in Workers : pc'[w] = "ended"
  BY DEF Pilled
<1>. QED BY <1>3, <1>4 DEF AnyPilledSound, Pilled, NoWorkBehindPills

-----------------------------------------------------------------------------
(***************************************************************************)
(* The steps.                                                              *)
(***************************************************************************)

LEMMA AnyWorkerKeeps ==
  ASSUME AnyPoolInv, NEW w \in Workers, WorkerStep(w)
  PROVE  AnyPoolInv'
<1>. USE ThreadPoolAssumption
<1>0. AnyPoolTypes /\ AnyLocked /\ AnyCallers /\ AnyPilledSound /\ NoWorkBehindPills
  BY DEF AnyPoolInv
<1>a. w \in Workers \cup Callers /\ \A t \in Callers : t # w /\ t \in Workers \cup Callers
  BY DEF Callers
<1>1. CASE QueueGet(w)
  <2>1. /\ list # <<>> /\ list' = Tail(list) /\ owner' = owner /\ destroying' = destroying
        /\ pc[w] = "get"
        /\ pc' = [pc EXCEPT ![w] = IF Head(list) = NULL THEN "ended" ELSE "run"]
        /\ item' = [item EXCEPT ![w] = Head(list)]
    BY <1>1 DEF QueueGet, Goes
  <2>2. /\ Tail(list) \in Seq(Entries) /\ Head(list) \in Entries /\ Head(list) = list[1]
        /\ Len(list) \in Nat \ {0} /\ Len(list') = Len(list) - 1
        /\ \A i \in 1..Len(list') : list'[i] = list[i + 1] /\ i + 1 \in 1..Len(list)
    BY <1>0, <2>1, TailEntry DEF AnyPoolTypes
  <2>3. AnyPoolTypes'
    BY <1>0, <1>a, <2>1, <2>2 DEF AnyPoolTypes, PoolPoints
  <2>4. \A t \in Callers : pc'[t] = pc[t] /\ item'[t] = item[t]
    BY <1>0, <1>a, <2>1 DEF AnyPoolTypes
  <2>5. AnyLocked' /\ AnyCallers'
    BY <1>0, <2>1, <2>4 DEF AnyLocked, AnyCallers
  <2>6. \A v \in Workers : pc'[v] = "ended" => pc[v] = "ended" \/ (v = w /\ list[1] = NULL)
    BY <1>0, <1>a, <2>1, <2>2 DEF AnyPoolTypes, PoolPoints
  <2>7. 1 \in 1..Len(list)
    BY <2>2
  <2>8. Pilled' => Pilled
    BY <2>2, <2>6, <2>7 DEF Pilled
  <2>9. AnyPilledSound'
    BY <1>0, <2>1, <2>4, <2>8 DEF AnyPilledSound
  <2>10. \A i, j \in 1..Len(list') : i < j /\ list'[i] = NULL => list'[j] = NULL
    <3>1. \A i, j \in 1..Len(list') : i < j => i + 1 < j + 1
      BY <2>2
    <3>. QED BY <1>0, <2>2, <3>1 DEF NoWorkBehindPills
  <2>11. (\E v \in Workers : pc'[v] = "ended") => \A i \in 1..Len(list') : list'[i] = NULL
    <3>1. \A i \in 1..Len(list') : 1 < i + 1
      BY <2>2
    <3>2. CASE \E v \in Workers : pc[v] = "ended"
      BY <1>0, <2>2, <3>2 DEF NoWorkBehindPills
    <3>3. CASE list[1] = NULL
      BY <1>0, <2>2, <2>7, <3>1, <3>3 DEF NoWorkBehindPills
    <3>. QED BY <2>6, <3>2, <3>3
  <2>12. NoWorkBehindPills'
    BY <2>10, <2>11 DEF NoWorkBehindPills
  <2>. QED BY <2>3, <2>5, <2>9, <2>12 DEF AnyPoolInv
<1>2. CASE QueueGetWait(w)
  <2>1. UNCHANGED <<owner, list, destroying, pc, item>>
    BY <1>2 DEF QueueGetWait, poolVars
  <2>2. AnyPilledSound' /\ NoWorkBehindPills'
    BY <1>0, <2>1, AnyQueueStays
  <2>. QED BY <1>0, <2>1, <2>2 DEF AnyPoolInv, AnyPoolTypes, AnyLocked, AnyCallers
<1>3. CASE Execute(w)
  <2>1. /\ UNCHANGED <<owner, list, destroying, item>>
        /\ pc[w] = "run" /\ pc' = [pc EXCEPT ![w] = "get"]
    BY <1>3 DEF Execute, Goes
  <2>2. \A t \in Callers : pc'[t] = pc[t]
    BY <1>0, <1>a, <2>1 DEF AnyPoolTypes
  <2>3. \A v \in Workers : pc'[v] = "ended" <=> pc[v] = "ended"
    BY <1>0, <2>1 DEF AnyPoolTypes, PoolPoints
  <2>4. AnyPilledSound' /\ NoWorkBehindPills'
    BY <1>0, <2>1, <2>2, <2>3, AnyQueueStays
  <2>5. AnyPoolTypes'
    BY <1>0, <2>1 DEF AnyPoolTypes, PoolPoints
  <2>. QED BY <1>0, <2>1, <2>2, <2>4, <2>5 DEF AnyPoolInv, AnyLocked, AnyCallers
<1>. QED BY <1>1, <1>2, <1>3 DEF WorkerStep

\* A caller goes from one place to another, and locks or unlocks the mutex of the
\* pool, or leaves it; the queue is as it was.
LEMMA AnyCallerMoves ==
  ASSUME AnyPoolInv, NEW t \in Callers, NEW to \in PoolPoints,
         pc' = [pc EXCEPT ![t] = to], list' = list, destroying = 1 => destroying' = 1,
         owner' \in [Mutexes -> Callers \cup {NoOwner}],
         item' \in [Workers \cup Callers -> Entries],
         \A u \in Callers : u # t => item'[u] = item[u],
         owner'["pool"] = owner["pool"] \/ owner["pool"] \in {NoOwner, t},
         to \in {"submit test", "submit put", "submit unlock", "destroy put"} => owner'["pool"] = t,
         to \in {"submit lock", "submit test", "submit put"} => item'[t] \in Work,
         to \in {"destroy lock", "destroy put"} => destroying' = 1,
         to = "submit put" => destroying = 0
  PROVE  AnyPoolInv'
<1>. USE ThreadPoolAssumption
<1>0. AnyPoolTypes /\ AnyLocked /\ AnyCallers /\ AnyPilledSound /\ NoWorkBehindPills
  BY DEF AnyPoolInv
<1>a. t \in Workers \cup Callers /\ \A w \in Workers : w # t
  BY DEF Callers
<1>1. /\ pc'[t] = to
      /\ \A u \in Workers \cup Callers : u # t => pc'[u] = pc[u]
  BY <1>0, <1>a DEF AnyPoolTypes
<1>2. AnyPoolTypes'
  BY <1>0, <1>a DEF AnyPoolTypes
<1>3. AnyLocked'
  <2>. SUFFICES ASSUME NEW u \in Callers,
                       pc'[u] \in {"submit test", "submit put", "submit unlock", "destroy put"}
                PROVE  owner'["pool"] = u
    BY DEF AnyLocked
  <2>1. CASE u = t
    BY <1>1, <2>1
  <2>2. CASE u # t
    <3>1. owner["pool"] = u
      BY <1>0, <1>1, <2>2 DEF AnyLocked
    <3>2. u # NoOwner
      BY DEF Callers
    <3>. QED BY <2>2, <3>1, <3>2
  <2>. QED BY <2>1, <2>2
<1>4. AnyCallers'
  <2>1. \A u \in Callers : u # t => pc'[u] = pc[u] /\ item'[u] = item[u]
    BY <1>1
  <2>. QED BY <1>0, <1>1, <2>1 DEF AnyCallers
<1>5. AnyPilledSound' /\ NoWorkBehindPills'
  <2>1. \A w \in Workers : pc'[w] = pc[w]
    BY <1>1, <1>a
  <2>2. \A u \in Callers : pc'[u] = "submit put" => pc[u] = "submit put" \/ destroying = 0
    BY <1>1
  <2>. QED BY <1>0, <2>1, <2>2, AnyQueueStays
<1>. QED BY <1>2, <1>3, <1>4, <1>5 DEF AnyPoolInv

LEMMA AnySubmitKeeps ==
  ASSUME AnyPoolInv, NEW t \in Callers, SubmitStep(t) \/ \E x \in Work : Submit(t, x)
  PROVE  AnyPoolInv'
<1>. USE ThreadPoolAssumption
<1>0. AnyPoolTypes /\ AnyLocked /\ AnyCallers /\ AnyPilledSound /\ NoWorkBehindPills
  BY DEF AnyPoolInv
<1>a. t \in Workers \cup Callers /\ \A w \in Workers : w # t
  BY DEF Callers
<1>1. ASSUME NEW x \in Work, Submit(t, x) PROVE AnyPoolInv'
  <2>1. item' = [item EXCEPT ![t] = x] /\ UNCHANGED <<owner, list, destroying>>
    BY <1>1 DEF Submit
  <2>2. item' \in [Workers \cup Callers -> Entries] /\ item'[t] = x
        /\ \A u \in Callers : u # t => item'[u] = item[u]
    BY <1>0, <1>a, <2>1 DEF AnyPoolTypes, Entries, Callers
  <2>3. PICK to \in {"submit lock", "client"} : pc' = [pc EXCEPT ![t] = to]
    BY <1>1 DEF Submit, Goes
  <2>. QED BY <1>0, <2>1, <2>2, <2>3, AnyCallerMoves DEF AnyPoolTypes, PoolPoints
<1>2. CASE SubmitLock(t)
  <2>1. /\ pc[t] = "submit lock" /\ pc' = [pc EXCEPT ![t] = "submit test"]
        /\ owner["pool"] = NoOwner /\ owner' = [owner EXCEPT !["pool"] = t]
        /\ UNCHANGED <<list, destroying, item>>
    BY <1>2 DEF SubmitLock, Goes, Lock
  <2>2. owner' \in [Mutexes -> Callers \cup {NoOwner}] /\ owner'["pool"] = t
    BY <1>0, <2>1 DEF AnyPoolTypes, PoolPoints
  <2>3. item[t] \in Work
    BY <1>0, <2>1 DEF AnyCallers
  <2>. QED BY <1>0, <2>1, <2>2, <2>3, AnyCallerMoves DEF AnyPoolTypes, PoolPoints
<1>3. CASE SubmitTest(t)
  <2>1. pc[t] = "submit test" /\ UNCHANGED <<owner, list, destroying, item>>
    BY <1>3 DEF SubmitTest, Goes
  <2>2. owner["pool"] = t /\ item[t] \in Work
    BY <1>0, <2>1 DEF AnyLocked, AnyCallers
  <2>3. PICK to \in {"submit put", "submit unlock"} :
          pc' = [pc EXCEPT ![t] = to] /\ (to = "submit put" => destroying = 0)
    BY <1>3 DEF SubmitTest, Goes
  <2>. QED BY <1>0, <2>1, <2>2, <2>3, AnyCallerMoves DEF AnyPoolTypes, PoolPoints
<1>4. CASE SubmitPut(t)
  <2>1. /\ pc[t] = "submit put" /\ pc' = [pc EXCEPT ![t] = "submit unlock"]
        /\ owner' = owner /\ list' = Append(list, item[t]) /\ UNCHANGED <<destroying, item>>
    BY <1>4, QueuePutKeeps DEF SubmitPut, Goes
  <2>2. item[t] \in Work /\ owner["pool"] = t /\ ~Pilled
    BY <1>0, <2>1 DEF AnyCallers, AnyLocked, AnyPilledSound
  <2>3. /\ pc'[t] = "submit unlock"
        /\ \A u \in Workers \cup Callers : u # t => pc'[u] = pc[u]
    BY <1>0, <1>a, <2>1 DEF AnyPoolTypes
  <2>4. AnyPilledSound' /\ NoWorkBehindPills'
    BY <1>0, <1>a, <2>1, <2>2, <2>3, AnyWorkPut
  <2>5. list' \in Seq(Entries)
    BY <1>0, <2>1, <2>2, AppendEntry DEF AnyPoolTypes, Entries
  <2>6. AnyPoolTypes'
    BY <1>0, <1>a, <2>1, <2>5 DEF AnyPoolTypes, PoolPoints
  <2>7. AnyLocked' /\ AnyCallers'
    BY <1>0, <2>1, <2>2, <2>3 DEF AnyLocked, AnyCallers
  <2>. QED BY <2>4, <2>6, <2>7 DEF AnyPoolInv
<1>5. CASE SubmitUnlock(t)
  <2>1. /\ pc' = [pc EXCEPT ![t] = "client"] /\ owner["pool"] = t
        /\ owner' = [owner EXCEPT !["pool"] = NoOwner] /\ UNCHANGED <<list, destroying, item>>
    BY <1>5 DEF SubmitUnlock, Goes, Unlock
  <2>2. owner' \in [Mutexes -> Callers \cup {NoOwner}]
    BY <1>0, <2>1 DEF AnyPoolTypes, PoolPoints
  <2>. QED BY <1>0, <2>1, <2>2, AnyCallerMoves DEF AnyPoolTypes, PoolPoints
<1>. QED BY <1>1, <1>2, <1>3, <1>4, <1>5 DEF SubmitStep

LEMMA AnyDestroyKeeps ==
  ASSUME AnyPoolInv, NEW t \in Callers, Destroy(t) \/ DestroyStep(t)
  PROVE  AnyPoolInv'
<1>. USE ThreadPoolAssumption
<1>0. AnyPoolTypes /\ AnyLocked /\ AnyCallers /\ AnyPilledSound /\ NoWorkBehindPills
  BY DEF AnyPoolInv
<1>1. CASE Destroy(t)
  <2>1. UNCHANGED <<owner, list, item>> /\ destroying' = 1
    BY <1>1 DEF Destroy
  <2>2. PICK to \in {"destroy lock", "destroy queue"} : pc' = [pc EXCEPT ![t] = to]
    BY <1>1 DEF Destroy, Goes
  <2>. QED BY <1>0, <2>1, <2>2, AnyCallerMoves DEF AnyPoolTypes, PoolPoints
<1>2. CASE DestroyLock(t)
  <2>1. /\ pc[t] = "destroy lock" /\ pc' = [pc EXCEPT ![t] = "destroy put"]
        /\ owner["pool"] = NoOwner /\ owner' = [owner EXCEPT !["pool"] = t]
        /\ UNCHANGED <<list, destroying, item>>
    BY <1>2 DEF DestroyLock, Goes, Lock
  <2>2. owner' \in [Mutexes -> Callers \cup {NoOwner}] /\ owner'["pool"] = t
    BY <1>0, <2>1 DEF AnyPoolTypes, PoolPoints
  <2>3. destroying = 1
    BY <1>0, <2>1 DEF AnyCallers
  <2>. QED BY <1>0, <2>1, <2>2, <2>3, AnyCallerMoves DEF AnyPoolTypes, PoolPoints
<1>3. CASE DestroyPut(t)
  <2>1. /\ pc[t] = "destroy put" /\ owner' = owner /\ list' = Append(list, NULL)
        /\ UNCHANGED <<destroying, pc, item>>
    BY <1>3, QueuePutKeeps DEF DestroyPut
  <2>2. destroying = 1 /\ \A u \in Callers : pc[u] # "submit put"
    BY <1>0, <2>1 DEF AnyCallers, AnyLocked
  <2>3. AnyPilledSound' /\ NoWorkBehindPills'
    BY <1>0, <2>1, <2>2, AnyPillPut
  <2>4. list' \in Seq(Entries)
    BY <1>0, <2>1, AppendEntry DEF AnyPoolTypes, Entries
  <2>. QED BY <1>0, <2>1, <2>3, <2>4 DEF AnyPoolInv, AnyPoolTypes, AnyLocked, AnyCallers
<1>4. CASE DestroyUnlock(t)
  <2>1. /\ pc' = [pc EXCEPT ![t] = "destroy join"] /\ owner["pool"] = t
        /\ owner' = [owner EXCEPT !["pool"] = NoOwner] /\ UNCHANGED <<list, destroying, item>>
    BY <1>4 DEF DestroyUnlock, Goes, Unlock
  <2>2. owner' \in [Mutexes -> Callers \cup {NoOwner}]
    BY <1>0, <2>1 DEF AnyPoolTypes, PoolPoints
  <2>. QED BY <1>0, <2>1, <2>2, AnyCallerMoves DEF AnyPoolTypes, PoolPoints
<1>5. CASE DestroyJoin(t) \/ DestroyQueue(t)
  <2>1. UNCHANGED <<owner, list, destroying, item>>
    BY <1>5 DEF DestroyJoin, DestroyQueue
  <2>2. PICK to \in {"destroy queue", "destroyed"} : pc' = [pc EXCEPT ![t] = to]
    BY <1>5 DEF DestroyJoin, DestroyQueue, Goes
  <2>. QED BY <1>0, <2>1, <2>2, AnyCallerMoves DEF AnyPoolTypes, PoolPoints
<1>. QED BY <1>1, <1>2, <1>3, <1>4, <1>5 DEF DestroyStep

-----------------------------------------------------------------------------
\* A submitter that races tp_destroy gets its item in before the first NULL or not
\* at all: every work item is ahead of every NULL, and no worker ends while work is
\* queued, however many threads submit, and destroy.
THEOREM PoolPillsLast == Spec => []NoWorkBehindPills
<1>1. AnyPoolInv /\ [Next]_vars => AnyPoolInv'
  <2>. SUFFICES ASSUME AnyPoolInv, [Next]_vars PROVE AnyPoolInv'
    OBVIOUS
  <2>0. AnyPilledSound /\ NoWorkBehindPills
    BY DEF AnyPoolInv
  <2>1. CASE UNCHANGED <<owner, poolVars>>
    <3>1. UNCHANGED <<owner, list, destroying, pc, item>>
      BY <2>1 DEF poolVars
    <3>2. AnyPilledSound' /\ NoWorkBehindPills'
      BY <2>0, <3>1, AnyQueueStays
    <3>. QED BY <3>1, <3>2 DEF AnyPoolInv, AnyPoolTypes, AnyLocked, AnyCallers
  <2>2. CASE Spurious \/ UNCHANGED vars
    BY <2>1, <2>2 DEF Spurious, SpuriousWakeup, vars
  <2>3. ASSUME NEW w \in Workers, WorkerStep(w) PROVE AnyPoolInv'
    BY <2>3, AnyWorkerKeeps
  <2>4. ASSUME NEW t \in Callers,
               \/ (\E x \in Work : Submit(t, x)) \/ SubmitStep(t)
               \/ Destroy(t) \/ DestroyStep(t)
        PROVE  AnyPoolInv'
    BY <2>4, AnySubmitKeeps, AnyDestroyKeeps
  <2>. QED BY <2>2, <2>3, <2>4 DEF Next, Ended
<1>2. AnyPoolInv => NoWorkBehindPills
  BY DEF AnyPoolInv
<1>. QED BY <1>1, <1>2, AnyPoolInit, PTL DEF Spec

-----------------------------------------------------------------------------
(***************************************************************************)
(* The latch with nothing else: its calls, one of each thread.             *)
(***************************************************************************)

\* cdl_wait_for_all returns only when every call of cdl_signal_one has ended, and
\* the latch's counter never leaves its range, for any number of calls, also when
\* they are not the adder's: the latch, in a stack frame, can be destroyed.
THEOREM LatchWaitsForAll == LatchSpec => [](LatchTypeOK /\ WaitsForAll)
<1>. DEFINE WaiterSound == at[Waiter] \in {"client", "wait", "waited", "destroyed"}
<1>1. PThreadsInit /\ LatchInit => LatchInv /\ WaiterSound
  <2>. SUFFICES ASSUME PThreadsInit, LatchInit PROVE LatchInv /\ WaiterSound
    OBVIOUS
  <2>1. Uncounted = Signallers
    BY DEF LatchInit, Uncounted
  <2>. QED BY <2>1, LatchAssumption
       DEF PThreadsInit, LatchInit, LatchInv, LatchTypes, LatchPoints, InsideLocked, WaitsForAll
<1>2. LatchInv /\ WaiterSound /\ [LatchNext]_allLatchVars => LatchInv' /\ WaiterSound'
  <2>. SUFFICES ASSUME LatchInv, WaiterSound, [LatchNext]_allLatchVars
                PROVE  LatchInv' /\ WaiterSound'
    OBVIOUS
  <2>1. CASE LatchSpurious \/ UNCHANGED allLatchVars
    <3>1. UNCHANGED <<owner, counter, at>>
      BY <2>1 DEF LatchSpurious, SpuriousWakeup, latchVars, allLatchVars
    <3>. QED BY <3>1 DEF LatchInv, LatchTypes, Uncounted, InsideLocked, WaitsForAll
  <2>2. ASSUME NEW t \in Signallers, SignalStep(t) PROVE WaiterSound'
    <3>1. at'[Waiter] = at[Waiter]
      BY <2>2, LatchAssumption
      DEF LatchInv, LatchTypes, SignalStep, SignalLock, SignalCount, SignalUnlock, At
    <3>. QED BY <3>1
  <2>3. CASE WaitStep(Waiter)
    <3>1. WaiterSound'
      BY <2>3 DEF LatchInv, LatchTypes, WaitStep, WaitLock, WaitRelock, WaitBlock, WaitReturn,
                  LatchDestroy, latchVars, At
    <3>. QED BY <2>3, <3>1, WaitKeeps
  <2>. QED BY <2>1, <2>2, <2>3, SignalKeeps DEF LatchNext
<1>3. LatchInv /\ WaiterSound => LatchTypeOK /\ WaitsForAll
  <2>. SUFFICES ASSUME LatchInv, WaiterSound PROVE LatchTypeOK /\ WaitsForAll
    OBVIOUS
  <2>1. Cardinality(Signallers) \in Nat
    BY LatchAssumption, FS_CardinalityType
  <2>2. Uncounted \subseteq Signallers
    BY DEF Uncounted
  <2>3. counter \in 0..Cardinality(Signallers)
    BY <2>1, <2>2, UncountedFinite DEF LatchInv
  <2>. QED BY <2>3 DEF LatchInv, LatchTypes, InsideLocked, LatchTypeOK
<1>. QED BY <1>1, <1>2, <1>3, PTL DEF LatchSpec
=============================================================================
