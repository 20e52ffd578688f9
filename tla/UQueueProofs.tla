---------------------------- MODULE UQueueProofs ----------------------------
(***************************************************************************)
(* The bounded queue of user threads, for any number of threads, queues    *)
(* and items and any sizes: the semaphores and the list agree, a thread    *)
(* that resumes finds its node, and each queue is a bounded channel.       *)
(*                                                                         *)
(* The queue is a client of the semaphores: each of its steps is a step of *)
(* USynch, so that what USynchProofs shows of any client holds here.       *)
(*                                                                         *)
(* Then pgrep, a client of the queues: for any file and any word, it       *)
(* prints the right lines in the right order and leaves nothing behind.    *)
(***************************************************************************)
EXTENDS PGrep, TLAPS, FiniteSetTheorems, SequenceTheorems

\* before, the history of ReadyOrder, is not followed here.
LibP == INSTANCE USynchProofs WITH
  before <- {},
  Sems <- QueueSems,
  Events <- {},
  Limit <- [s \in QueueSems |-> Size[s[1]]],
  InitUnits <- [s \in QueueSems |-> IF s[2] = "hasSpace" THEN Size[s[1]] ELSE 0],
  Requests <- {1}

-----------------------------------------------------------------------------
(***************************************************************************)
(* The semaphores of the queues.                                           *)
(***************************************************************************)

\* The point of the code where a thread is that waits for, or has been granted,
\* a unit of s.
Point(s) == IF s[2] = "hasSpace" THEN "insert" ELSE "remove"

\* The threads that hold a unit of s.
Holders(s) ==
  {t \in Threads : pc[t] = Point(s) /\ queue[t] = s[1] /\ t \notin LibP!SemWaiting(s)}

LEMMA QueueSemsSplit ==
  /\ \A s \in QueueSems : s[1] \in Queues /\ s[2] \in {"hasItems", "hasSpace"}
  /\ \A s \in QueueSems : s = HasItems(s[1]) \/ s = HasSpace(s[1])
  /\ \A q \in Queues : /\ HasItems(q) \in QueueSems /\ HasItems(q)[1] = q
                       /\ HasSpace(q) \in QueueSems /\ HasSpace(q)[1] = q
                       /\ Point(HasItems(q)) = "remove" /\ Point(HasSpace(q)) = "insert"
                       /\ HasItems(q) # HasSpace(q)
BY DEF QueueSems, HasItems, HasSpace, Point

\* Two semaphores with the same queue and the same point are one.
LEMMA PointsDiffer ==
  ASSUME NEW r \in QueueSems, NEW s \in QueueSems, r # s
  PROVE  r[1] # s[1] \/ Point(r) # Point(s)
BY DEF QueueSems, Point

LEMMA SemSizes == \A s \in QueueSems : Size[s[1]] \in Nat \ {0}
BY QueueSemsSplit, QueueAssumption

\* The assumptions of the library hold of the queue's semaphores.
LEMMA LibAssumptions == LibP!SemsAssumption /\ LibP!HandlesAssumption
<1>1. LibP!SemsAssumption
  BY SemSizes, QueueAssumption DEF LibP!SemsAssumption
<1>2. LibP!HandlesAssumption
  BY QueueAssumption DEF LibP!HandlesAssumption, IsFiniteSet, LibP!IsFiniteSet
<1>. QED BY <1>1, <1>2

LEMMA SameLib ==
  /\ Lib!Init => LibP!Init
  /\ Lib!Idle => LibP!Idle
  /\ Lib!UThreadStep => LibP!UThreadStep
  /\ \A t \in Threads, s \in QueueSems :
       /\ Lib!SemAcquire(t, s, 1) => LibP!SemAcquire(t, s, 1)
       /\ Lib!SemBlock(t, s, 1) => LibP!SemBlock(t, s, 1)
  /\ \A s \in QueueSems :
       /\ Lib!SemPost(s, 1) => LibP!SemPost(s, 1)
       /\ Lib!SemServe(s) => LibP!SemServe(s)
       /\ Lib!SemPostEnd(s) => LibP!SemPostEnd(s)
       /\ Lib!SemWaiting(s) = LibP!SemWaiting(s)
       /\ Lib!SemWaiting(s)' = LibP!SemWaiting(s)'
<1>. USE DEF Lib!Idle, LibP!Idle, Lib!ClientRuns, LibP!ClientRuns, Lib!utVars, LibP!utVars,
             Lib!semVars, LibP!semVars, Lib!eventVars, LibP!eventVars,
             Lib!Schedule, LibP!Schedule, Lib!ContextSwitch, LibP!ContextSwitch,
             Lib!NextThread, LibP!NextThread, Lib!RestOfQueue, LibP!RestOfQueue
<1>1. Lib!Init => LibP!Init
  BY DEF Lib!Init, LibP!Init, Lib!UtInit, LibP!UtInit, Lib!SemInit, LibP!SemInit,
         Lib!EventInit, LibP!EventInit
<1>2. Lib!UThreadStep => LibP!UThreadStep
  <2>1. Lib!UtRun => LibP!UtRun
    BY DEF Lib!UtRun, LibP!UtRun
  <2>2. Lib!UtRunReturn => LibP!UtRunReturn
    BY DEF Lib!UtRunReturn, LibP!UtRunReturn
  <2>3. Lib!Aborted => LibP!Aborted
    BY DEF Lib!Aborted, LibP!Aborted
  <2>4. ASSUME NEW t \in Threads
        PROVE  /\ Lib!UtCreate(t) => LibP!UtCreate(t)
               /\ Lib!UtYield(t) => LibP!UtYield(t)
               /\ Lib!UtExit(t) => LibP!UtExit(t)
    BY DEF Lib!UtCreate, LibP!UtCreate, Lib!UtYield, LibP!UtYield, Lib!UtExit, LibP!UtExit,
           Lib!InternalExit, LibP!InternalExit
  <2>. HIDE DEF Lib!Schedule, LibP!Schedule
  <2>. QED BY <2>1, <2>2, <2>3, <2>4 DEF Lib!UThreadStep, LibP!UThreadStep
<1>3. ASSUME NEW t \in Threads, NEW s \in QueueSems
      PROVE  /\ Lib!SemAcquire(t, s, 1) => LibP!SemAcquire(t, s, 1)
             /\ Lib!SemBlock(t, s, 1) => LibP!SemBlock(t, s, 1)
  BY DEF Lib!SemAcquire, LibP!SemAcquire, Lib!SemBlock, LibP!SemBlock,
         Lib!UtDeactivate, LibP!UtDeactivate, Lib!WaitBlock, LibP!WaitBlock
<1>4. ASSUME NEW s \in QueueSems
      PROVE  /\ Lib!SemPost(s, 1) => LibP!SemPost(s, 1)
             /\ Lib!SemServe(s) => LibP!SemServe(s)
             /\ Lib!SemPostEnd(s) => LibP!SemPostEnd(s)
  BY DEF Lib!SemPost, LibP!SemPost, Lib!Clamped, LibP!Clamped, Lib!SemServe, LibP!SemServe,
         Lib!SemPostEnd, LibP!SemPostEnd, Lib!CanServe, LibP!CanServe,
         Lib!UtActivate, LibP!UtActivate
<1>5. ASSUME NEW s \in QueueSems
      PROVE  /\ Lib!SemWaiting(s) = LibP!SemWaiting(s)
             /\ Lib!SemWaiting(s)' = LibP!SemWaiting(s)'
  BY DEF Lib!SemWaiting, LibP!SemWaiting
<1>. QED BY <1>1, <1>2, <1>3, <1>4, <1>5

\* Every step of a queue's client is a step of the library.
LEMMA LibStep ==
  ASSUME queue \in [Threads -> Queues], [Next]_vars
  PROVE  [LibP!Next]_LibP!vars
<1>1. CASE UNCHANGED vars
  BY <1>1 DEF vars, LibP!vars
<1>2. CASE ClientStep
  BY <1>2, SameLib DEF ClientStep, LibP!Next
<1>3. CASE PostServe
  BY <1>3, SameLib DEF PostServe, LibP!Next
<1>4. ASSUME NEW t \in Threads, NEW q \in Queues, QueuePut(t, q) \/ QueueGet(t, q)
      PROVE  LibP!Next
  BY <1>4, SameLib, QueueSemsSplit DEF QueuePut, QueueGet, SemWait, LibP!Next
<1>5. ASSUME NEW t \in Threads, NEW x \in Items, PutInsert(t, x)
      PROVE  LibP!Next
  BY <1>5, SameLib, QueueSemsSplit DEF PutInsert, LibP!Next
<1>6. ASSUME NEW t \in Threads, GetRemove(t)
      PROVE  LibP!Next
  BY <1>6, SameLib, QueueSemsSplit DEF GetRemove, LibP!Next
<1>7. ASSUME NEW t \in Threads, PostReturn(t)
      PROVE  LibP!Next
  BY <1>7, SameLib DEF PostReturn, LibP!Next
<1>. QED BY <1>1, <1>2, <1>3, <1>4, <1>5, <1>6, <1>7 DEF Next

-----------------------------------------------------------------------------
(***************************************************************************)
(* The inductive invariant: besides that of the library, a thread waits    *)
(* where its pc says, and the units, the threads that hold one, and the    *)
(* nodes of each queue add up.                                             *)
(***************************************************************************)

QueueTypes ==
  /\ list \in [Queues -> Seq(Items)]
  /\ pc \in [Threads -> {"client", "insert", "remove", "posting"}]
  /\ queue \in [Threads -> Queues]
  /\ val \in [Queues -> [Threads -> Items \cup {NULL}]]

WaitersPoint ==
  \A s \in QueueSems : \A t \in LibP!SemWaiting(s) : pc[t] = Point(s) /\ queue[t] = s[1]

\* A sem_post is under way only while a user thread runs.
PosterRuns == posting # NULL => running_thread \in Threads

Held(s) == Cardinality(Holders(s))

Balanced(q) ==
  /\ units[HasItems(q)] + units[HasSpace(q)] + Held(HasSpace(q)) + Held(HasItems(q)) = Size[q]
  /\ Len(list[q]) = units[HasItems(q)] + Held(HasItems(q))

QueueInv ==
  /\ LibP!SynchInv
  /\ QueueTypes
  /\ WaitersPoint
  /\ PosterRuns
  /\ \A q \in Queues : Balanced(q)

-----------------------------------------------------------------------------
(***************************************************************************)
(* Who holds a unit, after each step.                                      *)
(***************************************************************************)

\* The running thread waits for nothing.
LEMMA RunningWaitsNot ==
  ASSUME LibP!SynchInv, NEW t \in Threads, running_thread = t, NEW s \in QueueSems
  PROVE  t \notin LibP!SemWaiting(s)
BY DEF LibP!SynchInv, LibP!WaitsSound, LibP!WaitersBlocked, LibP!Blocked

LEMMA WaitingThreads ==
  ASSUME LibP!SynchInv, NEW s \in QueueSems, NEW t \in LibP!SemWaiting(s)
  PROVE  t \in Threads
BY DEF LibP!SynchInv, LibP!WaitsSound, LibP!WaitersBlocked, LibP!Blocked, LibP!TypeOK, LibP!UtTypeOK

LEMMA HeldNat ==
  \A s \in QueueSems : IsFiniteSet(Holders(s)) /\ Held(s) \in Nat /\ Held(s)' \in Nat
<1>. TAKE s \in QueueSems
<1>1. Holders(s) \subseteq Threads /\ Holders(s)' \subseteq Threads
  BY DEF Holders
<1>. QED BY <1>1, QueueAssumption, FS_Subset, FS_CardinalityType DEF Held

LEMMA HeldMore ==
  ASSUME NEW s \in QueueSems, NEW t, t \notin Holders(s), Holders(s)' = Holders(s) \cup {t}
  PROVE  Held(s)' = Held(s) + 1
BY HeldNat, FS_AddElement DEF Held

LEMMA HeldFewer ==
  ASSUME NEW s \in QueueSems, NEW t \in Holders(s), Holders(s)' = Holders(s) \ {t}
  PROVE  Held(s)' = Held(s) - 1
BY HeldNat, FS_RemoveElement DEF Held

LEMMA HeldSome ==
  ASSUME NEW s \in QueueSems, NEW t \in Holders(s)
  PROVE  Held(s) >= 1
<1>1. IsFiniteSet(Holders(s) \ {t}) /\ Cardinality(Holders(s) \ {t}) = Held(s) - 1
  BY HeldNat, FS_RemoveElement DEF Held
<1>2. Cardinality(Holders(s) \ {t}) \in Nat /\ Held(s) \in Nat
  BY <1>1, HeldNat, FS_CardinalityType
<1>. QED BY <1>1, <1>2

\* sem_wait that takes a unit.
LEMMA AcquireHolds ==
  ASSUME QueueInv, NEW t \in Threads, NEW s \in QueueSems, LibP!SemAcquire(t, s, 1),
         pc[t] = "client", pc' = [pc EXCEPT ![t] = Point(s)], queue' = [queue EXCEPT ![t] = s[1]]
  PROVE  /\ units'[s] = units[s] - 1 /\ Held(s)' = Held(s) + 1
         /\ \A r \in QueueSems : r # s => units'[r] = units[r] /\ Held(r)' = Held(r)
         /\ WaitersPoint'
<1>. USE DEF QueueInv, QueueTypes
<1>1. running_thread = t /\ waiters' = waiters /\ units' = [units EXCEPT ![s] = @ - 1]
  BY DEF LibP!SemAcquire
<1>2. \A r \in QueueSems : LibP!SemWaiting(r)' = LibP!SemWaiting(r) /\ t \notin LibP!SemWaiting(r)
  BY <1>1, RunningWaitsNot DEF LibP!SemWaiting
<1>3. /\ \A r \in QueueSems : Point(r) \in {"insert", "remove"}
      /\ pc'[t] = Point(s) /\ queue'[t] = s[1]
      /\ \A u \in Threads : u # t => pc'[u] = pc[u] /\ queue'[u] = queue[u]
  BY DEF Point
<1>4. t \notin Holders(s) /\ Holders(s)' = Holders(s) \cup {t}
  <2>1. Holders(s)' = {u \in Threads : pc'[u] = Point(s) /\ queue'[u] = s[1] /\ u \notin LibP!SemWaiting(s)}
    BY <1>2 DEF Holders, Point
  <2>2. Point(s) # "client"
    BY <1>3
  <2>. QED BY <1>2, <1>3, <2>1, <2>2 DEF Holders
<1>5. \A r \in QueueSems : r # s => Holders(r)' = Holders(r)
  BY <1>2, <1>3, QueueSemsSplit, PointsDiffer DEF Holders
<1>6. WaitersPoint'
  BY <1>2 DEF WaitersPoint, LibP!SynchInv, Point
<1>7. units \in [QueueSems -> Nat]
  BY DEF LibP!SynchInv, LibP!TypeOK
<1>. QED BY <1>1, <1>4, <1>5, <1>6, <1>7, HeldMore DEF Held

\* sem_wait that blocks.
LEMMA BlockHolds ==
  ASSUME QueueInv, NEW t \in Threads, NEW s \in QueueSems, LibP!SemBlock(t, s, 1),
         pc[t] = "client", pc' = [pc EXCEPT ![t] = Point(s)], queue' = [queue EXCEPT ![t] = s[1]]
  PROVE  /\ units' = units
         /\ \A r \in QueueSems : Held(r)' = Held(r)
         /\ WaitersPoint'
<1>. USE DEF QueueInv, QueueTypes
<1>1. running_thread = t /\ units' = units
  BY DEF LibP!SemBlock, LibP!UtDeactivate
<1>2. \A r \in QueueSems : t \notin LibP!SemWaiting(r)
  BY <1>1, RunningWaitsNot
<1>3. /\ LibP!SemWaiting(s)' = LibP!SemWaiting(s) \cup {t}
      /\ \A r \in QueueSems : r # s => LibP!SemWaiting(r)' = LibP!SemWaiting(r)
  BY LibP!SemBlockWaiting, LibAssumptions DEF LibP!SynchInv
<1>4. /\ \A r \in QueueSems : Point(r) \in {"insert", "remove"}
      /\ pc'[t] = Point(s) /\ queue'[t] = s[1]
      /\ \A u \in Threads : u # t => pc'[u] = pc[u] /\ queue'[u] = queue[u]
  BY DEF Point
<1>5. ASSUME NEW r \in QueueSems PROVE Holders(r)' = Holders(r)
  <2>1. ASSUME NEW u \in Threads, u # t PROVE u \in Holders(r)' <=> u \in Holders(r)
    BY <1>3, <1>4, <2>1 DEF Holders, Point
  <2>2. t \notin Holders(r)
    BY <1>4 DEF Holders
  <2>3. t \notin Holders(r)'
    BY <1>3, <1>4, PointsDiffer DEF Holders, Point
  <2>4. Holders(r)' = {u \in Threads : u \in Holders(r)'}
    BY DEF Holders
  <2>5. Holders(r) = {u \in Threads : u \in Holders(r)}
    BY DEF Holders
  <2>6. \A u \in Threads : u \in Holders(r)' <=> u \in Holders(r)
    BY <2>1, <2>2, <2>3
  <2>. QED BY <2>4, <2>5, <2>6
<1>6. WaitersPoint'
  <2>1. ASSUME NEW r \in QueueSems, NEW u \in LibP!SemWaiting(r)'
        PROVE  pc'[u] = Point(r) /\ queue'[u] = r[1]
    <3>1. CASE u \in LibP!SemWaiting(r)
      <4>1. u # t /\ u \in Threads
        BY <1>2, <3>1, WaitingThreads
      <4>. QED BY <1>4, <3>1, <4>1 DEF WaitersPoint
    <3>2. CASE u \notin LibP!SemWaiting(r)
      <4>1. r = s /\ u = t
        BY <1>3, <2>1, <3>2
      <4>. QED BY <1>4, <4>1
    <3>. QED BY <3>1, <3>2
  <2>2. WaitersPoint' <=> \A r \in QueueSems : \A u \in LibP!SemWaiting(r)' :
                            pc'[u] = Point(r) /\ queue'[u] = r[1]
    BY DEF WaitersPoint, Point
  <2>. QED BY <2>1, <2>2
<1>. QED BY <1>1, <1>5, <1>6 DEF Held

\* The thread that holds a unit of r goes on to sem_post on s.
LEMMA PostHolds ==
  ASSUME QueueInv, NEW t \in Threads, NEW r \in QueueSems, NEW s \in QueueSems,
         running_thread = t, pc[t] = Point(r), queue[t] = r[1],
         pc' = [pc EXCEPT ![t] = "posting"], queue' = queue,
         LibP!SemPost(s, 1), units[s] < Size[s[1]]
  PROVE  /\ units'[s] = units[s] + 1 /\ Held(r)' = Held(r) - 1
         /\ \A o \in QueueSems : o # s => units'[o] = units[o]
         /\ \A o \in QueueSems : o # r => Held(o)' = Held(o)
         /\ WaitersPoint'
<1>. USE DEF QueueInv, QueueTypes
<1>1. units \in [QueueSems -> Nat]
  BY DEF LibP!SynchInv, LibP!TypeOK
<1>2. units[s] \in Nat /\ Size[s[1]] \in Nat
  BY <1>1, SemSizes
<1>3. LibP!Clamped(s, units[s] + 1) = units[s] + 1
  BY <1>2 DEF LibP!Clamped
<1>4. units' = [units EXCEPT ![s] = units[s] + 1] /\ waiters' = waiters
  BY <1>3 DEF LibP!SemPost
<1>5. \A o \in QueueSems : LibP!SemWaiting(o)' = LibP!SemWaiting(o) /\ t \notin LibP!SemWaiting(o)
  BY <1>4, RunningWaitsNot DEF LibP!SemWaiting
<1>6. \A o \in QueueSems : Point(o) \in {"insert", "remove"}
  BY DEF Point
<1>7. t \in Holders(r) /\ Holders(r)' = Holders(r) \ {t}
  BY <1>5, <1>6 DEF Holders
<1>8. \A o \in QueueSems : o # r => Holders(o)' = Holders(o)
  BY <1>5, <1>6, PointsDiffer DEF Holders
<1>9. WaitersPoint'
  BY <1>5 DEF WaitersPoint, Point
<1>. QED BY <1>1, <1>4, <1>7, <1>8, <1>9, HeldFewer DEF Held

\* sem_post's loop hands a unit to the first thread that waits.
LEMMA ServeHolds ==
  ASSUME QueueInv, NEW s \in QueueSems, LibP!SemServe(s), UNCHANGED <<pc, queue>>
  PROVE  /\ units'[s] = units[s] - 1 /\ Held(s)' = Held(s) + 1
         /\ \A r \in QueueSems : r # s => units'[r] = units[r] /\ Held(r)' = Held(r)
         /\ WaitersPoint'
<1>. USE DEF QueueInv, QueueTypes
<1>. DEFINE h == Head(waiters[s]).thread
<1>1. /\ h \in LibP!SemWaiting(s)
      /\ LibP!SemWaiting(s)' = LibP!SemWaiting(s) \ {h}
      /\ \A r \in QueueSems : r # s => LibP!SemWaiting(r)' = LibP!SemWaiting(r)
  BY LibP!SemServeWaiting, LibAssumptions DEF LibP!SynchInv, LibP!WaitsSound
<1>2. Head(waiters[s]) \in LibP!SemWaitBlock
  BY HeadTailProperties DEF LibP!SemServe, LibP!CanServe, LibP!SynchInv, LibP!TypeOK
<1>3. h \in Threads /\ Head(waiters[s]).units = 1
  BY <1>2 DEF LibP!SemWaitBlock
<1>4. units \in [QueueSems -> Nat] /\ units' = [units EXCEPT ![s] = units[s] - 1]
  BY <1>3 DEF LibP!SemServe, LibP!SynchInv, LibP!TypeOK
<1>. HIDE DEF h
<1>5. h \notin Holders(s) /\ Holders(s)' = Holders(s) \cup {h}
  BY <1>1, <1>3 DEF Holders, WaitersPoint, Point
<1>6. \A r \in QueueSems : r # s => Holders(r)' = Holders(r)
  BY <1>1 DEF Holders, Point
<1>7. WaitersPoint'
  BY <1>1 DEF WaitersPoint, Point
<1>. QED BY <1>4, <1>5, <1>6, <1>7, HeldMore DEF Held

-----------------------------------------------------------------------------
(***************************************************************************)
(* The units and the nodes add up.                                         *)
(***************************************************************************)

\* A unit goes from a semaphore to a thread, or from a thread that puts a node
\* in the list, or takes one out, to the other semaphore.
LEMMA Sums ==
  ASSUME NEW h \in Int, NEW s \in Int, NEW i \in Int, NEW r \in Int, NEW n \in Int, NEW total \in Int,
         NEW hh \in Int, NEW ss \in Int, NEW ii \in Int, NEW rr \in Int, NEW nn \in Int,
         h + s + i + r = total, n = h + r,
         \/ hh = h /\ ss = s /\ ii = i /\ rr = r /\ nn = n
         \/ hh = h /\ ss = s - 1 /\ ii = i + 1 /\ rr = r /\ nn = n
         \/ hh = h + 1 /\ ss = s /\ ii = i - 1 /\ rr = r /\ nn = n + 1
         \/ hh = h - 1 /\ ss = s /\ ii = i /\ rr = r + 1 /\ nn = n
         \/ hh = h /\ ss = s + 1 /\ ii = i /\ rr = r - 1 /\ nn = n - 1
  PROVE  hh + ss + ii + rr = total /\ nn = hh + rr
OBVIOUS

\* How a step can change the numbers of a queue.
Same(q) ==
  /\ units'[HasItems(q)] = units[HasItems(q)] /\ units'[HasSpace(q)] = units[HasSpace(q)]
  /\ Held(HasSpace(q))' = Held(HasSpace(q)) /\ Held(HasItems(q))' = Held(HasItems(q))
  /\ Len(list'[q]) = Len(list[q])
TakesSpace(q) ==
  /\ units'[HasItems(q)] = units[HasItems(q)] /\ units'[HasSpace(q)] = units[HasSpace(q)] - 1
  /\ Held(HasSpace(q))' = Held(HasSpace(q)) + 1 /\ Held(HasItems(q))' = Held(HasItems(q))
  /\ Len(list'[q]) = Len(list[q])
PutsItem(q) ==
  /\ units'[HasItems(q)] = units[HasItems(q)] + 1 /\ units'[HasSpace(q)] = units[HasSpace(q)]
  /\ Held(HasSpace(q))' = Held(HasSpace(q)) - 1 /\ Held(HasItems(q))' = Held(HasItems(q))
  /\ Len(list'[q]) = Len(list[q]) + 1
TakesItem(q) ==
  /\ units'[HasItems(q)] = units[HasItems(q)] - 1 /\ units'[HasSpace(q)] = units[HasSpace(q)]
  /\ Held(HasSpace(q))' = Held(HasSpace(q)) /\ Held(HasItems(q))' = Held(HasItems(q)) + 1
  /\ Len(list'[q]) = Len(list[q])
GivesSpace(q) ==
  /\ units'[HasItems(q)] = units[HasItems(q)] /\ units'[HasSpace(q)] = units[HasSpace(q)] + 1
  /\ Held(HasSpace(q))' = Held(HasSpace(q)) /\ Held(HasItems(q))' = Held(HasItems(q)) - 1
  /\ Len(list'[q]) = Len(list[q]) - 1

LEMMA BalancedNext ==
  ASSUME NEW q \in Queues, QueueInv, units' \in [QueueSems -> Nat], list' \in [Queues -> Seq(Items)],
         Same(q) \/ TakesSpace(q) \/ PutsItem(q) \/ TakesItem(q) \/ GivesSpace(q)
  PROVE  Balanced(q)'
<1>. DEFINE h == units[HasItems(q)]  hh == units'[HasItems(q)]
            s == units[HasSpace(q)]  ss == units'[HasSpace(q)]
            i == Held(HasSpace(q))   ii == Held(HasSpace(q))'
            r == Held(HasItems(q))   rr == Held(HasItems(q))'
            n == Len(list[q])        nn == Len(list'[q])
            total == Size[q]
<1>1. HasItems(q) \in QueueSems /\ HasSpace(q) \in QueueSems
  BY QueueSemsSplit
<1>2. h \in Int /\ s \in Int /\ hh \in Int /\ ss \in Int
  BY <1>1 DEF QueueInv, LibP!SynchInv, LibP!TypeOK
<1>3. i \in Int /\ r \in Int /\ ii \in Int /\ rr \in Int
  BY <1>1, HeldNat
<1>4. n \in Int /\ nn \in Int /\ total \in Int
  BY LenProperties, QueueAssumption DEF QueueInv, QueueTypes
<1>5. h + s + i + r = total /\ n = h + r
  BY DEF QueueInv, Balanced
<1>6. \/ hh = h /\ ss = s /\ ii = i /\ rr = r /\ nn = n
      \/ hh = h /\ ss = s - 1 /\ ii = i + 1 /\ rr = r /\ nn = n
      \/ hh = h + 1 /\ ss = s /\ ii = i - 1 /\ rr = r /\ nn = n + 1
      \/ hh = h - 1 /\ ss = s /\ ii = i /\ rr = r + 1 /\ nn = n
      \/ hh = h /\ ss = s + 1 /\ ii = i /\ rr = r - 1 /\ nn = n - 1
  BY DEF Same, TakesSpace, PutsItem, TakesItem, GivesSpace
<1>7. HasItems(q)' = HasItems(q) /\ HasSpace(q)' = HasSpace(q)
  BY DEF HasItems, HasSpace
<1>8. hh + ss + ii + rr = total /\ nn = hh + rr => Balanced(q)'
  BY <1>7 DEF Balanced
<1>. HIDE DEF h, hh, s, ss, i, ii, r, rr, n, nn, total
<1>9. hh + ss + ii + rr = total /\ nn = hh + rr
  BY <1>2, <1>3, <1>4, <1>5, <1>6, Sums
<1>. QED BY <1>8, <1>9

-----------------------------------------------------------------------------
(***************************************************************************)
(* The invariant is inductive.                                             *)
(***************************************************************************)

Kept == QueueTypes' /\ WaitersPoint' /\ PosterRuns' /\ \A q \in Queues : Balanced(q)'

LEMMA UnitsNat == LibP!SynchInv' => units' \in [QueueSems -> Nat]
BY DEF LibP!SynchInv, LibP!TypeOK

\* The semaphores of two queues differ.
LEMMA OtherQueue ==
  ASSUME NEW p \in Queues, NEW q \in Queues, p # q
  PROVE  /\ HasItems(p) # HasItems(q) /\ HasItems(p) # HasSpace(q)
         /\ HasSpace(p) # HasItems(q) /\ HasSpace(p) # HasSpace(q)
BY DEF HasItems, HasSpace

LEMMA PutKeeps ==
  ASSUME QueueInv, LibP!SynchInv', NEW t \in Threads, NEW q \in Queues, QueuePut(t, q)
  PROVE  Kept
<1>. USE DEF QueueInv
<1>1. /\ running_thread = t /\ pc[t] = "client" /\ list' = list /\ val' = val
      /\ pc' = [pc EXCEPT ![t] = Point(HasSpace(q))]
      /\ queue' = [queue EXCEPT ![t] = HasSpace(q)[1]]
      /\ HasSpace(q) \in QueueSems
      /\ LibP!SemAcquire(t, HasSpace(q), 1) \/ LibP!SemBlock(t, HasSpace(q), 1)
  BY SameLib, QueueSemsSplit DEF QueuePut, Moves, SemWait
<1>2. QueueTypes'
  BY <1>1, QueueSemsSplit DEF QueueTypes
<1>3. PosterRuns'
  BY <1>1 DEF LibP!SemAcquire, LibP!SemBlock, LibP!Idle, PosterRuns
<1>4. CASE LibP!SemAcquire(t, HasSpace(q), 1)
  <2>1. /\ units'[HasSpace(q)] = units[HasSpace(q)] - 1 /\ Held(HasSpace(q))' = Held(HasSpace(q)) + 1
        /\ \A r \in QueueSems : r # HasSpace(q) => units'[r] = units[r] /\ Held(r)' = Held(r)
        /\ WaitersPoint'
    BY <1>1, <1>4, AcquireHolds
  <2>2. TakesSpace(q)
    BY <1>1, <2>1, QueueSemsSplit DEF TakesSpace
  <2>3. \A p \in Queues : p # q => Same(p)
    BY <1>1, <2>1, QueueSemsSplit, OtherQueue DEF Same
  <2>. QED BY <1>2, <1>3, <2>1, <2>2, <2>3, UnitsNat, BalancedNext DEF Kept, QueueTypes
<1>5. CASE LibP!SemBlock(t, HasSpace(q), 1)
  <2>1. WaitersPoint' /\ \A p \in Queues : Same(p)
    BY <1>1, <1>5, BlockHolds, QueueSemsSplit DEF Same
  <2>. QED BY <1>2, <1>3, <2>1, UnitsNat, BalancedNext DEF Kept, QueueTypes
<1>. QED BY <1>1, <1>4, <1>5

LEMMA GetKeeps ==
  ASSUME QueueInv, LibP!SynchInv', NEW t \in Threads, NEW q \in Queues, QueueGet(t, q)
  PROVE  Kept
<1>. USE DEF QueueInv
<1>1. /\ running_thread = t /\ pc[t] = "client" /\ list' = list /\ val' = val
      /\ pc' = [pc EXCEPT ![t] = Point(HasItems(q))]
      /\ queue' = [queue EXCEPT ![t] = HasItems(q)[1]]
      /\ HasItems(q) \in QueueSems
      /\ LibP!SemAcquire(t, HasItems(q), 1) \/ LibP!SemBlock(t, HasItems(q), 1)
  BY SameLib, QueueSemsSplit DEF QueueGet, Moves, SemWait
<1>2. QueueTypes'
  BY <1>1, QueueSemsSplit DEF QueueTypes
<1>3. PosterRuns'
  BY <1>1 DEF LibP!SemAcquire, LibP!SemBlock, LibP!Idle, PosterRuns
<1>4. CASE LibP!SemAcquire(t, HasItems(q), 1)
  <2>1. /\ units'[HasItems(q)] = units[HasItems(q)] - 1 /\ Held(HasItems(q))' = Held(HasItems(q)) + 1
        /\ \A r \in QueueSems : r # HasItems(q) => units'[r] = units[r] /\ Held(r)' = Held(r)
        /\ WaitersPoint'
    BY <1>1, <1>4, AcquireHolds
  <2>2. TakesItem(q)
    BY <1>1, <2>1, QueueSemsSplit DEF TakesItem
  <2>3. \A p \in Queues : p # q => Same(p)
    BY <1>1, <2>1, QueueSemsSplit, OtherQueue DEF Same
  <2>. QED BY <1>2, <1>3, <2>1, <2>2, <2>3, UnitsNat, BalancedNext DEF Kept, QueueTypes
<1>5. CASE LibP!SemBlock(t, HasItems(q), 1)
  <2>1. WaitersPoint' /\ \A p \in Queues : Same(p)
    BY <1>1, <1>5, BlockHolds, QueueSemsSplit DEF Same
  <2>. QED BY <1>2, <1>3, <2>1, UnitsNat, BalancedNext DEF Kept, QueueTypes
<1>. QED BY <1>1, <1>4, <1>5

\* A thread that inserts a node, or removes one, holds the unit for it.
LEMMA RunningHolds ==
  ASSUME QueueInv, NEW t \in Threads, running_thread = t
  PROVE  /\ pc[t] = "insert" => t \in Holders(HasSpace(queue[t]))
         /\ pc[t] = "remove" => t \in Holders(HasItems(queue[t]))
         /\ queue[t] \in Queues
BY RunningWaitsNot, QueueSemsSplit DEF QueueInv, QueueTypes, Holders

\* There is room for the node, and for its unit: sem_post does not clamp.
LEMMA InsertRoom ==
  ASSUME QueueInv, NEW t \in Threads, running_thread = t, pc[t] = "insert"
  PROVE  /\ units[HasItems(queue[t])] < Size[queue[t]]
         /\ Len(list[queue[t]]) < Size[queue[t]]
<1>. DEFINE q == queue[t]  h == units[HasItems(q)]  s == units[HasSpace(q)]
            i == Held(HasSpace(q))  r == Held(HasItems(q))  n == Len(list[q])  total == Size[q]
<1>1. q \in Queues /\ HasItems(q) \in QueueSems /\ HasSpace(q) \in QueueSems
  BY QueueSemsSplit DEF QueueInv, QueueTypes
<1>2. h \in Nat /\ s \in Nat /\ i \in Nat /\ r \in Nat /\ n \in Nat /\ total \in Nat
  BY <1>1, HeldNat, LenProperties, QueueAssumption
     DEF QueueInv, QueueTypes, LibP!SynchInv, LibP!TypeOK
<1>3. i >= 1
  BY <1>1, RunningHolds, HeldSome
<1>4. h + s + i + r = total /\ n = h + r
  BY <1>1 DEF QueueInv, Balanced
<1>. HIDE DEF h, s, i, r, n, total
<1>5. h < total /\ n < total
  BY <1>2, <1>3, <1>4
<1>. QED BY <1>5 DEF h, n, total

\* There is a node to remove, and room for the unit of its place.
LEMMA RemoveNode ==
  ASSUME QueueInv, NEW t \in Threads, running_thread = t, pc[t] = "remove"
  PROVE  /\ units[HasSpace(queue[t])] < Size[queue[t]]
         /\ list[queue[t]] # <<>>
<1>. DEFINE q == queue[t]  h == units[HasItems(q)]  s == units[HasSpace(q)]
            i == Held(HasSpace(q))  r == Held(HasItems(q))  n == Len(list[q])  total == Size[q]
<1>1. q \in Queues /\ HasItems(q) \in QueueSems /\ HasSpace(q) \in QueueSems
  BY QueueSemsSplit DEF QueueInv, QueueTypes
<1>2. h \in Nat /\ s \in Nat /\ i \in Nat /\ r \in Nat /\ n \in Nat /\ total \in Nat
  BY <1>1, HeldNat, LenProperties, QueueAssumption
     DEF QueueInv, QueueTypes, LibP!SynchInv, LibP!TypeOK
<1>3. r >= 1
  BY <1>1, RunningHolds, HeldSome
<1>4. h + s + i + r = total /\ n = h + r
  BY <1>1 DEF QueueInv, Balanced
<1>. HIDE DEF h, s, i, r, n, total
<1>5. s < total /\ n # 0
  BY <1>2, <1>3, <1>4
<1>6. list[q] # <<>>
  BY <1>5 DEF n
<1>. QED BY <1>5, <1>6 DEF s, total

LEMMA InsertKeeps ==
  ASSUME QueueInv, LibP!SynchInv', NEW t \in Threads, NEW x \in Items, PutInsert(t, x)
  PROVE  Kept
<1>. USE DEF QueueInv
<1>. SUFFICES ASSUME NEW q \in Queues, q = queue[t] PROVE Kept
  BY DEF QueueTypes
<1>1. /\ running_thread = t /\ pc[t] = "insert" /\ queue' = queue /\ val' = val
      /\ pc' = [pc EXCEPT ![t] = "posting"]
      /\ list' = [list EXCEPT ![q] = Append(@, x)]
      /\ LibP!SemPost(HasItems(q), 1)
  BY SameLib, QueueSemsSplit DEF PutInsert, Moves, QueueTypes
<1>2. Append(list[q], x) \in Seq(Items) /\ Len(Append(list[q], x)) = Len(list[q]) + 1
  BY <1>1, AppendProperties DEF QueueTypes
<1>3. QueueTypes'
  BY <1>1, <1>2 DEF QueueTypes
<1>4. PosterRuns'
  BY <1>1 DEF LibP!SemPost, LibP!utVars, PosterRuns
<1>5. units[HasItems(q)] < Size[q]
  BY <1>1, InsertRoom
<1>6. /\ units'[HasItems(q)] = units[HasItems(q)] + 1
      /\ Held(HasSpace(q))' = Held(HasSpace(q)) - 1
      /\ \A o \in QueueSems : o # HasItems(q) => units'[o] = units[o]
      /\ \A o \in QueueSems : o # HasSpace(q) => Held(o)' = Held(o)
      /\ WaitersPoint'
  <2>1. /\ HasItems(q) \in QueueSems /\ HasSpace(q) \in QueueSems
        /\ pc[t] = Point(HasSpace(q)) /\ queue[t] = HasSpace(q)[1]
        /\ units[HasItems(q)] < Size[HasItems(q)[1]]
    BY <1>1, <1>5, QueueSemsSplit
  <2>. QED BY <1>1, <2>1, PostHolds
<1>7. PutsItem(q)
  <2>1. Len(list'[q]) = Len(list[q]) + 1
    BY <1>1, <1>2 DEF QueueTypes
  <2>. QED BY <1>1, <1>6, <2>1, QueueSemsSplit DEF PutsItem
<1>8. \A p \in Queues : p # q => Same(p)
  BY <1>1, <1>6, QueueSemsSplit, OtherQueue DEF Same, QueueTypes
<1>9. \A p \in Queues : Balanced(p)'
  BY <1>3, <1>7, <1>8, UnitsNat, BalancedNext DEF QueueTypes
<1>. QED BY <1>3, <1>4, <1>6, <1>9 DEF Kept

LEMMA RemoveKeeps ==
  ASSUME QueueInv, LibP!SynchInv', NEW t \in Threads, GetRemove(t)
  PROVE  Kept
<1>. USE DEF QueueInv
<1>. SUFFICES ASSUME NEW q \in Queues, q = queue[t] PROVE Kept
  BY DEF QueueTypes
<1>1. /\ running_thread = t /\ pc[t] = "remove" /\ queue' = queue
      /\ pc' = [pc EXCEPT ![t] = "posting"]
      /\ list[q] # <<>>
      /\ val' = [val EXCEPT ![q] = [val[q] EXCEPT ![t] = Head(list[q])]]
      /\ list' = [list EXCEPT ![q] = Tail(@)]
      /\ LibP!SemPost(HasSpace(q), 1)
  BY SameLib, QueueSemsSplit DEF GetRemove, Moves, QueueTypes
<1>2. /\ Head(list[q]) \in Items /\ Tail(list[q]) \in Seq(Items)
      /\ Len(Tail(list[q])) = Len(list[q]) - 1
  BY <1>1, HeadTailProperties DEF QueueTypes
<1>3. QueueTypes'
  <2>1. [val[q] EXCEPT ![t] = Head(list[q])] \in [Threads -> Items \cup {NULL}]
    BY <1>1, <1>2 DEF QueueTypes
  <2>. QED BY <1>1, <1>2, <2>1 DEF QueueTypes
<1>4. PosterRuns'
  BY <1>1 DEF LibP!SemPost, LibP!utVars, PosterRuns
<1>5. units[HasSpace(q)] < Size[q]
  BY <1>1, RemoveNode
<1>6. /\ units'[HasSpace(q)] = units[HasSpace(q)] + 1
      /\ Held(HasItems(q))' = Held(HasItems(q)) - 1
      /\ \A o \in QueueSems : o # HasSpace(q) => units'[o] = units[o]
      /\ \A o \in QueueSems : o # HasItems(q) => Held(o)' = Held(o)
      /\ WaitersPoint'
  <2>1. /\ HasSpace(q) \in QueueSems /\ HasItems(q) \in QueueSems
        /\ pc[t] = Point(HasItems(q)) /\ queue[t] = HasItems(q)[1]
        /\ units[HasSpace(q)] < Size[HasSpace(q)[1]]
    BY <1>1, <1>5, QueueSemsSplit
  <2>. QED BY <1>1, <2>1, PostHolds
<1>7. GivesSpace(q)
  <2>1. Len(list'[q]) = Len(list[q]) - 1
    BY <1>1, <1>2 DEF QueueTypes
  <2>. QED BY <1>1, <1>6, <2>1, QueueSemsSplit DEF GivesSpace
<1>8. \A p \in Queues : p # q => Same(p)
  BY <1>1, <1>6, QueueSemsSplit, OtherQueue DEF Same, QueueTypes
<1>9. \A p \in Queues : Balanced(p)'
  BY <1>3, <1>7, <1>8, UnitsNat, BalancedNext DEF QueueTypes
<1>. QED BY <1>3, <1>4, <1>6, <1>9 DEF Kept

LEMMA ServeKeeps ==
  ASSUME QueueInv, LibP!SynchInv', PostServe
  PROVE  Kept
<1>. USE DEF QueueInv
<1>1. PICK s \in QueueSems : LibP!SemServe(s)
  BY SameLib DEF PostServe
<1>2. UNCHANGED <<list, pc, queue, val>>
  BY DEF PostServe, queueVars
<1>3. QueueTypes'
  BY <1>2 DEF QueueTypes
<1>4. PosterRuns'
  BY <1>1 DEF LibP!SemServe, LibP!UtActivate, PosterRuns
<1>5. PICK q \in Queues : s = HasItems(q) \/ s = HasSpace(q)
  BY QueueSemsSplit
<1>6. /\ units'[s] = units[s] - 1 /\ Held(s)' = Held(s) + 1
      /\ \A r \in QueueSems : r # s => units'[r] = units[r] /\ Held(r)' = Held(r)
      /\ WaitersPoint'
  BY <1>1, <1>2, ServeHolds
<1>7. TakesItem(q) \/ TakesSpace(q)
  BY <1>2, <1>5, <1>6, QueueSemsSplit DEF TakesItem, TakesSpace
<1>8. \A p \in Queues : p # q => Same(p)
  BY <1>2, <1>5, <1>6, QueueSemsSplit, OtherQueue DEF Same
<1>. QED BY <1>3, <1>4, <1>6, <1>7, <1>8, UnitsNat, BalancedNext DEF Kept, QueueTypes

\* A step that neither waits nor posts, and changes pc between points outside
\* queue_put and queue_get only.
LEMMA NeitherKeeps ==
  ASSUME QueueInv, UNCHANGED <<units, waiters, list, queue, val>>,
         pc' \in [Threads -> {"client", "insert", "remove", "posting"}],
         \A t \in Threads : \A s \in QueueSems : pc'[t] = Point(s) <=> pc[t] = Point(s)
  PROVE  QueueTypes' /\ WaitersPoint' /\ \A q \in Queues : Balanced(q)'
<1>. USE DEF QueueInv
<1>1. QueueTypes'
  BY DEF QueueTypes
<1>2. \A s \in QueueSems : LibP!SemWaiting(s)' = LibP!SemWaiting(s)
  BY DEF LibP!SemWaiting
<1>3. WaitersPoint'
  <2>1. ASSUME NEW s \in QueueSems, NEW t \in LibP!SemWaiting(s)'
        PROVE  pc'[t] = Point(s) /\ queue'[t] = s[1]
    BY <1>2, <2>1, WaitingThreads DEF WaitersPoint
  <2>2. WaitersPoint' <=> \A r \in QueueSems : \A u \in LibP!SemWaiting(r)' :
                            pc'[u] = Point(r) /\ queue'[u] = r[1]
    BY DEF WaitersPoint, Point
  <2>. QED BY <2>1, <2>2
<1>4. ASSUME NEW s \in QueueSems PROVE Holders(s)' = Holders(s)
  <2>1. Holders(s)' = {t \in Threads : pc'[t] = Point(s) /\ queue'[t] = s[1] /\ t \notin LibP!SemWaiting(s)'}
    BY DEF Holders, Point
  <2>. QED BY <1>2, <2>1 DEF Holders
<1>5. ASSUME NEW q \in Queues PROVE Balanced(q)'
  <2>1. HasItems(q)' = HasItems(q) /\ HasSpace(q)' = HasSpace(q)
    BY DEF HasItems, HasSpace
  <2>2. /\ Holders(HasItems(q))' = Holders(HasItems(q))
        /\ Holders(HasSpace(q))' = Holders(HasSpace(q))
    BY <1>4, QueueSemsSplit
  <2>. QED BY <2>1, <2>2 DEF Balanced, Held
<1>. QED BY <1>1, <1>3, <1>5

LEMMA ReturnKeeps ==
  ASSUME QueueInv, NEW t \in Threads, PostReturn(t)
  PROVE  Kept
<1>1. /\ pc[t] = "posting" /\ pc' = [pc EXCEPT ![t] = "client"]
      /\ UNCHANGED <<units, waiters, list, queue, val>> /\ posting' = NULL
  BY SameLib DEF PostReturn, LibP!SemPostEnd
<1>2. \A s \in QueueSems : Point(s) # "posting" /\ Point(s) # "client"
  BY DEF Point
<1>3. PosterRuns'
  BY <1>1 DEF PosterRuns
<1>. QED BY <1>1, <1>2, <1>3, NeitherKeeps DEF Kept, QueueInv, QueueTypes

LEMMA ClientKeeps ==
  ASSUME QueueInv, ClientStep \/ UNCHANGED vars
  PROVE  Kept
<1>1. UNCHANGED <<units, waiters, list, pc, queue, val>> /\ posting' = posting
  BY SameLib DEF ClientStep, LibP!UThreadStep, LibP!semVars, queueVars, vars
<1>2. PosterRuns'
  BY <1>1, SameLib DEF ClientStep, LibP!UThreadStep, LibP!Idle, PosterRuns, vars, QueueInv
<1>. QED BY <1>1, <1>2, NeitherKeeps DEF Kept, QueueInv, QueueTypes

LEMMA QueueInvNext == QueueInv /\ [Next]_vars => QueueInv'
<1>. SUFFICES ASSUME QueueInv, [Next]_vars PROVE QueueInv'
  OBVIOUS
<1>1. LibP!SynchInv'
  BY LibStep, LibP!SynchInvNext, LibAssumptions DEF QueueInv, QueueTypes
<1>2. CASE ClientStep \/ UNCHANGED vars
  BY <1>1, <1>2, ClientKeeps DEF QueueInv, Kept
<1>3. CASE PostServe
  BY <1>1, <1>3, ServeKeeps DEF QueueInv, Kept
<1>4. ASSUME NEW t \in Threads, NEW q \in Queues, QueuePut(t, q) \/ QueueGet(t, q)
      PROVE  QueueInv'
  BY <1>1, <1>4, PutKeeps, GetKeeps DEF QueueInv, Kept
<1>5. ASSUME NEW t \in Threads, NEW x \in Items, PutInsert(t, x)
      PROVE  QueueInv'
  BY <1>1, <1>5, InsertKeeps DEF QueueInv, Kept
<1>6. ASSUME NEW t \in Threads, GetRemove(t)
      PROVE  QueueInv'
  BY <1>1, <1>6, RemoveKeeps DEF QueueInv, Kept
<1>7. ASSUME NEW t \in Threads, PostReturn(t)
      PROVE  QueueInv'
  BY <1>1, <1>7, ReturnKeeps DEF QueueInv, Kept
<1>. QED BY <1>2, <1>3, <1>4, <1>5, <1>6, <1>7 DEF Next

LEMMA QueueInvInit == Init => QueueInv
<1>. SUFFICES ASSUME Init PROVE QueueInv
  OBVIOUS
<1>1. LibP!SynchInv
  BY SameLib, LibP!SynchInvInit, LibAssumptions DEF Init
<1>2. QueueTypes
  <2>1. <<>> \in Seq(Items)
    OBVIOUS
  <2>. QED BY <2>1 DEF Init, QueueInit, QueueTypes
<1>3. \A s \in QueueSems : LibP!SemWaiting(s) = {} /\ Holders(s) = {}
  <2>1. \A s \in QueueSems : waiters[s] = <<>>
    BY DEF Init, Lib!Init, Lib!SemInit
  <2>2. \A s \in QueueSems : LibP!SemWaiting(s) = {}
    BY <2>1 DEF LibP!SemWaiting
  <2>. QED BY <2>2 DEF Init, QueueInit, Holders, Point
<1>4. WaitersPoint
  BY <1>3 DEF WaitersPoint
<1>5. PosterRuns
  BY DEF PosterRuns, Init, Lib!Init, Lib!SemInit
<1>6. ASSUME NEW q \in Queues PROVE Balanced(q)
  <2>1. Held(HasItems(q)) = 0 /\ Held(HasSpace(q)) = 0
    BY <1>3, QueueSemsSplit, FS_EmptySet DEF Held
  <2>2. units[HasItems(q)] = 0 /\ units[HasSpace(q)] = Size[q]
    BY QueueSemsSplit DEF Init, Lib!Init, Lib!SemInit, HasItems, HasSpace
  <2>3. Len(list[q]) = 0 /\ Size[q] \in Nat
    BY QueueAssumption DEF Init, QueueInit
  <2>. QED BY <2>1, <2>2, <2>3 DEF Balanced
<1>. QED BY <1>1, <1>2, <1>4, <1>5, <1>6 DEF QueueInv

LEMMA QueueInvAlways == Spec => []QueueInv
BY QueueInvInit, QueueInvNext, PTL DEF Spec

-----------------------------------------------------------------------------
(***************************************************************************)
(* The theorems.                                                           *)
(***************************************************************************)

LEMMA QueueInvSound == QueueInv => QueueSound
<1>. SUFFICES ASSUME QueueInv PROVE QueueSound
  OBVIOUS
<1>1. ASSUME NEW q \in Queues
      PROVE  Inserting(q) = Holders(HasSpace(q)) /\ Removing(q) = Holders(HasItems(q))
  BY SameLib, QueueSemsSplit DEF Inserting, Removing, Granted, Holders
<1>2. UnitsConserved
  <2>1. ASSUME NEW q \in Queues
        PROVE  units[HasItems(q)] + units[HasSpace(q)]
                 + Cardinality(Inserting(q)) + Cardinality(Removing(q)) = Size[q]
    BY <1>1 DEF QueueInv, Balanced, Held
  <2>. QED BY <2>1 DEF UnitsConserved
<1>3. ItemsCounted
  <2>1. ASSUME NEW q \in Queues
        PROVE  Len(list[q]) = units[HasItems(q)] + Cardinality(Removing(q))
    BY <1>1 DEF QueueInv, Balanced, Held
  <2>. QED BY <2>1 DEF ItemsCounted
<1>4. RemovesNode
  BY RemoveNode DEF RemovesNode
<1>5. TypeOK
  <2>1. ASSUME NEW q \in Queues PROVE Len(list[q]) <= Size[q]
    <3>. DEFINE h == units[HasItems(q)]  s == units[HasSpace(q)]
                i == Held(HasSpace(q))  r == Held(HasItems(q))  n == Len(list[q])  total == Size[q]
    <3>1. HasItems(q) \in QueueSems /\ HasSpace(q) \in QueueSems
      BY QueueSemsSplit
    <3>2. h \in Nat /\ s \in Nat /\ i \in Nat /\ r \in Nat /\ n \in Nat /\ total \in Nat
      BY <3>1, HeldNat, LenProperties, QueueAssumption
         DEF QueueInv, QueueTypes, LibP!SynchInv, LibP!TypeOK
    <3>3. h + s + i + r = total /\ n = h + r
      BY DEF QueueInv, Balanced
    <3>. HIDE DEF h, s, i, r, n, total
    <3>4. n <= total
      BY <3>2, <3>3
    <3>. QED BY <3>4 DEF n, total
  <2>. QED BY <2>1 DEF TypeOK, QueueInv, QueueTypes
<1>. QED BY <1>2, <1>3, <1>4, <1>5 DEF QueueSound

\* For any clients of any queues: the units of the semaphores, the threads that
\* hold one and the nodes of the list add up, so that sem_post never clamps, and
\* a thread that resumes in queue_get, however late, finds a node to remove.
THEOREM QueuesAreSound == Spec => []QueueSound
BY QueueInvAlways, QueueInvSound, PTL

LEMMA ChannelsStep == QueueInv /\ [Next]_vars => [ChannelsNext]_<<list, val>>
<1>. SUFFICES ASSUME QueueInv, [Next]_vars PROVE [ChannelsNext]_<<list, val>>
  OBVIOUS
<1>1. CASE ClientStep \/ PostServe \/ UNCHANGED vars
  BY <1>1 DEF ClientStep, PostServe, queueVars, vars
<1>2. CASE \E t \in Threads : PostReturn(t) \/ \E q \in Queues : QueuePut(t, q) \/ QueueGet(t, q)
  BY <1>2 DEF PostReturn, QueuePut, QueueGet
<1>3. ASSUME NEW t \in Threads, NEW x \in Items, PutInsert(t, x)
      PROVE  ChannelsNext
  <2>. SUFFICES ASSUME NEW p \in Queues
                PROVE  Channel(p)!ChannelNext \/ UNCHANGED <<list[p], val[p]>>
    BY DEF ChannelsNext
  <2>1. list' = [list EXCEPT ![queue[t]] = Append(@, x)] /\ val' = val
    BY <1>3 DEF PutInsert
  <2>2. Len(list[queue[t]]) < Size[queue[t]]
    BY <1>3, InsertRoom DEF PutInsert, Moves
  <2>3. CASE p = queue[t]
    <3>1. Channel(p)!Put(x)
      BY <2>1, <2>2, <2>3 DEF Channel!Put, QueueInv, QueueTypes
    <3>. QED BY <3>1 DEF Channel!ChannelNext
  <2>4. CASE p # queue[t]
    BY <2>1, <2>4 DEF QueueInv, QueueTypes
  <2>. QED BY <2>3, <2>4
<1>4. ASSUME NEW t \in Threads, GetRemove(t)
      PROVE  ChannelsNext
  <2>. SUFFICES ASSUME NEW p \in Queues
                PROVE  Channel(p)!ChannelNext \/ UNCHANGED <<list[p], val[p]>>
    BY DEF ChannelsNext
  <2>1. /\ list' = [list EXCEPT ![queue[t]] = Tail(@)] /\ list[queue[t]] # <<>>
        /\ val' = [val EXCEPT ![queue[t]] = [val[queue[t]] EXCEPT ![t] = Head(list[queue[t]])]]
    BY <1>4 DEF GetRemove
  <2>2. CASE p = queue[t]
    <3>1. Channel(p)!Get(t)
      BY <2>1, <2>2 DEF Channel!Get, QueueInv, QueueTypes
    <3>. QED BY <3>1 DEF Channel!ChannelNext
  <2>3. CASE p # queue[t]
    BY <2>1, <2>3 DEF QueueInv, QueueTypes
  <2>. QED BY <2>2, <2>3
<1>. QED BY <1>1, <1>2, <1>3, <1>4 DEF Next

\* Each queue is a bounded first-in first-out channel, whichever threads put and
\* get, in whatever order.
THEOREM QueuesImplementChannels == Spec => ImplementsChannels
<1>1. Init => ChannelsInit
  BY DEF Init, QueueInit, ChannelsInit, Channel!ChannelInit
<1>. QED BY <1>1, QueueInvAlways, ChannelsStep, PTL DEF Spec, ImplementsChannels

-----------------------------------------------------------------------------
(***************************************************************************)
(* pgrep, for any file and any word, with the queues above: the inductive  *)
(* invariant.  It follows the items through the pipeline: the n items that *)
(* the filter has taken, the p that it has passed on and the g that the    *)
(* presenter has taken.                                                    *)
(***************************************************************************)

\* What the reader puts, one after the other, and what the filter passes on.
Item(lines, i) == IF i <= Len(lines) THEN lines[i] ELSE NULL
Passing == Matching \cup {NULL}
Passed(lines, n) == Cardinality({j \in 1..n : Item(lines, j) \in Passing})

\* x is the item with number k of those that pass.
IsOut(lines, x, k) ==
  \E i \in 1..(Len(lines) + 1) : x = Item(lines, i) /\ x \in Passing /\ Passed(lines, i) = k

PGrepTypes ==
  /\ file \in Seq(Lines) /\ read \in Nat /\ shown \in Seq(Lines)
  /\ todo \in [Threads -> {"put", "get", "exit"}]

\* Each thread is where its function is.
Control ==
  /\ pc[reader] # "client" => pc[reader] \in {"insert", "posting"} /\ queue[reader] = qreader
                              /\ todo[reader] = "put"
  /\ pc[filter] # "client" => todo[filter] # "exit"
  /\ pc[filter] = "insert" => todo[filter] = "put" /\ queue[filter] = qfilter
  /\ pc[filter] = "remove" => todo[filter] = "get" /\ queue[filter] = qreader
  /\ pc[presenter] # "client" => pc[presenter] \in {"remove", "posting"}
                                 /\ queue[presenter] = qfilter /\ todo[presenter] = "get"
  /\ todo[reader] # "get" /\ todo[presenter] # "put"

\* main creates the three threads before it runs them, and they end only when
\* their functions have.
Before == {"create reader", "create filter", "create presenter", "ut_run"}
MainInv ==
  /\ main \in Before \cup {"running", "ut_end"}
  /\ main \in Before => running_thread = NULL
  /\ main \in {"create filter", "create presenter"} => reader \in threads
  /\ main = "create presenter" => filter \in threads
  /\ main \in {"ut_run", "running", "ut_end"} =>
       \A t \in Threads : t \in threads \/ todo[t] = "exit"
  /\ main = "ut_end" => aborted \/ (threads = {} /\ running_thread = NULL)

\* The reader, and what is in its queue.
ReaderInv(n) ==
  /\ read = n + Len(list[qreader]) /\ read <= Len(file) + 1
  /\ \A j \in 1..Len(list[qreader]) : list[qreader][j] = Item(file, n + j)
  /\ todo[reader] = "put" /\ pc[reader] # "posting" => read <= Len(file)
  /\ todo[reader] = "exit" => read > Len(file)

\* The filter has an item that passes and that it has not put.
Pending ==
  \/ todo[filter] = "put" /\ pc[filter] # "posting"
  \/ todo[filter] = "get" /\ pc[filter] = "posting" /\ val[qreader][filter] \in Passing

FilterInv(n, p) ==
  /\ Passed(file, n) = IF Pending THEN p + 1 ELSE p
  /\ todo[filter] # "get" \/ pc[filter] = "posting" => n >= 1 /\ val[qreader][filter] = Item(file, n)
  /\ todo[filter] # "get" => val[qreader][filter] \in Passing
  /\ todo[filter] = "exit" => val[qreader][filter] = NULL

\* What is in the queue of the filter.
FilteredInv(p, g) ==
  /\ p = g + Len(list[qfilter])
  /\ \A j \in 1..Len(list[qfilter]) : IsOut(file, list[qfilter][j], g + j)

\* The presenter has taken an item that it has not printed.
Unprinted == todo[presenter] = "exit" \/ pc[presenter] = "posting"
PresenterInv(g) ==
  /\ g = IF Unprinted THEN Len(shown) + 1 ELSE Len(shown)
  /\ Unprinted => IsOut(file, val[qfilter][presenter], g)
  /\ todo[presenter] = "exit" => val[qfilter][presenter] = NULL
  /\ \A k \in 1..Len(shown) : IsOut(file, shown[k], k)

DataInv(n, p, g) == ReaderInv(n) /\ FilterInv(n, p) /\ FilteredInv(p, g) /\ PresenterInv(g)

PGrepInv ==
  /\ QueueInv /\ PGrepTypes /\ Control /\ MainInv
  /\ \A q \in Queues \ {qreader, qfilter} : list[q] = <<>>
  /\ \E n, p, g \in Nat : DataInv(n, p, g)

-----------------------------------------------------------------------------
(***************************************************************************)
(* The items that pass, and their numbers.                                 *)
(***************************************************************************)

LEMMA PassedNat ==
  ASSUME NEW lines, NEW n \in Nat
  PROVE  /\ IsFiniteSet({j \in 1..n : Item(lines, j) \in Passing})
         /\ Passed(lines, n) \in Nat
<1>1. IsFiniteSet(1..n)
  BY FS_Interval
<1>2. IsFiniteSet({j \in 1..n : Item(lines, j) \in Passing})
  BY <1>1, FS_Subset
<1>. QED BY <1>2, FS_CardinalityType DEF Passed

LEMMA PassedZero == \A lines : Passed(lines, 0) = 0
<1>. TAKE lines
<1>1. {j \in 1..0 : Item(lines, j) \in Passing} = {}
  OBVIOUS
<1>. QED BY <1>1, FS_EmptySet DEF Passed

LEMMA PassedNext ==
  ASSUME NEW lines, NEW n \in Nat
  PROVE  Passed(lines, n + 1) = IF Item(lines, n + 1) \in Passing
                                THEN Passed(lines, n) + 1 ELSE Passed(lines, n)
<1> DEFINE S == {j \in 1..n : Item(lines, j) \in Passing}
           T == {j \in 1..(n + 1) : Item(lines, j) \in Passing}
<1>1. \A j : j \in 1..(n + 1) <=> j \in 1..n \/ j = n + 1
  OBVIOUS
<1>2. IsFiniteSet(S) /\ n + 1 \notin S
  BY PassedNat
<1>3. CASE Item(lines, n + 1) \in Passing
  <2>1. T = S \cup {n + 1}
    BY <1>1, <1>3
  <2>2. Cardinality(S \cup {n + 1}) = Cardinality(S) + 1
    BY <1>2, FS_AddElement
  <2>. QED BY <1>3, <2>1, <2>2 DEF Passed
<1>4. CASE Item(lines, n + 1) \notin Passing
  <2>1. T = S
    BY <1>1, <1>4
  <2>. QED BY <1>4, <2>1 DEF Passed
<1>. QED BY <1>3, <1>4

LEMMA PassedGrows ==
  ASSUME NEW lines, NEW i \in Nat, NEW n \in Nat, i <= n
  PROVE  Passed(lines, i) <= Passed(lines, n)
<1>1. \A j \in 1..i : j \in 1..n
  OBVIOUS
<1>2. {j \in 1..i : Item(lines, j) \in Passing} \subseteq {j \in 1..n : Item(lines, j) \in Passing}
  BY <1>1
<1>. QED BY <1>2, PassedNat, FS_Subset DEF Passed

\* Two items that pass have different numbers.
LEMMA PassedDiffer ==
  ASSUME NEW lines, NEW i \in Nat \ {0}, NEW n \in Nat \ {0},
         Item(lines, i) \in Passing, Item(lines, n) \in Passing, Passed(lines, i) = Passed(lines, n)
  PROVE  i = n
<1>1. ASSUME NEW a \in Nat \ {0}, NEW b \in Nat \ {0}, a < b, Item(lines, b) \in Passing
      PROVE  Passed(lines, a) # Passed(lines, b)
  <2>1. b - 1 \in Nat /\ (b - 1) + 1 = b /\ a <= b - 1 /\ a \in Nat
    BY <1>1
  <2>2. Passed(lines, b) = Passed(lines, b - 1) + 1
    BY <1>1, <2>1, PassedNext
  <2>3. Passed(lines, a) <= Passed(lines, b - 1)
    BY <2>1, PassedGrows
  <2>4. Passed(lines, a) \in Nat /\ Passed(lines, b - 1) \in Nat
    BY <2>1, PassedNat
  <2>. QED BY <2>2, <2>3, <2>4
<1>2. i < n \/ i = n \/ n < i
  OBVIOUS
<1>. QED BY <1>1, <1>2

\* The item that passes next has the next number.
LEMMA OutNext ==
  ASSUME NEW lines, Len(lines) \in Nat, NEW n \in Nat \ {0}, n <= Len(lines) + 1,
         Item(lines, n) \in Passing
  PROVE  IsOut(lines, Item(lines, n), Passed(lines, n))
<1>1. n \in 1..(Len(lines) + 1)
  OBVIOUS
<1>. QED BY <1>1 DEF IsOut

\* The item that ends the pipeline comes last.
LEMMA OutNull ==
  ASSUME NEW lines \in Seq(Lines), NULL \notin Lines, NEW k, IsOut(lines, NULL, k)
  PROVE  k = Passed(lines, Len(lines) + 1)
<1>1. PICK i \in 1..(Len(lines) + 1) : NULL = Item(lines, i) /\ Passed(lines, i) = k
  BY DEF IsOut
<1>2. \A j \in 1..Len(lines) : lines[j] \in Lines
  OBVIOUS
<1>3. ~(i <= Len(lines))
  <2>1. i <= Len(lines) => i \in 1..Len(lines) /\ Item(lines, i) = lines[i]
    BY DEF Item
  <2>. QED BY <1>1, <1>2, <2>1
<1>4. i = Len(lines) + 1
  BY <1>3
<1>. QED BY <1>1, <1>4

\* The others are the lines that contain the word, in the order of the file.
LEMMA OutLine ==
  ASSUME NEW lines \in Seq(Lines), NULL \notin Lines, Matching \subseteq Lines,
         NEW k, NEW x, x # NULL, IsOut(lines, x, k)
  PROVE  k \in 1..Len(MatchesOf(lines)) /\ MatchesOf(lines)[k] = x
<1>1. PICK i \in 1..(Len(lines) + 1) :
        x = Item(lines, i) /\ x \in Passing /\ Passed(lines, i) = k
  BY DEF IsOut
<1> DEFINE n == Len(lines)
<1>2. n \in Nat /\ \A j \in 1..n : lines[j] \in Lines /\ Item(lines, j) = lines[j]
  BY DEF Item
<1>3. i \in 1..n /\ lines[i] = x /\ x \in Matching
  <2>1. i <= n
    BY <1>1 DEF Item
  <2>2. i \in 1..n
    BY <1>2, <2>1
  <2>. QED BY <1>1, <1>2, <2>2 DEF Passing
<1>4. ASSUME NEW m \in 0..n PROVE Rank(lines, m) = Passed(lines, m)
  <2>1. \A j \in 1..m : j \in 1..n
    BY <1>2
  <2>2. \A j \in 1..m : lines[j] \in Matching <=> Item(lines, j) \in Passing
    BY <1>2, <2>1 DEF Passing
  <2>3. {j \in 1..m : lines[j] \in Matching} = {j \in 1..m : Item(lines, j) \in Passing}
    BY <2>2
  <2>. QED BY <2>3 DEF Rank, Passed
<1>5. i \in 0..n /\ n \in 0..n /\ i \in Nat \ {0} /\ i <= n
  BY <1>2, <1>3
<1>6. Rank(lines, i) = k /\ Rank(lines, n) = Passed(lines, n)
  BY <1>1, <1>4, <1>5
<1>7. k \in Nat /\ Passed(lines, n) \in Nat /\ k <= Passed(lines, n) /\ k >= 1
  <2>1. k \in Nat /\ Passed(lines, n) \in Nat /\ k <= Passed(lines, n)
    BY <1>1, <1>2, <1>5, PassedNat, PassedGrows
  <2>2. i - 1 \in Nat /\ (i - 1) + 1 = i
    BY <1>5
  <2>3. k = Passed(lines, i - 1) + 1 /\ Passed(lines, i - 1) \in Nat
    BY <1>1, <2>2, PassedNext, PassedNat
  <2>. QED BY <2>1, <2>3
<1>8. k \in 1..Rank(lines, n)
  BY <1>6, <1>7
<1>9. \A j \in 1..n : lines[j] \in Matching /\ Rank(lines, j) = k => j = i
  <2>1. SUFFICES ASSUME NEW j \in 1..n, lines[j] \in Matching, Rank(lines, j) = k PROVE j = i
    OBVIOUS
  <2>2. j \in 0..n /\ j \in Nat \ {0}
    BY <1>2
  <2>3. Passed(lines, j) = k /\ Item(lines, j) \in Passing /\ Item(lines, i) \in Passing
    BY <1>1, <1>2, <1>4, <2>1, <2>2 DEF Passing
  <2>. QED BY <1>1, <1>5, <2>2, <2>3, PassedDiffer
<1>10. (CHOOSE j \in 1..n : lines[j] \in Matching /\ Rank(lines, j) = k) = i
  BY <1>3, <1>6, <1>9
<1>11. MatchesOf(lines)[k] = x
  BY <1>3, <1>8, <1>10 DEF MatchesOf
<1>12. Len(MatchesOf(lines)) = Rank(lines, n)
  <2>1. Rank(lines, n) \in Nat
    BY <1>6, <1>7
  <2> HIDE DEF n
  <2>. QED BY <2>1 DEF MatchesOf, n
<1>. QED BY <1>8, <1>11, <1>12

LEMMA MatchesLength ==
  ASSUME NEW lines \in Seq(Lines), NULL \notin Lines, Matching \subseteq Lines
  PROVE  /\ Len(MatchesOf(lines)) + 1 = Passed(lines, Len(lines) + 1)
         /\ Len(MatchesOf(lines)) \in Nat
         /\ MatchesOf(lines) = [k \in 1..Len(MatchesOf(lines)) |-> MatchesOf(lines)[k]]
<1> DEFINE n == Len(lines)
<1>1. n \in Nat /\ \A j \in 1..n : lines[j] \in Lines /\ Item(lines, j) = lines[j]
  BY DEF Item
<1>2. {j \in 1..n : lines[j] \in Matching} = {j \in 1..n : Item(lines, j) \in Passing}
  BY <1>1 DEF Passing
<1>3. Rank(lines, n) = Passed(lines, n) /\ Passed(lines, n) \in Nat
  BY <1>1, <1>2, PassedNat DEF Rank, Passed
<1>4. Item(lines, n + 1) = NULL /\ NULL \in Passing
  BY <1>1 DEF Item, Passing
<1>5. Passed(lines, n + 1) = Passed(lines, n) + 1
  BY <1>1, <1>4, PassedNext
<1>6. Len(MatchesOf(lines)) = Rank(lines, n)
  <2>1. Rank(lines, n) \in Nat
    BY <1>3
  <2> HIDE DEF n
  <2>. QED BY <2>1 DEF MatchesOf, n
<1>7. MatchesOf(lines) = [k \in 1..Len(MatchesOf(lines)) |-> MatchesOf(lines)[k]]
  <2>1. DOMAIN MatchesOf(lines) = 1..Rank(lines, n)
    BY DEF MatchesOf
  <2>2. MatchesOf(lines) = [k \in DOMAIN MatchesOf(lines) |-> MatchesOf(lines)[k]]
    BY DEF MatchesOf
  <2>. QED BY <1>6, <2>1, <2>2
<1>. QED BY <1>3, <1>5, <1>6, <1>7

-----------------------------------------------------------------------------
(***************************************************************************)
(* The steps of pgrep.                                                     *)
(***************************************************************************)

LEMMA Stages ==
  ASSUME PGrepParameters
  PROVE  /\ reader \in Threads /\ filter \in Threads /\ presenter \in Threads
         /\ \A t \in Threads : t \in {reader, filter, presenter}
         /\ reader # filter /\ reader # presenter /\ filter # presenter
         /\ qreader \in Queues /\ qfilter \in Queues /\ qreader # qfilter
         /\ Items = Lines \cup {NULL} /\ NULL \notin Lines /\ Matching \subseteq Lines
         /\ NULL \notin Threads /\ Main \notin Threads /\ NULL \in Passing
BY QueueAssumption DEF PGrepParameters, Passing

\* Whoever runs exists.
LEMMA RunningExists ==
  ASSUME QueueInv, running_thread \in Threads
  PROVE  running_thread \in threads
BY DEF QueueInv, LibP!SynchInv, LibP!UtInv, LibP!SwitchTargetLive

\* The parts of the invariant that a step leaves alone.
LEMMA ReaderStays ==
  ASSUME NEW n, ReaderInv(n), UNCHANGED <<read, file>>, list'[qreader] = list[qreader],
         todo'[reader] = todo[reader], pc'[reader] = "posting" <=> pc[reader] = "posting"
  PROVE  ReaderInv(n)'
BY DEF ReaderInv

LEMMA FilterStays ==
  ASSUME NEW n, NEW p, FilterInv(n, p), UNCHANGED file, todo'[filter] = todo[filter],
         val'[qreader][filter] = val[qreader][filter],
         pc'[filter] = "posting" <=> pc[filter] = "posting"
  PROVE  FilterInv(n, p)'
<1>1. Pending' <=> Pending
  BY DEF Pending, Passing
<1>. QED BY <1>1 DEF FilterInv, Passing

LEMMA FilteredStays ==
  ASSUME NEW p, NEW g, FilteredInv(p, g), UNCHANGED file, list'[qfilter] = list[qfilter]
  PROVE  FilteredInv(p, g)'
BY DEF FilteredInv, IsOut, Passing

LEMMA PresenterStays ==
  ASSUME NEW g, PresenterInv(g), UNCHANGED <<shown, file>>, todo'[presenter] = todo[presenter],
         val'[qfilter][presenter] = val[qfilter][presenter],
         pc'[presenter] = "posting" <=> pc[presenter] = "posting"
  PROVE  PresenterInv(g)'
<1>1. Unprinted' <=> Unprinted
  BY DEF Unprinted
<1>. QED BY <1>1 DEF PresenterInv

LEMMA DataStays ==
  ASSUME PGrepParameters, NEW n, NEW p, NEW g, DataInv(n, p, g),
         UNCHANGED <<list, val, file, read, todo, shown>>,
         \A t \in Threads : pc'[t] = "posting" <=> pc[t] = "posting"
  PROVE  DataInv(n, p, g)'
<1>1. ReaderInv(n)'
  BY Stages, ReaderStays DEF DataInv
<1>2. FilterInv(n, p)'
  BY Stages, FilterStays DEF DataInv
<1>3. FilteredInv(p, g)'
  BY FilteredStays DEF DataInv
<1>4. PresenterInv(g)'
  BY Stages, PresenterStays DEF DataInv
<1>. QED BY <1>1, <1>2, <1>3, <1>4 DEF DataInv

\* While a thread runs, main is inside ut_run.
LEMMA MainStays ==
  ASSUME PGrepParameters, PGrepInv, running_thread \in Threads, UNCHANGED <<aborted, main>>,
         \A u \in Threads : u \in threads => u \in threads' \/ todo'[u] = "exit",
         \A u \in Threads : u \notin threads => todo'[u] = todo[u]
  PROVE  MainInv'
<1>1. MainInv /\ NULL \notin Threads
  BY Stages DEF PGrepInv
<1>2. main \notin Before /\ main \in {"running", "ut_end"} /\ (main = "ut_end" => aborted)
  BY <1>1 DEF MainInv
<1>3. \A t \in Threads : t \in threads' \/ todo'[t] = "exit"
  BY <1>1, <1>2 DEF MainInv
<1>. QED BY <1>2, <1>3 DEF MainInv, Before

LEMMA MainKeeps ==
  ASSUME PGrepParameters, PGrepInv, MainProgram
  PROVE  PGrepInv'
<1>0. /\ QueueInv /\ PGrepTypes /\ Control /\ MainInv
      /\ \A q \in Queues \ {qreader, qfilter} : list[q] = <<>>
      /\ \E n, p, g \in Nat : DataInv(n, p, g)
      /\ UNCHANGED <<units, waiters, posting, signaled, evwaiters, setting, visited>>
      /\ UNCHANGED <<list, pc, queue, val, file, read, todo, shown>>
      /\ running_thread \in {NULL, Main} /\ running_thread \notin Threads
  BY Stages DEF PGrepInv, MainProgram, queueVars
<1>1. Lib!Idle
  <2>1. posting = NULL
    BY <1>0 DEF QueueInv, PosterRuns
  <2>2. setting = NULL
    BY <1>0 DEF QueueInv, LibP!SynchInv, LibP!TypeOK
  <2>. QED BY <2>1, <2>2 DEF Lib!Idle
<1>2. /\ \/ main = "create reader" /\ main' = "create filter" /\ Lib!UtCreate(reader)
         \/ main = "create filter" /\ main' = "create presenter" /\ Lib!UtCreate(filter)
         \/ main = "create presenter" /\ main' = "ut_run" /\ Lib!UtCreate(presenter)
         \/ main = "ut_run" /\ main' = "running" /\ Lib!UtRun
         \/ main = "running" /\ main' = "ut_end" /\ Lib!UtRunReturn
  BY DEF MainProgram, MainStep
<1>3. QueueInv'
  <2>1. Lib!UThreadStep
    BY <1>0, <1>1, <1>2, Stages DEF Lib!UThreadStep, Lib!semVars, Lib!eventVars
  <2>2. ClientStep
    BY <1>0, <2>1 DEF ClientStep, queueVars
  <2>. QED BY <1>0, <2>2, QueueInvNext DEF Next
<1>4. MainInv'
  <2>1. ASSUME NEW t \in Threads, Lib!UtCreate(t)
        PROVE  threads' = threads \cup {t} /\ running_thread' = running_thread
    BY <2>1 DEF Lib!UtCreate
  <2>2. CASE main = "create reader" /\ main' = "create filter" /\ Lib!UtCreate(reader)
    BY <1>0, <2>1, <2>2, Stages DEF MainInv, Before
  <2>3. CASE main = "create filter" /\ main' = "create presenter" /\ Lib!UtCreate(filter)
    BY <1>0, <2>1, <2>3, Stages DEF MainInv, Before
  <2>4. CASE main = "create presenter" /\ main' = "ut_run" /\ Lib!UtCreate(presenter)
    <3>1. /\ reader \in threads' /\ filter \in threads' /\ presenter \in threads'
          /\ running_thread' = NULL
      BY <1>0, <2>1, <2>4, Stages DEF MainInv, Before
    <3>. QED BY <2>4, <3>1, Stages DEF MainInv, Before
  <2>5. CASE main = "ut_run" /\ main' = "running" /\ Lib!UtRun
    <3>1. threads' = threads
      BY <2>5 DEF Lib!UtRun
    <3>. QED BY <1>0, <2>5, <3>1 DEF MainInv, Before
  <2>6. CASE main = "running" /\ main' = "ut_end" /\ Lib!UtRunReturn
    <3>1. /\ threads' = threads
          /\ aborted' \/ (number_of_threads = 0 /\ running_thread' = NULL)
      BY <2>6 DEF Lib!UtRunReturn
    <3>2. number_of_threads = 0 => threads = {}
      <4>1. number_of_threads = Cardinality(threads) /\ threads \subseteq Threads
        BY <1>0 DEF QueueInv, LibP!SynchInv, LibP!UtInv, LibP!CountsThreads, LibP!UtTypeOK,
                    Cardinality, LibP!Cardinality, IsFiniteSet, LibP!IsFiniteSet
      <4>2. IsFiniteSet(threads)
        BY <4>1, QueueAssumption, FS_Subset
      <4>. QED BY <4>1, <4>2, FS_EmptySet
    <3>. QED BY <1>0, <2>6, <3>1, <3>2 DEF MainInv, Before
  <2>. QED BY <1>2, <2>2, <2>3, <2>4, <2>5, <2>6
<1>5. PGrepTypes' /\ Control' /\ \A q \in Queues \ {qreader, qfilter} : list'[q] = <<>>
  BY <1>0 DEF PGrepTypes, Control
<1>6. \E n, p, g \in Nat : DataInv(n, p, g)'
  <2>1. PICK n, p, g \in Nat : DataInv(n, p, g)
    BY <1>0
  <2>2. DataInv(n, p, g)'
    BY <1>0, <2>1, DataStays
  <2>. QED BY <2>2
<1>. QED BY <1>3, <1>4, <1>5, <1>6 DEF PGrepInv

\* A step of a user thread keeps what main and the queues of the others rely on:
\* what is left to show is what it does to the control and to the items.
LEMMA UserStep ==
  ASSUME PGrepParameters, PGrepInv, Next, running_thread \in Threads,
         UNCHANGED <<aborted, main>>,
         \A u \in Threads : u \in threads => u \in threads' \/ todo'[u] = "exit",
         \A u \in Threads : todo'[u] = todo[u] \/ u = running_thread,
         \A q \in Queues \ {qreader, qfilter} : list'[q] = list[q],
         PGrepTypes', Control', \E n, p, g \in Nat : DataInv(n, p, g)'
  PROVE  PGrepInv'
<1>1. QueueInv'
  BY QueueInvNext DEF PGrepInv
<1>2. MainInv'
  <2>1. running_thread \in threads
    BY RunningExists DEF PGrepInv
  <2>. QED BY <2>1, MainStays
<1>3. \A q \in Queues \ {qreader, qfilter} : list'[q] = <<>>
  BY DEF PGrepInv
<1>. QED BY <1>1, <1>2, <1>3 DEF PGrepInv

\* sem_wait at the beginning of queue_put and queue_get.
LEMMA CallAtKeeps ==
  ASSUME PGrepParameters, PGrepInv, NEW t \in Threads, UNCHANGED pgrepVars,
         NEW q \in Queues, NEW x \in {"insert", "remove"},
         \/ x = "insert" /\ QueuePut(t, q)
         \/ x = "remove" /\ QueueGet(t, q),
         \/ t = reader /\ todo[t] = "put" /\ q = qreader /\ x = "insert"
         \/ t = filter /\ todo[t] = "get" /\ q = qreader /\ x = "remove"
         \/ t = filter /\ todo[t] = "put" /\ q = qfilter /\ x = "insert"
         \/ t = presenter /\ todo[t] = "get" /\ q = qfilter /\ x = "remove"
  PROVE  PGrepInv'
<1>0. /\ QueueInv /\ PGrepTypes /\ Control
      /\ pc \in [Threads -> {"client", "insert", "remove", "posting"}]
      /\ queue \in [Threads -> Queues]
      /\ UNCHANGED <<file, read, todo, main, shown>>
  BY DEF PGrepInv, QueueInv, QueueTypes, pgrepVars
<1>2. /\ running_thread = t /\ pc[t] = "client"
      /\ pc' = [pc EXCEPT ![t] = x] /\ queue' = [queue EXCEPT ![t] = q]
      /\ UNCHANGED <<list, val>>
  BY DEF QueuePut, QueueGet, Moves
<1>3. UNCHANGED <<threads, aborted>>
  <2>1. \E s : SemWait(t, s)
    BY DEF QueuePut, QueueGet
  <2>. QED BY <2>1 DEF SemWait, Lib!SemAcquire, Lib!SemBlock, Lib!UtDeactivate, Lib!utVars
<1>4. Next
  BY DEF Next
<1>5. PGrepTypes'
  BY <1>0 DEF PGrepTypes
<1>6. pc'[t] = x /\ queue'[t] = q /\ \A u \in Threads : u # t => pc'[u] = pc[u] /\ queue'[u] = queue[u]
  BY <1>0, <1>2
<1>7. Control'
  <2>1. CASE t = reader
    BY <1>0, <1>2, <1>6, <2>1, Stages DEF Control
  <2>2. CASE t = filter
    BY <1>0, <1>2, <1>6, <2>2, Stages DEF Control
  <2>3. CASE t = presenter
    BY <1>0, <1>2, <1>6, <2>3, Stages DEF Control
  <2>. QED BY <2>1, <2>2, <2>3, Stages
<1>8. \E n, p, g \in Nat : DataInv(n, p, g)'
  <2>1. PICK n, p, g \in Nat : DataInv(n, p, g)
    BY DEF PGrepInv
  <2>2. \A u \in Threads : pc'[u] = "posting" <=> pc[u] = "posting"
    BY <1>2, <1>6
  <2>3. DataInv(n, p, g)'
    BY <1>0, <1>2, <2>1, <2>2, DataStays
  <2>. QED BY <2>3
<1>. QED BY <1>0, <1>2, <1>3, <1>4, <1>5, <1>7, <1>8, UserStep

LEMMA CallKeeps ==
  ASSUME PGrepParameters, PGrepInv, NEW t \in Threads, Call(t)
  PROVE  PGrepInv'
<1>1. /\ qreader \in Queues /\ qfilter \in Queues /\ UNCHANGED pgrepVars
      /\ "insert" \in {"insert", "remove"} /\ "remove" \in {"insert", "remove"}
  BY Stages DEF Call
<1>2. CASE t = reader /\ todo[t] = "put" /\ QueuePut(t, qreader)
  BY <1>1, <1>2, CallAtKeeps
<1>3. CASE t = filter /\ todo[t] = "get" /\ QueueGet(t, qreader)
  BY <1>1, <1>3, CallAtKeeps
<1>4. CASE t = filter /\ todo[t] = "put" /\ QueuePut(t, qfilter)
  BY <1>1, <1>4, CallAtKeeps
<1>5. CASE t = presenter /\ todo[t] = "get" /\ QueueGet(t, qfilter)
  BY <1>1, <1>5, CallAtKeeps
<1>. QED BY <1>2, <1>3, <1>4, <1>5 DEF Call

\* Between sem_wait and sem_post a thread changes only its own queue, and goes
\* on to sem_post.
LEMMA InsideControl ==
  ASSUME PGrepParameters, PGrepInv, NEW t \in Threads, NEW point \in {"insert", "remove"},
         Moves(t, point, "posting"), UNCHANGED <<queue, todo>>
  PROVE  /\ running_thread = t /\ pc[t] = point
         /\ pc'[t] = "posting" /\ \A u \in Threads : u # t => pc'[u] = pc[u]
         /\ Control'
<1>0. /\ pc \in [Threads -> {"client", "insert", "remove", "posting"}]
      /\ Control
  BY DEF PGrepInv, QueueInv, QueueTypes
<1>1. /\ running_thread = t /\ pc[t] = point /\ pc'[t] = "posting"
      /\ \A u \in Threads : u # t => pc'[u] = pc[u]
  BY <1>0 DEF Moves
<1>2. Control'
  <2>1. CASE t = reader
    BY <1>0, <1>1, <2>1, Stages DEF Control
  <2>2. CASE t = filter
    BY <1>0, <1>1, <2>2, Stages DEF Control
  <2>3. CASE t = presenter
    BY <1>0, <1>1, <2>3, Stages DEF Control
  <2>. QED BY <2>1, <2>2, <2>3, Stages
<1>. QED BY <1>1, <1>2

\* An insertion, as the lists and the threads see it.
LEMMA InsertStep ==
  ASSUME PGrepParameters, PGrepInv, NEW t \in Threads, NEW x \in Items, PutInsert(t, x)
  PROVE  /\ list' = [list EXCEPT ![queue[t]] = Append(list[queue[t]], x)]
         /\ UNCHANGED <<val, queue, threads, aborted>> /\ Next
         /\ queue[t] \in Queues /\ list \in [Queues -> Seq(Items)]
         /\ Moves(t, "insert", "posting")
<1>1. queue[t] \in Queues /\ list \in [Queues -> Seq(Items)]
  BY DEF PGrepInv, QueueInv, QueueTypes
<1>2. UNCHANGED <<threads, aborted>>
  BY DEF PutInsert, Lib!SemPost, Lib!utVars
<1>. QED BY <1>1, <1>2 DEF PutInsert, Next

\* A removal.
LEMMA RemoveStep ==
  ASSUME PGrepParameters, PGrepInv, NEW t \in Threads, GetRemove(t)
  PROVE  /\ list' = [list EXCEPT ![queue[t]] = Tail(list[queue[t]])]
         /\ list[queue[t]] # <<>>
         /\ val' = [val EXCEPT ![queue[t]] = [val[queue[t]] EXCEPT ![t] = Head(list[queue[t]])]]
         /\ UNCHANGED <<queue, threads, aborted>> /\ Next
         /\ queue[t] \in Queues /\ list \in [Queues -> Seq(Items)]
         /\ val \in [Queues -> [Threads -> Items \cup {NULL}]]
         /\ Moves(t, "remove", "posting")
<1>1. /\ queue[t] \in Queues /\ list \in [Queues -> Seq(Items)]
      /\ val \in [Queues -> [Threads -> Items \cup {NULL}]]
  BY DEF PGrepInv, QueueInv, QueueTypes
<1>2. UNCHANGED <<threads, aborted>>
  BY DEF GetRemove, Lib!SemPost, Lib!utVars
<1>. QED BY <1>1, <1>2 DEF GetRemove, Next

\* The reader puts its next item in its queue.
LEMMA ReaderPuts ==
  ASSUME PGrepParameters, PGrepInv, PutInsert(reader, ReaderItem),
         read' = read + 1, UNCHANGED <<file, todo, main, shown>>
  PROVE  PGrepInv'
<1>0. /\ QueueInv /\ PGrepTypes /\ Control /\ reader \in Threads
      /\ file \in Seq(Lines) /\ read \in Nat
  BY Stages DEF PGrepInv, PGrepTypes
<1>. DEFINE x == ReaderItem
<1>1. x = Item(file, read + 1) /\ x \in Items
  <2>1. Len(file) \in Nat /\ \A j \in 1..Len(file) : file[j] \in Lines
    BY <1>0
  <2>. QED BY <1>0, <2>1, Stages DEF ReaderItem, Item
<1>. HIDE DEF x
<1>2. PutInsert(reader, x)
  BY DEF x
<1>3. /\ list' = [list EXCEPT ![queue[reader]] = Append(list[queue[reader]], x)]
      /\ UNCHANGED <<val, queue, threads, aborted>> /\ Next
      /\ list \in [Queues -> Seq(Items)]
      /\ Moves(reader, "insert", "posting")
  BY <1>0, <1>1, <1>2, InsertStep
<1>4. /\ running_thread = reader /\ pc[reader] = "insert"
      /\ pc'[reader] = "posting" /\ \A u \in Threads : u # reader => pc'[u] = pc[u]
      /\ Control'
  <2>1. "insert" \in {"insert", "remove"}
    OBVIOUS
  <2>. QED BY <1>0, <1>3, <2>1, InsideControl
<1>5. queue[reader] = qreader /\ todo[reader] = "put"
  BY <1>0, <1>4 DEF Control
<1>6. list'[qreader] = Append(list[qreader], x) /\ \A q \in Queues : q # qreader => list'[q] = list[q]
  BY <1>3, <1>5, Stages
<1>7. PICK n, p, g \in Nat : DataInv(n, p, g)
  BY DEF PGrepInv
<1>8. ReaderInv(n)'
  <2>1. list[qreader] \in Seq(Items)
    BY <1>3, Stages
  <2>2. /\ Len(list'[qreader]) = Len(list[qreader]) + 1
        /\ \A j \in 1..Len(list[qreader]) : list'[qreader][j] = list[qreader][j]
        /\ list'[qreader][Len(list[qreader]) + 1] = x
        /\ Len(list[qreader]) \in Nat
    BY <1>1, <1>6, <2>1, AppendProperties, LenProperties
  <2>3. /\ read = n + Len(list[qreader])
        /\ \A j \in 1..Len(list[qreader]) : list[qreader][j] = Item(file, n + j)
        /\ read <= Len(file)
    BY <1>4, <1>5, <1>7 DEF DataInv, ReaderInv
  <2>4. read + 1 = n + (Len(list[qreader]) + 1) /\ Len(file) \in Nat
    BY <1>0, <2>2, <2>3
  <2>5. ASSUME NEW j \in 1..Len(list'[qreader]) PROVE list'[qreader][j] = Item(file, n + j)
    <3>1. j \in 1..Len(list[qreader]) \/ j = Len(list[qreader]) + 1
      BY <2>2
    <3>. QED BY <1>1, <2>2, <2>3, <2>4, <3>1
  <2>6. read' = n + Len(list'[qreader]) /\ read' <= Len(file) + 1
    BY <1>0, <2>2, <2>3, <2>4
  <2>7. ReaderInv(n)' <=>
          /\ read' = n + Len(list'[qreader]) /\ read' <= Len(file) + 1
          /\ \A j \in 1..Len(list'[qreader]) : list'[qreader][j] = Item(file, n + j)
          /\ todo[reader] = "put" /\ pc'[reader] # "posting" => read' <= Len(file)
          /\ todo[reader] = "exit" => read' > Len(file)
    BY DEF ReaderInv, Item
  <2>. QED BY <1>4, <1>5, <2>5, <2>6, <2>7
<1>9. FilterInv(n, p)' /\ FilteredInv(p, g)' /\ PresenterInv(g)'
  BY <1>3, <1>4, <1>6, <1>7, Stages, FilterStays, FilteredStays, PresenterStays DEF DataInv
<1>10. \E a, b, c \in Nat : DataInv(a, b, c)'
  <2>1. DataInv(n, p, g)'
    BY <1>8, <1>9 DEF DataInv
  <2>. QED BY <2>1
<1>11. PGrepTypes'
  BY <1>0 DEF PGrepTypes
<1>. QED BY <1>0, <1>3, <1>4, <1>6, <1>10, <1>11, UserStep

\* The filter passes an item on.
LEMMA FilterPuts ==
  ASSUME PGrepParameters, PGrepInv, PutInsert(filter, val[qreader][filter]), UNCHANGED pgrepVars
  PROVE  PGrepInv'
<1>0. /\ QueueInv /\ PGrepTypes /\ Control /\ filter \in Threads
      /\ file \in Seq(Lines) /\ UNCHANGED <<file, read, todo, main, shown>>
      /\ val \in [Queues -> [Threads -> Items \cup {NULL}]]
  BY Stages DEF PGrepInv, PGrepTypes, pgrepVars, QueueInv, QueueTypes
<1>. DEFINE x == val[qreader][filter]
<1>1. x \in Items
  BY <1>0, Stages
<1>. HIDE DEF x
<1>2. PutInsert(filter, x)
  BY DEF x
<1>3. /\ list' = [list EXCEPT ![queue[filter]] = Append(list[queue[filter]], x)]
      /\ UNCHANGED <<val, queue, threads, aborted>> /\ Next
      /\ list \in [Queues -> Seq(Items)]
      /\ Moves(filter, "insert", "posting")
  BY <1>0, <1>1, <1>2, InsertStep
<1>4. /\ running_thread = filter /\ pc[filter] = "insert"
      /\ pc'[filter] = "posting" /\ \A u \in Threads : u # filter => pc'[u] = pc[u]
      /\ Control'
  <2>1. "insert" \in {"insert", "remove"}
    OBVIOUS
  <2>. QED BY <1>0, <1>3, <2>1, InsideControl
<1>5. queue[filter] = qfilter /\ todo[filter] = "put"
  BY <1>0, <1>4 DEF Control
<1>6. list'[qfilter] = Append(list[qfilter], x) /\ \A q \in Queues : q # qfilter => list'[q] = list[q]
  BY <1>3, <1>5, Stages
<1>7. PICK n, p, g \in Nat : DataInv(n, p, g)
  BY DEF PGrepInv
<1>8. Pending /\ ~Pending'
  BY <1>0, <1>4, <1>5 DEF Pending
<1>9. /\ Passed(file, n) = p + 1 /\ n >= 1 /\ x = Item(file, n) /\ x \in Passing
  BY <1>5, <1>7, <1>8 DEF DataInv, FilterInv, x
<1>10. FilterInv(n, p + 1)'
  <2>1. FilterInv(n, p + 1)' <=>
          /\ Passed(file, n) = IF Pending' THEN (p + 1) + 1 ELSE p + 1
          /\ todo[filter] # "get" \/ pc'[filter] = "posting" =>
               n >= 1 /\ val[qreader][filter] = Item(file, n)
          /\ todo[filter] # "get" => val[qreader][filter] \in Passing
          /\ todo[filter] = "exit" => val[qreader][filter] = NULL
    BY <1>0, <1>3 DEF FilterInv, Passed, Item, Passing
  <2>. QED BY <1>5, <1>8, <1>9, <2>1 DEF x
<1>11. IsOut(file, x, p + 1)
  <2>1. n <= Len(file) + 1 /\ n \in Nat \ {0} /\ Len(file) \in Nat
    <3>1. list[qreader] \in Seq(Items)
      BY <1>3, Stages
    <3>2. n + Len(list[qreader]) <= Len(file) + 1 /\ Len(list[qreader]) \in Nat /\ Len(file) \in Nat
      BY <1>0, <1>7, <3>1, LenProperties DEF DataInv, ReaderInv
    <3>. QED BY <1>9, <3>2
  <2>2. Item(file, n) \in Passing
    BY <1>9
  <2>3. IsOut(file, Item(file, n), Passed(file, n))
    BY <2>1, <2>2, OutNext
  <2>. QED BY <1>9, <2>3
<1>12. FilteredInv(p + 1, g)'
  <2>1. list[qfilter] \in Seq(Items)
    BY <1>3, Stages
  <2>2. /\ Len(list'[qfilter]) = Len(list[qfilter]) + 1
        /\ \A j \in 1..Len(list[qfilter]) : list'[qfilter][j] = list[qfilter][j]
        /\ list'[qfilter][Len(list[qfilter]) + 1] = x
        /\ Len(list[qfilter]) \in Nat
    BY <1>1, <1>6, <2>1, AppendProperties, LenProperties
  <2>3. /\ p = g + Len(list[qfilter])
        /\ \A j \in 1..Len(list[qfilter]) : IsOut(file, list[qfilter][j], g + j)
    BY <1>7 DEF DataInv, FilteredInv
  <2>4. p + 1 = g + (Len(list[qfilter]) + 1)
    BY <2>2, <2>3
  <2>5. ASSUME NEW j \in 1..Len(list'[qfilter]) PROVE IsOut(file, list'[qfilter][j], g + j)
    <3>1. j \in 1..Len(list[qfilter]) \/ j = Len(list[qfilter]) + 1
      BY <2>2
    <3>. QED BY <1>11, <2>2, <2>3, <2>4, <3>1
  <2>6. FilteredInv(p + 1, g)' <=>
          /\ p + 1 = g + Len(list'[qfilter])
          /\ \A j \in 1..Len(list'[qfilter]) : IsOut(file, list'[qfilter][j], g + j)
    BY <1>0 DEF FilteredInv, IsOut, Item, Passing, Passed
  <2>. QED BY <2>2, <2>4, <2>5, <2>6
<1>13. ReaderInv(n)' /\ PresenterInv(g)'
  BY <1>0, <1>3, <1>4, <1>6, <1>7, Stages, ReaderStays, PresenterStays DEF DataInv
<1>14. \E a, b, c \in Nat : DataInv(a, b, c)'
  <2>1. DataInv(n, p + 1, g)' /\ p + 1 \in Nat
    BY <1>10, <1>12, <1>13 DEF DataInv
  <2>. QED BY <2>1
<1>15. PGrepTypes'
  BY <1>0 DEF PGrepTypes
<1>. QED BY <1>0, <1>3, <1>4, <1>6, <1>14, <1>15, UserStep

\* The filter gets an item.
LEMMA FilterGets ==
  ASSUME PGrepParameters, PGrepInv, GetRemove(filter), UNCHANGED pgrepVars,
         queue[filter] = qreader, todo[filter] = "get"
  PROVE  PGrepInv'
<1>0. /\ QueueInv /\ PGrepTypes /\ Control /\ filter \in Threads
      /\ file \in Seq(Lines) /\ UNCHANGED <<file, read, todo, main, shown>>
  BY Stages DEF PGrepInv, PGrepTypes, pgrepVars
<1>1. /\ list' = [list EXCEPT ![qreader] = Tail(list[qreader])] /\ list[qreader] # <<>>
      /\ val' = [val EXCEPT ![qreader] = [val[qreader] EXCEPT ![filter] = Head(list[qreader])]]
      /\ UNCHANGED <<queue, threads, aborted>> /\ Next
      /\ list \in [Queues -> Seq(Items)]
      /\ val \in [Queues -> [Threads -> Items \cup {NULL}]]
      /\ Moves(filter, "remove", "posting")
  BY <1>0, RemoveStep
<1>2. /\ running_thread = filter /\ pc[filter] = "remove"
      /\ pc'[filter] = "posting" /\ \A u \in Threads : u # filter => pc'[u] = pc[u]
      /\ Control'
  <2>1. "remove" \in {"insert", "remove"}
    OBVIOUS
  <2>. QED BY <1>0, <1>1, <2>1, InsideControl
<1>3. /\ list'[qreader] = Tail(list[qreader])
      /\ \A q \in Queues : q # qreader => list'[q] = list[q] /\ val'[q] = val[q]
      /\ val'[qreader][filter] = Head(list[qreader])
  BY <1>0, <1>1, Stages
<1>4. PICK n, p, g \in Nat : DataInv(n, p, g)
  BY DEF PGrepInv
<1>tail. /\ list[qreader] \in Seq(Items) /\ list[qreader] # <<>>
      /\ Len(list[qreader]) \in Nat /\ Len(Tail(list[qreader])) = Len(list[qreader]) - 1
      /\ \A j \in 1..Len(Tail(list[qreader])) : Tail(list[qreader])[j] = list[qreader][j + 1]
      /\ Head(list[qreader]) = list[qreader][1]
  <2>1. list[qreader] \in Seq(Items) /\ list[qreader] # <<>>
    BY <1>1, Stages
  <2>2. Len(list[qreader]) \in Nat
    BY <2>1, LenProperties
  <2>. QED BY <2>1, <2>2, HeadTailProperties
<1>5. Len(list[qreader]) \in Nat /\ Len(list[qreader]) >= 1 /\ Len(list'[qreader]) = Len(list[qreader]) - 1
  <2>1. Len(list[qreader]) # 0
    BY <1>tail, EmptySeq
  <2>2. Len(list'[qreader]) = Len(list[qreader]) - 1
    BY <1>3, <1>tail
  <2>. QED BY <1>tail, <2>1, <2>2
<1>moved. /\ \A j \in 1..Len(list'[qreader]) : list'[qreader][j] = list[qreader][j + 1]
      /\ Head(list[qreader]) = list[qreader][1]
  BY <1>3, <1>tail
<1>numbered. \A j \in 1..Len(list[qreader]) : list[qreader][j] = Item(file, n + j)
  BY <1>4 DEF DataInv, ReaderInv
<1>6. /\ read = n + Len(list[qreader]) /\ read <= Len(file) + 1
      /\ todo[reader] = "put" /\ pc[reader] # "posting" => read <= Len(file)
      /\ todo[reader] = "exit" => read > Len(file)
  BY <1>4 DEF DataInv, ReaderInv
<1>7. ReaderInv(n + 1)'
  <2>1. read = (n + 1) + Len(list'[qreader])
    <3>. DEFINE l == Len(list[qreader])  m == Len(list'[qreader])
    <3>1. l \in Nat /\ m = l - 1 /\ read = n + l
      BY <1>5, <1>6
    <3>. HIDE DEF l, m
    <3>2. read = (n + 1) + m
      BY <3>1
    <3>. QED BY <3>2 DEF m
  <2>2. ASSUME NEW j \in 1..Len(list'[qreader]) PROVE list'[qreader][j] = Item(file, (n + 1) + j)
    <3>1. j + 1 \in 1..Len(list[qreader]) /\ n + (j + 1) = (n + 1) + j
      BY <1>5
    <3>2. list[qreader][j + 1] = Item(file, n + (j + 1))
      BY <1>numbered, <3>1
    <3>. QED BY <1>moved, <3>1, <3>2
  <2>3. pc'[reader] = pc[reader]
    BY <1>2, Stages
  <2>4. ReaderInv(n + 1)' <=>
          /\ read = (n + 1) + Len(list'[qreader]) /\ read <= Len(file) + 1
          /\ \A j \in 1..Len(list'[qreader]) : list'[qreader][j] = Item(file, (n + 1) + j)
          /\ todo[reader] = "put" /\ pc'[reader] # "posting" => read <= Len(file)
          /\ todo[reader] = "exit" => read > Len(file)
    BY <1>0 DEF ReaderInv, Item
  <2>. QED BY <1>6, <2>1, <2>2, <2>3, <2>4
<1>8. Head(list[qreader]) = Item(file, n + 1)
  <2>1. 1 \in 1..Len(list[qreader])
    BY <1>5
  <2>. QED BY <1>moved, <1>numbered, <2>1
<1>. DEFINE b == IF Item(file, n + 1) \in Passing THEN p + 1 ELSE p
<1>9. FilterInv(n + 1, p)'
  <2>1. ~Pending
    BY <1>2 DEF Pending
  <2>2. Passed(file, n) = p
    BY <1>4, <2>1 DEF DataInv, FilterInv
  <2>3. Passed(file, n + 1) = b
    BY <2>2, PassedNext
  <2>4. Pending' <=> Item(file, n + 1) \in Passing
    BY <1>0, <1>2, <1>3, <1>8 DEF Pending, Passing
  <2>5. FilterInv(n + 1, p)' <=>
          /\ Passed(file, n + 1) = IF Pending' THEN p + 1 ELSE p
          /\ todo[filter] # "get" \/ pc'[filter] = "posting" =>
               n + 1 >= 1 /\ val'[qreader][filter] = Item(file, n + 1)
          /\ todo[filter] # "get" => val'[qreader][filter] \in Passing
          /\ todo[filter] = "exit" => val'[qreader][filter] = NULL
    BY <1>0 DEF FilterInv, Passed, Item, Passing
  <2>6. n + 1 >= 1
    OBVIOUS
  <2>. QED BY <1>3, <1>8, <2>3, <2>4, <2>5, <2>6
<1>10. FilteredInv(p, g)' /\ PresenterInv(g)'
  BY <1>0, <1>2, <1>3, <1>4, Stages, FilteredStays, PresenterStays DEF DataInv
<1>11. \E a, c, d \in Nat : DataInv(a, c, d)'
  <2>1. DataInv(n + 1, p, g)' /\ n + 1 \in Nat
    BY <1>7, <1>9, <1>10 DEF DataInv
  <2>. QED BY <2>1
<1>12. PGrepTypes'
  BY <1>0 DEF PGrepTypes
<1>. QED BY <1>0, <1>1, <1>2, <1>3, <1>11, <1>12, UserStep

\* The presenter gets an item.
LEMMA PresenterGets ==
  ASSUME PGrepParameters, PGrepInv, GetRemove(presenter), UNCHANGED pgrepVars,
         queue[presenter] = qfilter, todo[presenter] = "get"
  PROVE  PGrepInv'
<1>0. /\ QueueInv /\ PGrepTypes /\ Control /\ presenter \in Threads
      /\ file \in Seq(Lines) /\ UNCHANGED <<file, read, todo, main, shown>>
  BY Stages DEF PGrepInv, PGrepTypes, pgrepVars
<1>1. /\ list' = [list EXCEPT ![qfilter] = Tail(list[qfilter])] /\ list[qfilter] # <<>>
      /\ val' = [val EXCEPT ![qfilter] = [val[qfilter] EXCEPT ![presenter] = Head(list[qfilter])]]
      /\ UNCHANGED <<queue, threads, aborted>> /\ Next
      /\ list \in [Queues -> Seq(Items)]
      /\ val \in [Queues -> [Threads -> Items \cup {NULL}]]
      /\ Moves(presenter, "remove", "posting")
  BY <1>0, RemoveStep
<1>2. /\ running_thread = presenter /\ pc[presenter] = "remove"
      /\ pc'[presenter] = "posting" /\ \A u \in Threads : u # presenter => pc'[u] = pc[u]
      /\ Control'
  <2>1. "remove" \in {"insert", "remove"}
    OBVIOUS
  <2>. QED BY <1>0, <1>1, <2>1, InsideControl
<1>3. /\ list'[qfilter] = Tail(list[qfilter])
      /\ \A q \in Queues : q # qfilter => list'[q] = list[q] /\ val'[q] = val[q]
      /\ val'[qfilter][presenter] = Head(list[qfilter])
  BY <1>0, <1>1, Stages
<1>4. PICK n, p, g \in Nat : DataInv(n, p, g)
  BY DEF PGrepInv
<1>tail. /\ list[qfilter] \in Seq(Items) /\ list[qfilter] # <<>>
      /\ Len(list[qfilter]) \in Nat /\ Len(Tail(list[qfilter])) = Len(list[qfilter]) - 1
      /\ \A j \in 1..Len(Tail(list[qfilter])) : Tail(list[qfilter])[j] = list[qfilter][j + 1]
      /\ Head(list[qfilter]) = list[qfilter][1]
  <2>1. list[qfilter] \in Seq(Items) /\ list[qfilter] # <<>>
    BY <1>1, Stages
  <2>2. Len(list[qfilter]) \in Nat
    BY <2>1, LenProperties
  <2>. QED BY <2>1, <2>2, HeadTailProperties
<1>5. Len(list[qfilter]) \in Nat /\ Len(list[qfilter]) >= 1 /\ Len(list'[qfilter]) = Len(list[qfilter]) - 1
  <2>1. Len(list[qfilter]) # 0
    BY <1>tail, EmptySeq
  <2>2. Len(list'[qfilter]) = Len(list[qfilter]) - 1
    BY <1>3, <1>tail
  <2>. QED BY <1>tail, <2>1, <2>2
<1>moved. /\ \A j \in 1..Len(list'[qfilter]) : list'[qfilter][j] = list[qfilter][j + 1]
      /\ Head(list[qfilter]) = list[qfilter][1]
  BY <1>3, <1>tail
<1>numbered. \A j \in 1..Len(list[qfilter]) : IsOut(file, list[qfilter][j], g + j)
  BY <1>4 DEF DataInv, FilteredInv
<1>6. p = g + Len(list[qfilter])
  BY <1>4 DEF DataInv, FilteredInv
<1>7. FilteredInv(p, g + 1)'
  <2>1. p = (g + 1) + Len(list'[qfilter])
    <3>. DEFINE l == Len(list[qfilter])  m == Len(list'[qfilter])
    <3>1. l \in Nat /\ m = l - 1 /\ p = g + l
      BY <1>5, <1>6
    <3>. HIDE DEF l, m
    <3>2. p = (g + 1) + m
      BY <3>1
    <3>. QED BY <3>2 DEF m
  <2>2. ASSUME NEW j \in 1..Len(list'[qfilter])
        PROVE  IsOut(file, list'[qfilter][j], (g + 1) + j)
    <3>1. j + 1 \in 1..Len(list[qfilter]) /\ g + (j + 1) = (g + 1) + j
      BY <1>5
    <3>2. IsOut(file, list[qfilter][j + 1], g + (j + 1))
      BY <1>numbered, <3>1
    <3>. QED BY <1>moved, <3>1, <3>2
  <2>3. FilteredInv(p, g + 1)' <=>
          /\ p = (g + 1) + Len(list'[qfilter])
          /\ \A j \in 1..Len(list'[qfilter]) : IsOut(file, list'[qfilter][j], (g + 1) + j)
    BY <1>0 DEF FilteredInv, IsOut, Item, Passing, Passed
  <2>. QED BY <2>1, <2>2, <2>3
<1>8. IsOut(file, Head(list[qfilter]), g + 1)
  <2>1. 1 \in 1..Len(list[qfilter])
    BY <1>5
  <2>. QED BY <1>moved, <1>numbered, <2>1
<1>9. PresenterInv(g + 1)'
  <2>1. ~Unprinted /\ Unprinted'
    BY <1>2 DEF Unprinted
  <2>2. g = Len(shown) /\ \A k \in 1..Len(shown) : IsOut(file, shown[k], k)
    BY <1>4, <2>1 DEF DataInv, PresenterInv
  <2>3. IsOut(file, val[qfilter][presenter], g + 1)'
    BY <1>0, <1>3, <1>8 DEF IsOut, Item, Passing, Passed
  <2>4. \A k \in 1..Len(shown') : IsOut(file', shown'[k], k)
    BY <1>0, <2>2
  <2>5. (todo[presenter] = "exit" => val[qfilter][presenter] = NULL)'
    BY <1>0
  <2>6. (g + 1 = IF Unprinted THEN Len(shown) + 1 ELSE Len(shown))'
    BY <1>0, <2>1, <2>2
  <2>. QED BY <2>3, <2>4, <2>5, <2>6 DEF PresenterInv
<1>10. ReaderInv(n)' /\ FilterInv(n, p)'
  BY <1>0, <1>2, <1>3, <1>4, Stages, ReaderStays, FilterStays DEF DataInv
<1>11. \E a, b, c \in Nat : DataInv(a, b, c)'
  <2>1. DataInv(n, p, g + 1)' /\ g + 1 \in Nat
    BY <1>7, <1>9, <1>10 DEF DataInv
  <2>. QED BY <2>1
<1>12. PGrepTypes'
  BY <1>0 DEF PGrepTypes
<1>. QED BY <1>0, <1>1, <1>2, <1>3, <1>11, <1>12, UserStep

LEMMA InsideKeeps ==
  ASSUME PGrepParameters, PGrepInv, NEW t \in Threads, Inside(t)
  PROVE  PGrepInv'
<1>1. CASE t = reader /\ PutInsert(t, ReaderItem) /\ read' = read + 1
           /\ UNCHANGED <<file, todo, main, shown>>
  BY <1>1, ReaderPuts
<1>2. CASE t = filter /\ PutInsert(t, val[qreader][filter]) /\ UNCHANGED pgrepVars
  BY <1>2, FilterPuts
<1>3. CASE GetRemove(t) /\ UNCHANGED pgrepVars
  <2>1. pc[t] = "remove"
    BY <1>3 DEF GetRemove, Moves
  <2>2. \/ t = filter /\ queue[filter] = qreader /\ todo[filter] = "get"
        \/ t = presenter /\ queue[presenter] = qfilter /\ todo[presenter] = "get"
    BY <2>1, Stages DEF PGrepInv, Control
  <2>. QED BY <1>3, <2>2, FilterGets, PresenterGets
<1>4. CASE PostServe /\ UNCHANGED pgrepVars
  <2>0. UNCHANGED <<list, pc, queue, val, file, read, todo, main, shown>>
    BY <1>4 DEF PostServe, queueVars, pgrepVars
  <2>1. PICK s \in QueueSems : Lib!SemServe(s)
    BY <1>4 DEF PostServe
  <2>2. posting = s /\ UNCHANGED <<threads, aborted>>
    BY <2>1 DEF Lib!SemServe, Lib!UtActivate
  <2>3. running_thread \in Threads
    BY <2>2, QueueAssumption DEF PGrepInv, QueueInv, PosterRuns
  <2>4. PGrepTypes' /\ Control'
    BY <2>0 DEF PGrepInv, PGrepTypes, Control
  <2>5. PICK n, p, g \in Nat : DataInv(n, p, g)
    BY DEF PGrepInv
  <2>6. DataInv(n, p, g)'
    BY <2>0, <2>5, DataStays
  <2>7. Next
    BY <1>4 DEF Next
  <2>. QED BY <2>0, <2>2, <2>3, <2>4, <2>6, <2>7, UserStep
<1>. QED BY <1>1, <1>2, <1>3, <1>4 DEF Inside

\* queue_put and queue_get return, and the function goes on.
LEMMA ReturnStep ==
  ASSUME PGrepParameters, PGrepInv, NEW t \in Threads, Return(t)
  PROVE  /\ running_thread = t /\ pc[t] = "posting" /\ Next
         /\ pc'[t] = "client" /\ todo'[t] = Todo(t)
         /\ \A u \in Threads : u # t => pc'[u] = pc[u] /\ todo'[u] = todo[u]
         /\ UNCHANGED <<list, queue, val, file, read, main, threads, aborted>>
         /\ PGrepTypes /\ Control /\ pc' \in [Threads -> {"client", "insert", "remove", "posting"}]
         /\ val \in [Queues -> [Threads -> Items \cup {NULL}]]
         /\ todo' = [todo EXCEPT ![t] = Todo(t)]
<1>1. /\ pc \in [Threads -> {"client", "insert", "remove", "posting"}]
      /\ val \in [Queues -> [Threads -> Items \cup {NULL}]]
      /\ PGrepTypes /\ Control
  BY DEF PGrepInv, QueueInv, QueueTypes
<1>2. /\ running_thread = t /\ pc[t] = "posting" /\ pc' = [pc EXCEPT ![t] = "client"]
      /\ UNCHANGED <<list, queue, val, file, read, main>>
      /\ todo' = [todo EXCEPT ![t] = Todo(t)]
  BY DEF Return, PostReturn
<1>3. UNCHANGED <<threads, aborted>>
  BY DEF Return, PostReturn, Lib!SemPostEnd, Lib!utVars
<1>4. Next
  BY DEF Return, Next
<1>5. pc'[t] = "client" /\ pc' \in [Threads -> {"client", "insert", "remove", "posting"}]
  BY <1>1, <1>2
<1>6. todo'[t] = Todo(t)
  BY <1>1, <1>2 DEF PGrepTypes
<1>7. \A u \in Threads : u # t => pc'[u] = pc[u] /\ todo'[u] = todo[u]
  BY <1>1, <1>2 DEF PGrepTypes
<1>. QED BY <1>1, <1>2, <1>3, <1>4, <1>5, <1>6, <1>7

LEMMA ReaderReturns ==
  ASSUME PGrepParameters, PGrepInv, Return(reader)
  PROVE  PGrepInv'
<1>0. /\ running_thread = reader /\ pc[reader] = "posting" /\ Next
      /\ pc'[reader] = "client" /\ todo'[reader] = Todo(reader)
      /\ \A u \in Threads : u # reader => pc'[u] = pc[u] /\ todo'[u] = todo[u]
      /\ UNCHANGED <<list, queue, val, file, read, main, threads, aborted>>
      /\ PGrepTypes /\ Control
      /\ todo' = [todo EXCEPT ![reader] = Todo(reader)]
  BY Stages, ReturnStep
<1>1. shown' = shown
  BY Stages DEF Return
<1>2. Todo(reader) = IF read > Len(file) THEN "exit" ELSE "put"
  BY Stages DEF Todo, ReaderTodo
<1>3. PGrepTypes'
  BY <1>0, <1>1, <1>2, Stages DEF PGrepTypes
<1>4. Control'
  BY <1>0, <1>2, Stages DEF Control
<1>5. PICK n, p, g \in Nat : DataInv(n, p, g)
  BY DEF PGrepInv
<1>6. ReaderInv(n)'
  <2>1. /\ read = n + Len(list[qreader]) /\ read <= Len(file) + 1
        /\ \A j \in 1..Len(list[qreader]) : list[qreader][j] = Item(file, n + j)
    BY <1>5 DEF DataInv, ReaderInv
  <2>2. read \in Nat /\ Len(file) \in Nat
    BY <1>0 DEF PGrepTypes
  <2>3. /\ todo'[reader] = "put" => read <= Len(file)
        /\ todo'[reader] = "exit" => read > Len(file)
    BY <1>0, <1>2, <2>2
  <2>4. ReaderInv(n)' <=>
          /\ read = n + Len(list[qreader]) /\ read <= Len(file) + 1
          /\ \A j \in 1..Len(list[qreader]) : list[qreader][j] = Item(file, n + j)
          /\ todo'[reader] = "put" /\ pc'[reader] # "posting" => read <= Len(file)
          /\ todo'[reader] = "exit" => read > Len(file)
    BY <1>0 DEF ReaderInv, Item
  <2>. QED BY <2>1, <2>3, <2>4
<1>7. FilterInv(n, p)' /\ FilteredInv(p, g)' /\ PresenterInv(g)'
  BY <1>0, <1>1, <1>5, Stages, FilterStays, FilteredStays, PresenterStays DEF DataInv
<1>8. \E a, b, c \in Nat : DataInv(a, b, c)'
  <2>1. DataInv(n, p, g)'
    BY <1>6, <1>7 DEF DataInv
  <2>. QED BY <2>1
<1>. QED BY <1>0, <1>3, <1>4, <1>8, Stages, UserStep

LEMMA FilterReturns ==
  ASSUME PGrepParameters, PGrepInv, Return(filter)
  PROVE  PGrepInv'
<1>0. /\ running_thread = filter /\ pc[filter] = "posting" /\ Next
      /\ pc'[filter] = "client" /\ todo'[filter] = Todo(filter)
      /\ \A u \in Threads : u # filter => pc'[u] = pc[u] /\ todo'[u] = todo[u]
      /\ UNCHANGED <<list, queue, val, file, read, main, threads, aborted>>
      /\ PGrepTypes /\ Control
      /\ todo' = [todo EXCEPT ![filter] = Todo(filter)]
  BY Stages, ReturnStep
<1>1. shown' = shown
  BY Stages DEF Return
<1>. DEFINE x == val[qreader][filter]
<1>2. \/ todo[filter] = "get" /\ x \in Passing /\ Todo(filter) = "put"
      \/ todo[filter] = "get" /\ x \notin Passing /\ Todo(filter) = "get"
      \/ todo[filter] = "put" /\ x = NULL /\ Todo(filter) = "exit"
      \/ todo[filter] = "put" /\ x # NULL /\ Todo(filter) = "get"
  <2>1. todo[filter] \in {"get", "put"}
    BY <1>0, Stages DEF Control, PGrepTypes
  <2>2. Todo(filter) = FilterTodo
    BY Stages DEF Todo
  <2>3. CASE todo[filter] = "get" /\ x \in Passing
    BY <2>2, <2>3 DEF FilterTodo, Passing
  <2>4. CASE todo[filter] = "get" /\ x \notin Passing
    BY <2>2, <2>4 DEF FilterTodo, Passing
  <2>5. CASE todo[filter] = "put"
    BY <2>2, <2>5 DEF FilterTodo, Passing
  <2>. QED BY <2>1, <2>3, <2>4, <2>5
<1>3. PGrepTypes'
  <2>1. Todo(filter) \in {"put", "get", "exit"}
    BY <1>2
  <2>. QED BY <1>0, <1>1, <2>1, Stages DEF PGrepTypes
<1>4. Control'
  BY <1>0, <1>2, Stages DEF Control
<1>5. PICK n, p, g \in Nat : DataInv(n, p, g)
  BY DEF PGrepInv
<1>6. FilterInv(n, p)'
  <2>1. /\ Passed(file, n) = IF Pending THEN p + 1 ELSE p
        /\ n >= 1 /\ x = Item(file, n)
        /\ todo[filter] # "get" => x \in Passing
    BY <1>0, <1>5 DEF DataInv, FilterInv
  <2>2. Pending' <=> Pending
    BY <1>0, <1>2 DEF Pending
  <2>3. todo'[filter] # "get" => x \in Passing
    BY <1>0, <1>2, <2>1
  <2>4. todo'[filter] = "exit" => x = NULL
    BY <1>0, <1>2
  <2>5. FilterInv(n, p)' <=>
          /\ Passed(file, n) = IF Pending' THEN p + 1 ELSE p
          /\ todo'[filter] # "get" \/ pc'[filter] = "posting" => n >= 1 /\ x = Item(file, n)
          /\ todo'[filter] # "get" => x \in Passing
          /\ todo'[filter] = "exit" => x = NULL
    BY <1>0 DEF FilterInv, Passed, Item, Passing
  <2>. HIDE DEF x
  <2>. QED BY <2>1, <2>2, <2>3, <2>4, <2>5
<1>7. ReaderInv(n)' /\ FilteredInv(p, g)' /\ PresenterInv(g)'
  BY <1>0, <1>1, <1>5, Stages, ReaderStays, FilteredStays, PresenterStays DEF DataInv
<1>8. \E a, b, c \in Nat : DataInv(a, b, c)'
  <2>1. DataInv(n, p, g)'
    BY <1>6, <1>7 DEF DataInv
  <2>. QED BY <2>1
<1>. QED BY <1>0, <1>3, <1>4, <1>8, Stages, UserStep

LEMMA PresenterReturns ==
  ASSUME PGrepParameters, PGrepInv, Return(presenter)
  PROVE  PGrepInv'
<1>0. /\ running_thread = presenter /\ pc[presenter] = "posting" /\ Next
      /\ pc'[presenter] = "client" /\ todo'[presenter] = Todo(presenter)
      /\ \A u \in Threads : u # presenter => pc'[u] = pc[u] /\ todo'[u] = todo[u]
      /\ UNCHANGED <<list, queue, val, file, read, main, threads, aborted>>
      /\ PGrepTypes /\ Control
      /\ val \in [Queues -> [Threads -> Items \cup {NULL}]]
      /\ todo' = [todo EXCEPT ![presenter] = Todo(presenter)]
  BY Stages, ReturnStep
<1>. DEFINE x == val[qfilter][presenter]
<1>1. /\ Todo(presenter) = IF x = NULL THEN "exit" ELSE "get"
      /\ x = NULL => shown' = shown
      /\ x # NULL => x \in Lines /\ shown' = Append(shown, x)
  <2>1. Todo(presenter) = IF x = NULL THEN "exit" ELSE "get"
    BY Stages DEF Todo, PresenterTodo
  <2>2. x # NULL => x \in Lines
    BY <1>0, Stages
  <2>. QED BY <2>1, <2>2 DEF Return
<1>. HIDE DEF x
<1>2. PGrepTypes'
  <2>1. shown' \in Seq(Lines)
    <3>1. shown \in Seq(Lines)
      BY <1>0 DEF PGrepTypes
    <3>2. CASE x = NULL
      BY <1>1, <3>1, <3>2
    <3>3. CASE x # NULL
      BY <1>1, <3>1, <3>3, AppendProperties
    <3>. QED BY <3>2, <3>3
  <2>2. todo' \in [Threads -> {"put", "get", "exit"}]
    BY <1>0, <1>1 DEF PGrepTypes
  <2>. QED BY <1>0, <2>1, <2>2 DEF PGrepTypes
<1>3. Control'
  BY <1>0, <1>1, Stages DEF Control
<1>4. PICK n, p, g \in Nat : DataInv(n, p, g)
  BY DEF PGrepInv
<1>5. /\ Unprinted /\ g = Len(shown) + 1 /\ IsOut(file, x, g)
      /\ \A k \in 1..Len(shown) : IsOut(file, shown[k], k)
  BY <1>0, <1>4 DEF DataInv, PresenterInv, Unprinted, x
<1>6. Unprinted' <=> x = NULL
  BY <1>0, <1>1 DEF Unprinted
<1>7. PresenterInv(g)'
  <2>1. PresenterInv(g)' <=>
          /\ g = IF Unprinted' THEN Len(shown') + 1 ELSE Len(shown')
          /\ Unprinted' => IsOut(file, x, g)
          /\ todo'[presenter] = "exit" => x = NULL
          /\ \A k \in 1..Len(shown') : IsOut(file, shown'[k], k)
    BY <1>0 DEF PresenterInv, IsOut, Item, Passing, Passed, x
  <2>2. todo'[presenter] = "exit" => x = NULL
    BY <1>0, <1>1
  <2>3. CASE x = NULL
    BY <1>1, <1>5, <1>6, <2>1, <2>2, <2>3
  <2>4. CASE x # NULL
    <3>1. /\ Len(shown') = Len(shown) + 1
          /\ \A k \in 1..Len(shown) : shown'[k] = shown[k]
          /\ shown'[Len(shown) + 1] = x
          /\ Len(shown) \in Nat
      BY <1>0, <1>1, <2>4, AppendProperties, LenProperties DEF PGrepTypes
    <3>2. ASSUME NEW k \in 1..Len(shown') PROVE IsOut(file, shown'[k], k)
      <4>1. k \in 1..Len(shown) \/ k = Len(shown) + 1
        BY <3>1
      <4>. QED BY <1>5, <3>1, <4>1
    <3>3. g = Len(shown')
      BY <1>5, <3>1
    <3>. QED BY <1>6, <2>1, <2>2, <2>4, <3>2, <3>3
  <2>. QED BY <2>3, <2>4
<1>8. ReaderInv(n)' /\ FilterInv(n, p)' /\ FilteredInv(p, g)'
  BY <1>0, <1>4, Stages, ReaderStays, FilterStays, FilteredStays DEF DataInv
<1>9. \E a, b, c \in Nat : DataInv(a, b, c)'
  <2>1. DataInv(n, p, g)'
    BY <1>7, <1>8 DEF DataInv
  <2>. QED BY <2>1
<1>. QED BY <1>0, <1>2, <1>3, <1>9, Stages, UserStep

\* A function that has returned ends its thread.
LEMMA ExitKeeps ==
  ASSUME PGrepParameters, PGrepInv, NEW t \in Threads, Exit(t)
  PROVE  PGrepInv'
<1>1. /\ pc[t] = "client" /\ todo[t] = "exit" /\ Lib!Idle /\ Lib!UtExit(t)
      /\ UNCHANGED <<units, waiters, posting, signaled, evwaiters, setting, visited>>
      /\ UNCHANGED <<list, pc, queue, val, file, read, todo, main, shown>>
  BY DEF Exit, queueVars, pgrepVars
<1>2. running_thread = t /\ threads' = threads \ {t} /\ aborted' = aborted
  BY <1>1 DEF Lib!UtExit, Lib!InternalExit
<1>3. Next
  <2>1. Lib!UThreadStep
    BY <1>1 DEF Lib!UThreadStep, Lib!semVars, Lib!eventVars
  <2>2. ClientStep
    BY <1>1, <1>2, <2>1 DEF ClientStep, queueVars
  <2>. QED BY <2>2 DEF Next
<1>4. PGrepTypes' /\ Control'
  BY <1>1 DEF PGrepInv, PGrepTypes, Control
<1>5. PICK n, p, g \in Nat : DataInv(n, p, g)
  BY DEF PGrepInv
<1>6. DataInv(n, p, g)'
  BY <1>1, <1>5, DataStays
<1>7. \A u \in Threads : u \in threads => u \in threads' \/ todo'[u] = "exit"
  BY <1>1, <1>2
<1>. QED BY <1>1, <1>2, <1>3, <1>4, <1>6, <1>7, UserStep

LEMMA PGrepInvInit == ASSUME PGrepParameters, PGrepInit PROVE PGrepInv
<1>1. QueueInv
  BY QueueInvInit DEF PGrepInit
<1>2. /\ list = [q \in Queues |-> <<>>] /\ pc = [t \in Threads |-> "client"]
      /\ running_thread = NULL /\ main = "create reader"
      /\ read = 0 /\ shown = <<>>
      /\ todo = [t \in Threads |-> IF t = reader THEN "put" ELSE "get"]
  BY DEF PGrepInit, Init, QueueInit, Lib!Init, Lib!UtInit
<1>3. file \in Seq(Lines)
  <2>1. PICK n \in 0..MaxLines : file \in [1..n -> Lines]
    BY DEF PGrepInit
  <2>2. n \in Nat
    BY <2>1 DEF PGrepParameters
  <2>. QED BY <2>1, <2>2
<1>4. PGrepTypes
  <2>1. <<>> \in Seq(Lines)
    OBVIOUS
  <2>2. shown \in Seq(Lines) /\ read \in Nat
    BY <1>2, <2>1
  <2>3. todo \in [Threads -> {"put", "get", "exit"}]
    BY <1>2
  <2>. QED BY <1>3, <2>2, <2>3 DEF PGrepTypes
<1>5. Control
  BY <1>2, Stages DEF Control
<1>6. MainInv
  BY <1>2 DEF MainInv, Before
<1>7. \A q \in Queues : list[q] = <<>> /\ Len(list[q]) = 0
  BY <1>2
<1>8. DataInv(0, 0, 0)
  <2>1. /\ todo[reader] = "put" /\ todo[filter] = "get" /\ todo[presenter] = "get"
        /\ pc[filter] = "client" /\ pc[presenter] = "client"
    BY <1>2, Stages
  <2>2. ReaderInv(0)
    <3>1. Len(file) \in Nat
      BY <1>3
    <3>2. Len(list[qreader]) = 0
      BY <1>7, Stages
    <3>3. read = 0 + Len(list[qreader]) /\ read <= Len(file) /\ read <= Len(file) + 1
      <4>1. read = 0
        BY <1>2
      <4>. QED BY <3>1, <3>2, <4>1
    <3>4. \A j \in 1..Len(list[qreader]) : list[qreader][j] = Item(file, 0 + j)
      BY <3>2
    <3>. QED BY <2>1, <3>3, <3>4 DEF ReaderInv
  <2>3. FilterInv(0, 0)
    BY <2>1, PassedZero DEF FilterInv, Pending
  <2>4. FilteredInv(0, 0)
    BY <1>7, Stages DEF FilteredInv
  <2>5. PresenterInv(0)
    <3>1. Len(shown) = 0
      BY <1>2
    <3>. QED BY <2>1, <3>1 DEF PresenterInv, Unprinted
  <2>. QED BY <2>2, <2>3, <2>4, <2>5 DEF DataInv
<1>9. \E n, p, g \in Nat : DataInv(n, p, g)
  <2>1. 0 \in Nat
    OBVIOUS
  <2>. QED BY <1>8, <2>1
<1>. QED BY <1>1, <1>4, <1>5, <1>6, <1>7, <1>9 DEF PGrepInv

LEMMA PGrepInvNext ==
  ASSUME PGrepParameters, PGrepInv, [PGrepNext]_allVars
  PROVE  PGrepInv'
<1>1. CASE MainProgram
  BY <1>1, MainKeeps
<1>2. ASSUME NEW t \in Threads, Call(t) PROVE PGrepInv'
  BY <1>2, CallKeeps
<1>3. ASSUME NEW t \in Threads, Inside(t) PROVE PGrepInv'
  BY <1>3, InsideKeeps
<1>4. ASSUME NEW t \in Threads, Return(t) PROVE PGrepInv'
  BY <1>4, Stages, ReaderReturns, FilterReturns, PresenterReturns
<1>5. ASSUME NEW t \in Threads, Exit(t) PROVE PGrepInv'
  BY <1>5, ExitKeeps
<1>6. CASE UNCHANGED allVars
  <2>1. UNCHANGED vars /\ UNCHANGED pgrepVars
    BY <1>6 DEF allVars
  <2>2. QueueInv'
    BY <2>1, QueueInvNext DEF PGrepInv
  <2>3. UNCHANGED <<threads, running_thread, aborted, list, pc, queue, val,
                    file, read, todo, main, shown>>
    BY <2>1 DEF vars, pgrepVars
  <2>4. PGrepTypes' /\ \A q \in Queues \ {qreader, qfilter} : list'[q] = <<>>
    BY <2>3 DEF PGrepInv, PGrepTypes
  <2>7. Control'
    BY <2>3 DEF PGrepInv, Control
  <2>8. MainInv'
    BY <2>3 DEF PGrepInv, MainInv, Before
  <2>5. PICK n, p, g \in Nat : DataInv(n, p, g)
    BY DEF PGrepInv
  <2>6. DataInv(n, p, g)'
    BY <2>3, <2>5, DataStays
  <2>. QED BY <2>2, <2>4, <2>6, <2>7, <2>8 DEF PGrepInv
<1>. QED BY <1>1, <1>2, <1>3, <1>4, <1>5, <1>6 DEF PGrepNext, Ended

LEMMA PGrepInvAlways == ASSUME PGrepParameters PROVE PGrepSpec => []PGrepInv
<1>1. PGrepInit => PGrepInv
  BY PGrepInvInit
<1>2. PGrepInv /\ [PGrepNext]_allVars => PGrepInv'
  BY PGrepInvNext
<1>. QED BY <1>1, <1>2, PTL DEF PGrepSpec

-----------------------------------------------------------------------------
(***************************************************************************)
(* What the invariant says of pgrep.                                       *)
(***************************************************************************)

\* What is printed is, so far, what has to be.
LEMMA InOrder == ASSUME PGrepParameters, PGrepInv PROVE PrintsInOrder
<1>1. PICK n, p, g \in Nat : DataInv(n, p, g)
  BY DEF PGrepInv
<1>2. /\ file \in Seq(Lines) /\ shown \in Seq(Lines) /\ NULL \notin Lines /\ Matching \subseteq Lines
      /\ \A k \in 1..Len(shown) : IsOut(file, shown[k], k)
  BY <1>1, Stages DEF PGrepInv, PGrepTypes, DataInv, PresenterInv
<1>3. Len(shown) \in Nat /\ \A k \in 1..Len(shown) : shown[k] \in Lines
  BY <1>2
<1>4. ASSUME NEW k \in 1..Len(shown)
      PROVE  k \in 1..Len(MatchesOf(file)) /\ MatchesOf(file)[k] = shown[k]
  <2>1. shown[k] # NULL /\ IsOut(file, shown[k], k)
    BY <1>2, <1>3
  <2>. QED BY <1>2, <2>1, OutLine
<1>5. Len(MatchesOf(file)) \in Nat
  BY <1>2, MatchesLength
<1>6. Len(shown) <= Len(MatchesOf(file))
  <2>1. CASE Len(shown) = 0
    BY <1>5, <2>1
  <2>2. CASE Len(shown) # 0
    <3>1. Len(shown) \in 1..Len(shown)
      BY <1>3, <2>2
    <3>2. Len(shown) \in 1..Len(MatchesOf(file))
      BY <1>4, <3>1
    <3>. QED BY <1>5, <3>2
  <2>. QED BY <2>1, <2>2
<1>. QED BY <1>4, <1>6 DEF PrintsInOrder, Matches

\* When every function has returned, the numbers of items agree and the queues
\* are empty.
LEMMA AllReturned ==
  ASSUME PGrepParameters, PGrepInv, \A t \in Threads : todo[t] = "exit"
  PROVE  /\ \A t \in Threads : pc[t] = "client"
         /\ \A q \in Queues : list[q] = <<>>
         /\ Len(shown) = Len(MatchesOf(file))
<1>0. /\ PGrepTypes /\ Control /\ QueueTypes
      /\ todo[reader] = "exit" /\ todo[filter] = "exit" /\ todo[presenter] = "exit"
      /\ file \in Seq(Lines) /\ shown \in Seq(Lines) /\ read \in Nat
  BY Stages DEF PGrepInv, PGrepTypes, QueueInv
<1>1. \A t \in Threads : pc[t] = "client"
  <2>1. pc[reader] = "client" /\ pc[presenter] = "client" /\ pc[filter] = "client"
    BY <1>0 DEF Control
  <2>. QED BY <2>1, Stages
<1>2. PICK n, p, g \in Nat : DataInv(n, p, g)
  BY DEF PGrepInv
<1>3. /\ Len(file) \in Nat /\ Len(shown) \in Nat
      /\ list[qreader] \in Seq(Items) /\ list[qfilter] \in Seq(Items)
      /\ Len(list[qreader]) \in Nat /\ Len(list[qfilter]) \in Nat
  <2>1. list[qreader] \in Seq(Items) /\ list[qfilter] \in Seq(Items)
    BY <1>0, Stages DEF QueueTypes
  <2>. QED BY <1>0, <2>1, LenProperties
<1>4. /\ read = n + Len(list[qreader]) /\ read <= Len(file) + 1 /\ read > Len(file)
      /\ Passed(file, n) = p /\ n >= 1 /\ Item(file, n) = NULL
  <2>1. read = n + Len(list[qreader]) /\ read <= Len(file) + 1 /\ read > Len(file)
    BY <1>0, <1>2 DEF DataInv, ReaderInv
  <2>2. ~Pending
    BY <1>0 DEF Pending
  <2>3. Passed(file, n) = p /\ n >= 1 /\ Item(file, n) = NULL
    BY <1>0, <1>2, <2>2 DEF DataInv, FilterInv
  <2>. QED BY <2>1, <2>3
<1>5. n = Len(file) + 1 /\ Len(list[qreader]) = 0
  <2>1. \A j \in 1..Len(file) : file[j] \in Lines
    BY <1>0
  <2>2. ~(n <= Len(file))
    <3>1. ASSUME n <= Len(file) PROVE FALSE
      <4>1. n \in 1..Len(file) /\ Item(file, n) = file[n]
        BY <1>3, <1>4, <3>1 DEF Item
      <4>. QED BY <1>4, <2>1, <4>1, Stages
    <3>. QED BY <3>1
  <2>3. read = Len(file) + 1
    BY <1>0, <1>3, <1>4
  <2>. QED BY <1>3, <1>4, <2>2, <2>3
<1>6. /\ p = g + Len(list[qfilter]) /\ g = Len(shown) + 1
      /\ IsOut(file, NULL, g)
  BY <1>0, <1>2 DEF DataInv, FilteredInv, PresenterInv, Unprinted
<1>7. g = Passed(file, Len(file) + 1)
  BY <1>0, <1>6, Stages, OutNull
<1>8. Len(list[qfilter]) = 0
  <2>1. n = Len(file) + 1 /\ Passed(file, n) = p
    BY <1>4, <1>5
  <2>2. Passed(file, n) = Passed(file, Len(file) + 1)
    BY <2>1, Zenon
  <2>3. p = g
    BY <1>7, <2>1, <2>2
  <2>. DEFINE l == Len(list[qfilter])
  <2>4. l \in Nat /\ p = g + l
    BY <1>3, <1>6
  <2>. HIDE DEF l
  <2>5. l = 0
    BY <2>3, <2>4
  <2>. QED BY <2>5 DEF l
<1>9. \A q \in Queues : list[q] = <<>>
  <2>1. list[qreader] = <<>> /\ list[qfilter] = <<>>
    BY <1>3, <1>5, <1>8, EmptySeq
  <2>. QED BY <2>1 DEF PGrepInv
<1>10. Len(shown) = Len(MatchesOf(file))
  <2>1. Len(MatchesOf(file)) + 1 = Passed(file, Len(file) + 1) /\ Len(MatchesOf(file)) \in Nat
    BY <1>0, Stages, MatchesLength
  <2>. QED BY <1>3, <1>6, <1>7, <2>1
<1>. QED BY <1>1, <1>9, <1>10

LEMMA Clean == ASSUME PGrepParameters, PGrepInv PROVE EndsClean
<1>. SUFFICES ASSUME main = "ut_end", ~aborted
              PROVE  /\ shown = Matches
                     /\ threads = {}
                     /\ \A q \in Queues : /\ list[q] = <<>> /\ units[HasItems(q)] = 0
                                          /\ units[HasSpace(q)] = Size[q]
  BY DEF EndsClean
<1>1. threads = {} /\ \A t \in Threads : todo[t] = "exit"
  <2>1. threads = {} /\ \A t \in Threads : t \in threads \/ todo[t] = "exit"
    BY DEF PGrepInv, MainInv
  <2>. QED BY <2>1
<1>2. /\ \A t \in Threads : pc[t] = "client"
      /\ \A q \in Queues : list[q] = <<>>
      /\ Len(shown) = Len(MatchesOf(file))
  BY <1>1, AllReturned
<1>3. shown = Matches
  <2>1. file \in Seq(Lines) /\ shown \in Seq(Lines) /\ NULL \notin Lines /\ Matching \subseteq Lines
    BY Stages DEF PGrepInv, PGrepTypes
  <2>2. \A k \in 1..Len(shown) : shown[k] = MatchesOf(file)[k]
    BY InOrder DEF PrintsInOrder, Matches
  <2>3. MatchesOf(file) = [k \in 1..Len(MatchesOf(file)) |-> MatchesOf(file)[k]]
    BY <2>1, MatchesLength
  <2>4. shown = [k \in 1..Len(shown) |-> shown[k]]
    BY <2>1
  <2>. QED BY <1>2, <2>2, <2>3, <2>4 DEF Matches
<1>4. ASSUME NEW q \in Queues
      PROVE  units[HasItems(q)] = 0 /\ units[HasSpace(q)] = Size[q]
  <2>1. \A s \in QueueSems : Holders(s) = {}
    BY <1>2 DEF Holders, Point
  <2>2. Held(HasItems(q)) = 0 /\ Held(HasSpace(q)) = 0
    BY <2>1, QueueSemsSplit, FS_EmptySet DEF Held
  <2>3. units[HasItems(q)] \in Nat /\ units[HasSpace(q)] \in Nat /\ Size[q] \in Nat
    BY QueueSemsSplit, QueueAssumption DEF PGrepInv, QueueInv, LibP!SynchInv, LibP!TypeOK
  <2>4. Len(list[q]) = 0
    BY <1>2
  <2>5. /\ units[HasItems(q)] + units[HasSpace(q)] + Held(HasSpace(q)) + Held(HasItems(q)) = Size[q]
        /\ Len(list[q]) = units[HasItems(q)] + Held(HasItems(q))
    BY DEF PGrepInv, QueueInv, Balanced
  <2>. QED BY <2>2, <2>3, <2>4, <2>5
<1>. QED BY <1>1, <1>2, <1>3, <1>4

\* Whatever the file and the word, the presenter prints the lines that contain
\* the word, in the order of the file, and no others: the two queues, which the
\* threads fill and drain at different speeds, lose, repeat and reorder nothing.
THEOREM PipelinePrintsInOrder == ASSUME PGrepParameters PROVE PGrepSpec => []PrintsInOrder
<1>1. PGrepInv => PrintsInOrder
  BY InOrder
<1>. QED BY <1>1, PGrepInvAlways, PTL

\* When ut_run has returned, all of them were printed, no thread exists, and the
\* queues and their semaphores are as queue_init made them.
THEOREM PipelineEndsClean == ASSUME PGrepParameters PROVE PGrepSpec => []EndsClean
<1>1. PGrepInv => EndsClean
  BY Clean
<1>. QED BY <1>1, PGrepInvAlways, PTL
=============================================================================
