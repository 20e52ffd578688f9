---------------------------- MODULE USynchProofs ----------------------------
(***************************************************************************)
(* The user threads library, for any number of threads, semaphores and     *)
(* events, any limits and any requests: first the scheduler's invariants,  *)
(* then the synchronizers', that they use the scheduler as its             *)
(* specification allows, and the order in which threads run.               *)
(***************************************************************************)
EXTENDS ReadyOrder, SequenceTheorems, FiniteSetTheorems, TLAPS

-----------------------------------------------------------------------------
(***************************************************************************)
(* Queues without repetition, under the two operations of the library.     *)
(***************************************************************************)

\* Appending an element that is not in a queue keeps its elements distinct.
LEMMA AppendDistinct ==
  ASSUME NEW S, NEW q \in Seq(S), NEW e \in S
  PROVE  /\ Append(q, e) \in Seq(S)
         /\ Range(Append(q, e)) = Range(q) \cup {e}
         /\ IsInjective(q) /\ e \notin Range(q) => IsInjective(Append(q, e))
<1>1. /\ Append(q, e) \in Seq(S)
      /\ Len(q) \in Nat
      /\ Len(Append(q, e)) = Len(q) + 1
      /\ \A i \in 1 .. Len(q) : Append(q, e)[i] = q[i]
      /\ Append(q, e)[Len(q) + 1] = e
  BY AppendProperties, LenProperties
<1>2. DOMAIN q = 1 .. Len(q) /\ DOMAIN Append(q, e) = 1 .. (Len(q) + 1)
  BY <1>1, LenProperties
<1>3. Range(Append(q, e)) = Range(q) \cup {e}
  BY <1>1, <1>2 DEF Range
<1>4. ASSUME IsInjective(q), e \notin Range(q)
      PROVE  IsInjective(Append(q, e))
  BY <1>1, <1>2, <1>4 DEF Range, IsInjective
<1>. QED BY <1>1, <1>3, <1>4

\* Removing the head of a queue of distinct elements removes that element.
LEMMA TailDistinct ==
  ASSUME NEW S, NEW q \in Seq(S), q # <<>>
  PROVE  /\ Head(q) \in S
         /\ Head(q) \in Range(q)
         /\ Tail(q) \in Seq(S)
         /\ Range(q) = Range(Tail(q)) \cup {Head(q)}
         /\ IsInjective(q) => IsInjective(Tail(q)) /\ Head(q) \notin Range(Tail(q))
<1>1. /\ Head(q) \in S
      /\ Head(q) = q[1]
      /\ Tail(q) \in Seq(S)
      /\ Len(Tail(q)) = Len(q) - 1
      /\ \A i \in 1 .. Len(Tail(q)) : Tail(q)[i] = q[i + 1]
  BY HeadTailProperties
<1>2. Len(q) \in Nat /\ Len(q) > 0 /\ DOMAIN q = 1 .. Len(q)
  BY EmptySeq, LenProperties
<1>3. DOMAIN Tail(q) = 1 .. (Len(q) - 1)
  BY <1>1, LenProperties
<1>4. Head(q) \in Range(q)
  BY <1>1, <1>2 DEF Range
<1>5. Range(q) = Range(Tail(q)) \cup {Head(q)}
  <2>1. ASSUME NEW i \in 1 .. Len(q)
        PROVE  q[i] \in Range(Tail(q)) \cup {Head(q)}
    <3>1. CASE i = 1
      BY <3>1, <1>1
    <3>2. CASE i # 1
      <4>1. i - 1 \in 1 .. (Len(q) - 1) /\ Tail(q)[i - 1] = q[i]
        BY <3>2, <1>1, <1>2
      <4>. QED BY <4>1, <1>3 DEF Range
    <3>. QED BY <3>1, <3>2
  <2>2. ASSUME NEW i \in 1 .. (Len(q) - 1)
        PROVE  Tail(q)[i] \in Range(q)
    <3>1. i + 1 \in 1 .. Len(q) /\ Tail(q)[i] = q[i + 1]
      BY <1>1, <1>2
    <3>. QED BY <3>1, <1>2 DEF Range
  <2>. QED BY <2>1, <2>2, <1>2, <1>3, <1>4 DEF Range
<1>6. ASSUME IsInjective(q)
      PROVE  IsInjective(Tail(q)) /\ Head(q) \notin Range(Tail(q))
  BY <1>1, <1>2, <1>3, <1>6 DEF IsInjective, Range
<1>. QED BY <1>1, <1>4, <1>5, <1>6
\* The part of a queue that is left, and the thread that is switched to, when
\* a queue of distinct threads is scheduled.
LEMMA ScheduleDistinct ==
  ASSUME NEW q \in Seq(Threads), IsInjective(q)
  PROVE  /\ RestOfQueue(q) \in Seq(Threads)
         /\ IsInjective(RestOfQueue(q))
         /\ Range(RestOfQueue(q)) \subseteq Range(q)
         /\ q = <<>> => NextThread(q) = main_thread /\ RestOfQueue(q) = <<>>
         /\ q # <<>> => /\ NextThread(q) \in Threads
                        /\ Range(q) = Range(RestOfQueue(q)) \cup {NextThread(q)}
                        /\ NextThread(q) \notin Range(RestOfQueue(q))
<1>1. CASE q = <<>>
  BY <1>1 DEF NextThread, RestOfQueue
<1>2. CASE q # <<>>
  BY <1>2, TailDistinct DEF NextThread, RestOfQueue
<1>. QED BY <1>1, <1>2

-----------------------------------------------------------------------------
(***************************************************************************)
(* The inductive invariant.                                                *)
(***************************************************************************)

UtInv ==
  /\ UtTypeOK
  /\ ReadyQueueSound
  /\ SwitchTargetLive
  /\ CountsThreads

LEMMA ThreadsFinite ==
  ASSUME UtTypeOK
  PROVE  IsFiniteSet(threads) /\ Cardinality(threads) \in Nat
BY HandlesAssumption, FS_Subset, FS_CardinalityType DEF UtTypeOK

LEMMA UtInvInit == UtInit => UtInv
<1>. SUFFICES ASSUME UtInit PROVE UtInv
  OBVIOUS
<1>1. UtTypeOK
  BY EmptySeq DEF UtInit, UtTypeOK
<1>2. ReadyQueueSound
  BY DEF UtInit, ReadyQueueSound, IsInjective, Range
<1>3. SwitchTargetLive
  BY HandlesAssumption DEF UtInit, SwitchTargetLive
<1>4. CountsThreads
  BY FS_EmptySet DEF UtInit, CountsThreads
<1>. QED BY <1>1, <1>2, <1>3, <1>4 DEF UtInv

LEMMA UtCreateInv ==
  ASSUME UtInv, NEW t \in Threads, UtCreate(t)
  PROVE  UtInv'
<1>. USE DEF UtInv, UtCreate
<1>1. /\ ready_queue' \in Seq(Threads)
      /\ Range(ready_queue)' = Range(ready_queue) \cup {t}
      /\ t \notin Range(ready_queue) /\ IsInjective(ready_queue)'
  BY AppendDistinct DEF UtTypeOK, ReadyQueueSound
<1>2. UtTypeOK'
  BY <1>1 DEF UtTypeOK
<1>3. ReadyQueueSound'
  BY <1>1, HandlesAssumption DEF UtTypeOK, ReadyQueueSound, SwitchTargetLive
<1>4. SwitchTargetLive'
  BY HandlesAssumption DEF UtTypeOK, SwitchTargetLive, ClientRuns
<1>5. CountsThreads'
  BY ThreadsFinite, FS_AddElement DEF UtTypeOK, CountsThreads
<1>. QED BY <1>2, <1>3, <1>4, <1>5

LEMMA UtRunInv ==
  ASSUME UtInv, UtRun
  PROVE  UtInv'
<1>. USE DEF UtInv, UtRun, Schedule, ContextSwitch
<1>1. UtTypeOK'
  BY ScheduleDistinct DEF UtTypeOK, ReadyQueueSound
<1>2. ReadyQueueSound'
  BY ScheduleDistinct DEF UtTypeOK, ReadyQueueSound
<1>3. SwitchTargetLive'
  BY ScheduleDistinct, HandlesAssumption DEF UtTypeOK, ReadyQueueSound, SwitchTargetLive
<1>4. CountsThreads'
  BY DEF CountsThreads
<1>. QED BY <1>1, <1>2, <1>3, <1>4

LEMMA UtRunReturnInv ==
  ASSUME UtInv, UtRunReturn
  PROVE  UtInv'
<1>. USE HandlesAssumption DEF UtInv, UtRunReturn
<1>1. UtTypeOK'
  BY DEF UtTypeOK
<1>2. ReadyQueueSound'
  BY DEF UtTypeOK, ReadyQueueSound, Range
<1>3. SwitchTargetLive'
  BY DEF UtTypeOK, SwitchTargetLive
<1>4. CountsThreads'
  BY DEF CountsThreads
<1>. QED BY <1>1, <1>2, <1>3, <1>4

LEMMA UtYieldInv ==
  ASSUME UtInv, NEW t \in Threads, UtYield(t)
  PROVE  UtInv'
<1>. DEFINE q == Append(ready_queue, t)
<1>. USE DEF UtInv, UtYield, Schedule, ContextSwitch
<1>1. /\ q \in Seq(Threads) /\ q # <<>>
      /\ IsInjective(q)
      /\ Range(q) = Range(ready_queue) \cup {t}
  BY AppendDistinct, AppendProperties DEF UtTypeOK, ReadyQueueSound
<1>. HIDE DEF q
<1>2. /\ ready_queue' = RestOfQueue(q)
      /\ running_thread' = NextThread(q)
  BY DEF q
<1>3. UtTypeOK'
  BY <1>1, <1>2, ScheduleDistinct DEF UtTypeOK
<1>4. ReadyQueueSound'
  BY <1>1, <1>2, ScheduleDistinct DEF ReadyQueueSound, SwitchTargetLive
<1>5. SwitchTargetLive'
  BY <1>1, <1>2, ScheduleDistinct, HandlesAssumption
     DEF UtTypeOK, ReadyQueueSound, SwitchTargetLive
<1>6. CountsThreads'
  BY DEF CountsThreads
<1>. QED BY <1>3, <1>4, <1>5, <1>6

LEMMA UtExitInv ==
  ASSUME UtInv, NEW t \in Threads, UtExit(t)
  PROVE  UtInv'
<1>. USE DEF UtInv, UtExit, InternalExit
<1>1. t \in threads /\ t \notin Range(ready_queue) /\ main_thread = Main
  BY HandlesAssumption DEF UtTypeOK, ReadyQueueSound, SwitchTargetLive
<1>2. CountsThreads' /\ number_of_threads' \in Nat
  <2>1. /\ Cardinality(threads \ {t}) = Cardinality(threads) - 1
        /\ Cardinality(threads \ {t}) \in Nat
    BY <1>1, ThreadsFinite, FS_RemoveElement, FS_CardinalityType
  <2>. QED BY <2>1, ThreadsFinite DEF CountsThreads, UtTypeOK
<1>3. UtTypeOK'
  BY <1>2, ScheduleDistinct DEF UtTypeOK, ReadyQueueSound
<1>4. ReadyQueueSound'
  BY <1>1, ScheduleDistinct, HandlesAssumption DEF UtTypeOK, ReadyQueueSound
<1>5. SwitchTargetLive'
  BY <1>1, ScheduleDistinct, HandlesAssumption DEF UtTypeOK, ReadyQueueSound, SwitchTargetLive
<1>. QED BY <1>2, <1>3, <1>4, <1>5

LEMMA UtDeactivateInv ==
  ASSUME UtInv, NEW t \in Threads, UtDeactivate(t)
  PROVE  UtInv'
<1>. USE DEF UtInv, UtDeactivate, Schedule, ContextSwitch
<1>1. main_thread = Main
  BY HandlesAssumption DEF UtTypeOK, SwitchTargetLive
<1>2. UtTypeOK'
  BY ScheduleDistinct DEF UtTypeOK, ReadyQueueSound
<1>3. ReadyQueueSound'
  BY <1>1, ScheduleDistinct, HandlesAssumption DEF UtTypeOK, ReadyQueueSound
<1>4. SwitchTargetLive'
  BY <1>1, ScheduleDistinct, HandlesAssumption DEF UtTypeOK, ReadyQueueSound, SwitchTargetLive
<1>5. CountsThreads'
  BY DEF CountsThreads
<1>. QED BY <1>2, <1>3, <1>4, <1>5

LEMMA UtActivateInv ==
  ASSUME UtInv, NEW t \in Blocked, UtActivate(t)
  PROVE  UtInv'
<1>. USE DEF UtInv, UtActivate
<1>1. t \in Threads /\ t \in threads /\ t # running_thread /\ t \notin Range(ready_queue)
  BY DEF Blocked, UtTypeOK
<1>2. /\ ready_queue' \in Seq(Threads)
      /\ Range(ready_queue)' = Range(ready_queue) \cup {t}
      /\ IsInjective(ready_queue)'
  BY <1>1, AppendDistinct DEF UtTypeOK, ReadyQueueSound
<1>3. UtTypeOK'
  BY <1>2 DEF UtTypeOK
<1>4. ReadyQueueSound'
  BY <1>1, <1>2 DEF ReadyQueueSound
<1>5. SwitchTargetLive'
  BY DEF SwitchTargetLive, ClientRuns
<1>6. CountsThreads'
  BY DEF CountsThreads
<1>. QED BY <1>3, <1>4, <1>5, <1>6

LEMMA UtInvStutter ==
  ASSUME UtInv, UNCHANGED utVars
  PROVE  UtInv'
BY DEF utVars, UtInv, UtTypeOK, ReadyQueueSound, SwitchTargetLive, CountsThreads, Range

LEMMA UtInvNext == UtInv /\ [UtNext]_utVars => UtInv'
<1>. SUFFICES ASSUME UtInv, [UtNext]_utVars PROVE UtInv'
  OBVIOUS
<1>1. CASE UtRun
  BY <1>1, UtRunInv
<1>2. CASE UtRunReturn
  BY <1>2, UtRunReturnInv
<1>3. CASE Aborted
  BY <1>3, UtInvStutter DEF Aborted
<1>4. ASSUME NEW t \in Threads, UtCreate(t) \/ UtYield(t) \/ UtExit(t) \/ UtDeactivate(t)
      PROVE  UtInv'
  BY <1>4, UtCreateInv, UtYieldInv, UtExitInv, UtDeactivateInv
<1>5. ASSUME NEW t \in Blocked, UtActivate(t)
      PROVE  UtInv'
  BY <1>5, UtActivateInv
<1>6. CASE UNCHANGED utVars
  BY <1>6, UtInvStutter
<1>. QED BY <1>1, <1>2, <1>3, <1>4, <1>5, <1>6 DEF UtNext

LEMMA UtInvAlways == UtSpec => []UtInv
BY UtInvInit, UtInvNext, PTL DEF UtSpec

-----------------------------------------------------------------------------
(***************************************************************************)
(* Which threads are blocked: only ut_deactivate adds one, the thread that *)
(* calls it, and only ut_activate removes one, its argument.               *)
(***************************************************************************)

LEMMA BlockedKept ==
  ASSUME UtInv,
         \/ UtRun \/ UtRunReturn \/ UNCHANGED utVars
         \/ \E t \in Threads : UtCreate(t) \/ UtYield(t) \/ UtExit(t)
  PROVE  Blocked' = Blocked
<1>. USE DEF UtInv
<1>1. CASE UtRun
  <2>1. /\ Range(ready_queue) = Range(ready_queue') \cup {running_thread'}
        /\ running_thread = NULL
    BY <1>1, ScheduleDistinct DEF UtRun, Schedule, ContextSwitch, UtTypeOK, ReadyQueueSound
  <2>. QED BY <1>1, <2>1, HandlesAssumption DEF UtRun, Blocked, UtTypeOK
<1>2. CASE UtRunReturn
  BY <1>2, HandlesAssumption DEF UtRunReturn, Blocked, UtTypeOK, Range
<1>3. CASE UNCHANGED utVars
  BY <1>3 DEF utVars, Blocked, Range
<1>4. ASSUME NEW t \in Threads, UtCreate(t)
      PROVE  Blocked' = Blocked
  <2>1. Range(ready_queue)' = Range(ready_queue) \cup {t}
    BY <1>4, AppendDistinct DEF UtCreate, UtTypeOK
  <2>. QED BY <1>4, <2>1 DEF UtCreate, Blocked
<1>5. ASSUME NEW t \in Threads, UtYield(t)
      PROVE  Blocked' = Blocked
  <2>. DEFINE q == Append(ready_queue, t)
  <2>1. /\ q \in Seq(Threads) /\ q # <<>>
        /\ IsInjective(q)
        /\ Range(q) = Range(ready_queue) \cup {t}
    BY <1>5, AppendDistinct, AppendProperties DEF UtYield, UtTypeOK, ReadyQueueSound
  <2>2. /\ ready_queue' = RestOfQueue(q)
        /\ running_thread' = NextThread(q)
    BY <1>5 DEF UtYield, Schedule, ContextSwitch
  <2>. HIDE DEF q
  <2>3. Range(q) = Range(ready_queue') \cup {running_thread'}
    BY <2>1, <2>2, ScheduleDistinct
  <2>. QED BY <1>5, <2>1, <2>3 DEF UtYield, Blocked
<1>6. ASSUME NEW t \in Threads, UtExit(t)
      PROVE  Blocked' = Blocked
  <2>1. main_thread \notin Threads
    BY HandlesAssumption DEF UtTypeOK
  <2>2. \/ ready_queue = <<>> /\ ready_queue' = <<>> /\ running_thread' = main_thread
        \/ Range(ready_queue) = Range(ready_queue') \cup {running_thread'}
    BY <1>6, ScheduleDistinct DEF UtExit, InternalExit, UtTypeOK, ReadyQueueSound
  <2>. QED BY <1>6, <2>1, <2>2 DEF UtExit, InternalExit, Blocked, UtTypeOK, Range
<1>. QED BY <1>1, <1>2, <1>3, <1>4, <1>5, <1>6

LEMMA BlockedAdded ==
  ASSUME UtInv, NEW t \in Threads, UtDeactivate(t)
  PROVE  t \notin Blocked /\ Blocked' = Blocked \cup {t}
<1>. USE DEF UtInv
<1>1. t \in threads /\ t \notin Range(ready_queue) /\ main_thread \notin Threads
  BY HandlesAssumption DEF UtDeactivate, UtTypeOK, ReadyQueueSound, SwitchTargetLive
<1>2. \/ ready_queue = <<>> /\ ready_queue' = <<>> /\ running_thread' = main_thread
      \/ /\ Range(ready_queue) = Range(ready_queue') \cup {running_thread'}
         /\ running_thread' \in Range(ready_queue)
  BY ScheduleDistinct DEF UtDeactivate, Schedule, ContextSwitch, UtTypeOK, ReadyQueueSound
<1>. QED BY <1>1, <1>2 DEF UtDeactivate, Blocked, UtTypeOK, Range

LEMMA BlockedRemoved ==
  ASSUME UtInv, NEW t \in Blocked, UtActivate(t)
  PROVE  Blocked' = Blocked \ {t}
<1>1. Range(ready_queue)' = Range(ready_queue) \cup {t}
  BY AppendDistinct DEF UtActivate, UtInv, UtTypeOK, Blocked
<1>. QED BY <1>1 DEF UtActivate, Blocked

-----------------------------------------------------------------------------
(***************************************************************************)
(* The theorems.                                                           *)
(***************************************************************************)

\* For any number of threads, the variables of uthread.c keep their types.
THEOREM SchedulerTypes == UtSpec => []UtTypeOK
BY UtInvAlways, PTL DEF UtInv

\* For any number of threads and any legal use of the library, the intrusive
\* ready queue links live threads, each once, and never the running one.
THEOREM SchedulerReadyQueue == UtSpec => []ReadyQueueSound
BY UtInvAlways, PTL DEF UtInv

\* Every context switch has a live target, and the main thread is resumed only
\* when the ready queue is empty: the first assertion of ut_run never fails.
THEOREM SchedulerSwitchTarget == UtSpec => []SwitchTargetLive
BY UtInvAlways, PTL DEF UtInv

\* number_of_threads counts the threads that exist.
THEOREM SchedulerCount == UtSpec => []CountsThreads
BY UtInvAlways, PTL DEF UtInv
\* A thread of the ready queue that a step switches to is the head of the queue.
LEMMA HeadRunsNext ==
  ASSUME UtInv, [UtNext]_utVars, running_thread' \in Range(ready_queue)
  PROVE  ready_queue # <<>> /\ running_thread' = ready_queue[1]
<1>. USE DEF UtInv
<1>1. running_thread' # running_thread /\ running_thread' \in Threads
  BY DEF ReadyQueueSound, UtTypeOK
<1>2. ready_queue # <<>> /\ Head(ready_queue) = ready_queue[1]
  BY DEF UtTypeOK, Range
<1>3. ASSUME NEW t \in Threads, UtYield(t)
      PROVE  running_thread' = Head(ready_queue)
  <2>1. Append(ready_queue, t) # <<>>
    BY AppendProperties DEF UtTypeOK
  <2>2. Head(Append(ready_queue, t)) = Head(ready_queue)
    BY <1>2, HeadTailAppend DEF UtTypeOK
  <2>. QED BY <1>3, <2>1, <2>2 DEF UtYield, Schedule, ContextSwitch, NextThread
<1>4. CASE UtRun \/ \E t \in Threads : UtExit(t) \/ UtDeactivate(t)
  BY <1>2, <1>4 DEF UtRun, UtExit, InternalExit, UtDeactivate, Schedule, ContextSwitch, NextThread
<1>5. CASE UtRunReturn
  BY <1>1, <1>5, HandlesAssumption DEF UtRunReturn
<1>6. CASE Aborted \/ UNCHANGED utVars \/ \E t \in Threads : UtCreate(t) \/ UtActivate(t)
  BY <1>1, <1>6 DEF Aborted, utVars, UtCreate, UtActivate
<1>. QED BY <1>2, <1>3, <1>4, <1>5, <1>6 DEF UtNext, Blocked, UtTypeOK

-----------------------------------------------------------------------------
(***************************************************************************)
(* The inductive invariant.  The properties of USynch are not inductive by *)
(* themselves: that event_set's loop visits the wait blocks of a signaled  *)
(* event, in a queue that nobody else extends, and that no two loops are   *)
(* under way at once, completes them.                                      *)
(***************************************************************************)

LoopsSound ==
  /\ posting = NULL \/ setting = NULL
  /\ setting \in Events => signaled[setting] /\ visited <= Len(evwaiters[setting])

SynchInv ==
  /\ UtInv
  /\ TypeOK
  /\ LoopsSound
  /\ WaitsSound

-----------------------------------------------------------------------------
(***************************************************************************)
(* Types.                                                                  *)
(***************************************************************************)

LEMMA ClampedBounded ==
  ASSUME NEW s \in Sems, NEW n \in Nat
  PROVE  Clamped(s, n) \in Nat /\ Clamped(s, n) <= Limit[s]
BY SemsAssumption DEF Clamped

LEMMA TypeOKInit == Init => TypeOK /\ LoopsSound
BY SemsAssumption, UtInvInit, EmptySeq DEF Init, SemInit, EventInit, TypeOK, LoopsSound, UtInv

LEMMA TypeOKNext ==
  ASSUME TypeOK, LoopsSound, UtTypeOK', [Next]_vars
  PROVE  TypeOK' /\ LoopsSound'
<1>. USE SemsAssumption DEF TypeOK, LoopsSound
<1>1. CASE UThreadStep \/ UNCHANGED vars
  BY <1>1 DEF UThreadStep, semVars, eventVars, vars
<1>2. ASSUME NEW t \in Threads, NEW s \in Sems, NEW k \in Requests, SemAcquire(t, s, k)
      PROVE  TypeOK' /\ LoopsSound'
  BY <1>2 DEF SemAcquire, utVars, eventVars
<1>3. ASSUME NEW t \in Threads, NEW s \in Sems, NEW k \in Requests, SemBlock(t, s, k)
      PROVE  TypeOK' /\ LoopsSound'
  <2>1. WaitBlock(t, k) \in SemWaitBlock
    BY DEF WaitBlock, SemWaitBlock
  <2>2. Append(waiters[s], WaitBlock(t, k)) \in Seq(SemWaitBlock)
    BY <2>1, AppendProperties
  <2>. QED BY <1>3, <2>2 DEF SemBlock, eventVars
<1>4. ASSUME NEW s \in Sems, NEW k \in Requests, SemPost(s, k)
      PROVE  TypeOK' /\ LoopsSound'
  <2>1. units[s] + k \in Nat
    OBVIOUS
  <2>. QED BY <1>4, <2>1, ClampedBounded DEF SemPost, Idle, utVars, eventVars
<1>5. ASSUME NEW s \in Sems, SemServe(s)
      PROVE  TypeOK' /\ LoopsSound'
  <2>1. Head(waiters[s]) \in SemWaitBlock /\ Tail(waiters[s]) \in Seq(SemWaitBlock)
    BY <1>5, HeadTailProperties DEF SemServe, CanServe
  <2>2. /\ units[s] - Head(waiters[s]).units \in Nat
        /\ units[s] - Head(waiters[s]).units <= Limit[s]
    <3>1. Head(waiters[s]).units \in Nat
      BY <2>1 DEF SemWaitBlock
    <3>2. units[s] \in Nat /\ Limit[s] \in Nat /\ units[s] <= Limit[s]
      OBVIOUS
    <3>3. units[s] >= Head(waiters[s]).units
      BY <1>5 DEF SemServe, CanServe
    <3>. QED BY <3>1, <3>2, <3>3
  <2>. QED BY <1>5, <2>1, <2>2 DEF SemServe, eventVars
<1>6. ASSUME NEW s \in Sems, SemPostEnd(s)
      PROVE  TypeOK' /\ LoopsSound'
  BY <1>6 DEF SemPostEnd, utVars, eventVars
<1>7. ASSUME NEW t \in Threads, NEW e \in Events, EventWait(t, e)
      PROVE  TypeOK' /\ LoopsSound'
  BY <1>7, AppendProperties DEF EventWait, Idle, semVars
<1>8. ASSUME NEW e \in Events, EventSet(e)
      PROVE  TypeOK' /\ LoopsSound'
  BY <1>8, LenProperties DEF EventSet, Idle, semVars, utVars
<1>9. ASSUME NEW e \in Events, EventRelease(e)
      PROVE  TypeOK' /\ LoopsSound'
  BY <1>9, LenProperties DEF EventRelease, semVars
<1>10. ASSUME NEW e \in Events, EventSetEnd(e)
       PROVE  TypeOK' /\ LoopsSound'
  BY <1>10 DEF EventSetEnd, semVars, utVars
<1>. QED BY <1>1, <1>2, <1>3, <1>4, <1>5, <1>6, <1>7, <1>8, <1>9, <1>10 DEF Next

-----------------------------------------------------------------------------
(***************************************************************************)
(* Wait blocks.                                                            *)
(***************************************************************************)

LEMMA WaitInvInit == Init => WaitsSound
<1>. SUFFICES ASSUME Init PROVE WaitsSound
  OBVIOUS
<1>1. Blocked = {}
  BY DEF Init, UtInit, Blocked
<1>2. \A s \in Sems : DOMAIN waiters[s] = {} /\ SemWaiting(s) = {}
  BY DEF Init, SemInit, SemWaiting
<1>3. \A e \in Events : Unvisited(e) = {} /\ EventWaiting(e) = {}
  BY DEF Init, EventInit, Unvisited, EventWaiting
<1>. QED BY <1>1, <1>2, <1>3 DEF WaitsSound, WaitersBlocked, OneWaitEach, NoThreadLost

\* A step that changes neither who is blocked nor which wait blocks are still
\* to be visited.
LEMMA WaitSame ==
  ASSUME WaitsSound, Blocked' = Blocked, UNCHANGED <<waiters, evwaiters>>,
         \A e \in Events : Unvisited(e)' = Unvisited(e)
  PROVE  WaitsSound'
<1>1. /\ \A s \in Sems : SemWaiting(s)' = SemWaiting(s)
      /\ \A e \in Events : EventWaiting(e)' = EventWaiting(e)
  BY DEF SemWaiting, EventWaiting
<1>. QED BY <1>1 DEF WaitsSound, WaitersBlocked, OneWaitEach, NoThreadLost

\* A step that neither blocks nor releases a thread.
LEMMA WaitFrame ==
  ASSUME WaitsSound, Blocked' = Blocked, UNCHANGED <<waiters, eventVars>>
  PROVE  WaitsSound'
BY WaitSame DEF Unvisited, eventVars

\* The threads of a semaphore's queue after sem_wait has queued one more.
LEMMA SemBlockWaiting ==
  ASSUME TypeOK, NEW t \in Threads, NEW s \in Sems, NEW k \in Requests, SemBlock(t, s, k)
  PROVE  /\ SemWaiting(s)' = SemWaiting(s) \cup {t}
         /\ \A r \in Sems : r # s => SemWaiting(r)' = SemWaiting(r) /\ waiters'[r] = waiters[r]
         /\ \A i \in DOMAIN waiters[s] : waiters'[s][i] = waiters[s][i]
         /\ waiters'[s][Len(waiters[s]) + 1].thread = t
         /\ DOMAIN waiters'[s] = 1 .. (Len(waiters[s]) + 1)
         /\ DOMAIN waiters[s] = 1 .. Len(waiters[s])
         /\ Len(waiters[s]) \in Nat
<1>. DEFINE w == WaitBlock(t, k)
<1>1. w \in SemWaitBlock /\ w.thread = t
  BY DEF WaitBlock, SemWaitBlock
<1>2. waiters[s] \in Seq(SemWaitBlock)
  BY DEF TypeOK
<1>3. waiters' = [waiters EXCEPT ![s] = Append(waiters[s], w)]
  BY DEF SemBlock
<1>. HIDE DEF w
<1>4. waiters'[s] = Append(waiters[s], w) /\ \A r \in Sems : r # s => waiters'[r] = waiters[r]
  BY <1>3 DEF TypeOK
<1>5. /\ Append(waiters[s], w) \in Seq(SemWaitBlock)
      /\ Len(Append(waiters[s], w)) = Len(waiters[s]) + 1
      /\ \A i \in 1 .. Len(waiters[s]) : Append(waiters[s], w)[i] = waiters[s][i]
      /\ Append(waiters[s], w)[Len(waiters[s]) + 1] = w
  BY <1>1, <1>2, AppendProperties
<1>6. /\ DOMAIN waiters[s] = 1 .. Len(waiters[s])
      /\ Len(waiters[s]) \in Nat
      /\ DOMAIN waiters'[s] = 1 .. (Len(waiters[s]) + 1)
  BY <1>2, <1>4, <1>5, LenProperties
<1>7. \A i \in DOMAIN waiters[s] : waiters'[s][i] = waiters[s][i]
  BY <1>4, <1>5, <1>6
<1>8. waiters'[s][Len(waiters[s]) + 1].thread = t
  BY <1>1, <1>4, <1>5
<1>9. SemWaiting(s)' = SemWaiting(s) \cup {t}
  BY <1>6, <1>7, <1>8 DEF SemWaiting
<1>10. \A r \in Sems : r # s => SemWaiting(r)' = SemWaiting(r)
  BY <1>4 DEF SemWaiting
<1>. QED BY <1>4, <1>6, <1>7, <1>8, <1>9, <1>10

LEMMA SemBlockWaitInv ==
  ASSUME UtInv, TypeOK, WaitsSound,
         NEW t \in Threads, NEW s \in Sems, NEW k \in Requests, SemBlock(t, s, k)
  PROVE  WaitsSound'
<1>1. t \notin Blocked /\ Blocked' = Blocked \cup {t}
  BY BlockedAdded DEF SemBlock
<1>2. /\ \A e \in Events : EventWaiting(e)' = EventWaiting(e) /\ Unvisited(e)' = Unvisited(e)
      /\ evwaiters' = evwaiters
  BY DEF SemBlock, eventVars, EventWaiting, Unvisited
<1>. DEFINE n == Len(waiters[s])
<1>3. WaitersBlocked'
  BY <1>1, <1>2, SemBlockWaiting DEF WaitsSound, WaitersBlocked
<1>4. OneWaitEach'
  <2>1. t \notin SemWaiting(s)
    BY <1>1 DEF WaitsSound, WaitersBlocked
  <2>2. ASSUME NEW r \in Sems, NEW i \in DOMAIN waiters'[r], NEW j \in DOMAIN waiters'[r],
               waiters'[r][i].thread = waiters'[r][j].thread
        PROVE  i = j
    <3>1. CASE r # s
      BY <2>2, <3>1, SemBlockWaiting DEF WaitsSound, OneWaitEach
    <3>2. CASE r = s
      <4>1. CASE i \in DOMAIN waiters[s] /\ j \in DOMAIN waiters[s]
        BY <2>2, <3>2, <4>1, SemBlockWaiting DEF WaitsSound, OneWaitEach
      <4>2. CASE i \notin DOMAIN waiters[s] /\ j \notin DOMAIN waiters[s]
        BY <3>2, <4>2, SemBlockWaiting
      <4>3. ASSUME NEW a \in DOMAIN waiters[s], NEW b \in DOMAIN waiters'[s],
                   b \notin DOMAIN waiters[s]
            PROVE  waiters'[s][a].thread # waiters'[s][b].thread
        <5>1. b = n + 1
          BY <4>3, SemBlockWaiting
        <5>2. waiters'[s][a].thread \in SemWaiting(s)
          BY SemBlockWaiting DEF SemWaiting
        <5>. QED BY <2>1, <5>1, <5>2, SemBlockWaiting
      <4>. QED BY <2>2, <3>2, <4>1, <4>2, <4>3
    <3>. QED BY <3>1, <3>2
  <2>3. \A e \in Events : t \notin EventWaiting(e)
    BY <1>1 DEF WaitsSound, WaitersBlocked
  <2>4. \A r \in Sems : r # s => t \notin SemWaiting(r)
    BY <1>1 DEF WaitsSound, WaitersBlocked
  <2>5. \A q, r \in Sems : q # r => SemWaiting(q)' \cap SemWaiting(r)' = {}
    BY <2>1, <2>4, SemBlockWaiting DEF WaitsSound, OneWaitEach
  <2>6. \A r \in Sems, e \in Events : SemWaiting(r)' \cap EventWaiting(e)' = {}
    BY <1>2, <2>3, SemBlockWaiting DEF WaitsSound, OneWaitEach
  <2>7. /\ \A e \in Events : \A i, j \in Unvisited(e)' :
             evwaiters'[e][i] = evwaiters'[e][j] => i = j
        /\ \A d, e \in Events : d # e => EventWaiting(d)' \cap EventWaiting(e)' = {}
    BY <1>2 DEF WaitsSound, OneWaitEach
  <2>. QED BY <2>2, <2>5, <2>6, <2>7 DEF OneWaitEach
<1>5. NoThreadLost'
  BY <1>1, <1>2, SemBlockWaiting DEF WaitsSound, NoThreadLost
<1>. QED BY <1>3, <1>4, <1>5 DEF WaitsSound
\* The threads of a semaphore's queue after sem_post has granted its head.
LEMMA SemServeWaiting ==
  ASSUME TypeOK, OneWaitEach, NEW s \in Sems, SemServe(s)
  PROVE  /\ Head(waiters[s]).thread \in SemWaiting(s)
         /\ SemWaiting(s)' = SemWaiting(s) \ {Head(waiters[s]).thread}
         /\ \A r \in Sems : r # s => SemWaiting(r)' = SemWaiting(r) /\ waiters'[r] = waiters[r]
         /\ \A i \in DOMAIN waiters'[s] :
              i + 1 \in DOMAIN waiters[s] /\ waiters'[s][i] = waiters[s][i + 1]
         /\ DOMAIN waiters'[s] \subseteq Nat
<1>1. /\ waiters[s] \in Seq(SemWaitBlock) /\ waiters[s] # <<>>
      /\ waiters'[s] = Tail(waiters[s])
      /\ \A r \in Sems : r # s => waiters'[r] = waiters[r]
  BY DEF TypeOK, SemServe, CanServe
<1>2. /\ Head(waiters[s]) = waiters[s][1]
      /\ Tail(waiters[s]) \in Seq(SemWaitBlock)
      /\ Len(Tail(waiters[s])) = Len(waiters[s]) - 1
      /\ \A i \in 1 .. Len(Tail(waiters[s])) : Tail(waiters[s])[i] = waiters[s][i + 1]
  BY <1>1, HeadTailProperties
<1>3. /\ Len(waiters[s]) \in Nat /\ Len(waiters[s]) > 0
      /\ DOMAIN waiters[s] = 1 .. Len(waiters[s])
      /\ DOMAIN waiters'[s] = 1 .. (Len(waiters[s]) - 1)
  BY <1>1, <1>2, LenProperties, EmptySeq
<1>4. \A i \in DOMAIN waiters'[s] :
        i + 1 \in DOMAIN waiters[s] /\ waiters'[s][i] = waiters[s][i + 1]
  BY <1>1, <1>2, <1>3
<1>5. 1 \in DOMAIN waiters[s] /\ Head(waiters[s]).thread = waiters[s][1].thread
  BY <1>2, <1>3
<1>6. \A i \in DOMAIN waiters[s] : i # 1 =>
        i - 1 \in DOMAIN waiters'[s] /\ waiters'[s][i - 1] = waiters[s][i]
  BY <1>1, <1>2, <1>3
<1>7. \A i \in DOMAIN waiters[s] : i # 1 => waiters[s][i].thread # waiters[s][1].thread
  BY <1>5 DEF OneWaitEach
<1>8. \A i \in DOMAIN waiters'[s] : i + 1 # 1
  BY <1>3
<1>9. SemWaiting(s)' = SemWaiting(s) \ {Head(waiters[s]).thread}
  <2>1. ASSUME NEW i \in DOMAIN waiters'[s]
        PROVE  waiters'[s][i].thread \in SemWaiting(s) \ {waiters[s][1].thread}
    BY <1>4, <1>7, <1>8 DEF SemWaiting
  <2>2. ASSUME NEW i \in DOMAIN waiters[s], waiters[s][i].thread # waiters[s][1].thread
        PROVE  waiters[s][i].thread \in SemWaiting(s)'
    BY <2>2, <1>6 DEF SemWaiting
  <2>. QED BY <1>5, <2>1, <2>2 DEF SemWaiting
<1>10. Head(waiters[s]).thread \in SemWaiting(s)
  BY <1>5 DEF SemWaiting
<1>11. \A r \in Sems : r # s => SemWaiting(r)' = SemWaiting(r)
  BY <1>1 DEF SemWaiting
<1>12. DOMAIN waiters'[s] \subseteq Nat
  BY <1>3
<1>. QED BY <1>1, <1>4, <1>9, <1>10, <1>11, <1>12

LEMMA SemServeWaitInv ==
  ASSUME UtInv, TypeOK, WaitsSound, NEW s \in Sems, SemServe(s)
  PROVE  WaitsSound'
<1>. DEFINE h == Head(waiters[s]).thread
<1>1. h \in SemWaiting(s) /\ h \in Blocked /\ Blocked' = Blocked \ {h}
  <2>1. h \in SemWaiting(s) /\ h \in Blocked
    BY SemServeWaiting DEF WaitsSound, WaitersBlocked
  <2>. QED BY <2>1, BlockedRemoved DEF SemServe
<1>. HIDE DEF h
<1>2. /\ \A e \in Events : EventWaiting(e)' = EventWaiting(e) /\ Unvisited(e)' = Unvisited(e)
      /\ evwaiters' = evwaiters
  BY DEF SemServe, eventVars, EventWaiting, Unvisited
<1>3. /\ SemWaiting(s)' = SemWaiting(s) \ {h}
      /\ \A r \in Sems : r # s => SemWaiting(r)' = SemWaiting(r) /\ waiters'[r] = waiters[r]
  BY SemServeWaiting DEF WaitsSound, h
<1>4. /\ \A r \in Sems : r # s => h \notin SemWaiting(r)
      /\ \A e \in Events : h \notin EventWaiting(e)
  BY <1>1 DEF WaitsSound, OneWaitEach
<1>5. WaitersBlocked'
  BY <1>1, <1>2, <1>3, <1>4 DEF WaitsSound, WaitersBlocked
<1>6. OneWaitEach'
  <2>1. ASSUME NEW r \in Sems, NEW i \in DOMAIN waiters'[r], NEW j \in DOMAIN waiters'[r],
               waiters'[r][i].thread = waiters'[r][j].thread
        PROVE  i = j
    <3>1. CASE r # s
      BY <2>1, <3>1, <1>3 DEF WaitsSound, OneWaitEach
    <3>2. CASE r = s
      <4>1. i + 1 \in DOMAIN waiters[s] /\ j + 1 \in DOMAIN waiters[s]
            /\ waiters'[s][i] = waiters[s][i + 1] /\ waiters'[s][j] = waiters[s][j + 1]
            /\ i \in Nat /\ j \in Nat
        BY <3>2, SemServeWaiting DEF WaitsSound
      <4>2. i + 1 = j + 1
        BY <2>1, <3>2, <4>1 DEF WaitsSound, OneWaitEach
      <4>. QED BY <4>1, <4>2
    <3>. QED BY <3>1, <3>2
  <2>2. /\ \A q, r \in Sems : q # r => SemWaiting(q)' \cap SemWaiting(r)' = {}
        /\ \A r \in Sems, e \in Events : SemWaiting(r)' \cap EventWaiting(e)' = {}
    BY <1>2, <1>3 DEF WaitsSound, OneWaitEach
  <2>3. /\ \A e \in Events : \A i, j \in Unvisited(e)' :
             evwaiters'[e][i] = evwaiters'[e][j] => i = j
        /\ \A d, e \in Events : d # e => EventWaiting(d)' \cap EventWaiting(e)' = {}
    BY <1>2 DEF WaitsSound, OneWaitEach
  <2>. QED BY <2>1, <2>2, <2>3 DEF OneWaitEach
<1>7. NoThreadLost'
  BY <1>1, <1>2, <1>3 DEF WaitsSound, NoThreadLost
<1>. QED BY <1>5, <1>6, <1>7 DEF WaitsSound
\* The wait blocks of an event after event_wait has queued one more.
LEMMA EventWaitWaiting ==
  ASSUME TypeOK, NEW t \in Threads, NEW e \in Events, EventWait(t, e)
  PROVE  /\ EventWaiting(e)' = EventWaiting(e) \cup {t}
         /\ \A d \in Events : d # e =>
              /\ EventWaiting(d)' = EventWaiting(d)
              /\ Unvisited(d)' = Unvisited(d)
              /\ evwaiters'[d] = evwaiters[d]
         /\ \A i \in Unvisited(e)' :
              \/ i \in Unvisited(e) /\ evwaiters'[e][i] = evwaiters[e][i]
              \/ i = Len(evwaiters[e]) + 1 /\ evwaiters'[e][i] = t
<1>1. /\ evwaiters[e] \in Seq(Threads)
      /\ evwaiters'[e] = Append(evwaiters[e], t)
      /\ \A d \in Events : d # e => evwaiters'[d] = evwaiters[d]
      /\ UNCHANGED <<signaled, setting, visited>>
      /\ ~signaled[e]
  BY DEF TypeOK, EventWait
<1>2. /\ Append(evwaiters[e], t) \in Seq(Threads)
      /\ Len(Append(evwaiters[e], t)) = Len(evwaiters[e]) + 1
      /\ \A i \in 1 .. Len(evwaiters[e]) : Append(evwaiters[e], t)[i] = evwaiters[e][i]
      /\ Append(evwaiters[e], t)[Len(evwaiters[e]) + 1] = t
  BY <1>1, AppendProperties
<1>3. /\ DOMAIN evwaiters[e] = 1 .. Len(evwaiters[e])
      /\ Len(evwaiters[e]) \in Nat
      /\ DOMAIN evwaiters'[e] = 1 .. (Len(evwaiters[e]) + 1)
  BY <1>1, <1>2, LenProperties
<1>4. Unvisited(e) = DOMAIN evwaiters[e] /\ Unvisited(e)' = DOMAIN evwaiters'[e]
  BY <1>1 DEF Unvisited
<1>5. EventWaiting(e)' = EventWaiting(e) \cup {t}
  BY <1>1, <1>2, <1>3, <1>4 DEF EventWaiting
<1>6. \A d \in Events : d # e => EventWaiting(d)' = EventWaiting(d) /\ Unvisited(d)' = Unvisited(d)
  BY <1>1 DEF EventWaiting, Unvisited
<1>7. \A i \in Unvisited(e)' :
        \/ i \in Unvisited(e) /\ evwaiters'[e][i] = evwaiters[e][i]
        \/ i = Len(evwaiters[e]) + 1 /\ evwaiters'[e][i] = t
  BY <1>1, <1>2, <1>3, <1>4
<1>. QED BY <1>1, <1>5, <1>6, <1>7

LEMMA EventWaitWaitInv ==
  ASSUME UtInv, TypeOK, WaitsSound, NEW t \in Threads, NEW e \in Events, EventWait(t, e)
  PROVE  WaitsSound'
<1>1. t \notin Blocked /\ Blocked' = Blocked \cup {t}
  BY BlockedAdded DEF EventWait
<1>2. /\ \A s \in Sems : SemWaiting(s)' = SemWaiting(s)
      /\ waiters' = waiters
  BY DEF EventWait, semVars, SemWaiting
<1>3. /\ EventWaiting(e)' = EventWaiting(e) \cup {t}
      /\ \A d \in Events : d # e => EventWaiting(d)' = EventWaiting(d)
  BY EventWaitWaiting
<1>4. /\ \A s \in Sems : t \notin SemWaiting(s)
      /\ \A d \in Events : t \notin EventWaiting(d)
  BY <1>1 DEF WaitsSound, WaitersBlocked
<1>5. WaitersBlocked'
  BY <1>1, <1>2, <1>3 DEF WaitsSound, WaitersBlocked
<1>6. OneWaitEach'
  <2>1. ASSUME NEW d \in Events, NEW i \in Unvisited(d)', NEW j \in Unvisited(d)',
               evwaiters'[d][i] = evwaiters'[d][j]
        PROVE  i = j
    <3>1. CASE d # e
      BY <2>1, <3>1, EventWaitWaiting DEF WaitsSound, OneWaitEach
    <3>2. CASE d = e
      <4>1. \A a \in Unvisited(e) : evwaiters[e][a] # t
        BY <1>4 DEF EventWaiting
      <4>2. CASE i \in Unvisited(e) /\ evwaiters'[e][i] = evwaiters[e][i]
        BY <2>1, <3>2, <4>1, <4>2, EventWaitWaiting DEF WaitsSound, OneWaitEach
      <4>3. CASE i = Len(evwaiters[e]) + 1 /\ evwaiters'[e][i] = t
        BY <2>1, <3>2, <4>1, <4>3, EventWaitWaiting
      <4>. QED BY <3>2, <4>2, <4>3, EventWaitWaiting
    <3>. QED BY <3>1, <3>2
  <2>2. /\ \A c, d \in Events : c # d => EventWaiting(c)' \cap EventWaiting(d)' = {}
        /\ \A s \in Sems, d \in Events : SemWaiting(s)' \cap EventWaiting(d)' = {}
    BY <1>2, <1>3, <1>4 DEF WaitsSound, OneWaitEach
  <2>3. /\ \A s \in Sems : \A i, j \in DOMAIN waiters'[s] :
             waiters'[s][i].thread = waiters'[s][j].thread => i = j
        /\ \A r, s \in Sems : r # s => SemWaiting(r)' \cap SemWaiting(s)' = {}
    BY <1>2 DEF WaitsSound, OneWaitEach
  <2>. QED BY <2>1, <2>2, <2>3 DEF OneWaitEach
<1>7. NoThreadLost'
  BY <1>1, <1>2, <1>3 DEF WaitsSound, NoThreadLost
<1>. QED BY <1>5, <1>6, <1>7 DEF WaitsSound

LEMMA EventSetWaitInv ==
  ASSUME UtInv, TypeOK, WaitsSound, NEW e \in Events, ~signaled[e], EventSet(e)
  PROVE  WaitsSound'
<1>1. Blocked' = Blocked
  BY BlockedKept DEF EventSet
<1>2. ASSUME NEW d \in Events
      PROVE  Unvisited(d)' = Unvisited(d)
  <2>1. evwaiters[d] \in Seq(Threads) /\ DOMAIN evwaiters[d] = 1 .. Len(evwaiters[d])
    BY LenProperties DEF TypeOK
  <2>2. CASE d = e
    BY <2>1, <2>2 DEF EventSet, Unvisited, TypeOK
  <2>3. CASE d # e
    BY <2>3, SemsAssumption DEF EventSet, Idle, Unvisited, TypeOK
  <2>. QED BY <2>2, <2>3
<1>. QED BY <1>1, <1>2, WaitSame DEF EventSet, semVars

LEMMA EventSetEndWaitInv ==
  ASSUME UtInv, TypeOK, LoopsSound, WaitsSound, NEW e \in Events, EventSetEnd(e)
  PROVE  WaitsSound'
<1>1. Blocked' = Blocked
  BY BlockedKept DEF EventSetEnd
<1>2. ASSUME NEW d \in Events
      PROVE  Unvisited(d)' = Unvisited(d)
  <2>1. evwaiters[d] \in Seq(Threads) /\ DOMAIN evwaiters[d] = 1 .. Len(evwaiters[d])
        /\ Len(evwaiters[d]) \in Nat
    BY LenProperties DEF TypeOK
  <2>2. CASE d = e
    BY <2>1, <2>2, SemsAssumption DEF EventSetEnd, Unvisited, LoopsSound
  <2>3. CASE d # e
    BY <2>3, SemsAssumption DEF EventSetEnd, Unvisited
  <2>. QED BY <2>2, <2>3
<1>. QED BY <1>1, <1>2, WaitSame DEF EventSetEnd, semVars

LEMMA EventReleaseWaitInv ==
  ASSUME UtInv, TypeOK, LoopsSound, WaitsSound, NEW e \in Events, EventRelease(e)
  PROVE  WaitsSound'
<1>. DEFINE n == visited + 1
            h == evwaiters[e][n]
<1>1. /\ DOMAIN evwaiters[e] = 1 .. Len(evwaiters[e]) /\ Len(evwaiters[e]) \in Nat
      /\ visited \in Nat /\ visited < Len(evwaiters[e]) /\ setting = e /\ signaled[e]
      /\ visited' = n /\ UNCHANGED <<waiters, evwaiters, signaled, setting>>
  BY LenProperties DEF TypeOK, LoopsSound, EventRelease, semVars
<1>2. n \in Unvisited(e) /\ Unvisited(e)' = Unvisited(e) \ {n}
  BY <1>1 DEF Unvisited
<1>3. \A d \in Events : d # e =>
        Unvisited(d)' = Unvisited(d) /\ EventWaiting(d)' = EventWaiting(d)
  BY <1>1 DEF Unvisited, EventWaiting
<1>4. h \in EventWaiting(e) /\ h \in Blocked /\ Blocked' = Blocked \ {h}
  <2>1. h \in EventWaiting(e)
    BY <1>2 DEF EventWaiting
  <2>2. h \in Blocked
    BY <2>1 DEF WaitsSound, WaitersBlocked
  <2>. QED BY <2>1, <2>2, BlockedRemoved DEF EventRelease
<1>5. EventWaiting(e)' = EventWaiting(e) \ {h}
  <2>1. \A i \in Unvisited(e) : i # n => evwaiters[e][i] # h
    BY <1>2 DEF WaitsSound, OneWaitEach
  <2>. QED BY <1>1, <1>2, <2>1 DEF EventWaiting
<1>6. \A s \in Sems : SemWaiting(s)' = SemWaiting(s) /\ h \notin SemWaiting(s)
  BY <1>1, <1>4 DEF SemWaiting, WaitsSound, OneWaitEach
<1>7. \A d \in Events : d # e => h \notin EventWaiting(d)
  BY <1>4 DEF WaitsSound, OneWaitEach
<1>. HIDE DEF n, h
<1>8. WaitersBlocked'
  BY <1>3, <1>4, <1>5, <1>6, <1>7 DEF WaitsSound, WaitersBlocked
<1>9. OneWaitEach'
  <2>1. \A d \in Events : Unvisited(d)' \subseteq Unvisited(d) /\ EventWaiting(d)' \subseteq EventWaiting(d)
    BY <1>2, <1>3, <1>5
  <2>. QED BY <1>1, <1>6, <2>1 DEF WaitsSound, OneWaitEach
<1>10. NoThreadLost'
  BY <1>3, <1>4, <1>5, <1>6 DEF WaitsSound, NoThreadLost
<1>. QED BY <1>8, <1>9, <1>10 DEF WaitsSound
-----------------------------------------------------------------------------
(***************************************************************************)
(* Every step of the synchronizers is a step of the scheduler, or leaves   *)
(* it unchanged: an activated thread is blocked, because wait blocks are   *)
(* those of blocked threads.                                               *)
(***************************************************************************)

LEMMA StepOfUThread ==
  ASSUME TypeOK, LoopsSound, WaitsSound, [Next]_vars
  PROVE  [UtNext]_utVars
<1>1. CASE UThreadStep
  BY <1>1 DEF UThreadStep, UtNext
<1>2. CASE UNCHANGED vars
  BY <1>2 DEF vars, utVars
<1>3. ASSUME NEW t \in Threads, NEW s \in Sems, NEW k \in Requests,
             SemAcquire(t, s, k) \/ SemBlock(t, s, k)
      PROVE  [UtNext]_utVars
  BY <1>3 DEF SemAcquire, SemBlock, UtNext
<1>4. ASSUME NEW s \in Sems, SemServe(s)
      PROVE  [UtNext]_utVars
  <2>1. Head(waiters[s]).thread \in SemWaiting(s)
    BY <1>4, SemServeWaiting DEF WaitsSound
  <2>2. Head(waiters[s]).thread \in Blocked
    BY <2>1 DEF WaitsSound, WaitersBlocked
  <2>. QED BY <1>4, <2>2 DEF SemServe, UtNext
<1>5. ASSUME NEW t \in Threads, NEW e \in Events,
             EventWait(t, e)
      PROVE  [UtNext]_utVars
  BY <1>5 DEF EventWait, UtNext
<1>6. ASSUME NEW e \in Events, EventRelease(e)
      PROVE  [UtNext]_utVars
  <2>1. /\ setting = e /\ signaled[e] /\ visited < Len(evwaiters[e]) /\ visited \in Nat
        /\ DOMAIN evwaiters[e] = 1 .. Len(evwaiters[e]) /\ Len(evwaiters[e]) \in Nat
    BY <1>6, LenProperties DEF EventRelease, TypeOK, LoopsSound
  <2>2. evwaiters[e][visited + 1] \in EventWaiting(e)
    BY <2>1 DEF EventWaiting, Unvisited
  <2>3. evwaiters[e][visited + 1] \in Blocked
    BY <2>2 DEF WaitsSound, WaitersBlocked
  <2>. QED BY <1>6, <2>3 DEF EventRelease, UtNext
<1>7. ASSUME NEW s \in Sems, NEW k \in Requests, SemPost(s, k)
      PROVE  [UtNext]_utVars
  BY <1>7 DEF SemPost
<1>8. ASSUME NEW s \in Sems, SemPostEnd(s)
      PROVE  [UtNext]_utVars
  BY <1>8 DEF SemPostEnd
<1>9. ASSUME NEW e \in Events, EventSet(e) \/ EventSetEnd(e)
      PROVE  [UtNext]_utVars
  BY <1>9 DEF EventSet, EventSetEnd
<1>. QED BY <1>1, <1>2, <1>3, <1>4, <1>5, <1>6, <1>7, <1>8, <1>9 DEF Next

LEMMA WaitInvNext ==
  ASSUME SynchInv, [Next]_vars
  PROVE  WaitsSound'
<1>. USE DEF SynchInv
<1>1. CASE UThreadStep
  <2>1. Blocked' = Blocked
    <3>1. CASE Aborted
      BY <3>1, BlockedKept DEF Aborted
    <3>. QED BY <1>1, <3>1, BlockedKept DEF UThreadStep
  <2>. QED BY <1>1, <2>1, WaitFrame DEF UThreadStep, semVars
<1>2. CASE UNCHANGED vars
  <2>1. UNCHANGED utVars /\ UNCHANGED <<waiters, eventVars>>
    BY <1>2 DEF vars, utVars, eventVars
  <2>. QED BY <2>1, BlockedKept, WaitFrame
<1>3. ASSUME NEW t \in Threads, NEW s \in Sems, NEW k \in Requests, SemAcquire(t, s, k)
      PROVE  WaitsSound'
  BY <1>3, BlockedKept, WaitFrame DEF SemAcquire
<1>4. ASSUME NEW t \in Threads, NEW s \in Sems, NEW k \in Requests, SemBlock(t, s, k)
      PROVE  WaitsSound'
  BY <1>4, SemBlockWaitInv
<1>5. ASSUME NEW s \in Sems, NEW k \in Requests, SemPost(s, k)
      PROVE  WaitsSound'
  BY <1>5, BlockedKept, WaitFrame DEF SemPost
<1>6. ASSUME NEW s \in Sems, SemServe(s)
      PROVE  WaitsSound'
  BY <1>6, SemServeWaitInv
<1>7. ASSUME NEW s \in Sems, SemPostEnd(s)
      PROVE  WaitsSound'
  BY <1>7, BlockedKept, WaitFrame DEF SemPostEnd
<1>8. ASSUME NEW t \in Threads, NEW e \in Events, EventWait(t, e)
      PROVE  WaitsSound'
  BY <1>8, EventWaitWaitInv
<1>9. ASSUME NEW e \in Events, ~signaled[e], EventSet(e)
      PROVE  WaitsSound'
  BY <1>9, EventSetWaitInv
<1>10. ASSUME NEW e \in Events, EventRelease(e)
       PROVE  WaitsSound'
  BY <1>10, EventReleaseWaitInv
<1>11. ASSUME NEW e \in Events, EventSetEnd(e)
       PROVE  WaitsSound'
  BY <1>11, EventSetEndWaitInv
<1>. QED BY <1>1, <1>2, <1>3, <1>4, <1>5, <1>6, <1>7, <1>8, <1>9, <1>10, <1>11 DEF Next

LEMMA SynchInvNext == SynchInv /\ [Next]_vars => SynchInv' /\ [UtNext]_utVars
<1>. SUFFICES ASSUME SynchInv, [Next]_vars PROVE SynchInv' /\ [UtNext]_utVars
  OBVIOUS
<1>1. [UtNext]_utVars
  BY StepOfUThread DEF SynchInv
<1>2. UtInv'
  BY <1>1, UtInvNext DEF SynchInv
<1>3. TypeOK' /\ LoopsSound'
  BY <1>2, TypeOKNext DEF SynchInv, UtInv
<1>. QED BY <1>1, <1>2, <1>3, WaitInvNext DEF SynchInv

LEMMA SynchInvInit == Init => SynchInv
BY UtInvInit, TypeOKInit, WaitInvInit DEF Init, SynchInv

LEMMA SynchInvAlways == Spec => []SynchInv
BY SynchInvInit, SynchInvNext, PTL DEF Spec

-----------------------------------------------------------------------------
(***************************************************************************)
(* No lost wakeup.  Requests of no units are left out: sem_post serves     *)
(* while units are left, so one of them can stay at the head with none.    *)
(***************************************************************************)

LEMMA ReleasedNext ==
  ASSUME 0 \notin Requests, SynchInv, SatisfiableReleased, [Next]_vars
  PROVE  SatisfiableReleased'
<1>. SUFFICES ASSUME NEW r \in Sems, posting' # r, waiters'[r] # <<>>
              PROVE  units'[r] < Head(waiters'[r]).units
  BY DEF SatisfiableReleased
<1>. USE SemsAssumption DEF SynchInv, TypeOK, SatisfiableReleased
<1>1. CASE UThreadStep \/ UNCHANGED vars \/ \E e \in Events : EventSet(e) \/ EventRelease(e) \/ EventSetEnd(e)
  BY <1>1 DEF UThreadStep, vars, semVars, EventSet, EventRelease, EventSetEnd
<1>2. ASSUME NEW t \in Threads, NEW e \in Events, EventWait(t, e)
      PROVE  units'[r] < Head(waiters'[r]).units
  BY <1>2 DEF EventWait, semVars
<1>3. ASSUME NEW t \in Threads, NEW s \in Sems, NEW k \in Requests, SemAcquire(t, s, k)
      PROVE  units'[r] < Head(waiters'[r]).units
  BY <1>3 DEF SemAcquire
<1>4. ASSUME NEW t \in Threads, NEW s \in Sems, NEW k \in Requests, SemBlock(t, s, k)
      PROVE  units'[r] < Head(waiters'[r]).units
  <2>1. CASE r # s
    BY <1>4, <2>1 DEF SemBlock
  <2>2. CASE r = s
    <3>1. WaitBlock(t, k) \in SemWaitBlock /\ WaitBlock(t, k).units = k
      BY DEF WaitBlock, SemWaitBlock
    <3>2. /\ waiters'[r] = Append(waiters[r], WaitBlock(t, k))
          /\ units'[r] = units[r] /\ posting # r
          /\ waiters[r] # <<>> \/ units[r] < k
      BY <1>4, <2>2 DEF SemBlock, Idle
    <3>3. Head(waiters'[r]) = IF waiters[r] = <<>> THEN WaitBlock(t, k) ELSE Head(waiters[r])
      BY <3>1, <3>2, HeadTailAppend
    <3>. QED BY <3>1, <3>2, <3>3
  <2>. QED BY <2>1, <2>2
<1>5. ASSUME NEW s \in Sems, NEW k \in Requests, SemPost(s, k)
      PROVE  units'[r] < Head(waiters'[r]).units
  BY <1>5 DEF SemPost, Idle
<1>6. ASSUME NEW s \in Sems, SemServe(s)
      PROVE  units'[r] < Head(waiters'[r]).units
  BY <1>6 DEF SemServe
<1>7. ASSUME NEW s \in Sems, SemPostEnd(s)
      PROVE  units'[r] < Head(waiters'[r]).units
  <2>1. CASE r # s
    BY <1>7, <2>1 DEF SemPostEnd
  <2>2. CASE r = s
    <3>1. waiters[r] # <<>> /\ waiters'[r] = waiters[r] /\ units'[r] = units[r]
      BY <1>7, <2>2 DEF SemPostEnd
    <3>2. Head(waiters[r]) \in SemWaitBlock
      BY <3>1, HeadTailProperties
    <3>3. Head(waiters[r]).units \in Nat \ {0}
      BY <3>2 DEF SemWaitBlock
    <3>. QED BY <1>7, <2>2, <3>1, <3>3 DEF SemPostEnd, CanServe
  <2>. QED BY <2>1, <2>2
<1>. QED BY <1>1, <1>2, <1>3, <1>4, <1>5, <1>6, <1>7 DEF Next

-----------------------------------------------------------------------------
(***************************************************************************)
(* Fairness of the semaphore.                                              *)
(***************************************************************************)

\* The part of SemFifo about one semaphore.
FifoStep(s) ==
  /\ units'[s] < units[s] =>
       \/ waiters[s] = <<>>
       \/ Head(waiters[s]).thread \notin SemWaiting(s)'
  /\ \A i, j \in DOMAIN waiters[s] :
       i < j /\ waiters[s][j].thread \notin SemWaiting(s)'
         => waiters[s][i].thread \notin SemWaiting(s)'

\* A step that takes no units and releases nobody.
LEMMA FifoKept ==
  ASSUME NEW r \in Sems, ~(units'[r] < units[r]), SemWaiting(r) \subseteq SemWaiting(r)'
  PROVE  FifoStep(r)
BY DEF FifoStep, SemWaiting

LEMMA FifoNext ==
  ASSUME SynchInv, [Next]_vars, NEW r \in Sems
  PROVE  FifoStep(r)
<1>. USE DEF SynchInv
<1>1. units[r] \in Nat /\ Limit[r] \in Nat /\ units[r] <= Limit[r]
  BY SemsAssumption DEF TypeOK
<1>2. CASE UThreadStep \/ UNCHANGED vars
           \/ \E e \in Events : EventSet(e) \/ EventRelease(e) \/ EventSetEnd(e)
  <2>1. units' = units /\ waiters' = waiters
    BY <1>2 DEF UThreadStep, vars, semVars, EventSet, EventRelease, EventSetEnd
  <2>. QED BY <1>1, <2>1, FifoKept DEF SemWaiting
<1>3. ASSUME NEW t \in Threads, NEW e \in Events, EventWait(t, e)
      PROVE  FifoStep(r)
  <2>1. units' = units /\ waiters' = waiters
    BY <1>3 DEF EventWait, semVars
  <2>. QED BY <1>1, <2>1, FifoKept DEF SemWaiting
<1>4. ASSUME NEW t \in Threads, NEW s \in Sems, NEW k \in Requests, SemAcquire(t, s, k)
      PROVE  FifoStep(r)
  <2>1. CASE r = s
    <3>1. waiters[r] = <<>>
      BY <1>4, <2>1 DEF SemAcquire
    <3>2. DOMAIN waiters[r] = {}
      BY <3>1
    <3>. QED BY <3>1, <3>2 DEF FifoStep
  <2>2. CASE r # s
    <3>1. units'[r] = units[r] /\ waiters' = waiters
      BY <1>4, <2>2 DEF SemAcquire, TypeOK
    <3>. QED BY <1>1, <3>1, FifoKept DEF SemWaiting
  <2>. QED BY <2>1, <2>2
<1>5. ASSUME NEW t \in Threads, NEW s \in Sems, NEW k \in Requests, SemBlock(t, s, k)
      PROVE  FifoStep(r)
  <2>1. units' = units
    BY <1>5 DEF SemBlock
  <2>2. SemWaiting(r) \subseteq SemWaiting(r)'
    BY <1>5, SemBlockWaiting
  <2>. QED BY <1>1, <2>1, <2>2, FifoKept
<1>6. ASSUME NEW s \in Sems, NEW k \in Requests, SemPost(s, k)
      PROVE  FifoStep(r)
  <2>1. waiters' = waiters /\ units' = [units EXCEPT ![s] = Clamped(s, units[s] + k)]
    BY <1>6 DEF SemPost
  <2>2. CASE r = s
    <3>1. units'[r] = Clamped(r, units[r] + k) /\ k \in Nat
      BY <2>1, <2>2, SemsAssumption DEF TypeOK
    <3>2. ~(units'[r] < units[r])
      BY <1>1, <3>1 DEF Clamped
    <3>. QED BY <2>1, <3>2, FifoKept DEF SemWaiting
  <2>3. CASE r # s
    <3>1. units'[r] = units[r]
      BY <2>1, <2>3 DEF TypeOK
    <3>. QED BY <1>1, <2>1, <3>1, FifoKept DEF SemWaiting
  <2>. QED BY <2>2, <2>3
<1>7. ASSUME NEW s \in Sems, SemServe(s)
      PROVE  FifoStep(r)
  <2>1. CASE r # s
    <3>1. units'[r] = units[r]
      BY <1>7, <2>1 DEF SemServe, TypeOK
    <3>2. SemWaiting(r)' = SemWaiting(r)
      BY <1>7, <2>1, SemServeWaiting DEF WaitsSound
    <3>. QED BY <1>1, <3>1, <3>2, FifoKept
  <2>2. CASE r = s
    <3>1. SemWaiting(r)' = SemWaiting(r) \ {Head(waiters[r]).thread}
      BY <1>7, <2>2, SemServeWaiting DEF WaitsSound
    <3>2. /\ DOMAIN waiters[r] = 1 .. Len(waiters[r]) /\ Len(waiters[r]) \in Nat
          /\ 1 \in DOMAIN waiters[r] /\ Head(waiters[r]) = waiters[r][1]
      BY <1>7, <2>2, LenProperties, EmptySeq, HeadTailProperties DEF SemServe, CanServe, TypeOK
    <3>3. ASSUME NEW i \in DOMAIN waiters[r], NEW j \in DOMAIN waiters[r], i < j,
                 waiters[r][j].thread \notin SemWaiting(r)'
          PROVE  FALSE
      <4>1. waiters[r][j].thread = waiters[r][1].thread
        BY <3>1, <3>2, <3>3 DEF SemWaiting
      <4>2. j = 1
        BY <3>2, <4>1 DEF WaitsSound, OneWaitEach
      <4>. QED BY <3>2, <3>3, <4>2
    <3>. QED BY <3>1, <3>3 DEF FifoStep
  <2>. QED BY <2>1, <2>2
<1>8. ASSUME NEW s \in Sems, SemPostEnd(s)
      PROVE  FifoStep(r)
  <2>1. units' = units /\ waiters' = waiters
    BY <1>8 DEF SemPostEnd
  <2>. QED BY <1>1, <2>1, FifoKept DEF SemWaiting
<1>. QED BY <1>2, <1>3, <1>4, <1>5, <1>6, <1>7, <1>8 DEF Next

-----------------------------------------------------------------------------
(***************************************************************************)
(* The theorems.                                                           *)
(***************************************************************************)

\* The fields of semaphores and events keep their types, and no semaphore ever
\* exceeds its limit.
THEOREM SynchTypes == Spec => []TypeOK
BY SynchInvAlways, PTL DEF SynchInv

\* For any number of threads, semaphores and events, and any requests: each
\* blocked thread has one wait block that sem_post or event_set will reach, and
\* every such wait block is that of a blocked thread.
THEOREM SynchWaits == Spec => []WaitsSound
BY SynchInvAlways, PTL DEF SynchInv

\* No wakeup is lost, whatever the limits, as long as nobody asks for no units.
THEOREM SynchNoLostWakeup ==
  ASSUME 0 \notin Requests
  PROVE  Spec => []SatisfiableReleased
<1>1. Init => SatisfiableReleased
  BY DEF Init, SemInit, SatisfiableReleased
<1>2. SynchInv /\ SatisfiableReleased /\ [Next]_vars => SatisfiableReleased'
  BY ReleasedNext
<1>. QED BY <1>1, <1>2, SynchInvAlways, PTL DEF Spec

\* The semaphore is first come, first served, for any requests.
THEOREM SynchFifo == Spec => SemFifo
<1>1. SynchInv /\ [Next]_vars => [\A s \in Sems : FifoStep(s)]_vars
  BY FifoNext
<1>. QED BY <1>1, SynchInvAlways, PTL DEF Spec, SemFifo, FifoStep

\* The synchronizers implement the scheduler's specification: sem_post and
\* event_set activate blocked threads only, so that everything proved about
\* the scheduler holds of the library as a whole.
THEOREM SynchImplementsUThread == Spec => ImplementsUThread
<1>1. Init => UtInit
  BY DEF Init
<1>2. SynchInv /\ [Next]_vars => [UtNext]_utVars
  BY SynchInvNext
<1>. QED BY <1>1, <1>2, SynchInvAlways, PTL DEF Spec, ImplementsUThread, UtSpec

-----------------------------------------------------------------------------
(***************************************************************************)
(* The order in which threads become ready.  The invariant: the history is *)
(* the order of the ready queue.                                           *)
(***************************************************************************)

\* The pairs of a queue's elements, the first of which is closer to the head.
QueueOrder(q) ==
  {p \in Range(q) \X Range(q) : \E i, j \in DOMAIN q : i < j /\ p = <<q[i], q[j]>>}

OrderInv == SynchInv /\ before = QueueOrder(ready_queue)

\* An element inserted at the tail comes after all others.
LEMMA OrderAppend ==
  ASSUME NEW S, NEW q \in Seq(S), NEW e \in S
  PROVE  QueueOrder(Append(q, e)) = QueueOrder(q) \cup (Range(q) \X {e})
<1>. DEFINE a == Append(q, e)
<1>1. /\ Len(q) \in Nat
      /\ DOMAIN q = 1 .. Len(q) /\ DOMAIN a = 1 .. (Len(q) + 1)
      /\ \A i \in 1 .. Len(q) : a[i] = q[i]
      /\ a[Len(q) + 1] = e
  BY AppendProperties, LenProperties
<1>. HIDE DEF a
<1>2. ASSUME NEW i \in DOMAIN a, NEW j \in DOMAIN a, i < j
      PROVE  <<a[i], a[j]>> \in QueueOrder(q) \cup (Range(q) \X {e})
  <2>1. i \in DOMAIN q /\ a[i] = q[i] /\ q[i] \in Range(q)
    BY <1>1, <1>2 DEF Range
  <2>2. CASE j = Len(q) + 1
    BY <2>1, <2>2, <1>1
  <2>3. CASE j # Len(q) + 1
    <3>1. j \in DOMAIN q /\ a[j] = q[j] /\ q[j] \in Range(q)
      BY <2>3, <1>1 DEF Range
    <3>. QED BY <2>1, <3>1, <1>2 DEF QueueOrder
  <2>. QED BY <2>2, <2>3
<1>3. ASSUME NEW i \in DOMAIN a, NEW j \in DOMAIN a, i < j
      PROVE  <<a[i], a[j]>> \in QueueOrder(a)
  BY <1>3 DEF QueueOrder, Range
<1>4. ASSUME NEW i \in DOMAIN q, NEW j \in DOMAIN q, i < j
      PROVE  <<q[i], q[j]>> \in QueueOrder(a)
  <2>1. i \in DOMAIN a /\ j \in DOMAIN a /\ a[i] = q[i] /\ a[j] = q[j]
    BY <1>1
  <2>. QED BY <2>1, <1>3, <1>4
<1>5. ASSUME NEW i \in DOMAIN q
      PROVE  <<q[i], e>> \in QueueOrder(a)
  <2>1. i \in DOMAIN a /\ Len(q) + 1 \in DOMAIN a /\ i < Len(q) + 1 /\ a[i] = q[i]
    BY <1>1
  <2>. QED BY <2>1, <1>1, <1>3
<1>6. QueueOrder(a) \subseteq QueueOrder(q) \cup (Range(q) \X {e})
  BY <1>2 DEF QueueOrder
<1>7. QueueOrder(q) \subseteq QueueOrder(a)
  BY <1>4 DEF QueueOrder
<1>8. Range(q) \X {e} \subseteq QueueOrder(a)
  BY <1>5 DEF Range
<1>. QED BY <1>6, <1>7, <1>8 DEF a

\* Removing the head leaves the order of the others.
LEMMA OrderTail ==
  ASSUME NEW S, NEW q \in Seq(S), q # <<>>, IsInjective(q)
  PROVE  QueueOrder(Tail(q)) =
           {p \in QueueOrder(q) : p[1] \in Range(Tail(q)) /\ p[2] \in Range(Tail(q))}
<1>. DEFINE r == Tail(q)
<1>1. /\ Len(q) \in Nat /\ q[1] \notin Range(r)
      /\ DOMAIN q = 1 .. Len(q) /\ DOMAIN r = 1 .. (Len(q) - 1)
      /\ \A i \in 1 .. (Len(q) - 1) : r[i] = q[i + 1]
  BY HeadTailProperties, LenProperties, EmptySeq, TailDistinct
<1>. HIDE DEF r
<1>2. ASSUME NEW i \in DOMAIN r, NEW j \in DOMAIN r, i < j
      PROVE  /\ <<r[i], r[j]>> \in QueueOrder(q)
             /\ r[i] \in Range(r) /\ r[j] \in Range(r)
  <2>1. /\ i + 1 \in DOMAIN q /\ j + 1 \in DOMAIN q /\ i + 1 < j + 1
        /\ r[i] = q[i + 1] /\ r[j] = q[j + 1]
    BY <1>1, <1>2
  <2>. QED BY <2>1 DEF QueueOrder, Range
<1>3. ASSUME NEW i \in DOMAIN q, NEW j \in DOMAIN q, i < j,
             q[i] \in Range(r), q[j] \in Range(r)
      PROVE  <<q[i], q[j]>> \in QueueOrder(r)
  <2>1. i # 1
    BY <1>1, <1>3
  <2>2. /\ i - 1 \in DOMAIN r /\ j - 1 \in DOMAIN r /\ i - 1 < j - 1
        /\ r[i - 1] = q[i] /\ r[j - 1] = q[j]
    BY <2>1, <1>1, <1>3
  <2>. QED BY <2>2, <1>3 DEF QueueOrder
<1>4. ASSUME NEW p \in QueueOrder(r)
      PROVE  p \in QueueOrder(q) /\ p[1] \in Range(r) /\ p[2] \in Range(r)
  BY <1>2, <1>4 DEF QueueOrder
<1>5. ASSUME NEW p \in QueueOrder(q), p[1] \in Range(r), p[2] \in Range(r)
      PROVE  p \in QueueOrder(r)
  BY <1>3, <1>5 DEF QueueOrder
<1>. QED BY <1>4, <1>5 DEF r

\* What a step of the scheduler does to the ready queue: nothing, an insertion
\* at the tail, a removal of the head, or both.
LEMMA QueueStep ==
  ASSUME UtInv, [UtNext]_utVars
  PROVE  \/ ready_queue' = ready_queue
         \/ ready_queue # <<>> /\ ready_queue' = Tail(ready_queue)
         \/ \E t \in Threads \ Range(ready_queue) :
              \/ ready_queue' = Append(ready_queue, t)
              \/ ready_queue # <<>> /\ ready_queue' = Tail(Append(ready_queue, t))
<1>. USE DEF UtInv
<1>1. ASSUME NEW t \in Threads, UtCreate(t)
      PROVE  t \notin Range(ready_queue) /\ ready_queue' = Append(ready_queue, t)
  BY <1>1 DEF UtCreate, ReadyQueueSound
<1>2. ASSUME NEW t \in Threads, UtYield(t)
      PROVE  /\ t \notin Range(ready_queue) /\ ready_queue # <<>>
             /\ ready_queue' = Tail(Append(ready_queue, t))
  BY <1>2, AppendProperties DEF UtYield, Schedule, RestOfQueue, ReadyQueueSound, UtTypeOK
<1>3. ASSUME NEW t \in Blocked, UtActivate(t)
      PROVE  /\ t \in Threads /\ t \notin Range(ready_queue)
             /\ ready_queue' = Append(ready_queue, t)
  BY <1>3 DEF UtActivate, Blocked, UtTypeOK
<1>4. CASE UtRun \/ \E t \in Threads : UtExit(t) \/ UtDeactivate(t)
  BY <1>4 DEF UtRun, UtExit, UtDeactivate, Schedule, RestOfQueue
<1>5. CASE UtRunReturn \/ Aborted \/ UNCHANGED utVars
  BY <1>5 DEF UtRunReturn, Aborted, utVars
<1>. QED BY <1>1, <1>2, <1>3, <1>4, <1>5 DEF UtNext

\* The history goes on agreeing with the queue.
LEMMA OrderKept ==
  ASSUME UtInv, [UtNext]_utVars, before = QueueOrder(ready_queue), RecordReady
  PROVE  before' = QueueOrder(ready_queue')
<1>. DEFINE q == ready_queue
            r == ready_queue'
<1>1. /\ q \in Seq(Threads) /\ IsInjective(q)
      /\ QueueOrder(q) \subseteq Range(q) \X Range(q)
      /\ before' = {p \in QueueOrder(q) : p[1] \in Range(r) /\ p[2] \in Range(r)}
                     \cup (Range(q) \cap Range(r)) \X (Range(r) \ Range(q))
  BY DEF UtInv, UtTypeOK, ReadyQueueSound, QueueOrder, RecordReady, Ready
<1>2. CASE r = q
  BY <1>1, <1>2
<1>3. CASE q # <<>> /\ r = Tail(q)
  <2>1. Range(r) \subseteq Range(q)
    BY <1>1, <1>3, TailDistinct
  <2>. QED BY <1>1, <1>3, <2>1, OrderTail
<1>4. ASSUME NEW t \in Threads \ Range(q), r = Append(q, t)
      PROVE  before' = QueueOrder(r)
  <2>1. Range(r) = Range(q) \cup {t}
    BY <1>1, <1>4, AppendDistinct
  <2>2. QueueOrder(r) = QueueOrder(q) \cup (Range(q) \X {t})
    BY <1>1, <1>4, OrderAppend
  <2>3. Range(q) \cap Range(r) = Range(q) /\ Range(r) \ Range(q) = {t}
    BY <2>1
  <2>. HIDE DEF q, r
  <2>4. {p \in QueueOrder(q) : p[1] \in Range(r) /\ p[2] \in Range(r)} = QueueOrder(q)
    BY <1>1, <2>1
  <2>. QED BY <1>1, <2>2, <2>3, <2>4
<1>5. ASSUME NEW t \in Threads \ Range(q), q # <<>>, r = Tail(Append(q, t))
      PROVE  before' = QueueOrder(r)
  <2>. DEFINE a == Append(q, t)
  <2>1. /\ a \in Seq(Threads) /\ IsInjective(a) /\ a # <<>>
        /\ Range(a) = Range(q) \cup {t}
        /\ Head(a) = Head(q) /\ Head(q) \in Range(q)
    BY <1>1, <1>5, AppendDistinct, AppendProperties, HeadTailAppend, TailDistinct
  <2>2. QueueOrder(a) = QueueOrder(q) \cup (Range(q) \X {t})
    BY <1>1, OrderAppend
  <2>. HIDE DEF a, q, r
  <2>3. /\ QueueOrder(r) = {p \in QueueOrder(a) : p[1] \in Range(r) /\ p[2] \in Range(r)}
        /\ Range(a) = Range(r) \cup {Head(a)}
    <3>1. r = Tail(a)
      BY <1>5 DEF a
    <3>. QED BY <2>1, <3>1, OrderTail, TailDistinct
  <2>4. t \in Range(r) /\ Range(r) \ Range(q) = {t}
    BY <2>1, <2>3
  <2>5. QueueOrder(r) = {p \in QueueOrder(q) : p[1] \in Range(r) /\ p[2] \in Range(r)}
                          \cup (Range(q) \cap Range(r)) \X {t}
    BY <2>2, <2>3, <2>4
  <2>. QED BY <1>1, <2>4, <2>5
<1>. QED BY <1>2, <1>3, <1>4, <1>5, QueueStep

\* The history only watches: what is proved of Spec holds with it.
LEMMA OrderSpecUses == OrderSpec => Spec
<1>1. OrderInit => Init
  BY DEF OrderInit
<1>2. [OrderNext]_orderVars => [Next]_vars
  BY DEF OrderNext, orderVars, vars
<1>. QED BY <1>1, <1>2, PTL DEF OrderSpec, Spec

LEMMA OrderInvAlways == OrderSpec => []OrderInv
<1>1. OrderInit => OrderInv
  BY SynchInvInit DEF OrderInit, OrderInv, Init, UtInit, QueueOrder, Range
<1>2. ASSUME OrderInv, [OrderNext]_orderVars
      PROVE  OrderInv'
  <2>1. [Next]_vars
    BY <1>2 DEF OrderNext, orderVars, vars
  <2>2. SynchInv' /\ [UtNext]_utVars /\ UtInv
    BY <1>2, <2>1, SynchInvNext DEF OrderInv, SynchInv
  <2>3. CASE OrderNext
    BY <1>2, <2>2, <2>3, OrderKept DEF OrderInv, OrderNext
  <2>4. CASE UNCHANGED orderVars
    BY <1>2, <2>2, <2>4 DEF orderVars, OrderInv, QueueOrder
  <2>. QED BY <1>2, <2>3, <2>4
<1>. QED BY <1>1, <1>2, PTL DEF OrderSpec

\* For any number of threads, the scheduler is first come first served: a thread
\* that gets the processor became ready before every thread that is still ready.
THEOREM SchedulerFifo == OrderSpec => ReadyFifo
<1>. DEFINE Fifo == \A t, u \in Threads :
                      <<t, u>> \in before /\ running_thread' = u => t \notin Ready'
<1>1. ASSUME OrderInv, [OrderNext]_orderVars
      PROVE  Fifo
  <2>1. SUFFICES ASSUME NEW t \in Threads, <<t, running_thread'>> \in before
                 PROVE  FALSE
    BY DEF Fifo
  <2>2. UtInv /\ [UtNext]_utVars
    BY <1>1, SynchInvNext DEF OrderInv, SynchInv, OrderNext, orderVars, vars
  <2>3. PICK i, j \in DOMAIN ready_queue : i < j /\ running_thread' = ready_queue[j]
    BY <1>1, <2>1 DEF OrderInv, QueueOrder
  <2>4. ready_queue # <<>> /\ ready_queue[j] = ready_queue[1]
    BY <2>2, <2>3, HeadRunsNext DEF Range
  <2>5. DOMAIN ready_queue = 1 .. Len(ready_queue) /\ Len(ready_queue) \in Nat
    BY <2>2, LenProperties DEF UtInv, UtTypeOK
  <2>6. j = 1
    BY <2>2, <2>4, <2>5 DEF UtInv, ReadyQueueSound, IsInjective
  <2>. QED BY <2>3, <2>5, <2>6
<1>2. OrderInv /\ [OrderNext]_orderVars => [Fifo]_orderVars
  BY <1>1
<1>. QED BY <1>2, OrderInvAlways, PTL DEF OrderSpec, ReadyFifo
=============================================================================
