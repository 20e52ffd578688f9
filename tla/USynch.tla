------------------------------- MODULE USynch -------------------------------
(***************************************************************************)
(* The synchronizers of the uthread library: counting semaphores           *)
(* (src/uthreads/uthread/semaphore.c) and manual events (event.c), used by *)
(* any number of user threads that also create, yield to and outlive one   *)
(* another.                                                                *)
(*                                                                         *)
(* A thread that waits queues a wait block, allocated on its own stack, in *)
(* the synchronizer and deactivates itself.  sem_post serves the queue in  *)
(* a loop, one request at a time, and event_set walks it in a loop; each   *)
(* iteration is a step here, and no other thread can act before the loop   *)
(* ends, because the scheduler is cooperative.                             *)
(***************************************************************************)
EXTENDS UThread

CONSTANTS
  Sems,       \* the semaphores of the client
  Events,     \* the events of the client
  Limit,      \* the limit sem_init gives each semaphore
  InitUnits,  \* the units sem_init gives each semaphore
  Requests    \* the numbers of units clients ask for and return

ASSUME SemsAssumption ==
  /\ NULL \notin Sems
  /\ NULL \notin Events
  /\ Requests \subseteq Nat
  /\ Limit \in [Sems -> Nat]
  /\ InitUnits \in [Sems -> Nat]
  /\ \A s \in Sems : InitUnits[s] <= Limit[s]

VARIABLES
  units,      \* sem->units
  waiters,    \* sem->waiters: the queued SEMAPHORE_WAIT_BLOCKs
  posting,    \* the semaphore whose sem_post loop is under way, or NULL
  signaled,   \* event->signaled
  evwaiters,  \* event->waiters: the threads of the queued WAIT_BLOCKs
  setting,    \* the event whose event_set loop is under way, or NULL
  visited     \* how many of its wait blocks that loop has visited

semVars == <<units, waiters, posting>>
eventVars == <<signaled, evwaiters, setting, visited>>
vars == <<threads, number_of_threads, ready_queue, running_thread, main_thread,
          aborted, units, waiters, posting, signaled, evwaiters, setting, visited>>

-----------------------------------------------------------------------------
(***************************************************************************)
(* Helpers.                                                                *)
(***************************************************************************)

\* The SEMAPHORE_WAIT_BLOCK init_sem_waitblock builds.
SemWaitBlock == [thread : Threads, units : Requests]
WaitBlock(t, k) == [thread |-> t, units |-> k]

\* Mutant of Clamped: the limit is ignored.
Unclamped(s, n) == n

\* sem_post adds units and cuts the sum at the limit.
Clamped(s, n) == IF n > Limit[s] THEN Limit[s] ELSE n

\* The conditions under which sem_post's loop goes on: units left, somebody
\* waiting, and enough units for the first request.
CanServe(s) ==
  /\ units[s] > 0
  /\ waiters[s] # <<>>
  /\ units[s] >= Head(waiters[s]).units

\* No loop of the library is under way, so that the client may make a call.
Idle == posting = NULL /\ setting = NULL

-----------------------------------------------------------------------------
(***************************************************************************)
(* The operations.                                                         *)
(***************************************************************************)

\* sem_init of every semaphore and event_init of every event, before any
\* thread exists.
SemInit ==
  /\ units = InitUnits
  /\ waiters = [s \in Sems |-> <<>>]
  /\ posting = NULL

EventInit ==
  /\ signaled = [e \in Events |-> FALSE]
  /\ evwaiters = [e \in Events |-> <<>>]
  /\ setting = NULL
  /\ visited = 0

Init == UtInit /\ SemInit /\ EventInit

\* Mutant of SemAcquire: the caller takes units although others wait.
SemAcquireBarging(t, s, k) ==
  /\ ClientRuns /\ Idle
  /\ running_thread = t
  /\ units[s] >= k
  /\ units' = [units EXCEPT ![s] = @ - k]
  /\ UNCHANGED <<utVars, waiters, posting, eventVars>>

\* sem_wait when nobody waits and there are enough units.
SemAcquire(t, s, k) ==
  /\ ClientRuns /\ Idle
  /\ running_thread = t
  /\ waiters[s] = <<>>
  /\ units[s] >= k
  /\ units' = [units EXCEPT ![s] = @ - k]
  /\ UNCHANGED <<utVars, waiters, posting, eventVars>>

\* Mutant of SemBlock: the thread is not deactivated.
SemBlockKeepsRunning(t, s, k) ==
  /\ ClientRuns /\ Idle
  /\ running_thread = t
  /\ waiters[s] # <<>> \/ units[s] < k
  /\ waiters' = [waiters EXCEPT ![s] = Append(@, WaitBlock(t, k))]
  /\ UNCHANGED <<utVars, units, posting, eventVars>>

\* sem_wait otherwise: queue a wait block and call ut_deactivate.
SemBlock(t, s, k) ==
  /\ Idle
  /\ waiters[s] # <<>> \/ units[s] < k
  /\ waiters' = [waiters EXCEPT ![s] = Append(@, WaitBlock(t, k))]
  /\ UtDeactivate(t)
  /\ UNCHANGED <<units, posting, eventVars>>

\* sem_post, up to its loop.
SemPost(s, k) ==
  /\ ClientRuns /\ Idle
  /\ units' = [units EXCEPT ![s] = Clamped(s, @ + k)]
  /\ posting' = s
  /\ UNCHANGED <<utVars, waiters, eventVars>>

\* Mutant of SemServe: the thread is not activated.
SemServeForgets(s) ==
  /\ posting = s
  /\ CanServe(s)
  /\ units' = [units EXCEPT ![s] = @ - Head(waiters[s]).units]
  /\ waiters' = [waiters EXCEPT ![s] = Tail(@)]
  /\ UNCHANGED <<utVars, posting, eventVars>>

\* One iteration of sem_post's loop: the first request is granted.
SemServe(s) ==
  /\ posting = s
  /\ CanServe(s)
  /\ units' = [units EXCEPT ![s] = @ - Head(waiters[s]).units]
  /\ waiters' = [waiters EXCEPT ![s] = Tail(@)]
  /\ UtActivate(Head(waiters[s]).thread)
  /\ UNCHANGED <<posting, eventVars>>

\* Mutant of SemPostEnd: the loop may end while a request can be served (an if
\* in place of the while).
SemPostEndEarly(s) ==
  /\ posting = s
  /\ posting' = NULL
  /\ UNCHANGED <<utVars, units, waiters, eventVars>>

\* The end of sem_post's loop.
SemPostEnd(s) ==
  /\ posting = s
  /\ ~CanServe(s)
  /\ posting' = NULL
  /\ UNCHANGED <<utVars, units, waiters, eventVars>>

\* event_wait on a signaled event returns at once; otherwise it queues a wait
\* block and calls ut_deactivate.
EventWait(t, e) ==
  /\ Idle
  /\ ~signaled[e]
  /\ evwaiters' = [evwaiters EXCEPT ![e] = Append(@, t)]
  /\ UtDeactivate(t)
  /\ UNCHANGED <<semVars, signaled, setting, visited>>

\* event_set, up to its loop.
EventSet(e) ==
  /\ ClientRuns /\ Idle
  /\ signaled' = [signaled EXCEPT ![e] = TRUE]
  /\ setting' = e
  /\ visited' = 0
  /\ UNCHANGED <<utVars, semVars, evwaiters>>

\* One iteration of event_set's loop: the thread of the next wait block is
\* activated.  The block stays in the queue.
EventRelease(e) ==
  /\ setting = e
  /\ visited < Len(evwaiters[e])
  /\ visited' = visited + 1
  /\ UtActivate(evwaiters[e][visited + 1])
  /\ UNCHANGED <<semVars, signaled, evwaiters, setting>>

\* Mutant of EventSetEnd: at most one thread is released.
EventSetEndFirst(e) ==
  /\ setting = e
  /\ visited \in {1, Len(evwaiters[e])}
  /\ setting' = NULL
  /\ visited' = 0
  /\ UNCHANGED <<utVars, semVars, signaled, evwaiters>>

\* The end of event_set's loop.
EventSetEnd(e) ==
  /\ setting = e
  /\ visited = Len(evwaiters[e])
  /\ setting' = NULL
  /\ visited' = 0
  /\ UNCHANGED <<utVars, semVars, signaled, evwaiters>>

\* The scheduler's own operations, between two calls of the synchronizers.
UThreadStep ==
  /\ Idle
  /\ \/ UtRun
     \/ UtRunReturn
     \/ Aborted
     \/ \E t \in Threads : UtCreate(t) \/ UtYield(t) \/ UtExit(t)
  /\ UNCHANGED <<semVars, eventVars>>

\* Any client that sets each event at most once, as event_test.c does.
Next ==
  \/ UThreadStep
  \/ \E t \in Threads, s \in Sems, k \in Requests : SemAcquire(t, s, k) \/ SemBlock(t, s, k)
  \/ \E s \in Sems, k \in Requests : SemPost(s, k)
  \/ \E s \in Sems : SemServe(s) \/ SemPostEnd(s)
  \/ \E t \in Threads, e \in Events : EventWait(t, e)
  \/ \E e \in Events : (~signaled[e] /\ EventSet(e)) \/ EventRelease(e) \/ EventSetEnd(e)

Spec == Init /\ [][Next]_vars

\* The loops of the library run to their end once entered, a running thread
\* gives the processor up again and again (the scheduler is cooperative), and
\* ut_run is called once threads have been created.
LibraryLoop ==
  \/ \E s \in Sems : SemServe(s) \/ SemPostEnd(s)
  \/ \E e \in Events : EventRelease(e) \/ EventSetEnd(e)
StartRun == Idle /\ UtRun /\ UNCHANGED <<semVars, eventVars>>
GiveUpProcessor ==
  \/ Idle /\ (\E t \in Threads : UtYield(t) \/ UtExit(t)) /\ UNCHANGED <<semVars, eventVars>>
  \/ \E t \in Threads, s \in Sems, k \in Requests : SemBlock(t, s, k)
  \/ \E t \in Threads, e \in Events : EventWait(t, e)

Fairness == WF_vars(LibraryLoop) /\ SF_vars(StartRun) /\ SF_vars(GiveUpProcessor)

\* Any client, events set again included.
NextSetAgain == Next \/ \E e \in Events : EventSet(e)

SpecSetAgain == Init /\ [][NextSetAgain]_vars
-----------------------------------------------------------------------------
(***************************************************************************)
(* Properties.                                                             *)
(***************************************************************************)

\* Every field of a SEMAPHORE and of an EVENT has a value of its type; the
\* units of a semaphore stay between zero and its limit.
TypeOK ==
  /\ UtTypeOK
  /\ units \in [Sems -> Nat]
  /\ \A s \in Sems : units[s] <= Limit[s]
  /\ waiters \in [Sems -> Seq(SemWaitBlock)]
  /\ posting \in Sems \cup {NULL}
  /\ signaled \in [Events -> BOOLEAN]
  /\ evwaiters \in [Events -> Seq(Threads)]
  /\ setting \in Events \cup {NULL}
  /\ visited \in Nat

\* The threads a semaphore's queue, or the part of an event's queue that
\* event_set has yet to visit, will activate.
SemWaiting(s) == {waiters[s][i].thread : i \in DOMAIN waiters[s]}
Unvisited(e) ==
  {i \in DOMAIN evwaiters[e] : ~signaled[e] \/ (setting = e /\ visited < i)}
EventWaiting(e) == {evwaiters[e][i] : i \in Unvisited(e)}

\* A wait block that a sem_post or event_set will reach is the stack frame of
\* a thread still blocked in that wait: so ut_activate never readies a thread
\* that runs, is ready or was freed, and no list links a dead frame.
WaitersBlocked ==
  /\ \A s \in Sems : SemWaiting(s) \subseteq Blocked
  /\ \A e \in Events : EventWaiting(e) \subseteq Blocked

\* A blocked thread has one wait block, in one synchronizer: it is activated
\* once for the wait it is in.
OneWaitEach ==
  /\ \A s \in Sems : \A i, j \in DOMAIN waiters[s] :
       waiters[s][i].thread = waiters[s][j].thread => i = j
  /\ \A e \in Events : \A i, j \in Unvisited(e) : evwaiters[e][i] = evwaiters[e][j] => i = j
  /\ \A r, s \in Sems : r # s => SemWaiting(r) \cap SemWaiting(s) = {}
  /\ \A d, e \in Events : d # e => EventWaiting(d) \cap EventWaiting(e) = {}
  /\ \A s \in Sems, e \in Events : SemWaiting(s) \cap EventWaiting(e) = {}

\* No thread is lost: a thread that is neither running nor ready is queued in
\* a semaphore or in an event that is not signaled (or whose event_set loop
\* will still reach it), so that some future call can release it.
NoThreadLost ==
  Blocked \subseteq UNION ({SemWaiting(s) : s \in Sems} \cup {EventWaiting(e) : e \in Events})

\* The waiting and the blocked threads are the same: none is activated that is not
\* blocked, none twice, and none is forgotten.
WaitsSound == WaitersBlocked /\ OneWaitEach /\ NoThreadLost

\* No wakeup is lost.  The comment of sem_post's loop: it releases all blocked
\* threads whose request can be satisfied (semaphore.c:84).  Once the loop is
\* over, the first request in the queue exceeds the units left; with the FIFO
\* order, that is the only reason for a thread to stay blocked.
SatisfiableReleased ==
  \A s \in Sems :
    posting # s /\ waiters[s] # <<>> => units[s] < Head(waiters[s]).units

\* The semaphore is fair: units leave it for the first request of the queue or,
\* when the queue is empty, for the caller; a thread that came later never
\* takes units, nor is it released, before one that came earlier.
SemFifo ==
  [][\A s \in Sems :
       /\ units'[s] < units[s] =>
            \/ waiters[s] = <<>>
            \/ Head(waiters[s]).thread \notin SemWaiting(s)'
       /\ \A i, j \in DOMAIN waiters[s] :
            i < j /\ waiters[s][j].thread \notin SemWaiting(s)'
              => waiters[s][i].thread \notin SemWaiting(s)']_vars

\* event_set releases everybody: a thread that waits on an event when it is set
\* runs again.
EventReleases ==
  \A e \in Events, t \in Threads :
    t \in EventWaiting(e) /\ signaled[e] ~> running_thread = t

\* The synchronizers use the scheduler as its specification allows: they
\* deactivate the running thread and activate blocked ones only.
ImplementsUThread == UtSpec

\* What the comment of the ready queue says (uthread.c:36-38): it links the
\* user threads that are currently schedulable -- so no thread that has exited.
ReadyAreSchedulable == Range(ready_queue) \subseteq threads
=============================================================================
