------------------------------ MODULE UThread ------------------------------
(***************************************************************************)
(* The cooperative scheduler of the uthread library                        *)
(* (src/uthreads/uthread/uthread.c and ctxswitch.s).                       *)
(*                                                                         *)
(* One operating-system thread multiplexes the user threads: exactly one   *)
(* of them executes, and it keeps the processor until it calls an          *)
(* operation of the library.  Nothing preempts it, so each operation is    *)
(* one step.  The context switch itself (saving the callee-saved registers *)
(* and exchanging stack pointers) is the assignment of running_thread.     *)
(***************************************************************************)
EXTENDS Integers, FiniteSets, Sequences, Functions

CONSTANTS
  Threads,   \* the UTHREAD descriptors malloc can return
  Main,      \* the proxy, on ut_run's stack, of the operating-system thread
  NULL       \* the null pointer

ASSUME HandlesAssumption ==
  /\ IsFiniteSet(Threads)
  /\ Main \notin Threads
  /\ NULL \notin Threads
  /\ Main # NULL

VARIABLES
  threads,            \* the descriptors allocated by ut_create and not yet freed
  number_of_threads,
  ready_queue,
  running_thread,
  main_thread,
  aborted             \* an _ASSERTE (assert, types.h) of ut_run has failed

utVars == <<threads, number_of_threads, ready_queue, running_thread,
            main_thread, aborted>>

-----------------------------------------------------------------------------
(***************************************************************************)
(* Helpers.                                                                *)
(***************************************************************************)

\* Some code of the client executes: a user thread, or the main program
\* before or after ut_run, when running_thread is NULL.  When the main thread
\* is the running one, it is inside ut_run and can only finish it.
ClientRuns == ~aborted /\ running_thread # Main

\* A thread that exists, does not run and is not in the ready queue: it has
\* called ut_deactivate and waits for somebody's ut_activate.
Blocked == threads \ (Range(ready_queue) \cup {running_thread})

\* extract_next_thread: the thread to run next, and the queue without it.
NextThread(queue) == IF queue = <<>> THEN main_thread ELSE Head(queue)

\* Mutant of RestOfQueue: the next thread stays linked.
RestKeepsLinked(queue) == queue

RestOfQueue(queue) == IF queue = <<>> THEN queue ELSE Tail(queue)

\* context_switch: the state it saves on the stack of the thread that leaves is
\* what that thread resumes from.
ContextSwitch(next) == running_thread' = next

\* internal_exit: switch to the next thread's stack, then cleanup_thread frees
\* the descriptor and the stack of the one that exits.
InternalExit(t, next) ==
  /\ running_thread' = next
  /\ threads' = threads \ {t}

\* Mutant of Schedule: the thread at the tail runs next (remove_tail_list).
ScheduleFromTail(queue) ==
  IF queue = <<>>
  THEN ready_queue' = queue /\ ContextSwitch(main_thread)
  ELSE /\ ready_queue' = SubSeq(queue, 1, Len(queue) - 1)
       /\ ContextSwitch(queue[Len(queue)])

\* schedule, on the ready queue given.
Schedule(queue) ==
  /\ ready_queue' = RestOfQueue(queue)
  /\ ContextSwitch(NextThread(queue))

-----------------------------------------------------------------------------
(***************************************************************************)
(* The operations.                                                         *)
(***************************************************************************)

\* ut_init: nothing has been created and nothing runs.
UtInit ==
  /\ threads = {}
  /\ number_of_threads = 0
  /\ ready_queue = <<>>
  /\ running_thread = NULL
  /\ main_thread = NULL
  /\ aborted = FALSE

\* ut_create: the main program or the running thread allocates a descriptor,
\* possibly at the address of one freed before, and readies it.
UtCreate(t) ==
  /\ ClientRuns
  /\ t \notin threads
  /\ threads' = threads \cup {t}
  /\ number_of_threads' = number_of_threads + 1
  /\ ready_queue' = Append(ready_queue, t)
  /\ UNCHANGED <<running_thread, main_thread, aborted>>

\* Mutant of UtRun: main_thread is not set.
UtRunNoMain ==
  /\ ClientRuns
  /\ running_thread = NULL
  /\ ready_queue # <<>>
  /\ Schedule(ready_queue)
  /\ UNCHANGED <<threads, number_of_threads, main_thread, aborted>>

\* ut_run, up to the switch to the first user thread.  With an empty ready
\* queue the call returns at once and changes nothing.
UtRun ==
  /\ ClientRuns
  /\ running_thread = NULL
  /\ ready_queue # <<>>
  /\ main_thread' = Main
  /\ Schedule(ready_queue)
  /\ UNCHANGED <<threads, number_of_threads, aborted>>

\* ut_run, after the main thread was switched back in: the two assertions,
\* then the reset that allows another call.
UtRunReturn ==
  /\ ~aborted
  /\ running_thread = Main
  /\ IF ready_queue = <<>> /\ number_of_threads = 0
     THEN /\ running_thread' = NULL
          /\ main_thread' = NULL
          /\ UNCHANGED aborted
     ELSE /\ aborted' = TRUE
          /\ UNCHANGED <<running_thread, main_thread>>
  /\ UNCHANGED <<threads, number_of_threads, ready_queue>>

\* ut_yield.  With an empty ready queue it returns at once.
UtYield(t) ==
  /\ ClientRuns
  /\ running_thread = t
  /\ ready_queue # <<>>
  /\ Schedule(Append(ready_queue, t))
  /\ UNCHANGED <<threads, number_of_threads, main_thread, aborted>>

\* ut_exit, called by the thread or by internal_start when its function
\* returns: switch to the next thread, then free the descriptor.
UtExit(t) ==
  /\ ClientRuns
  /\ running_thread = t
  /\ number_of_threads' = number_of_threads - 1
  /\ ready_queue' = RestOfQueue(ready_queue)
  /\ InternalExit(t, NextThread(ready_queue))
  /\ UNCHANGED <<main_thread, aborted>>

\* ut_deactivate: the running thread is in no list when it is switched out.
UtDeactivate(t) ==
  /\ ClientRuns
  /\ running_thread = t
  /\ Schedule(ready_queue)
  /\ UNCHANGED <<threads, number_of_threads, main_thread, aborted>>

\* Mutant of UtActivate: insert_head_list instead of insert_tail_list.
UtActivateFirst(t) ==
  /\ ClientRuns
  /\ ready_queue' = <<t>> \o ready_queue
  /\ UNCHANGED <<threads, number_of_threads, running_thread, main_thread, aborted>>

\* ut_activate.  The code does not check the handle: that it belongs to a
\* blocked thread is an obligation of the caller.
UtActivate(t) ==
  /\ ClientRuns
  /\ ready_queue' = Append(ready_queue, t)
  /\ UNCHANGED <<threads, number_of_threads, running_thread, main_thread, aborted>>

\* A failed assertion ends the process.
Aborted == aborted /\ UNCHANGED utVars

UtNext ==
  \/ UtRun
  \/ UtRunReturn
  \/ Aborted
  \/ \E t \in Threads : UtCreate(t) \/ UtYield(t) \/ UtExit(t) \/ UtDeactivate(t)
  \/ \E t \in Blocked : UtActivate(t)

UtSpec == UtInit /\ [][UtNext]_utVars

\* The scheduler is cooperative: the running thread gives the processor up
\* again and again (it yields, blocks or exits), and ut_run is called once
\* threads have been created.
GiveUp == \E t \in Threads : UtYield(t) \/ UtExit(t) \/ UtDeactivate(t)

FairUtSpec == UtSpec /\ WF_utVars(UtRun) /\ SF_utVars(GiveUp)

-----------------------------------------------------------------------------
(***************************************************************************)
(* Properties.                                                             *)
(***************************************************************************)

\* Every variable of uthread.c has a value of its type.
UtTypeOK ==
  /\ threads \subseteq Threads
  /\ number_of_threads \in Nat
  /\ ready_queue \in Seq(Threads)
  /\ running_thread \in Threads \cup {Main, NULL}
  /\ main_thread \in {Main, NULL}
  /\ aborted \in BOOLEAN

\* The ready queue links each schedulable thread once: its entries are
\* allocated descriptors (cleanup_thread never frees a linked one), the
\* intrusive link of no descriptor is inserted twice, and the running thread
\* is in no list.  Every extract_next_thread and insert_tail_list relies on it.
ReadyQueueSound ==
  /\ IsInjective(ready_queue)
  /\ Range(ready_queue) \subseteq threads
  /\ running_thread \notin Range(ready_queue)

\* A context switch always has a live target: the running thread is an
\* allocated descriptor, or the main thread while ut_run is on its stack, or
\* nobody when no ut_run is; and the main thread runs again only when there
\* is no more schedulable thread (the assertion of uthread.c:168).
SwitchTargetLive ==
  /\ running_thread \in Threads => running_thread \in threads
  /\ main_thread = NULL <=> running_thread = NULL
  /\ running_thread = Main => ready_queue = <<>>

\* number_of_threads, which ut_run's second assertion (uthread.c:169) reads,
\* is the number of descriptors that exist.
CountsThreads == number_of_threads = Cardinality(threads)

\* No thread starves: one that is ready gets the processor, however often the
\* others yield and are activated ahead of or behind it.
ReadyRuns ==
  \A t \in Threads : t \in Range(ready_queue) ~> running_thread = t

\* What the comments of ut_run say (uthread.c:143-145, uthread.h:34-36): it
\* resumes execution only when all user threads have exited.
ResumesWhenAllExited == running_thread = Main => number_of_threads = 0
=============================================================================
