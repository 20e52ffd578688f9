----------------------------- MODULE ReadyOrder -----------------------------
(***************************************************************************)
(* The users of the scheduler, semaphores and events (USynch), and in      *)
(* which order the threads became ready.  The order is history: it follows *)
(* from which threads are schedulable before and after each step, never    *)
(* from where the ready queue has them, and no action depends on it.       *)
(***************************************************************************)
EXTENDS USynch

VARIABLE before  \* <<t, u>>: both are ready, and t became ready before u

orderVars == <<threads, number_of_threads, ready_queue, running_thread, main_thread,
               aborted, units, waiters, posting, signaled, evwaiters, setting, visited,
               before>>

-----------------------------------------------------------------------------
(***************************************************************************)
(* The history.                                                            *)
(***************************************************************************)

\* The threads that are ready: those the list links.
Ready == Range(ready_queue)

\* A thread that becomes ready does so after all that stay ready; one that is
\* switched to is forgotten.
RecordReady ==
  before' = {p \in before : p[1] \in Ready' /\ p[2] \in Ready'}
              \cup (Ready \cap Ready') \X (Ready' \ Ready)

OrderInit == Init /\ before = {}

OrderNext == Next /\ RecordReady

OrderSpec == OrderInit /\ [][OrderNext]_orderVars

FairOrderSpec == OrderSpec /\ Fairness

-----------------------------------------------------------------------------
(***************************************************************************)
(* Properties.                                                             *)
(***************************************************************************)

\* The scheduler is first come first served, whichever way threads get ready
\* (ut_create, ut_yield, ut_activate out of sem_post or event_set) and leave
\* (ut_run, ut_yield, ut_exit, ut_deactivate): a thread that gets the processor
\* became ready before every thread that is still ready.
ReadyFifo ==
  [][\A t, u \in Threads :
       <<t, u>> \in before /\ running_thread' = u => t \notin Ready']_orderVars
=============================================================================
