----------------------------- MODULE ThreadPool -----------------------------
(***************************************************************************)
(* The thread pool (src/aula-05-13a/tpool.c) and its queue of work items   *)
(* (src/aula-05-13a/queue.c), as the concurrent echo server and the        *)
(* parallel adder use it.                                                  *)
(*                                                                         *)
(* queue_put and queue_get do everything with the lock of the queue held,  *)
(* so each is one step here, or two when queue_get waits.  The lock of the *)
(* pool is held across calls and is modelled.                              *)
(***************************************************************************)
EXTENDS Integers, FiniteSets, Sequences, PThreads

CONSTANTS
  Workers,     \* pool->threads
  Submitters,  \* the threads that call tp_submit
  Destroyers,  \* the threads that call tp_destroy
  Work,        \* the work items, each submitted once at most
  NULL

ASSUME ThreadPoolAssumption ==
  /\ IsFiniteSet(Workers) /\ Workers # {}
  /\ Workers \cap (Submitters \cup Destroyers) = {} /\ NoOwner \notin Submitters \cup Destroyers
  /\ "pool" \in Mutexes /\ "has_items" \in Conds
  /\ NULL \notin Work

VARIABLES
  list,        \* pool->queue, with its nodes' items
  destroying,  \* pool->destroying
  pc,          \* where each thread is
  item,        \* the item it submits, or executes
  pills,       \* how many NULL items tp_destroy has put
  submitted,   \* the items tp_submit was called with
  accepted,    \* those that it queued
  executed,    \* how often each has been executed
  queue_gone   \* whether queue_destroy was called

counts == <<submitted, accepted, executed>>
poolVars == <<list, destroying, pc, item, pills, counts, queue_gone>>
vars == <<owner, waiting, poolVars>>

Callers == Submitters \cup Destroyers

\* tp_init.
PoolInit ==
  /\ list = <<>>
  /\ destroying = 0
  /\ pc = [t \in Workers \cup Callers |-> IF t \in Workers THEN "get" ELSE "client"]
  /\ item = [t \in Workers \cup Callers |-> NULL]
  /\ pills = 0
  /\ submitted = {} /\ accepted = {}
  /\ executed = [x \in Work |-> 0]
  /\ queue_gone = FALSE

Init == PThreadsInit /\ PoolInit

Goes(t, from, to) == pc[t] = from /\ pc' = [pc EXCEPT ![t] = to]

-----------------------------------------------------------------------------
(***************************************************************************)
(* The queue and the workers.                                              *)
(***************************************************************************)

\* Mutant of QueuePut: the signal is forgotten.
QueuePutSilent(x) ==
  /\ list' = Append(list, x)
  /\ UNCHANGED <<owner, waiting>>

QueuePut(x) ==
  /\ list' = Append(list, x)
  /\ CondSignal("has_items")

\* queue_get, called by a worker or resumed after its wait.
QueueGetWait(w) ==
  /\ pc[w] = "get" /\ ~IsWaiting(w)
  /\ list = <<>>
  /\ waiting' = [waiting EXCEPT !["has_items"] = @ \cup {w}]
  /\ UNCHANGED <<owner, poolVars>>

\* Mutant of QueueGet: the node stays in the list until another follows it.
QueueGetPeek(w) ==
  /\ ~IsWaiting(w)
  /\ list # <<>>
  /\ Goes(w, "get", IF Head(list) = NULL THEN "ended" ELSE "run")
  /\ item' = [item EXCEPT ![w] = Head(list)]
  /\ list' = IF Len(list) = 1 THEN list ELSE Tail(list)
  /\ UNCHANGED <<owner, waiting, destroying, pills, counts, queue_gone>>

\* The worker gets an item, and ends if it is NULL.
QueueGet(w) ==
  /\ ~IsWaiting(w)
  /\ list # <<>>
  /\ Goes(w, "get", IF Head(list) = NULL THEN "ended" ELSE "run")
  /\ item' = [item EXCEPT ![w] = Head(list)]
  /\ list' = Tail(list)
  /\ UNCHANGED <<owner, waiting, destroying, pills, counts, queue_gone>>

\* item->func(item->arg) returns.
Execute(w) ==
  /\ Goes(w, "run", "get")
  /\ executed' = [executed EXCEPT ![item[w]] = @ + 1]
  /\ UNCHANGED <<owner, waiting, list, destroying, item, pills, submitted, accepted, queue_gone>>

Spurious ==
  /\ SpuriousWakeup("has_items")
  /\ UNCHANGED poolVars

-----------------------------------------------------------------------------
(***************************************************************************)
(* tp_submit.                                                              *)
(***************************************************************************)

\* The call: it returns at once when the pool is being destroyed.
Submit(t, x) ==
  /\ t \in Submitters
  /\ x \in Work \ submitted
  /\ Goes(t, "client", IF destroying = 0 THEN "submit lock" ELSE "client")
  /\ submitted' = submitted \cup {x}
  /\ item' = [item EXCEPT ![t] = x]
  /\ UNCHANGED <<owner, waiting, list, destroying, pills, accepted, executed, queue_gone>>

SubmitLock(t) ==
  /\ Goes(t, "submit lock", "submit test")
  /\ Lock(t, "pool")
  /\ UNCHANGED <<list, destroying, item, pills, counts, queue_gone>>

\* Mutant of SubmitTest: destroying is not tested again with the lock held.
SubmitTestNot(t) ==
  /\ Goes(t, "submit test", "submit put")
  /\ UNCHANGED <<owner, waiting, list, destroying, item, pills, counts, queue_gone>>

\* The second test of destroying, now with the lock held.
SubmitTest(t) ==
  /\ Goes(t, "submit test", IF destroying = 0 THEN "submit put" ELSE "submit unlock")
  /\ UNCHANGED <<owner, waiting, list, destroying, item, pills, counts, queue_gone>>

\* The work item is queued, although tp_destroy may have begun since.
SubmitPut(t) ==
  /\ Goes(t, "submit put", "submit unlock")
  /\ QueuePut(item[t])
  /\ accepted' = accepted \cup {item[t]}
  /\ UNCHANGED <<destroying, item, pills, submitted, executed, queue_gone>>

SubmitUnlock(t) ==
  /\ Goes(t, "submit unlock", "client")
  /\ Unlock(t, "pool")
  /\ UNCHANGED <<list, destroying, item, pills, counts, queue_gone>>

-----------------------------------------------------------------------------
(***************************************************************************)
(* tp_destroy.                                                             *)
(***************************************************************************)

\* The call and the compare-and-exchange, which only the first passes.
Destroy(t) ==
  /\ t \in Destroyers
  /\ Goes(t, "client", IF destroying = 0 THEN "destroy lock" ELSE "destroy queue")
  /\ destroying' = 1
  /\ UNCHANGED <<owner, waiting, list, item, pills, counts, queue_gone>>

DestroyLock(t) ==
  /\ Goes(t, "destroy lock", "destroy put")
  /\ Lock(t, "pool")
  /\ UNCHANGED <<list, destroying, item, pills, counts, queue_gone>>

\* One NULL item for each worker.
DestroyPut(t) ==
  /\ pc[t] = "destroy put"
  /\ pills < Cardinality(Workers)
  /\ QueuePut(NULL)
  /\ pills' = pills + 1
  /\ UNCHANGED <<destroying, pc, item, counts, queue_gone>>

\* Mutant of DestroyUnlock: one NULL item too few.
DestroyUnlockEarly(t) ==
  /\ Goes(t, "destroy put", "destroy join")
  /\ pills >= Cardinality(Workers) - 1
  /\ Unlock(t, "pool")
  /\ UNCHANGED <<list, destroying, item, pills, counts, queue_gone>>

DestroyUnlock(t) ==
  /\ Goes(t, "destroy put", "destroy join")
  /\ pills = Cardinality(Workers)
  /\ Unlock(t, "pool")
  /\ UNCHANGED <<list, destroying, item, pills, counts, queue_gone>>

\* Mutant of DestroyJoin: a single worker is joined.
DestroyJoinOne(t) ==
  /\ Goes(t, "destroy join", "destroy queue")
  /\ \E w \in Workers : pc[w] = "ended"
  /\ UNCHANGED <<owner, waiting, list, destroying, item, pills, counts, queue_gone>>

\* pthread_join of every worker.
DestroyJoin(t) ==
  /\ Goes(t, "destroy join", "destroy queue")
  /\ \A w \in Workers : pc[w] = "ended"
  /\ UNCHANGED <<owner, waiting, list, destroying, item, pills, counts, queue_gone>>

\* queue_destroy and pthread_mutex_destroy, and the return.
DestroyQueue(t) ==
  /\ Goes(t, "destroy queue", "destroyed")
  /\ queue_gone' = TRUE
  /\ UNCHANGED <<owner, waiting, list, destroying, item, pills, counts>>

-----------------------------------------------------------------------------
WorkerStep(w) == QueueGet(w) \/ QueueGetWait(w) \/ Execute(w)
SubmitStep(t) == SubmitLock(t) \/ SubmitTest(t) \/ SubmitPut(t) \/ SubmitUnlock(t)
DestroyStep(t) ==
  DestroyLock(t) \/ DestroyPut(t) \/ DestroyUnlock(t) \/ DestroyJoin(t) \/ DestroyQueue(t)

\* The pool is destroyed and nobody uses it any more.
Ended ==
  /\ \A t \in Callers : pc[t] \in {"client", "destroyed"}
  /\ \A w \in Workers : pc[w] = "ended"
  /\ UNCHANGED vars

Next ==
  \/ Spurious
  \/ \E w \in Workers : WorkerStep(w)
  \/ \E t \in Callers :
       (\E x \in Work : Submit(t, x)) \/ SubmitStep(t) \/ Destroy(t) \/ DestroyStep(t)
  \/ Ended

Spec == Init /\ [][Next]_vars

\* Every thread runs, and work items' functions return.  Nobody has to call
\* tp_submit or tp_destroy.
FairSpec ==
  /\ Spec
  /\ \A w \in Workers : WF_vars(WorkerStep(w))
  /\ \A t \in Callers : WF_vars(SubmitStep(t)) /\ WF_vars(DestroyStep(t))

-----------------------------------------------------------------------------
(***************************************************************************)
(* Properties.                                                             *)
(***************************************************************************)

\* The variables have values of their types.
TypeOK ==
  /\ list \in Seq(Work \cup {NULL})
  /\ destroying \in {0, 1}
  /\ pc \in [Workers \cup Callers ->
       {"client", "get", "run", "ended", "submit lock", "submit test", "submit put",
        "submit unlock", "destroy lock", "destroy put", "destroy join", "destroy queue", "destroyed"}]
  /\ item \in [Workers \cup Callers -> Work \cup {NULL}]
  /\ pills \in 0..Cardinality(Workers)
  /\ accepted \subseteq submitted /\ submitted \subseteq Work
  /\ executed \in [Work -> Nat]
  /\ queue_gone \in BOOLEAN

\* A work item that tp_submit accepted is in exactly one place: queued, being
\* executed, or executed once.  Nothing is dropped and nothing runs twice, and the
\* variables have values of their types.
Queued(x) == {i \in 1..Len(list) : list[i] = x}
Running(x) == {w \in Workers : pc[w] = "run" /\ item[w] = x}
EachOnce ==
  /\ TypeOK
  /\ \A x \in Work :
       Cardinality(Queued(x)) + Cardinality(Running(x)) + executed[x]
         = IF x \in accepted THEN 1 ELSE 0

\* Every work item is ahead of every NULL: a submitter that races tp_destroy
\* either gets its item in before the first NULL or not at all, so that no
\* worker ends while work is queued.
NoWorkBehindPills ==
  /\ \A i, j \in 1..Len(list) : i < j /\ list[i] = NULL => list[j] = NULL
  /\ (\E w \in Workers : pc[w] = "ended") => \A i \in 1..Len(list) : list[i] = NULL

\* When the queue is destroyed nobody uses it any more: the workers have ended
\* and no submitter will put an item, though some may still be in tp_submit.
\* All the accepted work has been executed.
QueueAlive ==
  queue_gone =>
    /\ \A w \in Workers : pc[w] = "ended"
    /\ \A t \in Callers :
         pc[t] \notin {"destroy put", "submit put"} /\ (pc[t] = "submit test" => destroying = 1)
    /\ \A x \in accepted : executed[x] = 1

\* Accepted work is executed, whether the pool is destroyed or not: no signal is
\* lost between workers that wait and workers about to.
WorkDone == \A x \in Work : x \in accepted ~> executed[x] = 1

\* tp_destroy returns: each worker gets its NULL and ends.
DestroyReturns == \A t \in Destroyers : pc[t] = "destroy lock" ~> pc[t] = "destroyed"
=============================================================================
