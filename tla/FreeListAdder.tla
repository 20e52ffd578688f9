--------------------------- MODULE FreeListAdder ---------------------------
(***************************************************************************)
(* The second thread pool (src/aula-05-13a/tpool2.c), which takes its work *)
(* items from a list of free ones, and the adder over it                   *)
(* (src/aula-05-13a/tp_adder2.c), which runs again and again: a worker     *)
(* returns its work item after the function has signalled the latch, so    *)
(* that the next round may begin before.                                   *)
(*                                                                         *)
(* What a thread does with the lock of the pool held is one step.  The     *)
(* variables are those of ParAdder: `list` is the queue, of work items'    *)
(* places now, and item[w] the place a worker holds.  The latch is only    *)
(* its counter: ParAdder has it in detail.  No function is NULL here.      *)
(***************************************************************************)
EXTENDS ParAdder

CONSTANTS
  Places,  \* how many work items freepool has place for
  Rounds   \* bound: how often par_sum is called (NITERS)

\* The places of freepool.
Nodes == 1..Places

\* A round submits NPROCS work items, and each worker may hold one of an earlier
\* round: 4 and 16, and 1024 places.
ASSUME FreeListAssumption ==
  /\ Places \in Nat /\ Places >= Cardinality(Ranges) + Cardinality(Workers)
  /\ NULL \notin Nodes

VARIABLES
  free,    \* pool->wi_free_list
  work,    \* the function and argument in each place
  round    \* which call of par_sum it is

freeVars == <<free, work, round>>
freeAdderVars == <<adderVars, freeVars>>

\* tp_init, and cdl_init of the first call; every place is free, in the order of
\* init_wi_pool.
FreeInit ==
  /\ AdderInit
  /\ free = [n \in Nodes |-> n]
  /\ work = [n \in Nodes |-> NULL]
  /\ round = 1

\* wi_destroy of what the worker executed last, if anything: at the head of the list.
Returned(w) == IF item[w] = NULL THEN free ELSE <<item[w]>> \o free

\* pool_func: the worker gets the next work item, or waits for one.
FreeGet(w) ==
  /\ ~IsWaiting(w)
  /\ list # <<>>
  /\ Goes(w, "get", "run")
  /\ free' = Returned(w)
  /\ item' = [item EXCEPT ![w] = Head(list)]
  /\ list' = Tail(list)
  /\ UNCHANGED <<owner, waiting, destroying, pills, counts, queue_gone, latchVars, work, round>>

FreeGetWait(w) ==
  /\ pc[w] = "get" /\ ~IsWaiting(w)
  /\ list = <<>>
  /\ free' = Returned(w)
  /\ item' = [item EXCEPT ![w] = NULL]
  /\ waiting' = [waiting EXCEPT !["has_items"] = @ \cup {w}]
  /\ UNCHANGED <<owner, list, destroying, pc, pills, counts, queue_gone, latchVars, work, round>>

\* wi->func(wi->arg): oper_func sums its range and signals.
FreeExecute(w) ==
  /\ Goes(w, "run", "get")
  /\ executed' = [executed EXCEPT ![work[item[w]]] = @ + 1]
  /\ counter' = counter - 1
  /\ UNCHANGED <<owner, waiting, list, destroying, item, pills, submitted, accepted, queue_gone, at, freeVars>>

FreeWorker(w) == FreeGet(w) \/ FreeGetWait(w) \/ FreeExecute(w)

\* wi_create, with a free place.
WiCreate(x) ==
  /\ free' = Tail(free)
  /\ work' = [work EXCEPT ![Head(free)] = x]

\* tp_submit; wi_create returns NULL without a free place, and it is queued.
FreeSubmit(x) ==
  /\ x \in Ranges \ submitted
  /\ submitted' = submitted \cup {x}
  /\ Goes(main, "client", IF free = <<>> THEN "broken" ELSE "client")
  /\ IF free = <<>> THEN UNCHANGED <<owner, waiting, free, work, list, accepted>>
     ELSE /\ WiCreate(x)
          /\ list' = Append(list, Head(free))
          /\ accepted' = accepted \cup {x}
          /\ CondSignal("has_items")
  /\ UNCHANGED <<destroying, item, pills, executed, queue_gone, latchVars, round>>

\* cdl_wait_for_all returns; par_sum returns and is called again, or main ends.
FreeRound ==
  /\ submitted = Ranges /\ counter = 0
  /\ Goes(main, "client", IF round < Rounds THEN "client" ELSE "destroyed")
  /\ round' = round + 1
  /\ submitted' = {} /\ accepted' = {}
  /\ counter' = Cardinality(Ranges)
  /\ UNCHANGED <<owner, waiting, list, destroying, item, pills, executed, queue_gone, at, free, work>>

FreeMain == FreeRound \/ \E x \in Ranges : FreeSubmit(x)

FreeSpurious == Spurious /\ UNCHANGED <<latchVars, freeVars>>

\* main has ended, and the process with it.
FreeEnded == pc[main] = "destroyed" /\ UNCHANGED freeAdderVars

FreeNext ==
  \/ FreeMain
  \/ \E w \in Workers : FreeWorker(w)
  \/ FreeSpurious
  \/ FreeEnded

\* Every thread runs.
FreeSpec ==
  /\ FreeInit /\ [][FreeNext]_freeAdderVars
  /\ WF_freeAdderVars(FreeMain)
  /\ \A w \in Workers : WF_freeAdderVars(FreeWorker(w))

-----------------------------------------------------------------------------
(***************************************************************************)
(* Properties.                                                             *)
(***************************************************************************)

\* Every place is free, or queued, or held by one worker, and by nothing else: a
\* work item is not used again while a worker executes it.
Holders(n) == {w \in Workers : item[w] = n}
PlacesSound ==
  \A n \in Nodes :
    Cardinality({i \in DOMAIN free : free[i] = n}) + Cardinality(Queued(n)) + Cardinality(Holders(n)) = 1

\* The work of every round is done once in it: it is queued, being executed, or
\* executed as often as rounds have submitted it.
FreeEachOnce ==
  /\ PlacesSound
  /\ \A x \in Ranges :
       LET queued == {i \in DOMAIN list : work[list[i]] = x}
           running == {w \in Workers : pc[w] = "run" /\ work[item[w]] = x}
       IN Cardinality(queued) + Cardinality(running) + executed[x]
            = (round - 1) + (IF x \in accepted THEN 1 ELSE 0)

\* The free list is never found empty, although a round begins before the workers
\* have returned the work items of the one before; and the rounds do not overlap.
FreeSuffices ==
  /\ pc[main] # "broken"
  /\ counter = Cardinality(Ranges \ {x \in submitted : executed[x] = round})
=============================================================================
