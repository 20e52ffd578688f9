----------------------------- MODULE EarlyAdder -----------------------------
(***************************************************************************)
(* The parallel adder of an earlier lesson (src/aula-05-13: tp_adder.c,    *)
(* tpool.c and cdl.c).  Its variables are those of ParAdder, whose actions *)
(* it shares where the code is the same; here is what differs:             *)
(*   - the workers end at the first NULL item or as soon as they see that  *)
(*     the pool is terminated, and leave the queue as it is;               *)
(*   - tp_destroy joins the workers with the lock of the pool held;        *)
(*   - the latch has an atomic counter, and only the last of its           *)
(*     signallers locks its mutex.                                         *)
(* pool->terminated is `destroying`, 0 or 1.  par_adder is called once:    *)
(* main's other calls would use the frame of the latch again, in which the *)
(* last signaller may still be.                                            *)
(***************************************************************************)
EXTENDS ParAdder

\* tp_init: the workers have yet to test pool->terminated.
EarlyInit ==
  /\ PThreadsInit /\ LatchInit
  /\ list = <<>> /\ destroying = 0 /\ pills = 0
  /\ pc = [t \in Workers \cup Callers |-> IF t \in Workers THEN "loop" ELSE "client"]
  /\ item = [t \in Workers \cup Callers |-> NULL]
  /\ submitted = {} /\ accepted = {} /\ executed = [x \in Work |-> 0]
  /\ queue_gone = FALSE

-----------------------------------------------------------------------------
(***************************************************************************)
(* The latch.                                                              *)
(***************************************************************************)

\* cdl_signal_one: the counter, without the mutex.
EarlySignal(t) ==
  /\ At(t, "client", IF counter > 1 THEN "signalled" ELSE "signal lock")
  /\ counter' = counter - 1
  /\ UNCHANGED <<owner, waiting>>

EarlySignalLock(t) ==
  /\ At(t, "signal lock", "signal count")
  /\ Lock(t, "latch")
  /\ UNCHANGED counter

EarlySignalBroadcast(t) ==
  /\ At(t, "signal count", "signal unlock")
  /\ CondBroadcast("done")
  /\ UNCHANGED counter

EarlySignalStep(t) ==
  EarlySignal(t) \/ EarlySignalLock(t) \/ EarlySignalBroadcast(t) \/ SignalUnlock(t)

\* cdl_wait_for_all: the counter may change between its test and the wait.
EarlyWaitTest(t) ==
  /\ At(t, "wait", "wait block")
  /\ owner["latch"] = t /\ counter > 0
  /\ UNCHANGED <<owner, waiting, counter>>

EarlyWaitBlock(t) ==
  /\ At(t, "wait block", "wait")
  /\ CondWait(t, "done", "latch")
  /\ UNCHANGED counter

\* The return of par_adder, which leaves the memory of the latch to the next call.
EarlyReturn(t) == LatchDestroy(t)

EarlyWaitStep(t) ==
  \/ WaitLock(t) \/ WaitRelock(t) \/ WaitReturn(t)
  \/ EarlyWaitTest(t) \/ EarlyWaitBlock(t) \/ EarlyReturn(t)

-----------------------------------------------------------------------------
(***************************************************************************)
(* The pool.                                                               *)
(***************************************************************************)

\* The worker tests pool->terminated, without the lock, and calls queue_get.
EarlyLoop(w) ==
  /\ Goes(w, "loop", IF destroying = 0 THEN "get" ELSE "ended")
  /\ UNCHANGED <<owner, waiting, list, destroying, item, pills, counts, queue_gone>>

EarlyExecute(w) ==
  /\ item[w] \in Ranges => at[item[w]] = "signalled"
  /\ Goes(w, "run", "loop")
  /\ executed' = [executed EXCEPT ![item[w]] = @ + 1]
  /\ UNCHANGED <<owner, waiting, list, destroying, item, pills, submitted, accepted, queue_gone>>

EarlyWorker(w) ==
  \/ (EarlyLoop(w) \/ QueueGet(w) \/ QueueGetWait(w) \/ EarlyExecute(w)) /\ UNCHANGED latchVars
  \/ /\ pc[w] = "run" /\ item[w] \in Ranges
     /\ EarlySignalStep(item[w])
     /\ UNCHANGED poolVars

\* tp_submit: pool->terminated is tested with the lock held only.
EarlySubmit(t, x) ==
  /\ x \in Work \ submitted
  /\ Goes(t, "client", "submit lock")
  /\ submitted' = submitted \cup {x}
  /\ item' = [item EXCEPT ![t] = x]
  /\ UNCHANGED <<owner, waiting, list, destroying, pills, accepted, executed, queue_gone>>

\* tp_destroy.
EarlyDestroy(t) ==
  /\ Goes(t, "client", "destroy lock")
  /\ UNCHANGED <<owner, waiting, list, destroying, item, pills, counts, queue_gone>>

EarlyDestroyLock(t) ==
  /\ Goes(t, "destroy lock", IF destroying = 0 THEN "destroy put" ELSE "destroy join")
  /\ Lock(t, "pool")
  /\ destroying' = 1
  /\ UNCHANGED <<list, item, pills, counts, queue_gone>>

\* The workers are joined, and the lock released; the queue is destroyed next.
EarlyDestroyJoin(t) ==
  /\ pc[t] = "destroy put" => pills = Cardinality(Workers)
  /\ pc[t] \in {"destroy put", "destroy join"} /\ pc' = [pc EXCEPT ![t] = "destroy queue"]
  /\ \A w \in Workers : pc[w] = "ended"
  /\ Unlock(t, "pool")
  /\ UNCHANGED <<list, destroying, item, pills, counts, queue_gone>>

-----------------------------------------------------------------------------
(***************************************************************************)
(* par_adder, main, and other threads that submit work.                    *)
(***************************************************************************)

EarlyMain ==
  \/ /\ \/ \E x \in Ranges : EarlySubmit(main, x)
        \/ SubmitStep(main)
        \/ at[main] = "destroyed" /\ EarlyDestroy(main)
        \/ EarlyDestroyLock(main) \/ DestroyPut(main) \/ EarlyDestroyJoin(main) \/ DestroyQueue(main)
     /\ UNCHANGED latchVars
  \/ /\ pc[main] = "client" /\ Ranges \subseteq submitted
     /\ EarlyWaitStep(main)
     /\ UNCHANGED poolVars

EarlyOthers ==
  /\ \E t \in Submitters \ {main}, x \in Work \ Ranges : EarlySubmit(t, x)
  /\ UNCHANGED latchVars

EarlyNext ==
  \/ EarlyMain
  \/ \E w \in Workers : EarlyWorker(w)
  \/ \E t \in Submitters \ {main} : InSubmit(t)
  \/ EarlyOthers
  \/ AdderSpurious
  \/ AdderEnded

\* As in ParAdder.
EarlySpec ==
  /\ EarlyInit /\ [][EarlyNext]_adderVars
  /\ SF_adderVars(EarlyMain)
  /\ \A w \in Workers : SF_adderVars(EarlyWorker(w))
  /\ \A t \in Submitters \ {main} : SF_adderVars(InSubmit(t))

-----------------------------------------------------------------------------
(***************************************************************************)
(* Properties.                                                             *)
(***************************************************************************)

\* A work item that was accepted is in exactly one place, as in the later pool, but
\* a worker may end with work queued.
EarlyEachOnce ==
  \A x \in Work :
    Cardinality(Queued(x)) + Cardinality(Running(x)) + executed[x]
      = IF x \in accepted THEN 1 ELSE 0

\* No work item gets behind a NULL, although the workers may leave both.
EarlyPillsLast == \A i, j \in 1..Len(list) : i < j /\ list[i] = NULL => list[j] = NULL

\* When the queue is destroyed the workers have ended and no submitter will put an
\* item; work that was dropped is in the queue, and none of it is the adder's.
EarlyQueueAlive ==
  queue_gone =>
    /\ \A w \in Workers : pc[w] = "ended"
    /\ \A t \in Submitters : pc[t] # "submit put" /\ (pc[t] = "submit test" => destroying = 1)
    /\ \A x \in accepted : executed[x] = 1 \/ (x \notin Ranges /\ Queued(x) # {})

\* When par_adder adds up the partial sums they are all there; but the last of the
\* signallers, and no other, may still be about to lock the mutex of the latch, in
\* a stack frame that par_adder leaves.
EarlyAdderSound ==
  /\ at[main] # "client" => Ranges \subseteq accepted
  /\ at[main] \in {"waited", "destroyed"} =>
       /\ \A t \in Signallers : at[t] # "client"
       /\ \A t, u \in Signallers : at[t] # "signalled" /\ at[u] # "signalled" => t = u

\* Accepted work is executed, unless the pool is destroyed first.
EarlyWorkDone == \A x \in Work : x \in accepted ~> (executed[x] = 1 \/ destroying = 1)
=============================================================================
