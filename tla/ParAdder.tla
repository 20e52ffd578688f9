------------------------------ MODULE ParAdder ------------------------------
(***************************************************************************)
(* The parallel adder (src/aula-05-13a/tp_adder.c), which puts the thread  *)
(* pool and the latch together: par_adder submits a work item for each     *)
(* range of the values, waits on a latch in its own stack frame until each *)
(* item has signalled it, destroys the latch, and main then destroys the   *)
(* pool.                                                                   *)
(*                                                                         *)
(* Other threads may submit work of their own, also while the pool is      *)
(* being destroyed: tp_submit is written for that.                         *)
(***************************************************************************)
EXTENDS ThreadPool, Latch

CONSTANTS Ranges,  \* the work items of par_adder
          main

ASSUME ParAdderAssumption ==
  /\ Ranges \subseteq Work
  /\ Signallers = Ranges /\ Waiter = main
  /\ main \in Destroyers /\ main \in Submitters

adderVars == <<vars, latchVars>>

AdderInit == Init /\ LatchInit

-----------------------------------------------------------------------------
(***************************************************************************)
(* A work item of the adder: oper_func of tp_adder.c sums its range, and   *)
(* calls cdl_signal_one before it returns to the worker.                   *)
(***************************************************************************)

SignalOne(w) ==
  /\ pc[w] = "run" /\ item[w] \in Ranges
  /\ SignalStep(item[w])
  /\ UNCHANGED poolVars

RunItem(w) ==
  \/ SignalOne(w)
  \/ /\ item[w] \in Ranges => at[item[w]] = "signalled"
     /\ Execute(w)
     /\ UNCHANGED latchVars

WorkerNext(w) ==
  \/ (QueueGet(w) \/ QueueGetWait(w)) /\ UNCHANGED latchVars
  \/ RunItem(w)

-----------------------------------------------------------------------------
(***************************************************************************)
(* The main thread, and the others.                                        *)
(***************************************************************************)

MainSubmit ==
  /\ \E x \in Ranges : Submit(main, x)
  /\ UNCHANGED latchVars

\* cdl_wait_for_all and cdl_destroy, when every range has been submitted.
MainWait ==
  /\ pc[main] = "client" /\ Ranges \subseteq submitted
  /\ WaitStep(main)
  /\ UNCHANGED poolVars

MainDestroy ==
  /\ at[main] = "destroyed"
  /\ Destroy(main)
  /\ UNCHANGED latchVars

InSubmit(t) == SubmitStep(t) /\ UNCHANGED latchVars
InDestroy == DestroyStep(main) /\ UNCHANGED latchVars

OthersSubmit ==
  /\ \E t \in Submitters \ {main}, x \in Work \ Ranges : Submit(t, x)
  /\ UNCHANGED latchVars

AdderSpurious ==
  \/ Spurious /\ UNCHANGED latchVars
  \/ LatchSpurious /\ UNCHANGED poolVars

MainNext == MainSubmit \/ MainWait \/ MainDestroy \/ InSubmit(main) \/ InDestroy

AdderEnded == Ended /\ UNCHANGED latchVars

AdderNext ==
  \/ MainNext
  \/ \E w \in Workers : WorkerNext(w)
  \/ \E t \in Submitters \ {main} : InSubmit(t)
  \/ OthersSubmit
  \/ AdderSpurious
  \/ AdderEnded

\* Every thread runs, the functions of work items return, and a thread that waits
\* for a mutex gets it if it is released again and again.  The others need not
\* submit anything.
AdderSpec ==
  /\ AdderInit /\ [][AdderNext]_adderVars
  /\ SF_adderVars(MainNext)
  /\ \A w \in Workers : SF_adderVars(WorkerNext(w))
  /\ \A t \in Submitters \ {main} : SF_adderVars(InSubmit(t))

-----------------------------------------------------------------------------
(***************************************************************************)
(* Properties.                                                             *)
(***************************************************************************)

\* When par_adder adds up the partial sums all the work items it submitted are
\* past their last access to the latch, and to the ranges, in its stack frame.
AdderSound ==
  /\ WaitsForAll
  /\ at[main] # "client" => Ranges \subseteq accepted

\* The program ends: no signal of the queue or of the latch is missed, and every
\* worker gets its NULL item, whatever other threads submit meanwhile.
AdderEnds == <>(pc[main] = "destroyed")
=============================================================================
