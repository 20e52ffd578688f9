------------------------------- MODULE Latch -------------------------------
(***************************************************************************)
(* The countdown latch (src/aula-05-13a/cdl.c), as the parallel adder      *)
(* uses it: one thread creates it, waits until the others have signalled,  *)
(* and then destroys it, with the memory it is in.                         *)
(***************************************************************************)
EXTENDS Integers, FiniteSets, PThreads

CONSTANTS
  Signallers,   \* the calls of cdl_signal_one
  Waiter        \* the thread that calls cdl_wait_for_all and cdl_destroy

ASSUME LatchAssumption ==
  /\ Waiter \notin Signallers
  /\ NoOwner \notin Signallers \cup {Waiter}
  /\ IsFiniteSet(Signallers)
  /\ "latch" \in Mutexes /\ "done" \in Conds

VARIABLES
  counter,   \* cdl->counter
  at         \* where each of those threads is

latchVars == <<counter, at>>
allLatchVars == <<owner, waiting, latchVars>>

\* cdl_init, with the number of calls to come.
LatchInit ==
  /\ counter = Cardinality(Signallers)
  /\ at = [t \in Signallers \cup {Waiter} |-> "client"]

At(t, from, to) == at[t] = from /\ at' = [at EXCEPT ![t] = to]

-----------------------------------------------------------------------------
(***************************************************************************)
(* cdl_signal_one.                                                         *)
(***************************************************************************)

SignalLock(t) ==
  /\ At(t, "client", "signal count")
  /\ Lock(t, "latch")
  /\ UNCHANGED counter

\* Mutant of SignalCount: the mutex is released before the call is at its end.
SignalCountUnlock(t) ==
  /\ At(t, "signal count", "signal unlock")
  /\ counter' = counter - 1
  /\ owner' = [owner EXCEPT !["latch"] = NoOwner]
  /\ waiting' = IF counter' = 0 THEN [waiting EXCEPT !["done"] = {}] ELSE waiting

SignalCount(t) ==
  /\ At(t, "signal count", "signal unlock")
  /\ counter' = counter - 1
  /\ IF counter' = 0 THEN CondBroadcast("done") ELSE UNCHANGED <<owner, waiting>>

SignalUnlock(t) ==
  /\ At(t, "signal unlock", "signalled")
  /\ Unlock(t, "latch")
  /\ UNCHANGED counter

-----------------------------------------------------------------------------
(***************************************************************************)
(* cdl_wait_for_all and cdl_destroy.                                       *)
(***************************************************************************)

\* The mutex is locked on entry, and again after a wait.
WaitLock(t) ==
  /\ At(t, "client", "wait")
  /\ Lock(t, "latch")
  /\ UNCHANGED counter

WaitRelock(t) ==
  /\ at[t] = "wait" /\ ~IsWaiting(t) /\ owner["latch"] # t
  /\ Lock(t, "latch")
  /\ UNCHANGED latchVars

WaitBlock(t) ==
  /\ at[t] = "wait"
  /\ counter > 0
  /\ CondWait(t, "done", "latch")
  /\ UNCHANGED latchVars

WaitReturn(t) ==
  /\ At(t, "wait", "waited")
  /\ counter <= 0
  /\ Unlock(t, "latch")
  /\ UNCHANGED counter

\* From here on the latch is no latch, and its memory is reused.
LatchDestroy(t) ==
  /\ At(t, "waited", "destroyed")
  /\ UNCHANGED <<owner, waiting, counter>>

LatchSpurious ==
  /\ SpuriousWakeup("done")
  /\ UNCHANGED latchVars

-----------------------------------------------------------------------------
SignalStep(t) == SignalLock(t) \/ SignalCount(t) \/ SignalUnlock(t)
WaitStep(t) ==
  WaitLock(t) \/ WaitRelock(t) \/ WaitBlock(t) \/ WaitReturn(t) \/ LatchDestroy(t)

\* The latch with nothing else: every thread makes its calls, and that is all.
LatchNext ==
  \/ \E t \in Signallers : SignalStep(t)
  \/ WaitStep(Waiter)
  \/ LatchSpurious

LatchSpec == PThreadsInit /\ LatchInit /\ [][LatchNext]_allLatchVars

-----------------------------------------------------------------------------
(***************************************************************************)
(* Properties.                                                             *)
(***************************************************************************)

\* The latch's variables have values of their types.
LatchTypeOK ==
  /\ counter \in 0..Cardinality(Signallers)
  /\ at \in [Signallers \cup {Waiter} ->
       {"client", "signal count", "signal unlock", "signalled", "wait", "waited", "destroyed"}]

\* cdl_wait_for_all returns only when every call of cdl_signal_one has been made
\* and none is inside any more, so that the latch can be destroyed.
WaitsForAll ==
  at[Waiter] \in {"waited", "destroyed"} => \A t \in Signallers : at[t] = "signalled"
=============================================================================
