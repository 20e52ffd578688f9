----------------------------- MODULE MCParAdder -----------------------------
(***************************************************************************)
(* Model-checking instance of the parallel adder over its three pools:     *)
(* each behaviour is of one version.                                       *)
(***************************************************************************)
EXTENDS EarlyAdder, FreeListAdder

VARIABLE version  \* "early" (aula-05-13), "current" (tpool.c of aula-05-13a), or "free list" (tpool2.c)

mcVars == <<freeAdderVars, version>>

MCInit ==
  \/ version = "current" /\ FreeInit
  \/ version = "free list" /\ FreeInit
  \/ version = "early" /\ EarlyInit /\ free = <<>> /\ work = <<>> /\ round = 1

Version(v) == version = v /\ version' = v

MCMain ==
  \/ Version("current") /\ MainNext /\ UNCHANGED freeVars
  \/ Version("early") /\ EarlyMain /\ UNCHANGED freeVars
  \/ Version("free list") /\ FreeMain

MCWorker(w) ==
  \/ Version("current") /\ WorkerNext(w) /\ UNCHANGED freeVars
  \/ Version("early") /\ EarlyWorker(w) /\ UNCHANGED freeVars
  \/ Version("free list") /\ FreeWorker(w)

MCInSubmit(t) == version' = version /\ InSubmit(t) /\ UNCHANGED freeVars

MCNext ==
  \/ MCMain
  \/ \E w \in Workers : MCWorker(w)
  \/ \E t \in Submitters \ {main} : MCInSubmit(t)
  \/ Version("current") /\ (OthersSubmit \/ AdderSpurious \/ AdderEnded) /\ UNCHANGED freeVars
  \/ Version("early") /\ (EarlyOthers \/ AdderSpurious \/ AdderEnded) /\ UNCHANGED freeVars
  \/ Version("free list") /\ (FreeSpurious \/ FreeEnded)

\* The fairness of AdderSpec, of EarlySpec and of FreeSpec: a step of the last that
\* can be taken can be taken until it is, so that SF and WF are the same for it.
MCFairness ==
  /\ SF_mcVars(MCMain)
  /\ \A w \in Workers : SF_mcVars(MCWorker(w))
  /\ \A t \in Submitters \ {main} : SF_mcVars(MCInSubmit(t))

MCSpec == MCInit /\ [][MCNext]_mcVars /\ MCFairness

-----------------------------------------------------------------------------
(***************************************************************************)
(* Properties: those of each version.                                      *)
(***************************************************************************)

\* A work item that was accepted is executed once, and is in one place until then.
ItemsOnce ==
  CASE version = "current" -> EachOnce
    [] version = "early" -> EarlyEachOnce
    [] version = "free list" -> FreeEachOnce

\* No work item gets behind a NULL, whoever submits while the pool is destroyed.
PillsLast ==
  CASE version = "current" -> NoWorkBehindPills
    [] version = "early" -> EarlyPillsLast
    [] version = "free list" -> TRUE

\* Nobody uses the queue when it is destroyed, and a free place is always found.
PoolAlive ==
  CASE version = "current" -> QueueAlive
    [] version = "early" -> EarlyQueueAlive
    [] version = "free list" -> FreeSuffices

\* The latch opens when the partial sums are there; nobody uses it then, except the
\* last signaller of the early version.
SumsReady == IF version = "early" THEN EarlyAdderSound ELSE AdderSound

\* Accepted work is executed, in the early version unless the pool is destroyed;
\* and in the version with a free list in every round, as AdderEnds says.
ItemsDone == \A x \in Work :
  version # "free list" /\ x \in accepted ~> executed[x] = 1 \/ (version = "early" /\ destroying = 1)
=============================================================================
