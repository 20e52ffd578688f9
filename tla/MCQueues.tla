------------------------------ MODULE MCQueues ------------------------------
(***************************************************************************)
(* Model-checking instance of the bounded queue and of pgrep: either the   *)
(* three threads put and get on one queue of two places in any order,      *)
(* yield, end and are created again, or they are the stages of pgrep,      *)
(* for every file of up to four lines, two of which contain the word.      *)
(***************************************************************************)
EXTENDS PGrep
CONSTANTS qclient, m1, m2, n1

ASSUME PGrepAssumption == PGrepParameters

\* MatchesOf selects what the property of each line selects.
ASSUME MatchesAssumption ==
  \A lines \in UNION {[1..n -> Lines] : n \in 0..MaxLines} :
    MatchesOf(lines) = SelectSeq(lines, LAMBDA line : line \in Matching)

MCSize == [q \in Queues |-> IF q = qclient THEN 2 ELSE 1]

MCInit ==
  \/ PGrepInit /\ queue = [t \in Threads |-> qreader]
  \/ /\ Init /\ queue = [t \in Threads |-> qclient]
     /\ main = "no pgrep"
     /\ file = <<>> /\ shown = <<>> /\ read = 0
     /\ todo = [t \in Threads |-> "get"]

IsPGrep == main # "no pgrep"

\* The client that puts and gets in any order: on qclient, two of the items.
ClientNext ==
  /\ ~IsPGrep
  /\ Next
  /\ \A t \in Threads : queue'[t] \in {queue[t], qclient}
  /\ Range(list'[qclient]) \subseteq {m1, n1}
  /\ UNCHANGED pgrepVars
PipelineNext == IsPGrep /\ PGrepNext

MCSpec == MCInit /\ [][ClientNext \/ PipelineNext]_allVars /\ WF_allVars(PipelineNext)

\* pgrep ends, with nobody blocked.
PipelineTerminates == IsPGrep => Terminates
=============================================================================
