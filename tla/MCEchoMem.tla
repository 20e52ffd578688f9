----------------------------- MODULE MCEchoMem -----------------------------
(***************************************************************************)
(* Model-checking instance of the echo service over channels in shared     *)
(* memory and over fifos: each behaviour is one of the two.                *)
(***************************************************************************)
EXTENDS EchoFifo

VARIABLE ipc  \* what the processes communicate through

mcVars == <<vars, ipc>>

MCInit == Init /\ ipc \in {"memory", "fifo"}

MCNext ==
  /\ ipc' = ipc
  /\ \/ ipc = "memory" /\ Next
     \/ ipc = "fifo" /\ FifoNext

\* The fairness of Spec and of FifoSpec.
MCFairness ==
  /\ WF_mcVars(ipc = "memory" /\ ipc' = ipc /\ SrvStep)
  /\ WF_mcVars(ipc = "fifo" /\ ipc' = ipc /\ FifoSrvStep)
  /\ \A c \in Clients :
       /\ SF_mcVars(ipc = "memory" /\ ipc' = ipc /\ CliStep(c))
       /\ WF_mcVars(ipc = "fifo" /\ ipc' = ipc /\ FifoCliStep(c))

MCSpec == MCInit /\ [][MCNext]_mcVars /\ MCFairness

\* Each client gets the responses to its own requests, one to each and in order,
\* whatever crashes; and the channels hold no more than they can, or need to.
ClientsEchoed == IF ipc = "memory" THEN EchoesOwn ELSE FifoEchoesOwn

\* The server never ends; only over fifos, and only by a client that was killed,
\* can it be held up.
ServerStays == IF ipc = "memory" THEN ServerNeverStops ELSE FifoServerNeverStops
=============================================================================
