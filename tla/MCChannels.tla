----------------------------- MODULE MCChannels -----------------------------
(***************************************************************************)
(* Model-checking instance of the two channels in shared memory.  A        *)
(* behaviour is of one of them: the other stays as it was created.         *)
(***************************************************************************)
EXTENDS MemChannel

CONSTANTS Putters, Getters, Torn, SemCapacity

VARIABLES
  which,                      \* the channel that is used: "mutex" or "semaphores"
  has_items, has_space,       \* the variables of SemChannel
  sem_iput, sem_iget, buffer, sem_pc, pos, sem_val

semVars == <<has_items, has_space, sem_iput, sem_iget, buffer, sem_pc, pos, sem_val>>

Sem == INSTANCE SemChannel WITH
  Capacity <- SemCapacity, iput <- sem_iput, iget <- sem_iget, pc <- sem_pc, val <- sem_val

ASSUME SemChannelAssumption == Sem!SemParameters

MCInit == which \in {"mutex", "semaphores"} /\ Init /\ Sem!Init

MutexNext == which = "mutex" /\ Next /\ UNCHANGED <<which, semVars>>
SemNext == which = "semaphores" /\ Sem!Next /\ UNCHANGED <<which, vars>>

MCSpec == MCInit /\ [][MutexNext \/ SemNext]_<<which, vars, semVars>>

\* The semaphores account for every place of the buffer; see SemChannel.
SemaphoresSound == Sem!SemaphoresSound

\* A get returns an item that was put, in one piece; see SemChannel.
GetsItems == Sem!GetsItems

\* The channel with semaphores implements the bounded channel; see SemChannel.
SemImplementsChannel == Sem!ImplementsChannel
=============================================================================
