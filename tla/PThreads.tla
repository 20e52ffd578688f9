------------------------------ MODULE PThreads ------------------------------
(***************************************************************************)
(* The mutexes and condition variables of POSIX threads, as the channels   *)
(* and the thread pool use them (pthread_mutex_t and pthread_cond_t).  The  *)
(* library is not part of the repository.                                  *)
(***************************************************************************)
CONSTANTS
  Mutexes,
  Conds,
  NoOwner    \* the owner of a mutex that is not locked

VARIABLES
  owner,     \* the thread that has each mutex locked
  waiting    \* the threads blocked on each condition variable

PThreadsInit ==
  /\ owner = [m \in Mutexes |-> NoOwner]
  /\ waiting = [c \in Conds |-> {}]

IsWaiting(t) == \E c \in Conds : t \in waiting[c]

Lock(t, m) ==
  /\ owner[m] = NoOwner
  /\ owner' = [owner EXCEPT ![m] = t]
  /\ UNCHANGED waiting

Unlock(t, m) ==
  /\ owner[m] = t
  /\ owner' = [owner EXCEPT ![m] = NoOwner]
  /\ UNCHANGED waiting

\* The mutex is released and the thread blocks, in one step.  Before
\* pthread_cond_wait returns the thread locks the mutex again, by Lock.
CondWait(t, c, m) ==
  /\ owner[m] = t
  /\ owner' = [owner EXCEPT ![m] = NoOwner]
  /\ waiting' = [waiting EXCEPT ![c] = @ \cup {t}]

\* Any one of the waiting threads is unblocked; without one nothing happens,
\* and nothing is remembered.
CondSignal(c) ==
  /\ \/ waiting[c] = {} /\ UNCHANGED waiting
     \/ \E t \in waiting[c] : waiting' = [waiting EXCEPT ![c] = @ \ {t}]
  /\ UNCHANGED owner

CondBroadcast(c) ==
  /\ waiting' = [waiting EXCEPT ![c] = {}]
  /\ UNCHANGED owner

\* A thread may be unblocked without a signal.
SpuriousWakeup(c) ==
  /\ \E t \in waiting[c] : waiting' = [waiting EXCEPT ![c] = @ \ {t}]
  /\ UNCHANGED owner
=============================================================================
