----------------------------- MODULE MemChannel -----------------------------
(***************************************************************************)
(* The synchronized ring buffer in shared memory, with a mutex and two     *)
(* condition variables                                                     *)
(* (src/aula-06-03/servers_tests/ipc/memchannel/memchan.c).  Any number of *)
(* threads, of any number of processes, put and get.  mc_put and mc_get    *)
(* signal after they have released the mutex.                              *)
(***************************************************************************)
EXTENDS Integers, FiniteSets, Sequences, PThreads

CONSTANTS
  Users,     \* the threads that use the channel
  Items,     \* the contents of an element
  NoItem,    \* the content of memory that nothing was copied to yet
  Capacity

ASSUME MemChannelAssumption ==
  /\ Capacity \in Nat \ {0}
  /\ NoOwner \notin Users
  /\ IsFiniteSet(Users)
  /\ Mutexes = {"lock"}
  /\ Conds = {"hasItems", "hasSpace"}

VARIABLES
  iput, iget,   \* write and read indexes
  size,         \* used number of elements
  buf,          \* the elements
  pc,           \* where each thread is
  val           \* what it got last

ring == <<iput, iget, size, buf>>
vars == <<owner, waiting, iput, iget, size, buf, pc, val>>

Slots == 0..(Capacity - 1)

\* mc_create.
Init ==
  /\ PThreadsInit
  /\ iput = 0 /\ iget = 0 /\ size = 0
  /\ buf = [i \in Slots |-> NoItem]
  /\ pc = [u \in Users |-> "client"]
  /\ val = [u \in Users |-> NoItem]

-----------------------------------------------------------------------------
(***************************************************************************)
(* The operations.                                                         *)
(***************************************************************************)

Goes(u, from, to) == pc[u] = from /\ pc' = [pc EXCEPT ![u] = to]

NextIndex(i) == IF i + 1 = Capacity THEN 0 ELSE i + 1

\* mc_put or mc_get locks the mutex: on entry, and after a wait.
Enter(u, op) ==
  /\ Goes(u, "client", op)
  /\ Lock(u, "lock")
  /\ UNCHANGED <<ring, val>>

Relock(u) ==
  /\ pc[u] \in {"put", "get"}
  /\ ~IsWaiting(u)
  /\ owner["lock"] # u
  /\ Lock(u, "lock")
  /\ UNCHANGED <<ring, pc, val>>

\* The while loops.
PutWait(u) ==
  /\ pc[u] = "put"
  /\ size = Capacity
  /\ CondWait(u, "hasSpace", "lock")
  /\ UNCHANGED <<ring, pc, val>>

GetWait(u) ==
  /\ pc[u] = "get"
  /\ size = 0
  /\ CondWait(u, "hasItems", "lock")
  /\ UNCHANGED <<ring, pc, val>>

\* Mutant of PutCopy: the condition is not tested again after the wait.
PutCopyUnchecked(u, x) ==
  /\ Goes(u, "put", "put advance")
  /\ owner["lock"] = u
  /\ buf' = [buf EXCEPT ![iput] = x]
  /\ UNCHANGED <<owner, waiting, iput, iget, size, val>>

\* memcpy to the element at iput.
PutCopy(u, x) ==
  /\ Goes(u, "put", "put advance")
  /\ owner["lock"] = u
  /\ size # Capacity
  /\ buf' = [buf EXCEPT ![iput] = x]
  /\ UNCHANGED <<owner, waiting, iput, iget, size, val>>

\* Mutant of PutAdvance: the element is not counted when the index wraps.
PutAdvanceUncounted(u) ==
  /\ Goes(u, "put advance", "signal items")
  /\ iput' = NextIndex(iput)
  /\ size' = IF iput' = 0 THEN size ELSE size + 1
  /\ Unlock(u, "lock")
  /\ UNCHANGED <<iget, buf, val>>

\* iput and size are updated and the mutex is released.
PutAdvance(u) ==
  /\ Goes(u, "put advance", "signal items")
  /\ iput' = NextIndex(iput)
  /\ size' = size + 1
  /\ Unlock(u, "lock")
  /\ UNCHANGED <<iget, buf, val>>

\* memcpy from the element at iget.
GetCopy(u) ==
  /\ Goes(u, "get", "get advance")
  /\ owner["lock"] = u
  /\ size # 0
  /\ val' = [val EXCEPT ![u] = buf[iget]]
  /\ UNCHANGED <<owner, waiting, ring>>

GetAdvance(u) ==
  /\ Goes(u, "get advance", "signal space")
  /\ iget' = NextIndex(iget)
  /\ size' = size - 1
  /\ Unlock(u, "lock")
  /\ UNCHANGED <<iput, buf, val>>

\* Mutant of PutSignal: only the put into an empty buffer signals.
PutSignalFirst(u) ==
  /\ Goes(u, "signal items", "client")
  /\ IF size = 1 THEN CondSignal("hasItems") ELSE UNCHANGED <<owner, waiting>>
  /\ UNCHANGED <<ring, val>>

PutSignal(u) ==
  /\ Goes(u, "signal items", "client")
  /\ CondSignal("hasItems")
  /\ UNCHANGED <<ring, val>>

GetSignal(u) ==
  /\ Goes(u, "signal space", "client")
  /\ CondSignal("hasSpace")
  /\ UNCHANGED <<ring, val>>

Spurious ==
  /\ \E c \in Conds : SpuriousWakeup(c)
  /\ UNCHANGED <<ring, pc, val>>

Step(u) ==
  \/ Enter(u, "put") \/ Enter(u, "get") \/ Relock(u)
  \/ PutWait(u) \/ \E x \in Items : PutCopy(u, x)
  \/ PutAdvance(u) \/ PutSignal(u)
  \/ GetWait(u) \/ GetCopy(u) \/ GetAdvance(u) \/ GetSignal(u)

Next == Spurious \/ \E u \in Users : Step(u)

Spec == Init /\ [][Next]_vars

-----------------------------------------------------------------------------
(***************************************************************************)
(* Properties.                                                             *)
(***************************************************************************)

\* The variables have values of their types; the indexes stay inside the
\* buffer and size between zero and the capacity.
TypeOK ==
  /\ owner \in [{"lock"} -> Users \cup {NoOwner}]
  /\ waiting \in [{"hasItems", "hasSpace"} -> SUBSET Users]
  /\ iput \in Slots /\ iget \in Slots /\ size \in 0..Capacity
  /\ buf \in [Slots -> Items \cup {NoItem}]
  /\ pc \in [Users -> {"client", "put", "put advance", "signal items",
                       "get", "get advance", "signal space"}]
  /\ val \in [Users -> Items \cup {NoItem}]

\* The place of an element less than Capacity places after the last slot.
Wrap(i) == IF i < Capacity THEN i ELSE i - Capacity

\* iput, iget and size, which are kept separately, agree whenever a thread can
\* lock the mutex and read them.
RingSound == iput = Wrap(iget + size)

\* The state in the shared memory is sound.
ChannelSound == TypeOK /\ RingSound

\* The threads that will look at the elements, or at the space, without being
\* woken: those about to signal, which wake another, and those inside mc_get, or
\* mc_put, that do not wait.
ItemTakers ==
  {u \in Users : \/ pc[u] = "signal items"
                 \/ pc[u] \in {"get", "get advance"} /\ u \notin waiting["hasItems"]}
SpaceTakers ==
  {u \in Users : \/ pc[u] = "signal space"
                 \/ pc[u] \in {"put", "put advance"} /\ u \notin waiting["hasSpace"]}

\* No wakeup is lost, though the signal comes after the mutex is released and
\* goes to a single thread: while threads wait there is, for every element
\* (every free place), a thread on its way to take it, or to wake one that
\* will.
NoLostWakeup ==
  /\ waiting["hasItems"] # {} => size <= Cardinality(ItemTakers)
  /\ waiting["hasSpace"] # {} => Capacity - size <= Cardinality(SpaceTakers)

\* The channel implements the bounded channel.  A put takes effect when size is
\* increased, a get when the element is copied.
Taken == IF \E u \in Users : pc[u] = "get advance" THEN 1 ELSE 0
Segment(b, first, n) == [i \in 1..n |-> b[Wrap(first + i - 1)]]
Contents == Segment(buf, iget + Taken, size - Taken)
Abstract == INSTANCE BoundedChannel WITH Size <- Capacity, chan <- Contents
ImplementsChannel == Abstract!ChannelSpec
=============================================================================
