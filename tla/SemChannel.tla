----------------------------- MODULE SemChannel -----------------------------
(***************************************************************************)
(* The ring buffer in shared memory with two semaphores and two atomic     *)
(* counters (src/aula-06-03/servers_tests/ipc/memchannel2/memchan.c).  No  *)
(* lock: the position is taken by an atomic add, then the element is       *)
(* copied, and only a semaphore tells the other side.                      *)
(*                                                                         *)
(* The counters are only used modulo the capacity, and are kept so.  A     *)
(* copy takes two steps: others may run while it lasts, and what is read   *)
(* from an element that is being written is any item at all.               *)
(***************************************************************************)
EXTENDS Integers, FiniteSets, Sequences

CONSTANTS
  Putters,   \* the threads that put
  Getters,   \* the threads that get
  Items,     \* the contents of an element
  NoItem,    \* the content of memory that nothing was copied to yet
  Torn,      \* what is read from an element that is being written
  Capacity

\* What the client gives mc_create, and the number of its threads.
SemParameters ==
  /\ Capacity \in Nat \ {0}
  /\ IsFiniteSet(Putters \cup Getters) /\ Putters \cap Getters = {}
  /\ NoItem \notin Items /\ Torn \notin Items /\ Torn # NoItem

VARIABLES
  has_items, has_space,  \* the values of the semaphores
  iput, iget,            \* the counters, modulo the capacity
  buffer,                \* the elements
  pc,                    \* where each thread is
  pos,                   \* its position in the buffer
  val                    \* what it got last

vars == <<has_items, has_space, iput, iget, buffer, pc, pos, val>>

Callers == Putters \cup Getters
Slots == 0..(Capacity - 1)

\* mc_create.
Init ==
  /\ has_items = 0 /\ has_space = Capacity
  /\ iput = 0 /\ iget = 0
  /\ buffer = [i \in Slots |-> NoItem]
  /\ pc = [u \in Callers |-> "client"]
  /\ pos = [u \in Callers |-> 0]
  /\ val = [u \in Callers |-> NoItem]

-----------------------------------------------------------------------------
(***************************************************************************)
(* The operations.                                                         *)
(***************************************************************************)

Goes(u, from, to) == pc[u] = from /\ pc' = [pc EXCEPT ![u] = to]

\* sem_wait(&rb->has_space).
PutWait(u) ==
  /\ Goes(u, "client", "put add")
  /\ has_space > 0
  /\ has_space' = has_space - 1
  /\ UNCHANGED <<has_items, iput, iget, buffer, pos, val>>

\* Mutant of PutAdd: the position is the value after the add.
PutAddFirst(u) ==
  /\ Goes(u, "put add", "put copy")
  /\ pos' = [pos EXCEPT ![u] = (iput + 1) % Capacity]
  /\ iput' = (iput + 1) % Capacity
  /\ UNCHANGED <<has_items, has_space, iget, buffer, val>>

\* atomic_fetch_add(&rb->iput, 1) % rb->capacity.
PutAdd(u) ==
  /\ Goes(u, "put add", "put copy")
  /\ pos' = [pos EXCEPT ![u] = iput]
  /\ iput' = (iput + 1) % Capacity
  /\ UNCHANGED <<has_items, has_space, iget, buffer, val>>

\* memcpy to the element: it begins, and it ends.
PutCopy(u) ==
  /\ Goes(u, "put copy", "put copying")
  /\ buffer' = [buffer EXCEPT ![pos[u]] = Torn]
  /\ UNCHANGED <<has_items, has_space, iput, iget, pos, val>>

PutCopied(u, x) ==
  /\ Goes(u, "put copying", "put post")
  /\ buffer' = [buffer EXCEPT ![pos[u]] = x]
  /\ UNCHANGED <<has_items, has_space, iput, iget, pos, val>>

\* Mutant of PutPost: the semaphore is posted twice.
PutPostTwice(u) ==
  /\ Goes(u, "put post", "client")
  /\ has_items' = has_items + 2
  /\ UNCHANGED <<has_space, iput, iget, buffer, pos, val>>

\* sem_post(&rb->has_items).
PutPost(u) ==
  /\ Goes(u, "put post", "client")
  /\ has_items' = has_items + 1
  /\ UNCHANGED <<has_space, iput, iget, buffer, pos, val>>

\* Mutant of GetWait: the semaphore is not waited for.
GetWaitNot(u) ==
  /\ Goes(u, "client", "get add")
  /\ UNCHANGED <<has_items, has_space, iput, iget, buffer, pos, val>>

\* sem_wait(&rb->has_items).
GetWait(u) ==
  /\ Goes(u, "client", "get add")
  /\ has_items > 0
  /\ has_items' = has_items - 1
  /\ UNCHANGED <<has_space, iput, iget, buffer, pos, val>>

GetAdd(u) ==
  /\ Goes(u, "get add", "get copy")
  /\ pos' = [pos EXCEPT ![u] = iget]
  /\ iget' = (iget + 1) % Capacity
  /\ UNCHANGED <<has_items, has_space, iput, buffer, val>>

\* memcpy from the element: what it begins with is what is there, and it ends
\* with the same unless a put has begun to overwrite it.
GetCopy(u) ==
  /\ Goes(u, "get copy", "get copying")
  /\ val' = [val EXCEPT ![u] = buffer[pos[u]]]
  /\ UNCHANGED <<has_items, has_space, iput, iget, buffer, pos>>

GetCopied(u) ==
  /\ Goes(u, "get copying", "get post")
  /\ val' = [val EXCEPT ![u] = IF buffer[pos[u]] = @ THEN @ ELSE Torn]
  /\ UNCHANGED <<has_items, has_space, iput, iget, buffer, pos>>

\* sem_post(&rb->has_space).
GetPost(u) ==
  /\ Goes(u, "get post", "client")
  /\ has_space' = has_space + 1
  /\ UNCHANGED <<has_items, iput, iget, buffer, pos, val>>

PutStep(u) ==
  PutWait(u) \/ PutAdd(u) \/ PutCopy(u) \/ (\E x \in Items : PutCopied(u, x)) \/ PutPost(u)
GetStep(u) ==
  GetWait(u) \/ GetAdd(u) \/ GetCopy(u) \/ GetCopied(u) \/ GetPost(u)

Next ==
  \/ \E u \in Putters : PutStep(u)
  \/ \E u \in Getters : GetStep(u)

Spec == Init /\ [][Next]_vars

-----------------------------------------------------------------------------
(***************************************************************************)
(* Properties.                                                             *)
(***************************************************************************)

\* The variables have values of their types; the semaphores count no more than
\* the capacity.
TypeOK ==
  /\ has_items \in 0..Capacity /\ has_space \in 0..Capacity
  /\ iput \in Slots /\ iget \in Slots
  /\ buffer \in [Slots -> Items \cup {NoItem, Torn}]
  /\ pc \in [Callers -> {"client", "put add", "put copy", "put copying", "put post",
                       "get add", "get copy", "get copying", "get post"}]
  /\ pos \in [Callers -> Slots]
  /\ val \in [Callers -> Items \cup {NoItem, Torn}]

At(points) == {u \in Callers : pc[u] \in points}

\* Each place of the buffer is free, full, or in the hands of one thread that
\* will post it: the two semaphores never let more threads through.
PlacesConserved ==
  has_items + has_space + Cardinality(At({"put add", "put copy", "put copying", "put post",
    "get add", "get copy", "get copying", "get post"})) = Capacity

\* Neither semaphore exceeds what there is in the buffer.
SemaphoresSound == TypeOK /\ PlacesConserved

\* A get returns an item that was put, in one piece: never the memory of a place
\* that is not written yet, nor of one being written.
GetsItems == \A u \in Getters : pc[u] = "get post" => val[u] \in Items

\* What the channel holds: the items from First on, Full of them.  A put takes
\* effect when its copy ends, a get when its copy begins.
Full == has_items + Cardinality(At({"put post", "get add", "get copy"}))
First == iget - Cardinality(At({"get copy"}))
Ring(b, first, n) == [i \in 1..n |-> b[(first + i - 1) % Capacity]]
Contents == Ring(buffer, First, Full)

\* With one thread that puts and one that gets, the channel implements the
\* bounded channel.
Abstract ==
  INSTANCE BoundedChannel WITH Users <- Callers, Size <- Capacity, chan <- Contents
ImplementsChannel == Abstract!ChannelSpec
=============================================================================
