------------------------------- MODULE UQueue -------------------------------
(***************************************************************************)
(* The bounded queue that user threads share (src/uthreads/tests/queue.c): *)
(* a list and two semaphores of the uthread library, hasItems and          *)
(* hasSpace.  Threads put and get in any order, on any of the queues.      *)
(*                                                                         *)
(* The library is the module USynch: the actions here are its actions on   *)
(* the queue's semaphores, and what queue_put and queue_get do between     *)
(* them.                                                                   *)
(***************************************************************************)
EXTENDS Integers, FiniteSets, Sequences

CONSTANTS
  Threads, Main, NULL,  \* see UThread
  Queues,               \* the queues of the client
  Size,                 \* the size queue_init gives each
  Items                 \* the pointers put in them; NULL can be one

VARIABLES
  threads, number_of_threads, ready_queue, running_thread, main_thread, aborted,
  units, waiters, posting, signaled, evwaiters, setting, visited,
  list,    \* q->list, with its nodes' items
  pc,      \* where each thread is: in its own code or inside queue_put/get
  queue,   \* the argument q of its call
  val      \* node->item: the item to put, or the one got from each queue

schedVars == <<threads, number_of_threads, ready_queue, running_thread, main_thread, aborted>>
libVars == <<threads, number_of_threads, ready_queue, running_thread, main_thread, aborted,
             units, waiters, posting, signaled, evwaiters, setting, visited>>
queueVars == <<list, pc, queue, val>>
vars == <<threads, number_of_threads, ready_queue, running_thread, main_thread, aborted,
          units, waiters, posting, signaled, evwaiters, setting, visited,
          list, pc, queue, val>>

HasItems(q) == <<q, "hasItems">>
HasSpace(q) == <<q, "hasSpace">>
QueueSems == Queues \X {"hasItems", "hasSpace"}

ASSUME QueueAssumption ==
  /\ IsFiniteSet(Threads) /\ Threads \cap {Main, NULL} = {} /\ Main # NULL
  /\ Queues # {} /\ NULL \notin QueueSems
  /\ Size \in [Queues -> Nat \ {0}]

Lib == INSTANCE USynch WITH
  Sems <- QueueSems,
  Events <- {},
  Limit <- [s \in QueueSems |-> Size[s[1]]],
  InitUnits <- [s \in QueueSems |-> IF s[2] = "hasSpace" THEN Size[s[1]] ELSE 0],
  Requests <- {1}

-----------------------------------------------------------------------------
(***************************************************************************)
(* The operations.                                                         *)
(***************************************************************************)

\* queue_init of every queue; val holds an item per thread and queue.  No thread
\* has made a call yet: what queue says of it does not matter.
QueueInit ==
  /\ list = [q \in Queues |-> <<>>]
  /\ pc = [t \in Threads |-> "client"]
  /\ \E q \in Queues : queue = [t \in Threads |-> q]
  /\ val = [q \in Queues |-> [t \in Threads |-> NULL]]

Init == Lib!Init /\ QueueInit

\* The running thread, outside the loop of a sem_post, moves from one point of
\* its code to another.
Moves(t, from, to) ==
  /\ running_thread = t
  /\ Lib!Idle
  /\ pc[t] = from
  /\ pc' = [pc EXCEPT ![t] = to]

\* sem_wait(s, 1), which returns at once or blocks the thread.
SemWait(t, s) == Lib!SemAcquire(t, s, 1) \/ Lib!SemBlock(t, s, 1)

\* queue_put, up to and including sem_wait(&q->hasSpace, 1).
QueuePut(t, q) ==
  /\ Moves(t, "client", "insert")
  /\ queue' = [queue EXCEPT ![t] = q]
  /\ SemWait(t, HasSpace(q))
  /\ UNCHANGED <<list, val>>

\* Mutant of PutInsert: insert_head_list instead of insert_tail_list.
PutInsertFirst(t, x) ==
  /\ Moves(t, "insert", "posting")
  /\ list' = [list EXCEPT ![queue[t]] = <<x>> \o @]
  /\ Lib!SemPost(HasItems(queue[t]), 1)
  /\ UNCHANGED <<queue, val>>

\* The rest of queue_put: insert the node, then sem_post(&q->hasItems, 1).
PutInsert(t, x) ==
  /\ Moves(t, "insert", "posting")
  /\ list' = [list EXCEPT ![queue[t]] = Append(@, x)]
  /\ Lib!SemPost(HasItems(queue[t]), 1)
  /\ UNCHANGED <<queue, val>>

\* queue_get, up to and including sem_wait(&q->hasItems, 1).
QueueGet(t, q) ==
  /\ Moves(t, "client", "remove")
  /\ queue' = [queue EXCEPT ![t] = q]
  /\ SemWait(t, HasItems(q))
  /\ UNCHANGED <<list, val>>

\* Mutant of GetRemove: hasItems is posted instead of hasSpace.
GetRemovePostsItems(t) ==
  /\ Moves(t, "remove", "posting")
  /\ list[queue[t]] # <<>>
  /\ val' = [val EXCEPT ![queue[t]][t] = Head(list[queue[t]])]
  /\ list' = [list EXCEPT ![queue[t]] = Tail(@)]
  /\ Lib!SemPost(HasItems(queue[t]), 1)
  /\ UNCHANGED queue

\* The rest of queue_get: remove the first node, then sem_post(&q->hasSpace, 1).
\* On an empty list remove_head_list would return the sentinel, which is no
\* node: RemovesNode says that this does not happen.
GetRemove(t) ==
  /\ Moves(t, "remove", "posting")
  /\ list[queue[t]] # <<>>
  /\ val' = [val EXCEPT ![queue[t]][t] = Head(list[queue[t]])]
  /\ list' = [list EXCEPT ![queue[t]] = Tail(@)]
  /\ Lib!SemPost(HasSpace(queue[t]), 1)
  /\ UNCHANGED queue

\* The loop of the sem_post that ends queue_put and queue_get, and the return.
PostServe ==
  /\ \E s \in QueueSems : Lib!SemServe(s)
  /\ UNCHANGED queueVars

PostReturn(t) ==
  /\ running_thread = t
  /\ pc[t] = "posting"
  /\ \E s \in QueueSems : Lib!SemPostEnd(s)
  /\ pc' = [pc EXCEPT ![t] = "client"]
  /\ UNCHANGED <<list, queue, val>>

\* A thread yields, creates another, or ends, in its own code; the main
\* program creates threads and runs them.
ClientStep ==
  /\ Lib!UThreadStep
  /\ running_thread \in Threads => pc[running_thread] = "client"
  /\ UNCHANGED queueVars

Next ==
  \/ ClientStep
  \/ PostServe
  \/ \E t \in Threads :
       \/ \E q \in Queues : QueuePut(t, q) \/ QueueGet(t, q)
       \/ \E x \in Items : PutInsert(t, x)
       \/ GetRemove(t)
       \/ PostReturn(t)

Spec == Init /\ [][Next]_vars

-----------------------------------------------------------------------------
(***************************************************************************)
(* Properties.                                                             *)
(***************************************************************************)

\* The queue's variables have values of their types, and the list never holds
\* more nodes than the size of the queue.
TypeOK ==
  /\ \A q \in Queues : list[q] \in Seq(Items) /\ Len(list[q]) <= Size[q]
  /\ pc \in [Threads -> {"client", "insert", "remove", "posting"}]
  /\ queue \in [Threads -> Queues]
  /\ val \in [Queues -> [Threads -> Items \cup {NULL}]]

\* The threads whose sem_wait has been granted a unit that they have not used
\* yet, whether they run or still wait in the ready queue for the processor.
Granted(q, point, s) ==
  {t \in Threads : pc[t] = point /\ queue[t] = q /\ t \notin Lib!SemWaiting(s)}
Inserting(q) == Granted(q, "insert", HasSpace(q))
Removing(q) == Granted(q, "remove", HasItems(q))

\* Units are neither lost nor made up: the units of the two semaphores and
\* those in the hands of threads between sem_wait and sem_post are its size
\* together.  In particular sem_post never clamps.
UnitsConserved ==
  \A q \in Queues :
    units[HasItems(q)] + units[HasSpace(q)]
      + Cardinality(Inserting(q)) + Cardinality(Removing(q)) = Size[q]

\* The list holds exactly the nodes that hasItems, and the threads it has let
\* through, account for.
ItemsCounted ==
  \A q \in Queues : Len(list[q]) = units[HasItems(q)] + Cardinality(Removing(q))

\* A thread that resumes in queue_get, however long after its sem_wait was
\* granted, finds a node to remove: nobody has taken it in the meantime.
RemovesNode ==
  \A t \in Threads :
    running_thread = t /\ pc[t] = "remove" => list[queue[t]] # <<>>

\* What the semaphores and the list hold agrees at all times, and queue_get never
\* removes from an empty list.
QueueSound == TypeOK /\ UnitsConserved /\ ItemsCounted /\ RemovesNode

\* Each queue implements a bounded channel: first in, first out, nothing lost
\* and nothing delivered twice, whichever threads put and get.
Channel(q) ==
  INSTANCE BoundedChannel WITH
    Users <- Threads, NoItem <- NULL, Size <- Size[q], chan <- list[q], val <- val[q]
ChannelsInit == \A q \in Queues : Channel(q)!ChannelInit
ChannelsNext ==
  \A q \in Queues : Channel(q)!ChannelNext \/ UNCHANGED <<list[q], val[q]>>
ImplementsChannels == ChannelsInit /\ [][ChannelsNext]_<<list, val>>
=============================================================================
