# Verification of the course's user threads, channels and servers

TLA+ models, TLC runs and TLAPS proofs for the programs of
SO-1920v-LI41N, an operating-systems course: a library of user-level threads
with its synchronizers, channels in shared memory, a thread pool with a latch,
and echo servers built on them. The repository has one directory per lecture;
each component is modelled at its last version.

## 1. Inventory

| component | state | operations | interacts with |
|---|---|---|---|
| uthread scheduler (`uthreads/uthread/uthread.c`, `ctxswitch.s`) | descriptors, `number_of_threads`, `ready_queue`, `running_thread`, `main_thread` | `ut_init/create/run/yield/exit/deactivate/activate` | called by the synchronizers and by every thread |
| semaphores, events (`semaphore.c`, `event.c`, `waitblock.h`) | units, limit, queue of wait blocks on the waiting threads' stacks; `signaled` | `sem_init/wait/post`, `event_init/wait/set` | `ut_deactivate`, `ut_activate` |
| user-level queue (`tests/queue.c`) | list, `hasItems`, `hasSpace` | `queue_init/put/get` | semaphores |
| pgrep (`tests/pgrep.c`) | two queues, three threads | `reader`, `filter`, `presenter`, `main` | queue, scheduler |
| channel with mutex (`aula-06-03/servers_tests/ipc/memchannel`) | `iput`, `iget`, `size`, elements, mutex, two condition variables, in shared memory | `mc_create/open/put/get/destroy` | POSIX threads, several processes |
| channel with semaphores (`ipc/memchannel2`) | two semaphores, two atomic counters, elements | the same | POSIX semaphores |
| echo over channels (`echo_service/echo_memchannel`) | a channel of requests, one of responses per client | the server's loop, the client's loop | channel, `lib/memutils.c` |
| thread pool (`aula-05-13a/tpool.c`, `queue.c`) | list of work items, `destroying`, lock, threads | `tp_init/submit/destroy`, `oper_func` | POSIX threads |
| latch (`aula-05-13a/cdl.c`) | `counter`, mutex, condition variable | `cdl_init/signal_one/wait_for_all/destroy` | POSIX threads |
| parallel adder (`aula-05-13a/tp_adder.c`) | ranges, latch in a stack frame | `par_adder`, `oper_func` | pool, latch |
| parallel adder over its other pools (`aula-05-13`, `aula-05-13a/tpool2.c`, `tp_adder2.c`) | the same, with an atomic counter in the latch, or a list of free work items | the same | POSIX threads |
| thread results (`aula-04-29/uthreads`) | descriptors kept after the thread, results, waiting threads | `UtCreate/Run/Yield/Exit/GetThreadResult/TryGetThreadResult` | an earlier scheduler |
| echo over fifos (`echo_service/echo_fifo_channel`) | a fifo of the server, one per client | the server's loop, the client's loop | the kernel's fifos |
| echo servers over sockets (`echo_ip_selchannel`, `..._pollchannel`, `..._epollchannel`, `echo_ip_epoll_cb`, `echo_ipchannel`, `echo_udschannel`, `aula-06-08/echo_libuv`) | tables of clients, registrations, counts | accept, read and write, close | the kernel's sockets and readiness events, the pool, libuv |

What is hard in them, and what has to hold:

* **Scheduler.** Control leaves a function in the middle (`context_switch`) and
  comes back after other threads ran. The ready queue must link each
  schedulable thread once and no freed one; a switch must have a live target;
  ready threads run in order.
* **Synchronizers.** `sem_post` and `event_set` make several threads ready in a
  loop, over wait blocks on other threads' stacks. Nobody may be activated
  twice, while running, or forgotten; requests are served in order.
* **User-level queue and pgrep.** A thread resumes long after its `sem_wait` was
  granted, and removes a node without a test. Three threads block on one
  another.
* **Channels.** Signals after the mutex is released; positions taken atomically
  but copied later; any number of processes.
* **Echo over channels.** Processes are killed and started again; names of
  shared memory outlive them (`shmem_destroy` calls `unlink`, not
  `shm_unlink`).
* **Pool and latch.** Submitting races destroying; the latch lives in a stack
  frame that ends when the last signal has been seen.
* **Thread results.** A descriptor outlives its thread until somebody takes the
  result, and is freed by the exit itself when somebody waits already.
* **Servers.** Places in the table of clients are used again in the round in which
  they are left; events in a batch are about connections that an earlier event of
  the same batch closed; accept fails without descriptors; clients vanish at any
  moment, and a write to them raises a signal.

The complete list, with lines, is under `hazards` in `PROJECT.json`.

## 2. Modules

| module | models | extends / instantiates |
|---|---|---|
| `UThread` | the scheduler | |
| `USynch` | semaphores and events; a step of the model per step of their loops | extends `UThread`, shown to implement it |
| `ReadyOrder` | history: which thread became ready before which | extends `USynch` |
| `UQueue` | `queue_put`, `queue_get` | instance of `USynch`, implements `BoundedChannel` |
| `PGrep` | the pipeline | extends `UQueue` |
| `BoundedChannel` | abstract: a bounded first-in first-out channel | |
| `PThreads` | external: mutexes and condition variables, with spurious wakeups | |
| `MemChannel` | channel with a mutex | extends `PThreads`, implements `BoundedChannel` |
| `SemChannel` | channel with semaphores | implements `BoundedChannel` for one thread on each side |
| `EchoMem` | echo server and clients | uses the abstract channel |
| `EchoFifo` | echo server and clients over fifos | extends `EchoMem` (its variables) |
| `UtResults` | threads with results | |
| `Sockets` | the client program; external: connections, descriptors | |
| `EventLoop` | what the servers with one thread share | extends `Sockets` |
| `SelectServer`, `PollServer`, `EpollServer`, `CallbackServer`, `UvServer` | one server each | extend `EventLoop` |
| `ConnServers` | the sequential server over local sockets, and the concurrent one over the pool | extends `EventLoop` |
| `EchoServers` | any one of the servers with its clients, and what all promise | extends the seven |
| `ThreadPool` | pool and its queue | extends `PThreads` |
| `Latch` | latch | extends `PThreads` |
| `ParAdder` | the adder, in which work items signal the latch | extends `ThreadPool`, `Latch` |
| `EarlyAdder` | the pool, the latch and the adder of `aula-05-13` | extends `ParAdder` (its variables) |
| `FreeListAdder` | the pool with a free list, and its adder | extends `ParAdder` |
| `USynchProofs` | theorems about the scheduler and the synchronizers | extends `ReadyOrder` |
| `UQueueProofs` | about the user-level queue and pgrep | extends `PGrep`, instance of `USynchProofs` |
| `UtResultsProofs` | about thread results | extends `UtResults` |
| `SemChannelProofs` | about the channel with semaphores | extends `SemChannel` |
| `MemChannelProofs` | about both channels, as the run `channels` has them | extends `MCChannels`, instance of `SemChannelProofs` |
| `EchoMemProofs` | about the echo services over shared memory and fifos | extends `MCEchoMem` |
| `ParAdderProofs` | about the adder over its three pools, the pool alone and the latch alone | extends `MCParAdder` |
| `EchoServersProofs` | about the seven echo servers over sockets | extends `EchoServers` |

`MC...` modules give the constants of a run; each `.cfg` names its bounds. Some of
them choose in the initial state which of several programs runs (`MCQueues`,
`MCChannels`, `MCEchoMem`, `MCParAdder`), and state the property that the
programs have in common from the properties of each.
Operators called "mutant" are plausible faults of the code, which the listed
property detects; nothing else uses them.

### Correspondence

* **UThread.** The variables are those of `uthread.c`; `threads` is the set of
  allocated descriptors. An action is a call up to the point where another
  thread runs: everything in between is executed by one operating-system
  thread. `aborted` is a failed assertion. `ContextSwitch` and `InternalExit`
  are the assembly routines. Sequences stand for the intrusive lists.
* **USynch.** `waiters[s]` holds the wait blocks, `posting` and `setting` say
  which loop is under way, `visited` how far `event_set` is. `evwaiters` is not
  emptied by `event_set`, as in the code; the wait blocks it has passed are
  dead. `Spec` sets an event once, `SpecSetAgain` does not have that rule.
* **ReadyOrder.** `before` holds the pairs of ready threads of which the first became
  ready before the second. It is updated from which threads are in the list before and
  after a step, and not from their places in it: a list that inserts at the head, or
  that is emptied from the tail, contradicts it. No action reads it. Its value follows from
  what happened to the threads that are ready now, and it adds no states to the run.
* **UQueue.** `pc` is where a thread is between its `sem_wait` and the return;
  `val[q][t]` is what it got. A client makes any calls, on any queue, and also
  yields, creates threads and ends.
* **PGrep.** `todo` is the next call of each thread's function. A line is a model
  value, and "contains the word" is a set.
* **MemChannel.** One action for each of lock, wait, copy, update with unlock,
  and signal, which comes after the unlock. A put takes effect when `size`
  changes, a get when the element is copied: that is the refinement mapping.
* **SemChannel.** A copy is two steps, and a read of an element that is being
  written is the value `Torn`: the undefined behaviour of the data race, as
  anything that is not an item. The counters are kept modulo the capacity,
  which is all that is used of them; their overflow, after 2^63 calls, is not
  modelled.
* **ThreadPool.** `queue_put` and `queue_get` hold the lock of the queue
  throughout, hence they are atomic (a waiting `queue_get` is two steps); the
  lock of the pool is modelled. `accepted` and `executed` are history.
* **Latch.** `at` is where each call of the latch is. `LatchDestroy` ends the
  life of the latch.
* **EchoMem.** `NONE` is a name nothing was created with. `mc_create` empties an
  existing channel. A crash happens between calls of the channel.
* **EchoFifo.** The protocol of `EchoMem`, over fifos: an open for writing waits for
  a reader, a fifo loses what it holds when its last process closes it, and a
  write without a reader fails unnoticed, as the signal is ignored.
* **UtResults.** An operation is one step up to the context switch, as in
  `UThread`. `mem` is the life of a descriptor, `block` the result in the wait
  block on the stack of a waiter. Handles that were freed are not used again:
  the library cannot tell, and its callers must.
* **Sockets, EventLoop.** `fd` maps descriptors to connections: an accept takes the
  lowest that is free, so that a number is used again at once. `srvEnd` and `cliEnd` say
  what each side knows of the other: up, closed, or closed with a reset. Messages
  are read and written whole. `ready` is what the last call of select, poll or
  epoll_wait reported, and stays as it was while the loop goes on.
* **Servers.** One action per branch of the loop's body: accept, its failures,
  a message, the end of a connection. The table of poll keeps `revents` in the
  entries, as the code does, also in those left over. libuv is external: it calls
  the callbacks one at a time, and closes handles later.
* **EarlyAdder.** As `ThreadPool` and `Latch`, but for what is listed at its head;
  `pool->terminated` is `destroying`. The frame of the latch that is left while
  the last signaller is inside is not followed further: `par_adder` is called once, and
  what that signaller does to the frame of the next call (`tp_adder.c` makes 50) is not
  modelled.
* **FreeListAdder.** `free` is the list of places, `item[w]` the place worker `w`
  holds; the places are numbered, as the elements of `freepool` are. What is done
  with the lock of the pool held is one step. The latch is its counter: `Latch`
  has it in detail.

## 3. Runs

| run | what it asks | bounds, and why they are enough |
|---|---|---|
| `usynch` | Is the ready queue sound, does a thread that gets the processor become ready before all that are still ready, does every switch have a live target, are waiting and blocked threads the same, is no wakeup lost, is the semaphore first come first served, does every ready thread run and every waiter of a set event, and do the synchronizers use the scheduler legally? | 3 threads, 2 semaphores with limit 2, requests of 1 or 2, 1 event: two threads wait while a third posts; a post serves none, one or both, or is clamped |
| `usynch_blocked` | Does `ut_run` return only when all threads have exited, as its comment says? **No.** | 1 semaphore is enough |
| `usynch_set_again` | Does the ready queue link schedulable threads only, if an event is set twice? **No.** | 1 event |
| `queues` | Is the user-level queue a bounded FIFO channel for any users, and is a node always there to remove? Does pgrep print exactly the matching lines, in order, and end? | any users: 3 threads, one queue of 2 places (`qclient`), 2 items; pgrep: all files up to 4 lines, 2 matching contents, so that both queues (of 1 place, as in the code) fill and block both sides |
| `channels` | Is a wakeup ever lost? Are both ring buffers bounded channels? | with a mutex 3 threads in any role, 2 places: two wait while the third makes two calls before they run; with semaphores one thread on each side, 3 places, so that the ring wraps with elements in it |
| `sem_channel_many` | With two putters, does a get return items only? **No.** | 2 places |
| `par_adder` | Is work executed exactly once and before the queue is destroyed, is nothing put behind the NULL items, is the latch unused when the sums are read (but for the last signaller of the early version), is a free work item always found, does everything end? | 2 workers, 2 ranges, 1 other submitter with an item of its own: it races each step of `tp_destroy`; 3 rounds over 4 work items, the fewest that suffice (with 3 the list is found empty) |
| `thread_pool_two` | Is the queue unused when destroyed, if two threads call `tp_destroy`? **No.** | 1 submitter |
| `echo_mem` | Does a client get its own responses only, is the server held up by nobody (over fifos by none but killed clients), do clients finish? | 3 clients, 2 places in shared memory, 2 requests each, 2 processes killed: a full server channel, a lost request, and a fifo without a reader happen |
| `echo_servers` | For each of the seven servers: do the tables agree with the kernel's, does a client get its own responses only, does the server wait for no client and survive each, does it close only connections that are gone, do all clients finish, does the server end when told? | 3 clients with 1 or 2 requests, 1 of them may be killed; 2 places in the tables, so that the third is refused; 2 or 3 descriptors, so that accept fails; events in batches smaller than what is ready |
| `echo_poll` | Does the server with poll read only where something arrived? **No.** | the same |
| `ut_results` | Is every linked thread alive and linked once, does everybody who asks get what the thread returned, does the program end with nobody left waiting? | 4 threads, 2 values: three wait for the fourth, or in a chain |

Deadlock is checked in every run: where a program really ends, an action
(`Ended`, `Aborted`, `Idle`) says so.

Fairness. The scheduler is cooperative, hence `Fairness` of `USynch` assumes that a
running thread gives the processor up again and again, that `ut_run` is called,
and that the library's loops go on; `UtResults` that no thread yields for ever
instead of returning. `PGrep` needs only that the single operating-system thread
executes. In `ParAdder`, `EarlyAdder` and `EchoMem` each thread or process runs,
and one that waits for a mutex (for space) gets it if it is free again and again
(strong fairness); `EchoFifo`, `FreeListAdder` and the servers need only that
threads and processes run. Nothing makes other threads submit, spurious wakeups
happen, processes be killed or started again, or anybody type a line.

`ServiceEnds` and `EndsWhenTold` hold if there are descriptors enough for all the
clients, or the server can do without (`Enough`): the loops with select, poll,
epoll and callbacks leave the round when accept fails, and then serve nobody.
`ServiceEnds` also names the descriptors that `ap_close` (`loop.c`) keeps. `ClientsFinish`
is about runs in which nothing is killed; `ServerStays` and `SurvivesClients` are about
those in which clients are, but allow what the code does then to a server over fifos (it
waits for the reader that was killed) and over local sockets (the signal ends it).
`ClosesOnlyGone` is about connections in the table of a server: those that are refused at
a full table, and those still to be accepted when the server stops, are closed with their
clients there.

### What the violated runs show

* `usynch_blocked`: `extract_next_thread` returns the main thread whenever the
  ready queue is empty. With threads blocked the assertion
  `number_of_threads == 0` of `ut_run` fails (without assertions the threads are
  abandoned). The comment of `ut_run` says otherwise.
* `usynch_set_again`: `event_set` does not empty the list of wait blocks. A
  second call activates threads that ran on, here one that has exited. The model
  reads the dead wait block as it was left, which is one outcome of the read.
* `sem_channel_many`: a putter that has copied posts for a place that an earlier
  putter has not written yet.
* `thread_pool_two`: the destruction of the queue is outside the branch that only
  the first caller enters.
* `echo_poll`: `add_client` does not clear `revents`, and `process` looks at all
  entries after it has accepted: an entry in which a connection was reported
  before makes it read from the new connection, which has sent nothing. The
  server then waits for that one client.

## 4. Proofs

Each theorem holds for every value of the constants that the named assumptions
allow; TLC evaluates them in the runs. The inductive invariants were checked by TLC on
the configuration of the run before they were proved. Most theorems are about the very
specification of a run and state the property the run checks: **every safety property,
action property and refinement that a run finds to hold is proved**, and what stays with
TLC is liveness.

The assumptions that are more than types:

| assumption | says | because |
|---|---|---|
| `HandlesAssumption`, `QueueAssumption` | the main thread is no user thread; queues have a size of at least 1 | `main_thread` is a variable of `ut_run`; `queue_init` with size 0 is of no use |
| `SemsAssumption` | the initial units do not exceed the limit | every call of `sem_init` in the tests |
| `PGrepParameters` | three threads, two queues of one place, the items are lines or NULL | `main` of `pgrep.c` |
| `ParAdderAssumption` | `main` destroys the pool; it may not be alone | `tp_adder.c` |
| `SocketsAssumption` | each client sends at least one request | the client program |
| `FreeListAssumption` | there are at least as many free places as ranges and workers together | the code has 1024 for 20; with one place less than the run has, TLC finds the list empty |
| `EventLoopAssumption` | the size of the table and the descriptors are numbers, and `NONE` is not one | they are `int`s, and -1 is no descriptor |
| `ConnAssumption` | the main thread is no worker | `tp_init` creates the workers |

### User threads

`USynchProofs`, first about the scheduler alone: types, soundness of the ready
queue, live switch targets, the count of threads. Their conjunction, `UtInv`, is
inductive.

Then about the synchronizers. `SynchInv` is `UtInv`, the types, `LoopsSound` (no two
loops are under way, and the loop of an event is at a wait block of a signaled
event), and `WaitsSound`. `WaitsSound` is not inductive without `LoopsSound`: which
wait blocks of an event count depends on how far the loop is. From it follow the
implementation of `UThread` (every activation is of a blocked thread), first come
first served, and, **assuming that no request is for zero units**, that no wakeup is
lost. Without the assumption the last is false: a request of zero units behind
another stays in the queue when the loop ends with no units left, against the
comment of the loop ("Release all blocked thread whose request can be satisfied.").

`SchedulerFifo` is about the specification with the history (`OrderSpec`, each behaviour
of which is one of `Spec`: `OrderSpecUses`). Its invariant `OrderInv` says that `before`
**is** the order of the ready queue. An insertion at the tail puts the new thread after all
others (`OrderAppend`), a removal of the head leaves the order of the others
(`OrderTail`), and every operation of the scheduler is one, the other, both or neither
(`QueueStep`). A thread that is switched to is the head (`HeadRunsNext`), so that none that is
ready is before it.

`UQueueProofs` is about any threads that put and get on any number of queues of any
sizes. A queue uses its semaphores only by their operations, hence `SynchInv` holds
here too and is taken from `USynchProofs` by instance. The rest of the invariant is
an account: the units of a queue's two semaphores and the threads that hold one add
up to its size, and those of `hasItems` to the nodes in the list. So a thread that resumes
from `sem_wait`, however long after the grant, finds its node (`QueuesAreSound`),
and each queue implements `BoundedChannel` (`QueuesImplementChannels`).

The second half of `UQueueProofs` is pgrep, for a file of any length, any lines and any
word. Each step of pgrep is a step of the queue, hence the invariant above holds. What
is added follows the items: the filter has taken n of them, has passed p on, and the
presenter has taken g (`DataInv`). What is in the first queue are the items n+1, n+2, ...
of the file and then NULL (`ReaderInv`); what is in the second, what the presenter holds
and what it has printed are those that pass, with their numbers (`FilteredInv`,
`PresenterInv`); and n and p agree up to the item in the filter's hands (`FilterInv`,
`Pending`). The number of an item among those that pass is a cardinality (`Passed`), so
that no recursion over the file is needed; `MatchesAssumption` has TLC compare
`MatchesOf` with `SelectSeq`. `PipelinePrintsInOrder` is then a lemma about numbers
(`OutLine`). For `PipelineEndsClean`, main is past `ut_run` without a failed assertion
only if no thread exists, hence each function has returned, hence NULL has gone through
both queues: it is the last item, so that n, p and g are all they can be, the queues are
empty, and with nobody holding a unit the semaphores are as at the beginning.

`UtResultsProofs`: a queue or a wait block links allocated descriptors only, each
once, and everybody who asks gets the result that the thread left. Descriptors are
freed in two places (by the exit, if somebody waits; by the taker otherwise): the
invariant says for each thread in which of its lives the descriptor is and who may
still name it. The model's bound, that a thread waits only for threads with greater
numbers, is part of the specification: without it threads can wait in a circle.

### Channels

`MemChannelProofs`: the types, the agreement of `iput`, `iget` and `size`, and that
the channel with a mutex implements `BoundedChannel`. The inductive invariant adds
`Critical`: a thread between copying and updating the indexes owns the mutex, so
that there is at most one, and what its while loop tested still holds. The
refinement is an argument about segments of the ring (`SegmentAppend`,
`SegmentTail`, `SegmentNext`, `SegmentExcept`), for indexes that wrap at any
capacity. `ChannelNoLostWakeup`: with `WaitersSound` (a thread that waits is in its
loop and does not own the mutex) `NoLostWakeup` is inductive. Each step takes a
thread off the way to the items, puts one there, or exchanges one for another, and
the size changes accordingly.

`SemChannelProofs` has two parts, which `MemChannelProofs` applies to the run's
instance. For any number of threads the places of the ring are conserved: free,
full, or with one thread that will post them. For **one thread that puts and one
that gets** the copies never overlap, a get returns an item in one piece, and the
ring implements `BoundedChannel`. With two threads on a side that is false, as the
run `sem_channel_many` shows: a post then says that some place was written, not
that the next one was.

### Pools and the adder

`ParAdderProofs` proves the four safety properties of `par_adder`, for any number of
workers, of ranges, of other submitters, of places and of rounds. There are two
invariants.

* `AdderInv`, for the pools of `aula-05-13a/tpool.c` and `aula-05-13`. The lock of
  the pool is held from the second test of `destroying` to the end of `tp_submit`,
  and by whoever puts NULL items; `destroying` is set before the first NULL; once
  there is a NULL, or a worker has ended, no submitter is past its test. Each
  accepted item is queued once, with one worker, or executed, and a range is in
  the latch only while it is executed. In the early version the flag is set with the
  lock held, hence *no* submitter is past its test when it is set: that is what lets
  workers leave work behind and still nothing be put behind a NULL.
* The latch in it: `counter` is the number of calls that have not counted, a call
  inside holds the mutex, and the waiter past its loop saw zero. In the early version,
  where the counter is atomic, only the last call goes on when it has counted, so
  that one at most is inside when the waiter returns.
* `FreeInv`, for `tpool2.c`. Each place is free, queued or held by one worker. When
  a range is submitted, the queued places hold different ranges, none of them the
  new one, and each worker holds one place at most: the places in use are fewer than
  ranges and workers together, so that one is free (`FreeFound`).

`LatchWaitsForAll` is about the latch alone, with any callers. `PoolPillsLast` is about
the pool alone, with any number of threads that call `tp_destroy` at any moment, which
the adder does not do: still no item gets behind a NULL.

### Echo services over channels

`EchoMemProofs`, for any number of clients, requests and places, over shared memory
and fifos. Of each client there is one request at most, in the server's channel, in
the server's hands, or answered, and only while its sender waits for the response or
was killed: from it `ClientsEchoed` follows. That the server's fifo, which has no
bound in the code, holds no more requests than there are clients, is a pigeonhole
argument over the same invariant. `ServerStays` says that nothing in the server
ends it, and that only a killed client can hold it up over fifos.

### Echo servers over sockets

`EchoServersProofs`, for any number of clients and requests, any size of the tables,
any number of descriptors, and whoever is killed. The run has
seven servers in one specification, and so has the invariant, `EchoInv`.

* `NetInv` is what all servers owe to the kernel and to one another. `Links`: an
  accepted connection has one descriptor, one that waits to be accepted has one place in
  the backlog, none is both, and the server has closed neither. `ServingSound`: a thread
  serves an open connection that no other serves, and has read nothing otherwise.
  `Conversation`, for each client: the one message it can have is on its way to the
  server, in one thread's hands, on its way back, or not there at all, as the place of the
  client demands. `EchoesOwn` follows from it, but is far from inductive by itself: that
  a server never answers the wrong client needs `Links`, because a descriptor is used
  again as soon as it is closed.
* `ServerInv` has a part for each server: its table agrees with the kernel's, and what
  the last `select`, `epoll_wait`, ... reported **is still there when the loop comes to
  it**. That is the heart of `NeverBlocks`: between the report and the read other
  entries of the batch are served, connections are closed and others accepted with the
  same numbers. It holds for select because a new entry is not looked at before the next
  call, for epoll and the callbacks because an event is for a connection that nobody else
  closes. `PollInv` does not say it, since for poll it is false (`echo_poll`).
* Clients only add to what a server may have seen (`ClientsKeep`): what was readable
  stays readable, an end stays an end. So the steps of the clients keep the invariants of
  all servers with one argument, and each server's steps have to be compared only with
  its own tables.

From it follow `ServersTablesSound`, `ServersEchoOwn`, `ServersNeverBlock`,
`ServersSurvive` (the server writes to no connection that has been reset, which would raise a signal) and,
step by step, the action property `ServersCloseOnlyGone` (the step that frees a descriptor
in a table closes a connection whose client has closed its end, or is the signal).

### Only model-checked

* Liveness, everywhere (`ReadyRuns`, `EventReleases`, `PipelineTerminates`, `ItemsDone`,
  `AdderEnds`, `ClientsFinish`, `ServiceEnds`, `EndsWhenTold`, `RunEnds`): TLAPS does
  not reason about fairness and `ENABLED`.
* That `MatchesOf` is what `SelectSeq` computes: `SelectSeq` is defined by recursion over
  the data, and the provers cannot instantiate the induction it takes. TLC compares the
  two on all the files of the run.
* The five violated runs are counterexamples of TLC: nothing is to be proved there.

## 5. Not modelled, and the plan

Not modelled for good: clocks, memory information, the unit-test framework,
one-page demonstrations of system calls, the intrusive list (sequences stand for
it), and earlier versions of uthreads. The repository keeps a copy of most
programs in each lecture's directory, and each is modelled once, at its last
version or where versions differ: the map therefore covers a small share of all
the lines, though most of the lines that are not copies and that keep state.
Formatting, logging and sizes of messages are abstracted everywhere.

Abstracted: destruction of a channel in use (a server may signal a condition
variable that its client has destroyed), processes killed inside a critical
section (the mutex is not robust), channels opened while they are created, failed
allocations (also `mc_create` of a client's response channel, which the client does not
notice: it tests the other channel), messages read or written in part, work items that submit others
while the early pool is destroyed, work items without a function in `tpool2.c`
and its `tp_destroy`, which nobody calls, and the use of a thread's handle after
its result was taken.

What is left, in order:

1. Destruction of channels in use, in `EchoMem`.
2. Partial reads and writes on sockets, and `Conversation` for a message in pieces.
3. Submissions from inside a work item, in `ThreadPool`.
