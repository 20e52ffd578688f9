----------------------------- MODULE UtResults -----------------------------
(***************************************************************************)
(* The results of threads in the uthread library of                        *)
(* src/aula-04-29/uthreads (uthread/uthread.c, ctxswitch.s): UtExit leaves *)
(* a result, UtGetThreadResult waits for it, UtTryGetThreadResult takes it *)
(* and frees the descriptor.                                               *)
(*                                                                         *)
(* As in UThread, the running thread keeps the processor until it calls an *)
(* operation, and an operation is one step up to the context switch. What  *)
(* UtGetThreadResult does after the switch is done when the thread is      *)
(* resumed. The field state is left out: only ut_get_state reads it.       *)
(***************************************************************************)
EXTENDS Naturals, Sequences, FiniteSets

CONSTANTS
  Threads,  \* the descriptors malloc returns, each once: a set of numbers
  Values,   \* what threads return
  Main, NULL

ASSUME UtResultsAssumption ==
  /\ Threads \subseteq Nat /\ IsFiniteSet(Threads)
  /\ Main \notin Threads /\ NULL \notin Threads \cup Values \cup {Main}

VARIABLES
  ready_queue, running_thread, number_of_threads,
  main,        \* the main program: "creates", "runs" (is in UtRun), "takes"
  mem,         \* each descriptor: "none", "live", "kept" without stack, "freed"
  hasResult, res, res_waiters,  \* its fields
  waitsFor,    \* the thread whose result it waits for in UtGetThreadResult
  block,       \* the result in its wait block
  returned,    \* what each thread's function returned
  got          \* the results that were given: who got which value of whom

fields == <<hasResult, res, res_waiters>>
vars == <<ready_queue, running_thread, number_of_threads, main, mem, fields,
          waitsFor, block, returned, got>>

Users == Threads \cup {Main}

Init ==
  /\ ready_queue = <<>> /\ running_thread = NULL /\ number_of_threads = 0
  /\ main = "creates"
  /\ mem = [t \in Threads |-> "none"]
  /\ hasResult = [t \in Threads |-> FALSE] /\ res = [t \in Threads |-> NULL]
  /\ res_waiters = [t \in Threads |-> <<>>]
  /\ waitsFor = [t \in Threads |-> NULL] /\ block = [t \in Threads |-> NULL]
  /\ returned = [t \in Threads |-> NULL]
  /\ got = {}

-----------------------------------------------------------------------------
(***************************************************************************)
(* The scheduler.                                                          *)
(***************************************************************************)

ExtractNextReadyThread(queue) == IF queue = <<>> THEN Main ELSE Head(queue)
Rest(queue) == IF queue = <<>> THEN queue ELSE Tail(queue)

\* Schedule, on the queue given.
Schedule(queue) ==
  /\ ready_queue' = Rest(queue)
  /\ running_thread' = ExtractNextReadyThread(queue)

-----------------------------------------------------------------------------
(***************************************************************************)
(* The operations.                                                         *)
(***************************************************************************)

\* The code of t runs: a thread, outside of any operation.
Runs(t) == t \in Threads /\ running_thread = t /\ waitsFor[t] = NULL

\* Before UtRun the main program creates threads, and later any thread does.
UtCreate(t) ==
  /\ main = "creates" \/ \E u \in Threads : Runs(u)
  /\ mem[t] = "none"
  /\ mem' = [mem EXCEPT ![t] = "live"]
  /\ number_of_threads' = number_of_threads + 1
  /\ ready_queue' = Append(ready_queue, t)
  /\ UNCHANGED <<running_thread, main, fields, waitsFor, block, returned, got>>

UtRun ==
  /\ main = "creates" /\ ready_queue # <<>>
  /\ main' = "runs"
  /\ Schedule(ready_queue)
  /\ UNCHANGED <<number_of_threads, mem, fields, waitsFor, block, returned, got>>

\* The end of UtRun, when the main thread is resumed.
UtRunReturns ==
  /\ main = "runs" /\ running_thread = Main
  /\ main' = "takes" /\ running_thread' = NULL
  /\ UNCHANGED <<ready_queue, number_of_threads, mem, fields, waitsFor, block, returned, got>>

UtYield(t) ==
  /\ Runs(t) /\ ready_queue # <<>>
  /\ Schedule(Append(ready_queue, t))
  /\ UNCHANGED <<number_of_threads, main, mem, fields, waitsFor, block, returned, got>>

\* Mutants of UtExit: only the first waiter gets the result; the result is kept,
\* as if nobody waited, and the descriptor is freed all the same.
UtExitFirstOnly(t) ==
  \E v \in Values :
    /\ Runs(t)
    /\ number_of_threads' = number_of_threads - 1
    /\ returned' = [returned EXCEPT ![t] = v]
    /\ LET w == res_waiters[t]
           queue == IF w = <<>> THEN ready_queue ELSE Append(ready_queue, Head(w))
       IN  /\ hasResult' = [hasResult EXCEPT ![t] = w = <<>>]
           /\ res' = [res EXCEPT ![t] = IF w = <<>> THEN v ELSE @]
           /\ block' = [u \in Threads |-> IF w # <<>> /\ u = Head(w) THEN v ELSE block[u]]
           /\ res_waiters' = [res_waiters EXCEPT ![t] = Rest(w)]
           /\ mem' = [mem EXCEPT ![t] = IF w = <<>> THEN "kept" ELSE "freed"]
           /\ Schedule(queue)
    /\ UNCHANGED <<main, waitsFor, got>>

UtExitKeeps(t) ==
  \E v \in Values :
    /\ Runs(t)
    /\ number_of_threads' = number_of_threads - 1
    /\ returned' = [returned EXCEPT ![t] = v]
    /\ LET w == res_waiters[t]
           queue == ready_queue \o w
       IN  /\ hasResult' = [hasResult EXCEPT ![t] = TRUE]
           /\ res' = [res EXCEPT ![t] = v]
           /\ block' = [u \in Threads |-> IF \E i \in 1..Len(w) : w[i] = u THEN v ELSE block[u]]
           /\ res_waiters' = [res_waiters EXCEPT ![t] = <<>>]
           /\ mem' = [mem EXCEPT ![t] = "freed"]
           /\ Schedule(queue)
    /\ UNCHANGED <<main, waitsFor, got>>

\* UtExit with the value that the function returned, internal_exit and
\* cleanup_thread: without waiters the descriptor stays, with the result; with
\* waiters each gets the result in its wait block, and is activated.
UtExit(t) ==
  \E v \in Values :
    /\ Runs(t)
    /\ number_of_threads' = number_of_threads - 1
    /\ returned' = [returned EXCEPT ![t] = v]
    /\ LET w == res_waiters[t]
           queue == ready_queue \o w
       IN  /\ hasResult' = [hasResult EXCEPT ![t] = w = <<>>]
           /\ res' = [res EXCEPT ![t] = IF w = <<>> THEN v ELSE @]
           /\ block' = [u \in Threads |-> IF \E i \in 1..Len(w) : w[i] = u THEN v ELSE block[u]]
           /\ res_waiters' = [res_waiters EXCEPT ![t] = <<>>]
           /\ mem' = [mem EXCEPT ![t] = IF w = <<>> THEN "kept" ELSE "freed"]
           /\ Schedule(queue)
    /\ UNCHANGED <<main, waitsFor, got>>

\* Who may call the operations on results: a thread, and the main program at the
\* end. The handle u must not have been freed: that is for the callers to know.
MayAsk(t, u) ==
  /\ Runs(t) \/ (t = Main /\ main = "takes")
  /\ t # u /\ mem[u] \in {"live", "kept"}

\* UtTryGetThreadResult of a thread that has left its result; otherwise the call
\* returns FALSE and changes nothing.
UtTryGetThreadResult(t, u) ==
  /\ MayAsk(t, u)
  /\ hasResult[u]
  /\ got' = got \cup {[by |-> t, of |-> u, value |-> res[u]]}
  /\ mem' = [mem EXCEPT ![u] = "freed"]
  /\ UNCHANGED <<ready_queue, running_thread, number_of_threads, main, fields, waitsFor, block, returned>>

\* UtGetThreadResult, up to UtDeactivate; with a result it is UtTryGetThreadResult.
\* Bound: a thread waits only for threads with greater numbers, so that no two
\* wait for each other.
UtGetThreadResult(t, u) ==
  /\ Runs(t) /\ MayAsk(t, u) /\ u > t
  /\ ~hasResult[u]
  /\ res_waiters' = [res_waiters EXCEPT ![u] = Append(@, t)]
  /\ waitsFor' = [waitsFor EXCEPT ![t] = u]
  /\ Schedule(ready_queue)
  /\ UNCHANGED <<number_of_threads, main, mem, hasResult, res, block, returned, got>>

\* The rest of UtGetThreadResult, when the thread is resumed.
UtGetThreadResultReturns(t) ==
  /\ running_thread = t /\ waitsFor[t] # NULL
  /\ got' = got \cup {[by |-> t, of |-> waitsFor[t], value |-> block[t]]}
  /\ waitsFor' = [waitsFor EXCEPT ![t] = NULL]
  /\ block' = [block EXCEPT ![t] = NULL]
  /\ UNCHANGED <<ready_queue, running_thread, number_of_threads, main, mem, fields, returned>>

\* The program ends.
Ended == main = "takes" /\ UNCHANGED vars

Next ==
  \/ UtRun \/ UtRunReturns \/ Ended
  \/ \E t \in Threads : UtCreate(t) \/ UtYield(t) \/ UtExit(t) \/ UtGetThreadResultReturns(t)
  \/ \E t \in Users, u \in Threads : UtTryGetThreadResult(t, u) \/ UtGetThreadResult(t, u)

\* The operations go on, and no thread yields for ever instead of returning.
Spec ==
  /\ Init /\ [][Next]_vars
  /\ WF_vars(UtRunReturns)
  /\ \A t \in Threads : WF_vars(UtGetThreadResultReturns(t)) /\ SF_vars(UtExit(t))

-----------------------------------------------------------------------------
(***************************************************************************)
(* Properties.                                                             *)
(***************************************************************************)

InQueue == {ready_queue[i] : i \in 1..Len(ready_queue)}
WaitersOf(u) == {res_waiters[u][i] : i \in 1..Len(res_waiters[u])}

\* Every thread that is linked, in the ready queue or in the waiters of another,
\* has a stack to run on and is linked once; those that wait do so for a thread
\* that has not returned, and when UtRun returns all have: the assertions of UtRun.
ResultsSound ==
  LET live == {t \in Threads : mem[t] = "live"}
      waiting == UNION {WaitersOf(u) : u \in Threads}
  IN  /\ InQueue \cup waiting \cup ({running_thread} \cap Threads) = live
      /\ Cardinality(live) = number_of_threads
      /\ InQueue \cap waiting = {} /\ running_thread \notin InQueue \cup waiting
      /\ Cardinality(InQueue) = Len(ready_queue)
      /\ \A u \in Threads :
           /\ Cardinality(WaitersOf(u)) = Len(res_waiters[u])
           /\ WaitersOf(u) # {} => mem[u] = "live"
           /\ hasResult[u] => mem[u] \in {"kept", "freed"}
      /\ running_thread = Main => live = {}

\* Whoever asked for a result gets what the thread returned, whether the question
\* came before the end of the thread or after it; a descriptor is freed only when
\* its result was taken, or is in the wait blocks of all who asked.
RightResults ==
  /\ \A g \in got : g.value = returned[g.of]
  /\ \A u \in Threads : mem[u] = "freed" =>
       \/ \E g \in got : g.of = u
       \/ \E t \in Threads : waitsFor[t] = u /\ block[t] = returned[u]

\* UtRun returns, and no thread is left that waits for a result.
RunEnds ==
  main = "runs" ~> main = "takes" /\ number_of_threads = 0 /\ \A t \in Threads : waitsFor[t] = NULL
=============================================================================
