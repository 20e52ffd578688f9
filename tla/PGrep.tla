------------------------------- MODULE PGrep -------------------------------
(***************************************************************************)
(* The pipeline of src/uthreads/tests/pgrep.c: a reader, a filter and a    *)
(* presenter, three user threads joined by two bounded queues of one       *)
(* place.  NULL, put behind the last line, ends each stage.                *)
(*                                                                         *)
(* A line is a model value; whether it contains the word is membership of  *)
(* Matching.  The scheduler, the semaphores and the queues are those of    *)
(* UThread, USynch and UQueue, step by step.                               *)
(***************************************************************************)
EXTENDS UQueue, Functions

CONSTANTS
  reader, filter, presenter,  \* the user threads
  qreader, qfilter,           \* the queues, of one place each
  Lines,                      \* the contents a line can have
  Matching,                   \* those that contain the word
  MaxLines                    \* bound: the longest file

\* What main and the functions fix: three threads, two queues of one place, and
\* the pointers to lines, or NULL, in them.
PGrepParameters ==
  /\ Threads = {reader, filter, presenter}
  /\ reader # filter /\ reader # presenter /\ filter # presenter
  /\ {qreader, qfilter} \subseteq Queues
  /\ qreader # qfilter
  /\ Size[qreader] = 1 /\ Size[qfilter] = 1
  /\ Items = Lines \cup {NULL}
  /\ NULL \notin Lines
  /\ Matching \subseteq Lines
  /\ MaxLines \in Nat

VARIABLES
  file,      \* the lines of the file; none as well when fopen fails
  read,      \* how many items the reader has put in qreader
  todo,      \* the next thing each thread's function does: put, get or exit
  main,      \* where the main function is
  shown      \* the lines printed

pgrepVars == <<file, read, todo, main, shown>>
allVars == <<vars, pgrepVars>>

PGrepInit ==
  /\ Init
  /\ file \in UNION {[1..n -> Lines] : n \in 0..MaxLines}
  /\ read = 0
  /\ todo = [t \in Threads |-> IF t = reader THEN "put" ELSE "get"]
  /\ main = "create reader"
  /\ shown = <<>>

-----------------------------------------------------------------------------
(***************************************************************************)
(* The main function.                                                      *)
(***************************************************************************)

MainStep(from, to) == main = from /\ main' = to

MainProgram ==
  /\ running_thread \in {NULL, Main}
  /\ \/ MainStep("create reader", "create filter") /\ Lib!UtCreate(reader)
     \/ MainStep("create filter", "create presenter") /\ Lib!UtCreate(filter)
     \/ MainStep("create presenter", "ut_run") /\ Lib!UtCreate(presenter)
     \/ MainStep("ut_run", "running") /\ Lib!UtRun
     \/ MainStep("running", "ut_end") /\ Lib!UtRunReturn
  /\ UNCHANGED <<units, waiters, posting, signaled, evwaiters, setting, visited, queueVars>>
  /\ UNCHANGED <<file, read, todo, shown>>

-----------------------------------------------------------------------------
(***************************************************************************)
(* The threads' functions.                                                 *)
(***************************************************************************)

\* The reader puts the lines of the file, then NULL.
ReaderItem == IF read < Len(file) THEN file[read + 1] ELSE NULL

\* Mutants of ReaderTodo: the reader ends without putting NULL; it puts NULL twice.
ReaderTodoNoEnd == IF read >= Len(file) THEN "exit" ELSE "put"
ReaderTodoTwoEnds == IF read > Len(file) + 1 THEN "exit" ELSE "put"

\* What the reader does after queue_put returned.
ReaderTodo == IF read > Len(file) THEN "exit" ELSE "put"

\* Mutant of FilterTodo: every line is passed on.
FilterTodoAll == IF todo[filter] = "get" THEN "put"
                 ELSE IF val[qreader][filter] = NULL THEN "exit" ELSE "get"
\* What the filter does after queue_get, or queue_put, returned: it passes on
\* the lines that contain the word, and NULL before it ends.
FilterTodo ==
  LET line == val[qreader][filter]
  IN CASE todo[filter] = "get" /\ line \in Matching \cup {NULL} -> "put"
       [] todo[filter] = "get" /\ line \notin Matching \cup {NULL} -> "get"
       [] todo[filter] = "put" -> IF line = NULL THEN "exit" ELSE "get"

\* The presenter prints what it gets, until NULL.
PresenterTodo == IF val[qfilter][presenter] = NULL THEN "exit" ELSE "get"

Todo(t) ==
  CASE t = reader -> ReaderTodo
    [] t = filter -> FilterTodo
    [] t = presenter -> PresenterTodo

\* queue_put and queue_get, as each function calls them.
Call(t) ==
  /\ \/ t = reader /\ todo[t] = "put" /\ QueuePut(t, qreader)
     \/ t = filter /\ todo[t] = "get" /\ QueueGet(t, qreader)
     \/ t = filter /\ todo[t] = "put" /\ QueuePut(t, qfilter)
     \/ t = presenter /\ todo[t] = "get" /\ QueueGet(t, qfilter)
  /\ UNCHANGED pgrepVars

Inside(t) ==
  \/ /\ t = reader
     /\ PutInsert(t, ReaderItem)
     /\ read' = read + 1
     /\ UNCHANGED <<file, todo, main, shown>>
  \/ /\ t = filter
     /\ PutInsert(t, val[qreader][filter])
     /\ UNCHANGED pgrepVars
  \/ /\ GetRemove(t)
     /\ UNCHANGED pgrepVars
  \/ /\ PostServe
     /\ UNCHANGED pgrepVars

Return(t) ==
  /\ PostReturn(t)
  /\ todo' = [todo EXCEPT ![t] = Todo(t)]
  /\ shown' = IF t = presenter /\ Todo(t) = "get" THEN Append(shown, val[qfilter][t]) ELSE shown
  /\ UNCHANGED <<file, read, main>>

\* The function returns and internal_start calls ut_exit.
Exit(t) ==
  /\ pc[t] = "client"
  /\ todo[t] = "exit"
  /\ Lib!Idle
  /\ Lib!UtExit(t)
  /\ UNCHANGED <<units, waiters, posting, signaled, evwaiters, setting, visited, queueVars>>
  /\ UNCHANGED pgrepVars

\* The process ends: normally, or by a failed assertion of ut_run.
Ended == (main = "ut_end" \/ aborted) /\ UNCHANGED allVars

PGrepNext ==
  \/ MainProgram
  \/ \E t \in Threads : Call(t) \/ Inside(t) \/ Return(t) \/ Exit(t)
  \/ Ended

\* The one operating-system thread keeps executing.
PGrepSpec == PGrepInit /\ [][PGrepNext]_allVars /\ WF_allVars(PGrepNext)

-----------------------------------------------------------------------------
(***************************************************************************)
(* Properties.                                                             *)
(***************************************************************************)

\* The lines of a file that contain the word, in their order: the line at i is the
\* one with the number Rank(lines, i) among them.
Rank(lines, i) == Cardinality({j \in 1..i : lines[j] \in Matching})
MatchesOf(lines) ==
  [k \in 1..Rank(lines, Len(lines)) |->
     lines[CHOOSE i \in 1..Len(lines) : lines[i] \in Matching /\ Rank(lines, i) = k]]

Matches == MatchesOf(file)

\* The lines printed are those that contain the word, in the order of the
\* file: the two queues, each of one place, reorder and lose nothing.
PrintsInOrder ==
  Len(shown) <= Len(Matches) /\ \A k \in 1..Len(shown) : shown[k] = Matches[k]

\* The pipeline drains: when main is past ut_run, all matches were printed, no
\* thread is left behind, and the queues are as queue_init made them.
EndsClean ==
  main = "ut_end" /\ ~aborted =>
    /\ shown = Matches
    /\ threads = {}
    /\ \A q \in Queues :
         list[q] = <<>> /\ units[HasItems(q)] = 0 /\ units[HasSpace(q)] = Size[q]

\* Three threads that block on one another through four semaphores never all
\* block: ut_run returns, and its assertion number_of_threads == 0 holds.
Terminates == <>(main = "ut_end" /\ ~aborted)
=============================================================================
