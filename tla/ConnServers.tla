---------------------------- MODULE ConnServers ----------------------------
(***************************************************************************)
(* The echo servers that give a connection a thread for as long as it      *)
(* lasts: the main thread itself, one connection after the other           *)
(* (src/aula-06-03/servers_tests/echo_service/echo_udschannel, over local  *)
(* sockets), or the workers of the thread pool (echo_ipchannel).           *)
(*                                                                         *)
(* The pool is used by what ThreadPool shows of it: each submitted item is *)
(* done once, in order, and the items that tell the workers to end come    *)
(* after all the work.                                                     *)
(***************************************************************************)
EXTENDS EventLoop

CONSTANT Workers  \* the workers of the pool; the main thread serves alone

VARIABLES
  work,     \* the connections submitted and not taken
  serving,  \* the connection that a thread serves
  held      \* the message it has read and not written

connVars == <<work, serving, held>>
Main == "main"
Threads == Workers \cup {Main}

ASSUME ConnAssumption == Main \notin Workers

ConnInit ==
  /\ work = <<>>
  /\ serving = [t \in Threads |-> NONE] /\ held = [t \in Threads |-> <<>>]

\* run of the sequential server: accept, and process_connection at once.
LocalAccept(f) ==
  /\ server = "local" /\ pc = "wait"
  /\ serving[Main] = NONE
  /\ Accept(f)
  /\ serving' = [serving EXCEPT ![Main] = f]
  /\ UNCHANGED <<pc, work, held>>

\* run of the concurrent server: accept and tp_submit.
PoolAccept(f) ==
  /\ server = "pool" /\ pc = "wait"
  /\ Accept(f)
  /\ work' = Append(work, f)
  /\ UNCHANGED <<pc, serving, held>>

\* accept fails: run returns, and tp_destroy waits until the work is done.
PoolAcceptFails ==
  /\ server = "pool" /\ pc = "wait" /\ pc' = "destroy"
  /\ backlog # <<>> /\ Free = {}
  /\ UNCHANGED <<netVars, connVars>>

PoolEnd ==
  /\ server = "pool" /\ pc = "destroy" /\ pc' = "ended"
  /\ work = <<>> /\ \A t \in Threads : serving[t] = NONE
  /\ Shut(Open, TRUE)
  /\ UNCHANGED connVars

\* dispatch_connection, called by a worker.
Dispatch(w) ==
  /\ server = "pool" /\ pc \in {"wait", "destroy"}
  /\ serving[w] = NONE /\ work # <<>>
  /\ serving' = [serving EXCEPT ![w] = Head(work)]
  /\ work' = Tail(work)
  /\ UNCHANGED <<netVars, pc, held>>

\* The connection of thread t, between the calls of process_connection.
Serves(t, reads) ==
  /\ serving[t] # NONE
  /\ reads <=> held[t] = <<>>
  /\ UNCHANGED work

\* read of a message.
ConnRead(t) ==
  LET c == fd[serving[t]] IN
  /\ Serves(t, TRUE)
  /\ toServer[c] # <<>>
  /\ held' = [held EXCEPT ![t] = <<Head(toServer[c])>>]
  /\ toServer' = [toServer EXCEPT ![c] = Tail(@)]
  /\ UNCHANGED <<pc, serving, listening, backlog, fd, toClient, cliEnd, srvEnd>>

\* write of it.
ConnWrite(t) ==
  LET c == fd[serving[t]] IN
  /\ Serves(t, FALSE)
  /\ ~BrokenPipe(c)
  /\ Deliver(c, Head(held[t]))
  /\ held' = [held EXCEPT ![t] = <<>>]
  /\ UNCHANGED <<pc, serving, listening, backlog, fd, toServer, srvEnd>>

\* The signal of the broken pipe ends the process, with all its connections.
ConnSigpipe(t) ==
  /\ Serves(t, FALSE)
  /\ BrokenPipe(fd[serving[t]])
  /\ pc' = "killed"
  /\ serving' = [u \in Threads |-> NONE] /\ held' = [u \in Threads |-> <<>>]
  /\ Shut(Open, TRUE)

\* read of the end, and close.
ConnClose(t) ==
  /\ Serves(t, TRUE)
  /\ HangUp(serving[t])
  /\ serving' = [serving EXCEPT ![t] = NONE]
  /\ UNCHANGED <<pc, held>>

ProcessConnection(t) == ConnRead(t) \/ ConnWrite(t) \/ ConnSigpipe(t) \/ ConnClose(t)

RunStep ==
  /\ \/ \E f \in Free : LocalAccept(f) \/ PoolAccept(f)
     \/ PoolAcceptFails \/ PoolEnd
     \/ ProcessConnection(Main)
  /\ UNCHANGED <<server, stdin, loopVars, progVars>>

WorkerStep(w) ==
  /\ Dispatch(w) \/ ProcessConnection(w)
  /\ UNCHANGED <<server, stdin, loopVars, progVars>>

\* Each connection is with one thread, or waits for one in the queue.
ConnTables ==
  LET serves == {t \in Threads : serving[t] # NONE} IN
  /\ \A t, u \in serves : serving[t] = serving[u] => t = u
  /\ \A i, j \in 1..Len(work) : work[i] = work[j] => i = j
  /\ {serving[t] : t \in serves} \cap {work[i] : i \in 1..Len(work)} = {}
  /\ {serving[t] : t \in serves} \cup {work[i] : i \in 1..Len(work)} = Open
=============================================================================
