----------------------------- MODULE EventLoop -----------------------------
(***************************************************************************)
(* What the echo servers with one thread and many connections share: the   *)
(* variables of their loops, and the way they answer a connection that is  *)
(* ready.  The servers differ in the call that tells which descriptors are *)
(* ready (select, poll, epoll_wait) and in the tables they keep for it.    *)
(***************************************************************************)
EXTENDS Sockets

CONSTANTS
  Servers,     \* the server programs that may run
  MaxClients,  \* maxclients of select, FOPEN_MAX - 1 of poll
  NoFile       \* how many descriptors for connections the process may have

ASSUME EventLoopAssumption ==
  MaxClients \in Nat /\ NoFile \subseteq Nat /\ NONE \notin Nat

VARIABLES
  server,      \* the server program that runs
  pc,          \* where it is
  clients,     \* its table of clients (select, poll)
  nclients,    \* its count of clients (poll, epoll, libuv)
  watched,     \* the descriptors it asks about
  ready,       \* the descriptors that the last call reported
  nready,      \* how many of them are left (select, poll)
  at,          \* the place of its loop over them
  stdin        \* the line that tells the server to end: "quiet", "line", "taken"

loopVars == <<clients, nclients, watched, ready, nready, at>>

StdinFd == 0
ListenFd == 3
Fds(n) == 4..(3 + n)

\* The call that waits reports the descriptor.
IsReady(f) ==
  CASE f = ListenFd -> backlog # <<>>
    [] f = StdinFd -> stdin = "line"
    [] OTHER -> Readable(f)

\* What epoll_wait with space for max events may return when r are ready. The order
\* is left open: the loop takes the events of the batch one by one, any of them next.
Batches(r, max) ==
  LET n == IF Cardinality(r) < max THEN Cardinality(r) ELSE max
  IN  {b \in SUBSET r : Cardinality(b) = n}

\* A local socket has no reset to wait for: the first write to a closed end fails.
BrokenPipe(c) == cliEnd[c] = "rst" \/ (server = "local" /\ cliEnd[c] # "up")

\* Mutants of EchoBack: the response is written twice; it goes to whom the last
\* descriptor belongs.
EchoTwice(f) ==
  /\ toServer[fd[f]] # <<>> /\ ~BrokenPipe(fd[f])
  /\ toServer' = IF cliEnd[fd[f]] = "fin" THEN toServer
                 ELSE [toServer EXCEPT ![fd[f]] = Tail(@)]
  /\ Deliver(fd[f], Head(toServer[fd[f]]))
  /\ UNCHANGED <<listening, backlog, fd, srvEnd>>

EchoAstray(f) ==
  LET g == CHOOSE g \in Open : \A h \in Open : h <= g
  IN  /\ toServer[fd[f]] # <<>> /\ ~BrokenPipe(fd[f])
      /\ toServer' = [toServer EXCEPT ![fd[f]] = Tail(@)]
      /\ Deliver(fd[g], Head(toServer[fd[f]]))
      /\ UNCHANGED <<listening, backlog, fd, srvEnd>>

\* read and process_request of a message.
EchoBack(f) ==
  /\ toServer[fd[f]] # <<>> /\ ~BrokenPipe(fd[f])
  /\ toServer' = [toServer EXCEPT ![fd[f]] = Tail(@)]
  /\ Deliver(fd[f], Head(toServer[fd[f]]))
  /\ UNCHANGED <<listening, backlog, fd, srvEnd>>

\* Mutant of HangUp: the connection is closed after any read.
HangUpAlways(f) == Readable(f) /\ Shut({f}, FALSE)

\* read of the end, and close.
HangUp(f) == AtEnd(f) /\ Shut({f}, FALSE)
=============================================================================
