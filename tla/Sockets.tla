------------------------------ MODULE Sockets ------------------------------
(***************************************************************************)
(* Stream sockets, as the echo servers and the echo client use them, and   *)
(* the echo client itself                                                  *)
(* (src/aula-06-03/servers_tests/echo_service/echo_ip_epoll_cb/echo_cli.c; *)
(* the other stream clients run the same loop).                            *)
(*                                                                         *)
(* The kernel's side is external: one connection per client, a queue of    *)
(* connections that were not accepted yet, the table of descriptors of the *)
(* server.  A message is small and arrives whole.  The end of a process    *)
(* closes its sockets: the peer reads an end of file, or an error when     *)
(* something the process had not read was thrown away.                     *)
(***************************************************************************)
EXTENDS Naturals, Sequences, FiniteSets

CONSTANTS
  Clients,  \* the processes that run the client program, one connection each
  Mortal,   \* bound: the clients that may be killed
  Tries,    \* NITERS of each client: it is not the same in all the programs
  Backlog,  \* BACKLOG of the server
  NONE      \* a descriptor that is not in use

ASSUME SocketsAssumption ==
  /\ Mortal \subseteq Clients /\ Tries \in [Clients -> Nat \ {0}] /\ Backlog \in Nat \ {0}
  /\ NONE \notin Clients

VARIABLES
  cpc, try, got,       \* each client: where it is, its request, the responses it got
  listening, backlog,  \* the server's socket, and the connections it has not accepted
  fd,                  \* the connection of each descriptor of the server
  toServer, toClient,  \* what was sent and not read yet
  cliEnd, srvEnd       \* what each side of a connection knows of the other one

progVars == <<cpc, try, got>>
netVars == <<listening, backlog, fd, toServer, toClient, cliEnd, srvEnd>>

\* A side is up, or it has closed, or closed and answered that it no longer reads.
Ends == {"up", "fin", "rst"}

Message(c) == [from |-> c, try |-> try[c]]

\* The server with the descriptors fds still to give is listening.
SocketsInit(fds) ==
  /\ cpc = [c \in Clients |-> "connect"]
  /\ try = [c \in Clients |-> 1] /\ got = [c \in Clients |-> 0]
  /\ listening = TRUE /\ backlog = <<>>
  /\ fd = [f \in fds |-> NONE]
  /\ toServer = [c \in Clients |-> <<>>] /\ toClient = [c \in Clients |-> <<>>]
  /\ cliEnd = [c \in Clients |-> "up"] /\ srvEnd = [c \in Clients |-> "up"]

-----------------------------------------------------------------------------
(***************************************************************************)
(* The client program.                                                     *)
(***************************************************************************)

\* connect: refused without a listening socket, and waits for a place in the queue.
Connect(c) ==
  /\ cpc[c] = "connect"
  /\ \/ /\ ~listening
        /\ cpc' = [cpc EXCEPT ![c] = "refused"] /\ UNCHANGED backlog
     \/ /\ listening /\ Len(backlog) < Backlog
        /\ cpc' = [cpc EXCEPT ![c] = "write"] /\ backlog' = Append(backlog, c)
  /\ UNCHANGED <<try, got, listening, fd, toServer, toClient, cliEnd, srvEnd>>

\* write: what a closed server end is sent is thrown away, and the end answers with
\* a reset.  The first call after a reset reports it, and the next write ends the
\* client by the signal of the broken pipe: a client that finds its connection reset
\* at its first request, before it read anything, goes on to the read.
Request(c) ==
  /\ cpc[c] = "write"
  /\ cpc' = [cpc EXCEPT ![c] = IF srvEnd[c] = "rst" /\ try[c] > 1 THEN "killed" ELSE "read"]
  /\ IF srvEnd[c] = "up"
     THEN /\ toServer' = [toServer EXCEPT ![c] = Append(@, Message(c))]
          /\ UNCHANGED srvEnd
     ELSE /\ srvEnd' = [srvEnd EXCEPT ![c] = "rst"]
          /\ UNCHANGED toServer
  /\ UNCHANGED <<try, got, listening, backlog, fd, toClient, cliEnd>>

\* read, whose result the client does not look at, and the end of the loop's body.
Response(c) ==
  /\ cpc[c] = "read"
  /\ toClient[c] # <<>> \/ srvEnd[c] # "up"
  /\ got' = [got EXCEPT ![c] = IF toClient[c] = <<>> THEN @ ELSE @ + 1]
  /\ toClient' = [toClient EXCEPT ![c] = IF @ = <<>> THEN @ ELSE Tail(@)]
  /\ try' = [try EXCEPT ![c] = @ + 1]
  /\ cpc' = [cpc EXCEPT ![c] = IF try[c] < Tries[c] THEN "write" ELSE "close"]
  /\ UNCHANGED <<listening, backlog, fd, toServer, cliEnd, srvEnd>>

\* The client's end closes; with a response that was not read the server gets an error.
Leave(c, how) ==
  /\ cpc' = [cpc EXCEPT ![c] = how]
  /\ cliEnd' = [cliEnd EXCEPT ![c] = IF toClient[c] = <<>> THEN "fin" ELSE "rst"]
  /\ toClient' = [toClient EXCEPT ![c] = <<>>]
  /\ UNCHANGED <<try, got, listening, backlog, fd, toServer, srvEnd>>

CloseClient(c) == cpc[c] = "close" /\ Leave(c, "done")
Kill(c) == c \in Mortal /\ cpc[c] \in {"write", "read"} /\ Leave(c, "killed")

ClientStep(c) == Connect(c) \/ Request(c) \/ Response(c) \/ CloseClient(c)
Finished(c) == cpc[c] \in {"done", "refused", "killed"}

-----------------------------------------------------------------------------
(***************************************************************************)
(* The kernel's side of the server's calls.                                *)
(***************************************************************************)

Free == {f \in DOMAIN fd : fd[f] = NONE}
Open == DOMAIN fd \ Free

\* A read of the descriptor does not block.
Readable(f) == toServer[fd[f]] # <<>> \/ cliEnd[fd[f]] # "up"

\* The first connection of the queue gets the descriptor f, the lowest that is free.
Accept(f) ==
  /\ backlog # <<>>
  /\ f \in Free /\ \A g \in Free : f <= g
  /\ fd' = [fd EXCEPT ![f] = Head(backlog)]
  /\ backlog' = Tail(backlog)
  /\ UNCHANGED <<listening, toServer, toClient, cliEnd, srvEnd>>

\* What the peer of a closed end gets to know.
Hang(c) == IF toServer[c] = <<>> THEN "fin" ELSE "rst"

\* The connection is accepted and closed at once.
AcceptAndClose ==
  /\ backlog # <<>>
  /\ srvEnd' = [srvEnd EXCEPT ![Head(backlog)] = Hang(Head(backlog))]
  /\ toServer' = [toServer EXCEPT ![Head(backlog)] = <<>>]
  /\ backlog' = Tail(backlog)
  /\ UNCHANGED <<listening, fd, toClient, cliEnd>>

\* read gives an end of file or an error.
AtEnd(f) == toServer[fd[f]] = <<>> /\ cliEnd[fd[f]] # "up"

\* The server closes the descriptors fs, and the listening socket if stop is set:
\* the connections that wait there are reset.
Shut(fs, stop) ==
  LET served == {fd[f] : f \in fs}
      queued == IF stop THEN {backlog[i] : i \in 1..Len(backlog)} ELSE {}
  IN  /\ listening' = (listening /\ ~stop)
      /\ backlog' = IF stop THEN <<>> ELSE backlog
      /\ fd' = [f \in DOMAIN fd |-> IF f \in fs THEN NONE ELSE fd[f]]
      /\ srvEnd' = [c \in Clients |-> CASE c \in queued -> "rst"
                                      [] c \in served -> Hang(c)
                                      [] OTHER -> srvEnd[c]]
      /\ toServer' = [c \in Clients |-> IF c \in served \cup queued THEN <<>> ELSE toServer[c]]
      /\ UNCHANGED <<toClient, cliEnd>>

\* The write of m: a client that closed answers with a reset.
Deliver(c, m) ==
  /\ toClient' = IF cliEnd[c] = "up" THEN [toClient EXCEPT ![c] = Append(@, m)] ELSE toClient
  /\ cliEnd' = IF cliEnd[c] = "up" THEN cliEnd ELSE [cliEnd EXCEPT ![c] = "rst"]
=============================================================================
