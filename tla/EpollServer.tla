---------------------------- MODULE EpollServer ----------------------------
(***************************************************************************)
(* The echo server with epoll                                              *)
(* (src/aula-06-03/servers_tests/echo_service/echo_ip_epollchannel).       *)
(* It watches the standard input too: a line there ends it when the        *)
(* clients it has have left.                                               *)
(***************************************************************************)
EXTENDS EventLoop

\* add_client of the listening socket and of the standard input.
EpollInit ==
  /\ watched = {ListenFd, StdinFd} /\ nclients = 2
  /\ clients = <<>> /\ ready = {} /\ nready = 0 /\ at = 0
  /\ pc = "wait"

Epoll(from, to) == server = "epoll" /\ pc = from /\ pc' = to

EpollWait ==
  /\ Epoll("wait", "serve")
  /\ nclients # 0
  /\ LET r == {f \in watched : IsReady(f)} IN r # {} /\ ready' \in Batches(r, nclients)
  /\ UNCHANGED <<netVars, clients, nclients, watched, nready, at>>

\* The event of f is the next of the batch.
EpollAt(f) == server = "epoll" /\ pc = "serve" /\ f \in ready

\* accept and add_client.
EpollAccept(f) ==
  /\ EpollAt(ListenFd)
  /\ Accept(f)
  /\ watched' = watched \cup {f} /\ nclients' = nclients + 1
  /\ ready' = ready \ {ListenFd}
  /\ UNCHANGED <<pc, clients, nready, at>>

\* accept fails, because no descriptor is left, or because the line that ends the
\* server came first in the batch; the rest of the batch is left.
EpollAcceptFails ==
  /\ EpollAt(ListenFd)
  /\ Free = {} \/ ~listening
  /\ pc' = "wait" /\ ready' = {}
  /\ UNCHANGED <<netVars, clients, nclients, watched, nready, at>>

\* Mutant of EpollStop: the standard input stays in the count.
EpollStopMiscounts ==
  /\ EpollAt(StdinFd)
  /\ Shut({}, TRUE)
  /\ watched' = watched \ {ListenFd, StdinFd} /\ nclients' = nclients - 1
  /\ ready' = ready \ {StdinFd} /\ stdin' = "taken"
  /\ UNCHANGED <<pc, clients, nready, at>>

\* The line that ends the server: rem_client of the listening socket and of the
\* standard input, and close of the former.
EpollStop ==
  /\ EpollAt(StdinFd)
  /\ Shut({}, TRUE)
  /\ watched' = watched \ {ListenFd, StdinFd} /\ nclients' = nclients - 2
  /\ ready' = ready \ {StdinFd} /\ stdin' = "taken"
  /\ UNCHANGED <<pc, clients, nready, at>>

\* Mutant of EpollServe: the connection is not closed.
EpollServeLeaks(f) ==
  /\ EpollAt(f) /\ f \in Open
  /\ ready' = ready \ {f}
  /\ \/ EchoBack(f) /\ UNCHANGED <<nclients, watched>>
     \/ /\ AtEnd(f) /\ UNCHANGED netVars
        /\ nclients' = nclients - 1 /\ watched' = watched \ {f}
  /\ UNCHANGED <<pc, clients, nready, at>>

\* read and process_request, or read, rem_client and close.
EpollServe(f) ==
  /\ EpollAt(f) /\ f \in Open
  /\ ready' = ready \ {f}
  /\ \/ EchoBack(f) /\ UNCHANGED <<nclients, watched>>
     \/ HangUp(f) /\ nclients' = nclients - 1 /\ watched' = watched \ {f}
  /\ UNCHANGED <<pc, clients, nready, at>>

EpollRound ==
  /\ Epoll("serve", "wait")
  /\ ready = {}
  /\ UNCHANGED <<netVars, loopVars>>

\* The loop ends, and the process.
EpollEnd ==
  /\ Epoll("wait", "ended")
  /\ nclients = 0
  /\ UNCHANGED <<netVars, loopVars>>

EpollStep ==
  /\ \/ EpollStop
     \/ /\ \/ EpollWait \/ EpollAcceptFails \/ EpollRound \/ EpollEnd
           \/ \E f \in Free : EpollAccept(f)
           \/ \E f \in Open : EpollServe(f)
        /\ UNCHANGED stdin
  /\ UNCHANGED <<server, progVars>>

\* nclients is the number of descriptors that are watched: every connection, and
\* the listening socket and the standard input until the server is told to end.
EpollTables ==
  /\ nclients = Cardinality(watched)
  /\ watched \ {ListenFd, StdinFd} = Open
  /\ {ListenFd, StdinFd} \subseteq watched \/ {ListenFd, StdinFd} \cap watched = {}
  /\ listening <=> ListenFd \in watched
=============================================================================
