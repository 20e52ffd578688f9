---------------------------- MODULE EchoServers ----------------------------
(***************************************************************************)
(* The echo service over stream sockets: one of the server programs, and   *)
(* the clients.  All the servers promise the same to the clients, and the  *)
(* properties below are stated once for all of them.                       *)
(***************************************************************************)
EXTENDS SelectServer, PollServer, EpollServer, CallbackServer, UvServer, ConnServers

vars == <<progVars, netVars, server, pc, loopVars, stdin, toDestroy, connVars>>

Init ==
  /\ server \in Servers
  /\ \E n \in NoFile : SocketsInit(Fds(n))
  /\ CASE server = "select" -> SelectInit
       [] server = "poll" -> PollInit
       [] server = "epoll" -> EpollInit
       [] server = "callbacks" -> CallbackInit
       [] OTHER -> UvInit
  /\ stdin = "quiet" /\ toDestroy = FALSE
  /\ ConnInit

LoopStep ==
  \/ /\ SelectStep \/ PollStep \/ EpollStep \/ CallbackStep
     /\ UNCHANGED <<toDestroy, connVars>>
  \/ UvStep /\ UNCHANGED connVars
  \/ RunStep /\ UNCHANGED toDestroy

\* Somebody types a line; only two servers look at it.
TypeLine ==
  /\ server \in {"epoll", "uv"}
  /\ stdin = "quiet" /\ stdin' = "line"
  /\ UNCHANGED <<progVars, netVars, server, pc, loopVars, toDestroy, connVars>>

ClientMoves(c) ==
  /\ ClientStep(c)
  /\ UNCHANGED <<server, pc, loopVars, stdin, toDestroy, connVars>>

ClientDies(c) ==
  /\ Kill(c)
  /\ UNCHANGED <<server, pc, loopVars, stdin, toDestroy, connVars>>

PoolMoves(w) == WorkerStep(w) /\ UNCHANGED toDestroy

\* The clients have ended, and the server has too, or waits.
Idle ==
  /\ \A c \in Clients : Finished(c)
  /\ UNCHANGED vars

Next ==
  \/ LoopStep \/ TypeLine
  \/ \E w \in Workers : PoolMoves(w)
  \/ \E c \in Clients : ClientMoves(c) \/ ClientDies(c)
  \/ Idle

\* The threads and the processes run. Nobody has to type, or to be killed.
Spec ==
  /\ Init /\ [][Next]_vars
  /\ WF_vars(LoopStep)
  /\ \A w \in Workers : WF_vars(PoolMoves(w))
  /\ \A c \in Clients : WF_vars(ClientMoves(c))

-----------------------------------------------------------------------------
(***************************************************************************)
(* Properties.                                                             *)
(***************************************************************************)

TypeOK ==
  /\ \A c \in Clients :
       /\ try[c] \in 1..(Tries[c] + 1) /\ got[c] \in 0..Tries[c]
       /\ cliEnd[c] \in Ends /\ srvEnd[c] \in Ends
  /\ pc \in {"wait", "accept", "scan", "serve", "destroy", "ended", "killed"}
  /\ stdin \in {"quiet", "line", "taken"} /\ toDestroy \in BOOLEAN

\* The tables of the server and the kernel's agree, in every state of its loop,
\* whoever connects, leaves or is killed in the middle of a round.
TablesSound ==
  /\ TypeOK
  /\ CASE server = "select" -> SelectTables
       [] server = "poll" -> PollTables
       [] server = "epoll" -> EpollTables
       [] server = "callbacks" -> CallbackTables
       [] server = "uv" -> UvTables
       [] OTHER -> ConnTables

\* The messages that connection c has in the server or on the way to it or back.
Held(c) == {t \in Threads : serving[t] # NONE /\ fd[serving[t]] = c /\ held[t] # <<>>}
Coming(c) == Len(toServer[c]) + Cardinality(Held(c)) + Len(toClient[c])

\* A client that waits for a response has its own last request on the way, or the
\* response to it, and nothing else: no response is another client's, is lost or
\* comes twice.
EchoesOwn ==
  \A c \in Clients :
    /\ toServer[c] \o toClient[c] \in {<<>>, <<Message(c)>>}
    /\ \A t \in Held(c) : held[t] = <<Message(c)>>
    /\ Coming(c) <= 1
    /\ cpc[c] = "read" /\ srvEnd[c] = "up" => Coming(c) = 1
    /\ cpc[c] \notin {"read", "killed"} => Coming(c) = 0

\* The descriptors that the loop is about to read, or to accept from, because the
\* kernel reported them.
NextCalls ==
  CASE server = "select" /\ pc = "accept" -> ready \cap {ListenFd}
    [] server = "select" /\ pc = "scan" -> {clients[i] : i \in {j \in 1..Len(clients) : SelectAt(j)}}
    [] server = "poll" /\ pc = "accept" -> {clients[i].fd : i \in {j \in {1} : clients[j].revents}}
    [] server = "poll" /\ pc = "scan" -> {clients[i].fd : i \in {j \in Slots : PollAt(j)}}
    [] pc = "serve" -> ready \ {StdinFd}
    [] OTHER -> {}

\* That call waits: nothing is there to be read, or nobody to be accepted; a closed
\* descriptor does not wait, but is none of the server's.
LoopBlocks ==
  \E f \in NextCalls :
    IF f = ListenFd THEN listening /\ backlog = <<>> ELSE f \in Free \/ ~Readable(f)

\* "multiplexed I/O": the one thread of the server never waits for one of its
\* clients. With poll it does, see PollNeverBlocks.
NeverBlocks == server # "poll" => ~LoopBlocks

\* "data avaiable on socket": the server with poll reads only where poll has
\* reported something in this round.
PollNeverBlocks == server = "poll" => ~LoopBlocks

\* Clients that leave, or are killed, at any moment do not take the server with
\* them: it never writes twice to a client that is gone. A local socket fails at
\* the first write, and its server, which does not ignore the signal, ends.
SurvivesClients ==
  IF server = "local" THEN pc = "killed" => \E c \in Mortal : cpc[c] = "killed"
  ELSE \A f \in Open : toServer[fd[f]] # <<>> \/ Held(fd[f]) # {} => ~BrokenPipe(fd[f])

\* A client that the server has taken into its table is not cut off while it is
\* still there: a step that frees a descriptor of an accepted connection closes one
\* whose client has closed its end, unless it is the signal that ends the server.
\* Connections that are refused at a full table, and those that still wait to be
\* accepted when the server stops, are not in the table.
ClosesOnlyGone ==
  [][\A f \in Open : fd'[f] = NONE => cliEnd[fd[f]] # "up" \/ pc' = "killed"]_vars

\* Descriptors enough for all, or a server that can do without.
Enough ==
  Cardinality(DOMAIN fd) >= Cardinality(Clients) \/ server \in {"uv", "local", "pool"}

\* All clients finish, and the server keeps no descriptor of them. The exceptions
\* are the servers that leave the round when accept fails, which then starve their
\* clients, and the descriptors that ap_close forgets.
ServiceEnds ==
  Enough => <>[](/\ \A c \in Clients : Finished(c)
                 /\ Open = {} \/ server = "callbacks")

\* A server that is told to end does, although its clients come and go meanwhile.
EndsWhenTold == [](Enough /\ stdin = "line" => <>(pc = "ended"))
=============================================================================
