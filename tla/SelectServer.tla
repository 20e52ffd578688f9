---------------------------- MODULE SelectServer ----------------------------
(***************************************************************************)
(* The echo server with select                                             *)
(* (src/aula-06-03/servers_tests/echo_service/echo_ip_selchannel).         *)
(* clients[0 .. nclients-1] is the sequence clients, and a descriptor is   *)
(* in allset when it is in watched, in rset when it is in ready.           *)
(***************************************************************************)
EXTENDS EventLoop

SelectInit ==
  /\ clients = <<>> /\ nclients = 0
  /\ watched = {ListenFd}
  /\ ready = {} /\ nready = 0 /\ at = 0
  /\ pc = "wait"

Select(from, to) == server = "select" /\ pc = from /\ pc' = to

\* rset = allset; select.
SelectWait ==
  /\ Select("wait", "accept")
  /\ ready' = {f \in watched : IsReady(f)} /\ ready' # {}
  /\ nready' = Cardinality(ready')
  /\ UNCHANGED <<netVars, clients, nclients, watched, at>>

SelectNoConnection ==
  /\ Select("accept", "scan")
  /\ ListenFd \notin ready
  /\ at' = 1
  /\ UNCHANGED <<netVars, clients, nclients, watched, ready, nready>>

\* accept fails: no descriptor is left. The clients that are ready wait.
SelectAcceptFails ==
  /\ Select("accept", "wait")
  /\ ListenFd \in ready /\ Free = {}
  /\ UNCHANGED <<netVars, loopVars>>

\* "max clients achieved!"
SelectReject ==
  /\ Select("accept", "wait")
  /\ ListenFd \in ready /\ Len(clients) = MaxClients
  /\ Free # {} /\ AcceptAndClose
  /\ UNCHANGED loopVars

\* accept, add_client and FD_SET; nothing else was ready when nready gets to zero.
SelectAccept(f) ==
  /\ server = "select" /\ pc = "accept"
  /\ ListenFd \in ready /\ Len(clients) < MaxClients
  /\ Accept(f)
  /\ clients' = Append(clients, f)
  /\ watched' = watched \cup {f}
  /\ nready' = nready - 1
  /\ pc' = IF nready = 1 THEN "wait" ELSE "scan"
  /\ at' = 1
  /\ UNCHANGED <<nclients, ready>>

\* clients[i] = clients[--nclients].
RemClient(s, i) == SubSeq([s EXCEPT ![i] = s[Len(s)]], 1, Len(s) - 1)

\* Mutant of SelectAt: the client is not looked up in rset.
SelectAtAll(i) == i = at /\ i <= Len(clients) /\ nready > 0

\* The loop comes to client i, the next that is in rset.
SelectAt(i) ==
  /\ i >= at /\ i <= Len(clients) /\ nready > 0
  /\ clients[i] \in ready
  /\ \A j \in at..(i - 1) : clients[j] \notin ready

\* read and process_request, or read and rem_client. nready counts the clients
\* that left, not those that were answered, and the client that is moved to the
\* place of one that left has to wait for the next round.
SelectServe(i) ==
  /\ Select("scan", "scan")
  /\ SelectAt(i)
  /\ at' = i + 1
  /\ \/ /\ EchoBack(clients[i])
        /\ UNCHANGED <<clients, watched, nready>>
     \/ /\ HangUp(clients[i])
        /\ clients' = RemClient(clients, i)
        /\ watched' = watched \ {clients[i]}
        /\ nready' = nready - 1
  /\ UNCHANGED <<nclients, ready>>

\* The end of the loop over the clients; ready, nready and at are not read again.
SelectRound ==
  /\ Select("scan", "wait")
  /\ ~ \E i \in 1..Len(clients) : SelectAt(i)
  /\ ready' = {} /\ nready' = 0 /\ at' = 0
  /\ UNCHANGED <<netVars, clients, nclients, watched>>

SelectStep ==
  /\ \/ SelectWait \/ SelectNoConnection \/ SelectAcceptFails \/ SelectReject
     \/ \E f \in Free : SelectAccept(f)
     \/ \E i \in 1..Len(clients) : SelectServe(i)
     \/ SelectRound
  /\ UNCHANGED <<server, stdin, progVars>>

\* Each connection has one place in the table, and allset is the table.
SelectTables ==
  /\ \A i, j \in 1..Len(clients) : clients[i] = clients[j] => i = j
  /\ {clients[i] : i \in 1..Len(clients)} = Open
  /\ watched = Open \cup {ListenFd}
  /\ Len(clients) <= MaxClients
=============================================================================
