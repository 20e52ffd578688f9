----------------------------- MODULE PollServer -----------------------------
(***************************************************************************)
(* The echo server with poll                                               *)
(* (src/aula-06-03/servers_tests/echo_service/echo_ip_pollchannel).        *)
(* clients[i - 1] of the code is clients[i] here; entry 1 is the listening *)
(* socket.  The entries from nclients on keep what was last written there. *)
(***************************************************************************)
EXTENDS EventLoop

Slots == 1..(MaxClients + 1)

PollInit ==
  /\ clients = [i \in Slots |-> [fd |-> IF i = 1 THEN ListenFd ELSE 0, revents |-> FALSE]]
  /\ nclients = 1
  /\ watched = {} /\ ready = {} /\ nready = 0 /\ at = 0
  /\ pc = "wait"

Poll(from, to) == server = "poll" /\ pc = from /\ pc' = to

\* poll writes revents of the first nclients entries.
PollWait ==
  /\ Poll("wait", "accept")
  /\ LET r == {i \in 1..nclients : IsReady(clients[i].fd)} IN
     /\ r # {}
     /\ nready' = Cardinality(r)
     /\ clients' = [i \in Slots |-> IF i <= nclients
                                    THEN [clients[i] EXCEPT !.revents = i \in r]
                                    ELSE clients[i]]
  /\ UNCHANGED <<netVars, nclients, watched, ready, at>>

PollNoConnection ==
  /\ Poll("accept", "scan")
  /\ ~clients[1].revents
  /\ at' = 2
  /\ UNCHANGED <<netVars, clients, nclients, watched, ready, nready>>

PollAcceptFails ==
  /\ Poll("accept", "wait")
  /\ clients[1].revents /\ Free = {}
  /\ UNCHANGED <<netVars, loopVars>>

\* "max clients achieved!"
PollReject ==
  /\ Poll("accept", "wait")
  /\ clients[1].revents /\ nclients = MaxClients + 1
  /\ Free # {} /\ AcceptAndClose
  /\ UNCHANGED loopVars

\* accept and add_client, which leaves revents of the entry as it was.
PollAccept(f) ==
  /\ server = "poll" /\ pc = "accept"
  /\ clients[1].revents /\ nclients <= MaxClients
  /\ Accept(f)
  /\ clients' = [clients EXCEPT ![nclients + 1].fd = f]
  /\ nclients' = nclients + 1
  /\ nready' = nready - 1
  /\ pc' = IF nready = 1 THEN "wait" ELSE "scan"
  /\ at' = 2
  /\ UNCHANGED <<watched, ready>>

\* The loop comes to entry i, the next with an event in revents.
PollAt(i) ==
  /\ i >= at /\ i <= nclients /\ nready > 0
  /\ clients[i].revents
  /\ \A j \in at..(i - 1) : ~clients[j].revents

\* Mutant of PollServe: rem_client does not move the last entry.
PollServeNoMove(i) ==
  /\ Poll("scan", "scan")
  /\ PollAt(i)
  /\ at' = i + 1
  /\ \/ /\ EchoBack(clients[i].fd)
        /\ UNCHANGED <<clients, nclients, nready>>
     \/ /\ HangUp(clients[i].fd)
        /\ nclients' = nclients - 1
        /\ nready' = nready - 1
        /\ UNCHANGED clients
  /\ UNCHANGED <<watched, ready>>

\* read and process_request, or read and rem_client. The read blocks when the
\* event of the entry is an old one.
PollServe(i) ==
  /\ Poll("scan", "scan")
  /\ PollAt(i)
  /\ at' = i + 1
  /\ \/ /\ EchoBack(clients[i].fd)
        /\ UNCHANGED <<clients, nclients, nready>>
     \/ /\ HangUp(clients[i].fd)
        /\ clients' = [clients EXCEPT ![i] = clients[nclients]]
        /\ nclients' = nclients - 1
        /\ nready' = nready - 1
  /\ UNCHANGED <<watched, ready>>

\* The end of the loop over the entries; nready and at are not read again.
PollRound ==
  /\ Poll("scan", "wait")
  /\ ~ \E i \in Slots : PollAt(i)
  /\ nready' = 0 /\ at' = 0
  /\ UNCHANGED <<netVars, clients, nclients, watched, ready>>

PollStep ==
  /\ \/ PollWait \/ PollNoConnection \/ PollAcceptFails \/ PollReject
     \/ \E f \in Free : PollAccept(f)
     \/ \E i \in Slots : PollServe(i)
     \/ PollRound
  /\ UNCHANGED <<server, stdin, progVars>>

\* Each connection has one entry among the first nclients.
PollTables ==
  /\ nclients \in Slots /\ clients[1].fd = ListenFd
  /\ \A i, j \in 1..nclients : clients[i].fd = clients[j].fd => i = j
  /\ {clients[i].fd : i \in 2..nclients} = Open
=============================================================================
