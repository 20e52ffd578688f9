------------------------------ MODULE EchoFifo ------------------------------
(***************************************************************************)
(* The echo service over fifos                                             *)
(* (src/aula-06-03/servers_tests/echo_service/echo_fifo_channel): the same *)
(* protocol as EchoMem, with the variables of EchoMem, and the fifos of    *)
(* the kernel for channels.                                                *)
(*                                                                         *)
(* Each process opens its own fifo for reading and writing, so that it is  *)
(* always open at both ends, and the fifo of another one for writing: that *)
(* open waits for a reader.  A fifo keeps what was written for as long as  *)
(* any process has it open, its name until it is unlinked.  A message is   *)
(* written and read whole; the clients never fill a fifo.                  *)
(***************************************************************************)
EXTENDS EchoMem

\* The processes that have their own fifo open, and the server's.
Serving(s) == s \notin {"down", "ended"}
Reading(c) == cli[c] \in {"put", "get"}
HeldBy(s, cl) == Serving(s) \/ \E c \in Clients : cl[c] \in {"put", "get"}

\* What is left of what was written to the server's fifo.
Remains == IF channel = NONE \/ HeldBy(srv', cli') THEN channel ELSE <<>>

-----------------------------------------------------------------------------
(***************************************************************************)
(* The server.                                                             *)
(***************************************************************************)

\* create_fifo: a fifo that exists is used as it is.
FifoSrvCreate ==
  /\ srv = "down" /\ srv' = "get"
  /\ channel' = IF channel = NONE THEN <<>> ELSE channel
  /\ UNCHANGED <<resp, msg, cliVars, crashes>>

\* read of a request.
FifoSrvGet ==
  /\ srv = "get" /\ srv' = "open"
  /\ channel # <<>>
  /\ msg' = Head(channel)
  /\ channel' = Tail(channel)
  /\ UNCHANGED <<resp, cliVars, crashes>>

\* open_client_fifo: without the fifo the server ends; it waits for a reader.
FifoSrvOpen ==
  /\ srv = "open"
  /\ resp[msg.sender] # NONE => Reading(msg.sender)
  /\ srv' = IF resp[msg.sender] = NONE THEN "ended" ELSE "put"
  /\ channel' = Remains
  /\ UNCHANGED <<resp, msg, cliVars, crashes>>

\* write of the response; a client that is gone meanwhile does not get it, and the
\* signal is ignored.
FifoSrvPut ==
  /\ srv = "put" /\ srv' = "get"
  /\ resp' = IF Reading(msg.sender) THEN [resp EXCEPT ![msg.sender] = Append(@, msg)] ELSE resp
  /\ UNCHANGED <<channel, msg, cliVars, crashes>>

-----------------------------------------------------------------------------
(***************************************************************************)
(* The clients.                                                            *)
(***************************************************************************)

\* open_server_fifo, without which the client ends, and which waits for a server;
\* and create_fifo.
FifoCliOpen(c) ==
  /\ cli[c] = "open"
  /\ channel # NONE => Serving(srv)
  /\ cli' = [cli EXCEPT ![c] = IF channel = NONE THEN "ended" ELSE "put"]
  /\ resp' = IF channel = NONE THEN resp ELSE [resp EXCEPT ![c] = <<>>]
  /\ UNCHANGED <<channel, srvVars, try, answers, crashes>>

\* write of a request, which fails when no server has the fifo open; the client
\* does not notice.
FifoCliPut(c) ==
  /\ cli[c] = "put"
  /\ channel' = IF Serving(srv) THEN Append(channel, [sender |-> c, msg |-> try[c]]) ELSE channel
  /\ cli' = [cli EXCEPT ![c] = "get"]
  /\ UNCHANGED <<resp, srvVars, try, answers, crashes>>

\* read of the response; after the last one the client closes both fifos and
\* unlinks its own.
FifoCliGet(c) ==
  /\ cli[c] = "get"
  /\ resp[c] # <<>>
  /\ answers' = [answers EXCEPT ![c] = Append(@, Head(resp[c]))]
  /\ resp' = [resp EXCEPT ![c] = IF try[c] < Tries THEN Tail(@) ELSE NONE]
  /\ try' = [try EXCEPT ![c] = @ + 1]
  /\ cli' = [cli EXCEPT ![c] = IF try[c] < Tries THEN "put" ELSE "ended"]
  /\ srv' = srv /\ channel' = Remains
  /\ UNCHANGED <<msg, crashes>>

-----------------------------------------------------------------------------
FifoSrvStep == FifoSrvCreate \/ FifoSrvGet \/ FifoSrvOpen \/ FifoSrvPut
FifoCliStep(c) == FifoCliOpen(c) \/ FifoCliPut(c) \/ FifoCliGet(c)

FifoSrvCrash ==
  /\ Crash
  /\ srv # "down" /\ srv' = "down" /\ msg' = NONE
  /\ cli' = cli /\ channel' = Remains
  /\ UNCHANGED <<resp, try, answers>>

\* The fifo of a client that is killed stays, empty and without a reader.
FifoCliCrash(c) ==
  /\ Crash
  /\ Reading(c) /\ cli' = [cli EXCEPT ![c] = "ended"]
  /\ resp' = [resp EXCEPT ![c] = <<>>]
  /\ srv' = srv /\ channel' = Remains
  /\ UNCHANGED <<msg, try, answers>>

\* The server waits for a request, or for a client that was killed to open its
\* fifo; the clients have ended, or wait for a response or for the server.
ServerStuck == srv = "open" /\ resp[msg.sender] # NONE /\ ~Reading(msg.sender)
FifoEnded ==
  /\ (srv = "get" /\ channel = <<>>) \/ ServerStuck
  /\ \A c \in Clients : cli[c] = "ended" \/ (cli[c] = "get" /\ resp[c] = <<>>)
  /\ UNCHANGED vars

FifoNext ==
  \/ FifoSrvStep \/ FifoSrvCrash
  \/ \E c \in Clients : FifoCliStep(c) \/ FifoCliCrash(c)
  \/ FifoEnded

\* The processes run, as in EchoMem.
FifoSpec ==
  /\ Init /\ [][FifoNext]_vars
  /\ WF_vars(FifoSrvStep) /\ \A c \in Clients : WF_vars(FifoCliStep(c))

-----------------------------------------------------------------------------
(***************************************************************************)
(* Properties.                                                             *)
(***************************************************************************)

\* Each client gets the responses to its own requests, as in EchoMem, and no fifo
\* has to hold more than a request of each client.
FifoEchoesOwn ==
  /\ OwnAnswers
  /\ channel # NONE => Len(channel) <= Cardinality(Clients)
  /\ \A c \in Clients : resp[c] # NONE => Len(resp[c]) <= 1

\* The server never ends because a client's fifo is gone, and stands still in
\* opening one only after a client was killed.
FifoServerNeverStops ==
  /\ srv # "ended"
  /\ ServerStuck => crashes > 0
=============================================================================
