------------------------------ MODULE EchoMem ------------------------------
(***************************************************************************)
(* The echo service over channels in shared memory                         *)
(* (src/aula-06-03/servers_tests/echo_service/echo_memchannel): a server   *)
(* with one channel for requests, and clients with a channel each for the  *)
(* responses.                                                              *)
(*                                                                         *)
(* A channel is the sequence of BoundedChannel, which MemChannel is shown  *)
(* to implement.  A name of shared memory, once created, stays and can be  *)
(* opened: shmem_destroy unlinks a file of that name, not the shared       *)
(* memory.  A process that starts again creates its channel anew.          *)
(***************************************************************************)
EXTENDS Integers, Sequences, FiniteSets

CONSTANTS
  Clients,
  Tries,      \* NITERS of the client
  MaxMsgs,    \* MAX_MSGS, the capacity of the server's channel
  MaxCrashes, \* bound: how many processes are killed
  NONE        \* a name that no channel was created with, or no message

ASSUME EchoMemAssumption ==
  /\ IsFiniteSet(Clients) /\ Tries \in Nat \ {0} /\ MaxMsgs \in Nat \ {0}
  /\ NONE \notin Seq([sender : Clients, msg : 1..Tries])

VARIABLES
  channel,   \* the requests, in the server's channel
  resp,      \* the responses, in each client's channel
  srv, msg,  \* where the server is, and its message
  cli, try,  \* where each client is, and which of its requests it is at
  answers,   \* the responses each client got
  crashes    \* how many processes were killed

srvVars == <<srv, msg>>
cliVars == <<cli, try, answers>>
vars == <<channel, resp, srvVars, cliVars, crashes>>

RespCapacity == 1

Init ==
  /\ channel = NONE /\ resp = [c \in Clients |-> NONE]
  /\ srv = "down" /\ msg = NONE
  /\ cli = [c \in Clients |-> "open"] /\ try = [c \in Clients |-> 1]
  /\ answers = [c \in Clients |-> <<>>]
  /\ crashes = 0

-----------------------------------------------------------------------------
(***************************************************************************)
(* The server.                                                             *)
(***************************************************************************)

\* mc_create; the channel is emptied if it exists.
SrvCreate ==
  /\ srv = "down" /\ srv' = "get"
  /\ channel' = <<>>
  /\ UNCHANGED <<resp, msg, cliVars, crashes>>

\* mc_get(channel, &msg).
SrvGet ==
  /\ srv = "get" /\ srv' = "open"
  /\ channel # <<>>
  /\ msg' = Head(channel)
  /\ channel' = Tail(channel)
  /\ UNCHANGED <<resp, cliVars, crashes>>

\* mc_open of the sender's channel; without it the server leaves its loop.
SrvOpen ==
  /\ srv = "open"
  /\ srv' = IF resp[msg.sender] = NONE THEN "ended" ELSE "put"
  /\ UNCHANGED <<channel, resp, msg, cliVars, crashes>>

\* Mutant of SrvPut: the request is not taken off the hands of the server, which
\* answers it twice.
SrvPutTwice ==
  /\ srv = "put" /\ srv' \in {"get", "put"}
  /\ Len(resp[msg.sender]) < RespCapacity
  /\ resp' = [resp EXCEPT ![msg.sender] = Append(@, msg)]
  /\ UNCHANGED <<channel, msg, cliVars, crashes>>

\* Mutant of SrvPut: the server gives up when the client's channel is full.
SrvPutDrops ==
  /\ srv = "put" /\ srv' = "get"
  /\ resp' = [resp EXCEPT ![msg.sender] = IF channel = <<>> THEN Append(@, msg) ELSE @]
  /\ UNCHANGED <<channel, msg, cliVars, crashes>>

\* mc_put(resp_channel, &msg), and the mc_destroy that only unmaps it.
SrvPut ==
  /\ srv = "put" /\ srv' = "get"
  /\ Len(resp[msg.sender]) < RespCapacity
  /\ resp' = [resp EXCEPT ![msg.sender] = Append(@, msg)]
  /\ UNCHANGED <<channel, msg, cliVars, crashes>>

-----------------------------------------------------------------------------
(***************************************************************************)
(* The clients.                                                            *)
(***************************************************************************)

\* mc_open of the server's channel, without which the client ends, and
\* mc_create of its own, which does not fail here.  The code would not notice: it
\* tests the server's channel once more instead of its own (echo_cli.c:29).
CliOpen(c) ==
  /\ cli[c] = "open"
  /\ cli' = [cli EXCEPT ![c] = IF channel = NONE THEN "ended" ELSE "put"]
  /\ resp' = IF channel = NONE THEN resp ELSE [resp EXCEPT ![c] = <<>>]
  /\ UNCHANGED <<channel, srvVars, try, answers, crashes>>

\* Mutant of CliPut: the client sends the next request without waiting for the
\* response to this one.
CliPutAgain(c) ==
  /\ cli[c] = "put"
  /\ Len(channel) < MaxMsgs
  /\ channel' = Append(channel, [sender |-> c, msg |-> try[c]])
  /\ cli' \in {cli, [cli EXCEPT ![c] = "get"]}
  /\ UNCHANGED <<resp, srvVars, try, answers, crashes>>

\* mc_put(channel, &msg).
CliPut(c) ==
  /\ cli[c] = "put"
  /\ Len(channel) < MaxMsgs
  /\ channel' = Append(channel, [sender |-> c, msg |-> try[c]])
  /\ cli' = [cli EXCEPT ![c] = "get"]
  /\ UNCHANGED <<resp, srvVars, try, answers, crashes>>

\* mc_get(resp_channel, &resp), and the end of the loop's body; after the last
\* response the client destroys its channel and ends.
CliGet(c) ==
  /\ cli[c] = "get"
  /\ resp[c] # <<>>
  /\ answers' = [answers EXCEPT ![c] = Append(@, Head(resp[c]))]
  /\ resp' = [resp EXCEPT ![c] = Tail(@)]
  /\ try' = [try EXCEPT ![c] = @ + 1]
  /\ cli' = [cli EXCEPT ![c] = IF try[c] < Tries THEN "put" ELSE "ended"]
  /\ UNCHANGED <<channel, srvVars, crashes>>

-----------------------------------------------------------------------------
SrvStep == SrvCreate \/ SrvGet \/ SrvOpen \/ SrvPut
CliStep(c) == CliOpen(c) \/ CliPut(c) \/ CliGet(c)

\* A process is killed outside the critical section of a channel; the server
\* may be started again.
Crash == crashes < MaxCrashes /\ crashes' = crashes + 1

SrvCrash ==
  /\ Crash
  /\ srv # "down" /\ srv' = "down" /\ msg' = NONE
  /\ UNCHANGED <<channel, resp, cliVars>>

CliCrash(c) ==
  /\ Crash
  /\ cli[c] # "ended" /\ cli' = [cli EXCEPT ![c] = "ended"]
  /\ UNCHANGED <<channel, resp, srvVars, try, answers>>

\* The server waits for requests that nobody sends: all clients have ended, or
\* wait for the response to a request that was lost with the server.
Ended ==
  /\ srv = "get" /\ channel = <<>>
  /\ \A c \in Clients : cli[c] = "ended" \/ (cli[c] = "get" /\ resp[c] = <<>>)
  /\ UNCHANGED vars

Next ==
  \/ SrvStep \/ SrvCrash
  \/ \E c \in Clients : CliStep(c) \/ CliCrash(c)
  \/ Ended

\* Every process runs.  A client that waits for space gets it if there is space
\* again and again.
Spec ==
  /\ Init /\ [][Next]_vars
  /\ WF_vars(SrvStep) /\ \A c \in Clients : SF_vars(CliStep(c))

-----------------------------------------------------------------------------
(***************************************************************************)
(* Properties.                                                             *)
(***************************************************************************)

Messages == [sender : Clients, msg : 1..Tries]
ChannelType(size) == {NONE} \cup UNION {[1..n -> Messages] : n \in 0..size}

\* The variables have values of their types; no channel exceeds its capacity.
TypeOK ==
  /\ channel \in ChannelType(MaxMsgs)
  /\ \A c \in Clients : resp[c] \in ChannelType(RespCapacity)
  /\ srv \in {"down", "get", "open", "put", "ended"}
  /\ msg \in {NONE} \cup Messages
  /\ \A c \in Clients : cli[c] \in {"open", "put", "get", "ended"} /\ try[c] \in 1..(Tries + 1)

OwnAnswers ==
  \A c \in Clients :
    /\ Len(answers[c]) = try[c] - 1
    /\ \A i \in 1..Len(answers[c]) : answers[c][i] = [sender |-> c, msg |-> i]

\* Each client gets the responses to its own requests, one to each and in order,
\* whatever crashes and however often the server starts again.
EchoesOwn == TypeOK /\ OwnAnswers

\* The one server is never held up by a client, not by a dead one either: it finds
\* the channel of the client, and the channel, of a single place, is free.
ServerNeverStops ==
  /\ srv # "ended"
  /\ srv = "put" => Len(resp[msg.sender]) < RespCapacity

\* Every client that found the server's channel gets all its responses, although
\* the server's channel is smaller than the number of clients, unless a process
\* is killed.
ClientsFinish ==
  \A c \in Clients :
    cli[c] = "put" ~> (cli[c] = "ended" /\ Len(answers[c]) = Tries) \/ crashes > 0
=============================================================================
