--------------------------- MODULE CallbackServer ---------------------------
(***************************************************************************)
(* The event loop with callbacks, and the echo server written on it        *)
(* (src/aula-06-03/servers_tests/echo_service/echo_ip_epoll_cb: loop.c,    *)
(* echo_srv.c).  A handle is a descriptor and its callback: the callback   *)
(* of the listening socket accepts, that of a connection reads.  A handle  *)
(* is registered when its descriptor is in watched.                        *)
(***************************************************************************)
EXTENDS EventLoop

CallbackInit ==
  /\ watched = {ListenFd} /\ nclients = 1
  /\ clients = <<>> /\ ready = {} /\ nready = 0 /\ at = 0
  /\ pc = "wait"

CallbackWait ==
  /\ server = "callbacks" /\ pc = "wait" /\ pc' = "serve"
  /\ LET r == {f \in watched : IsReady(f)} IN r # {} /\ ready' \in Batches(r, Cardinality(r))
  /\ UNCHANGED <<netVars, clients, nclients, watched, nready, at>>

\* The callback of f is called, and its event of the batch done.
CallbackAt(f) ==
  server = "callbacks" /\ pc = "serve" /\ f \in ready /\ ready' = ready \ {f}

\* on_new_connection: accept and ap_regist_fd.
OnNewConnection(f) ==
  /\ CallbackAt(ListenFd)
  /\ Accept(f)
  /\ watched' = watched \cup {f} /\ nclients' = nclients + 1
  /\ UNCHANGED <<pc, clients, nready, at>>

\* on_new_connection when accept fails.
OnNewConnectionFails ==
  /\ CallbackAt(ListenFd)
  /\ Free = {}
  /\ UNCHANGED <<netVars, pc, clients, nclients, watched, nready, at>>

\* ap_close takes the handle off the loop; the descriptor stays open.
ApClose(f) ==
  /\ watched' = watched \ {f} /\ nclients' = nclients - 1
  /\ UNCHANGED netVars

\* on_read_request.
OnReadRequest(f) ==
  /\ CallbackAt(f) /\ f \in Open
  /\ \/ EchoBack(f) /\ UNCHANGED <<watched, nclients>>
     \/ AtEnd(f) /\ ApClose(f)
  /\ UNCHANGED <<pc, clients, nready, at>>

CallbackRound ==
  /\ server = "callbacks" /\ pc = "serve" /\ pc' = "wait"
  /\ ready = {}
  /\ UNCHANGED <<netVars, loopVars>>

CallbackStep ==
  /\ \/ CallbackWait \/ OnNewConnectionFails \/ CallbackRound
     \/ \E f \in Free : OnNewConnection(f)
     \/ \E f \in Open : OnReadRequest(f)
  /\ UNCHANGED <<server, stdin, progVars>>

\* The handles are the connections that are served, and the listening socket.
CallbackTables ==
  /\ nclients = Cardinality(watched)
  /\ ListenFd \in watched /\ watched \ {ListenFd} \subseteq Open
  /\ \A f \in Open \ watched : AtEnd(f)
=============================================================================
