------------------------------ MODULE UvServer ------------------------------
(***************************************************************************)
(* The echo server over libuv (src/aula-06-08/echo_libuv/echo_uv_srv.c).   *)
(* The library is external: it calls the callbacks of the handles that are *)
(* ready one at a time, in any order, and uv_run returns when no handle is *)
(* left.  A handle is active when its descriptor is in watched.  The work  *)
(* items only print, and are left out.                                     *)
(***************************************************************************)
EXTENDS EventLoop

VARIABLE toDestroy  \* to_destroy: the server ends when its last client leaves

UvInit ==
  /\ watched = {ListenFd, StdinFd} /\ nclients = 0
  /\ clients = <<>> /\ ready = {} /\ nready = 0 /\ at = 0
  /\ pc = "wait"

\* uv_run calls the callback of f.
UvCall(f) == server = "uv" /\ pc = "wait" /\ f \in watched /\ IsReady(f) /\ UNCHANGED pc

unusedVars == <<clients, ready, nready, at>>

\* on_new_connection.
UvConnection(f) ==
  /\ UvCall(ListenFd)
  /\ Accept(f)
  /\ nclients' = nclients + 1 /\ watched' = watched \cup {f}
  /\ UNCHANGED <<unusedVars, stdin, toDestroy>>

\* Without a descriptor the library accepts and closes with one it keeps for that.
UvShed ==
  /\ UvCall(ListenFd)
  /\ Free = {} /\ AcceptAndClose
  /\ UNCHANGED <<loopVars, stdin, toDestroy>>

\* read_stdin_completion.
UvStdin ==
  /\ UvCall(StdinFd)
  /\ stdin' = "taken"
  /\ \/ nclients = 0 /\ Shut({}, TRUE) /\ watched' = {} /\ UNCHANGED toDestroy
     \/ nclients # 0 /\ toDestroy' = TRUE /\ UNCHANGED <<netVars, watched>>
  /\ UNCHANGED <<unusedVars, nclients>>

\* read_completion with a message.
UvRead(f) ==
  /\ f \in Open /\ UvCall(f)
  /\ EchoBack(f)
  /\ UNCHANGED <<loopVars, stdin, toDestroy>>

\* read_completion with an end of file or an error: the connection closes, and
\* with the last one the server, if it was told to.
UvEnd(f) ==
  /\ f \in Open /\ UvCall(f)
  /\ AtEnd(f)
  /\ nclients' = nclients - 1
  /\ LET last == toDestroy /\ nclients = 1 IN
     /\ Shut({f}, last)
     /\ watched' = IF last THEN {} ELSE watched \ {f}
  /\ UNCHANGED <<unusedVars, stdin, toDestroy>>

\* uv_run returns.
UvRunEnds ==
  /\ server = "uv" /\ pc = "wait" /\ pc' = "ended"
  /\ watched = {}
  /\ UNCHANGED <<netVars, loopVars, stdin, toDestroy>>

UvStep ==
  /\ \/ UvShed \/ UvStdin \/ UvRunEnds
     \/ \E f \in Free : UvConnection(f)
     \/ \E f \in Open : UvRead(f) \/ UvEnd(f)
  /\ UNCHANGED <<server, progVars>>

\* nclients counts the connections, and each has an active handle; told to end,
\* the server keeps listening for as long as it has clients.
UvTables ==
  /\ nclients = Cardinality(Open)
  /\ watched \ {ListenFd, StdinFd} = Open
  /\ listening <=> ListenFd \in watched
  /\ toDestroy /\ listening => Open # {}
=============================================================================
