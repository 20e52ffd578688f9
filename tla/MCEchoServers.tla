--------------------------- MODULE MCEchoServers ---------------------------
(***************************************************************************)
(* Model-checking instance of the echo servers over sockets.               *)
(***************************************************************************)
EXTENDS EchoServers

CONSTANTS c1, c2, c3

\* Two requests on the connection of one client, one on the others.
MCTries == [c \in Clients |-> IF c = c1 THEN 2 ELSE 1]
=============================================================================
