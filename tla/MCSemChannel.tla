---------------------------- MODULE MCSemChannel ----------------------------
(***************************************************************************)
(* Model-checking instance of the channel with semaphores.                 *)
(***************************************************************************)
EXTENDS SemChannel
=============================================================================
