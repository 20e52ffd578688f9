---------------------------- MODULE MCReadyOrder ----------------------------
(***************************************************************************)
(* Model-checking instance of the scheduler and the synchronizers with the *)
(* history of which thread became ready when.                              *)
(***************************************************************************)
EXTENDS MCUSynch, ReadyOrder
=============================================================================
