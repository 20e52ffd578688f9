---------------------------- MODULE MCUtResults ----------------------------
(***************************************************************************)
(* Model-checking instance of the results of threads.                      *)
(***************************************************************************)
EXTENDS UtResults
=============================================================================
