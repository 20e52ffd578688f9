------------------------------ MODULE MCUSynch ------------------------------
(***************************************************************************)
(* Model-checking instance of the synchronizers.                           *)
(***************************************************************************)
EXTENDS USynch
CONSTANTS t1, t2, t3, s1, s2, e1, e2

MCLimit == [s \in Sems |-> 2]
MCInitUnits == [s \in Sems |-> 1]
OneTwo == {1, 2}
=============================================================================
