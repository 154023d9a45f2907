----------------------------- MODULE MCTokenManager ------------------------------
(* Instances of TokenManager for TLC. *)
EXTENDS TokenManager, TLC

CONSTANTS u1, u2, tab1, tab2

TwoUsers == [s \in Sessions |-> IF s = tab1 THEN u1 ELSE u2]
CallSymmetry == Permutations(Calls)
==================================================================================
