------------------------------ MODULE MCMoesi ------------------------------
(* Instances of MoesiSystem for model checking. *)
EXTENDS MoesiLine, TLC

CONSTANTS x, y   \* two lines

AllLines == [i \in L1s |-> Lines]
Uneven == [i \in L1s |-> IF i = 0 THEN Lines ELSE {y}]   \* only cache 0 uses both

Symmetry == Permutations(Lines)
=============================================================================
