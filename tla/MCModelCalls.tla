---------------------------- MODULE MCModelCalls ----------------------------
(* Instances of ModelCalls for TLC: calls are interchangeable.             *)
EXTENDS ModelCalls, TLC

Symmetry == Permutations(Calls)
=============================================================================
