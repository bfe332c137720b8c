--------------------------- MODULE MCMachineLease ---------------------------
(* A model of MachineLease for TLC: interchangeable daemon processes.      *)
EXTENDS MachineLease, TLC

Symmetry == Permutations(Instance)

=============================================================================
