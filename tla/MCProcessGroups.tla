--------------------------- MODULE MCProcessGroups ---------------------------
(* A model of ProcessGroups for TLC: interchangeable children and pids.    *)
EXTENDS ProcessGroups, TLC

Symmetry == Permutations(Child) \cup Permutations(Pid)

=============================================================================
