---------------------------- MODULE MCNodeDaemon ----------------------------
(* A model of NodeDaemon for TLC: processes that may fail are              *)
(* interchangeable, and so are those that may not, and the Spaces.         *)
EXTENDS NodeDaemon, TLC

Symmetry ==
    Permutations(Mortal)
        \cup Permutations(Instance \ Mortal)
        \cup Permutations(Space)

=============================================================================
