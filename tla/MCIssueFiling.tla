---------------------------- MODULE MCIssueFiling ----------------------------
(* IssueFiling on small sets.                                               *)
EXTENDS IssueFiling, TLC

MCSymmetry ==
    Permutations(Groups) \cup Permutations(Filers) \cup Permutations(Syncs)

=============================================================================
