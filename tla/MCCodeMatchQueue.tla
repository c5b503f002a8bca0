-------------------------- MODULE MCCodeMatchQueue --------------------------
(* CodeMatchQueue on small sets.                                            *)
EXTENDS CodeMatchQueue, TLC

MCSymmetry == Permutations(Repos) \cup Permutations(Workers)

=============================================================================
