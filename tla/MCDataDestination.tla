--------------------------- MODULE MCDataDestination ---------------------------
(* Small instances of DataDestination for TLC.                              *)
EXTENDS DataDestination, TLC

DrainsAreAlike == Permutations(Drains)

=============================================================================
