-------------------------- MODULE MCFeedbackConsent --------------------------
(***************************************************************************)
(* Small instances of FeedbackConsent for TLC.                             *)
(***************************************************************************)
EXTENDS FeedbackConsent, TLC

CONSTANTS s1, i1, i2, r1, r2

(* Two interactions of one customer.                                       *)
MCSubjectOf == (i1 :> s1) @@ (i2 :> s1)

(* The interactions of one customer are alike, and so are handler slots.   *)
MCSymmetry == Permutations({i1, i2}) \cup Permutations({r1, r2})
=============================================================================
