--------------------------- MODULE ConsentRegister ---------------------------
(***************************************************************************)
(* What Ask once promises about a consent subject, without requests,       *)
(* capabilities, policies or tables: a versioned register per subject.  A  *)
(* client may write only while holding a ticket for the version that is    *)
(* current, and a write makes the next version, so a ticket that has once  *)
(* gone stale is stale for ever, whatever value the register takes later.  *)
(*                                                                         *)
(* FeedbackConsent implements this specification.                          *)
(***************************************************************************)
EXTENDS Naturals

CONSTANT Subjects

Decisions == {"approved", "declined"}

VARIABLES
    register,   \* register[s]: the standing decision and its revision
    tickets     \* <<s, r>>: some client has observed revision r of s

registerVars == <<register, tickets>>

(* Revision 0 is a subject nobody has decided for.                         *)
RegisterRow ==
    [decision : Decisions \cup {"none"}, revision : Nat]

RegisterInit ==
    /\ register \in [Subjects ->
                        {row \in [decision : Decisions \cup {"none"}, revision : {0, 1}] :
                            (row.decision = "none") <=> (row.revision = 0)}]
    /\ tickets = {}

(* A client observes the current revision, or still remembers an old one.  *)
Observe(s) ==
    /\ \E r \in 0 .. register[s].revision : tickets' = tickets \cup {<<s, r>>}
    /\ UNCHANGED register

Decide(s, d) ==
    /\ <<s, register[s].revision>> \in tickets
    /\ register' = [register EXCEPT ![s] =
                        [decision |-> d, revision |-> register[s].revision + 1]]
    /\ UNCHANGED tickets

RegisterNext ==
    \E s \in Subjects : Observe(s) \/ \E d \in Decisions : Decide(s, d)

RegisterSpec == RegisterInit /\ [][RegisterNext]_registerVars
=============================================================================
