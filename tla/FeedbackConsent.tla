--------------------------- MODULE FeedbackConsent ---------------------------
(***************************************************************************)
(* The consent half of the feedback API: capabilities signed by the SDKs,  *)
(* the consent-decision, capability-inspection and report handlers, the    *)
(* collection policy, the retention worker and the start-up backfill of    *)
(* consent grants, for one product environment.                            *)
(*                                                                         *)
(* A handler reads the policy in one statement and then works in a         *)
(* transaction of its own, so a request is a process with a step between   *)
(* the two; a transaction is one step, because every row it decides on is  *)
(* locked by its first write to it (ON CONFLICT and UPDATE wait for a      *)
(* competing transaction) and READ COMMITTED lets the rest of it see only  *)
(* committed rows.                                                         *)
(***************************************************************************)
EXTENDS Naturals, FiniteSets

CONSTANTS
    Subjects,       \* opaque customer subjects (afsub1_...)
    NoSubject,      \* a capability or a row without a subject
    Interactions,   \* interaction ids
    SubjectOf,      \* the customer an interaction is served to, if known
    Requests,       \* handler slots: how many requests run at once
    Policies,       \* the feedback modes the company switches between
    MaxSigned,      \* bound: capabilities signed for one interaction
    Legacy          \* subjects decided before grants were written (0033)

Decisions == {"approved", "declined"}
AskModes  == {"ask_once", "ask_always"}
Modes     == AskModes \cup {"never_ask", "off"}
SubjectOrNone == Subjects \cup {NoSubject}

ASSUME ConstantsAssumption ==
    /\ NoSubject \notin Subjects
    /\ NoSubject \notin Interactions
    /\ Subjects \cap Interactions = {}
    /\ SubjectOf \in [Interactions -> SubjectOrNone]
    /\ "none" \notin Subjects \cup Interactions
    /\ "migration" \notin Interactions
    /\ Legacy \subseteq Subjects
    /\ Policies \subseteq Modes
    /\ MaxSigned \in Nat

(* A grant's subject is a consent subject, or "afint1_<interaction>".      *)
GrantKeys == Subjects \cup Interactions

VARIABLES
    mode,           \* product_environments.feedback_mode
    signed,         \* every capability an SDK has signed
    expired,        \* interactions whose capabilities no longer verify
    subjects,       \* feedback_consent_subjects (revision 0: no row)
    interactions,   \* feedback_consent_interactions (decision "none": no row)
    grants,         \* consent_grants of scope share_outcome (revision 0: no row)
    events,         \* consent_events, each with the interaction that caused it
    reports,        \* feedback_reports: the policy it was accepted under
    signals,        \* customer_signals: the grant its evidence cites
    requests,       \* requests in flight, after their policy read
    backfill,       \* the subjects a backfill statement found without a grant
    conflicted,     \* legacy subjects whose interactions name two customers
    lost,           \* history: capabilities whose compare-and-set failed
    revealed        \* history: capabilities given the report action, by policy

tables == <<subjects, interactions, grants, events, reports, signals>>
vars == <<mode, signed, expired, subjects, interactions, grants, events,
          reports, signals, requests, backfill, conflicted, lost, revealed>>

Capability == [i : Interactions, s : SubjectOrNone, r : Nat]

NoSubjectRow == [decision |-> "none", revision |-> 0, flippedFrom |-> "none"]

SubjectRow == {NoSubjectRow} \cup
    [decision : Decisions, revision : Nat \ {0}, flippedFrom : Decisions \cup {"none"}]

InteractionRow ==
    [decision : Decisions \cup {"none"}, subject : SubjectOrNone, applied : Nat]

GrantRow == [state : Decisions \cup {"none"}, revision : Nat]

Event ==
    [subject : GrantKeys, prior : Decisions \cup {"none"}, state : Decisions,
     revision : Nat, by : Interactions \cup {"migration"}]

DecisionRequest ==
    [slot : Requests, pc : {"decide"}, cap : Capability,
     decision : Decisions, mode : AskModes]

ReportRequest ==
    [slot : Requests, pc : {"check", "submit"}, cap : Capability,
     decision : {"none"}, mode : Modes]

Request == DecisionRequest \cup ReportRequest

NoInteractionRow == [decision |-> "none", subject |-> NoSubject, applied |-> 0]

TypeOK ==
    /\ mode \in Modes
    /\ signed \subseteq Capability
    /\ expired \subseteq Interactions
    /\ subjects \in [Subjects -> SubjectRow]
    /\ interactions \in [Interactions -> InteractionRow]
    /\ grants \in [GrantKeys -> GrantRow]
    /\ events \subseteq Event
    /\ reports \in [Interactions -> Modes \cup {"none"}]
    /\ signals \in [Interactions -> GrantKeys \cup {"none"}]
    /\ requests \subseteq Request
    /\ backfill \subseteq {s \in Subjects : subjects[s].revision > 0}
    /\ conflicted \subseteq Legacy
    /\ lost \subseteq Capability
    /\ revealed \subseteq Capability \X AskModes

-----------------------------------------------------------------------------
(* Init: a database with some decisions taken before migration 0033, which  *)
(* have a subject row at revision 1 and no grant.                           *)

Init ==
    /\ mode \in Policies
    /\ signed = {}
    /\ expired = {}
    /\ \E old \in [Legacy -> Decisions] :
         subjects = [s \in Subjects |->
                        IF s \in Legacy
                        THEN [decision |-> old[s], revision |-> 1, flippedFrom |-> "none"]
                        ELSE NoSubjectRow]
    /\ interactions = [i \in Interactions |-> NoInteractionRow]
    /\ grants = [k \in GrantKeys |-> [state |-> "none", revision |-> 0]]
    /\ events = {}
    /\ reports = [i \in Interactions |-> "none"]
    /\ signals = [i \in Interactions |-> "none"]
    /\ requests = {}
    /\ backfill = {}
    /\ conflicted \in SUBSET Legacy
    /\ lost = {}
    /\ revealed = {}

-----------------------------------------------------------------------------
(* The SDK.  With Ask once and a customer reference it signs the subject    *)
(* and the revision its cache holds: the current one, an older one while a  *)
(* cached answer lives, or 0 when nothing is cached or the service is in    *)
(* another mode.  Other SDK modes sign neither.                             *)

SignCapability(i, s, r) ==
    /\ i \notin expired
    /\ Cardinality({c \in signed : c.i = i}) < MaxSigned
    /\ \/ s = NoSubject /\ r = 0
       \/ s \in Subjects /\ s = SubjectOf[i] /\ r \in 0 .. subjects[s].revision
    /\ signed' = signed \cup {[i |-> i, s |-> s, r |-> r]}
    /\ UNCHANGED <<mode, expired, tables, requests, backfill, conflicted, lost, revealed>>

(* Two hours after signing (or once its key is revoked) a capability does   *)
(* not verify any more.                                                     *)
Expire(i) ==
    /\ i \notin expired
    /\ expired' = expired \cup {i}
    /\ UNCHANGED <<mode, signed, tables, requests, backfill, conflicted, lost, revealed>>

UpdatePolicy(m) ==
    /\ mode' = m
    /\ UNCHANGED <<signed, expired, tables, requests, backfill, conflicted, lost, revealed>>

-----------------------------------------------------------------------------
(* Receiving a request: the bearer is verified and the policy read.         *)

Verified(c) == c.i \notin expired

FreeSlot(p) == \A q \in requests : q.slot # p

Receive(p, pc, c, d) ==
    /\ FreeSlot(p)
    /\ Verified(c)
    /\ requests' = requests \cup
            {[slot |-> p, pc |-> pc, cap |-> c, decision |-> d, mode |-> mode]}
    /\ UNCHANGED <<mode, signed, expired, tables, backfill, conflicted, lost, revealed>>

ReceiveDecision(p, c, d) ==
    /\ mode \in AskModes
    /\ Receive(p, "decide", c, d)

ReceiveReport(p, c) ==
    /\ mode # "off"
    /\ Receive(p, "check", c, "none")

(* The caller goes away, the process dies or a statement fails: the         *)
(* transaction rolls back.                                                  *)
Abandon(q) ==
    /\ requests' = requests \ {q}
    /\ UNCHANGED <<mode, signed, expired, tables, backfill, conflicted, lost, revealed>>

-----------------------------------------------------------------------------
(* The decision transaction.                                                *)

FirstDecision(i) == interactions[i].decision = "none"

BySubject(q) == q.mode = "ask_once" /\ q.cap.s # NoSubject

(* The insert of revision 1 succeeds only without a row, the update only    *)
(* at the observed revision: with revision 0 for "no row" both say this.    *)
(* Mutant: an observation of any past revision may write.                    *)
CompareAtMost(c) == c.r <= subjects[c.s].revision

CompareAndSet(c) == c.r = subjects[c.s].revision

FlippedFrom(old, new) == IF old = new THEN "none" ELSE old

GrantAdvances(key, revision) == grants[key].revision < revision

(* Mutant: the upsert forgets "state = EXCLUDED.state".                     *)
DualWriteKeepsState(key, state, revision, prior, by) ==
    /\ GrantAdvances(key, revision)
    /\ grants' = [grants EXCEPT ![key] =
          [state |-> IF grants[key].revision = 0 THEN state ELSE grants[key].state,
           revision |-> revision]]
    /\ events' = events \cup {[subject |-> key, prior |-> prior, state |-> state,
                               revision |-> revision, by |-> by]}

(* "Consent grant revision did not advance after winning CAS" is an error.   *)
DualWrite(key, state, revision, prior, by) ==
    /\ GrantAdvances(key, revision)
    /\ grants' = [grants EXCEPT ![key] = [state |-> state, revision |-> revision]]
    /\ events' = events \cup {[subject |-> key, prior |-> prior, state |-> state,
                               revision |-> revision, by |-> by]}

Reveal(q, allowed) ==
    revealed' = IF allowed THEN revealed \cup {<<q.cap, q.mode>>} ELSE revealed

(* Mutant: a stale attempt records the "unknown" it is answered with.       *)
RecordAnswer(q, applied) ==
    interactions' = [interactions EXCEPT ![q.cap.i] =
        [decision |-> IF BySubject(q) /\ applied = 0 THEN "unknown" ELSE q.decision,
         subject |-> q.cap.s, applied |-> applied]]

RecordInteraction(q, applied) ==
    interactions' = [interactions EXCEPT ![q.cap.i] =
        [decision |-> q.decision, subject |-> q.cap.s, applied |-> applied]]

(* The capability observed the current revision: its decision becomes the   *)
(* next revision of the subject, in the subject row, the grant and the log. *)
WinSubject(q) ==
    LET s    == q.cap.s
        next == subjects[s].revision + 1
        flip == FlippedFrom(subjects[s].decision, q.decision)
    IN  /\ BySubject(q) /\ FirstDecision(q.cap.i) /\ CompareAndSet(q.cap)
        /\ RecordInteraction(q, next)
        /\ subjects' = [subjects EXCEPT ![s] =
              [decision |-> q.decision, revision |-> next, flippedFrom |-> flip]]
        /\ DualWrite(s, q.decision, next, flip, q.cap.i)
        /\ Reveal(q, q.decision = "approved")
        /\ UNCHANGED lost

(* Mutant: a stale attempt is marked with the revision it found.            *)
LoserMarksRevision(q) ==
    /\ BySubject(q) /\ FirstDecision(q.cap.i) /\ ~CompareAndSet(q.cap)
    /\ RecordInteraction(q, subjects[q.cap.s].revision)
    /\ lost' = lost \cup {q.cap}
    /\ UNCHANGED <<subjects, grants, events, revealed>>

(* A stale capability: the interaction is on record, the subject unchanged, *)
(* and the answer carries no report action.                                 *)
LoseSubject(q) ==
    /\ BySubject(q) /\ FirstDecision(q.cap.i) /\ ~CompareAndSet(q.cap)
    /\ RecordInteraction(q, 0)
    /\ lost' = lost \cup {q.cap}
    /\ UNCHANGED <<subjects, grants, events, revealed>>

(* Ask every time, or Ask once without a customer: the decision is for this *)
(* interaction alone, and only Ask every time writes a grant for it.        *)
DecideInteraction(q) ==
    /\ ~BySubject(q) /\ FirstDecision(q.cap.i)
    /\ RecordInteraction(q, 0)
    /\ IF q.mode = "ask_always"
       THEN DualWrite(q.cap.i, q.decision, 1, "none", q.cap.i)
       ELSE UNCHANGED <<grants, events>>
    /\ Reveal(q, q.decision = "approved")
    /\ UNCHANGED <<subjects, lost>>

(* Mutant: a retry looks at the standing decision, not at who applied it.    *)
StandingApplies(q) ==
    /\ interactions[q.cap.i].decision = "approved"
    /\ BySubject(q) => subjects[q.cap.s].decision = "approved"

(* Mutant: a retry looks at the interaction's own decision alone.           *)
RecordedApplies(q) == interactions[q.cap.i].decision = "approved"

StillApplies(q) ==
    LET row == interactions[q.cap.i]
    IN  /\ row.decision = "approved"
        /\ BySubject(q) =>
              /\ row.applied = subjects[q.cap.s].revision
              /\ subjects[q.cap.s].decision = "approved"

(* The interaction has decided before: nothing is written, the answer       *)
(* repeats what stands.                                                     *)
RetryDecision(q) ==
    /\ ~FirstDecision(q.cap.i)
    /\ Reveal(q, StillApplies(q))
    /\ UNCHANGED <<subjects, interactions, grants, events, lost>>

CommitDecision(q) ==
    /\ q.pc = "decide"
    /\ \/ WinSubject(q)
       \/ LoseSubject(q)
       \/ DecideInteraction(q)
       \/ RetryDecision(q)
    /\ requests' = requests \ {q}
    /\ UNCHANGED <<mode, signed, expired, reports, signals, backfill, conflicted>>

-----------------------------------------------------------------------------
(* The report handler: the consent check is a statement of its own, before  *)
(* the transaction that stores the report.                                  *)

(* Mutant: Ask every time falls back on the subject's remembered decision.   *)
PermittedByMemory(c, m) ==
    \/ m = "never_ask"
    \/ m \in AskModes /\ c.s # NoSubject /\ subjects[c.s].decision = "approved"
    \/ m = "ask_once" /\ c.s = NoSubject /\ interactions[c.i].decision = "approved"
    \/ m = "ask_always" /\ interactions[c.i].decision = "approved"

(* The decision the report endpoint consults under policy m.                *)
Permitted(c, m) ==
    \/ m = "never_ask"
    \/ m = "ask_once" /\ c.s # NoSubject /\ subjects[c.s].decision = "approved"
    \/ m = "ask_once" /\ c.s = NoSubject /\ interactions[c.i].decision = "approved"
    \/ m = "ask_always" /\ interactions[c.i].decision = "approved"

CheckConsent(q) ==
    /\ q.pc = "check"
    /\ requests' = (requests \ {q}) \cup
            (IF Permitted(q.cap, q.mode) THEN {[q EXCEPT !.pc = "submit"]} ELSE {})
    /\ UNCHANGED <<mode, signed, expired, tables, backfill, conflicted, lost, revealed>>

(* The grant that the evidence of a report cites: the one of the            *)
(* interaction's own approved decision, while it stands.                    *)
CitedGrant(i) ==
    LET row == interactions[i]
        key == IF row.subject = NoSubject THEN i ELSE row.subject
    IN  IF /\ row.decision = "approved"
           /\ grants[key].state = "approved"
           /\ key \in Interactions => i \notin expired
        THEN key ELSE "none"

(* The first report of an interaction is stored and later ones return it;   *)
(* either way its evidence is projected again.                              *)
StoreReport(q) ==
    LET i == q.cap.i
    IN  /\ q.pc = "submit"
        /\ reports' = [reports EXCEPT ![i] = IF @ = "none" THEN q.mode ELSE @]
        /\ signals' = [signals EXCEPT ![i] =
                          IF CitedGrant(i) = "none" THEN @ ELSE CitedGrant(i)]
        /\ requests' = requests \ {q}
        /\ UNCHANGED <<mode, signed, expired, subjects, interactions, grants, events,
                       backfill, conflicted, lost, revealed>>

-----------------------------------------------------------------------------
(* The retention worker.  Retention is at least a day and a capability lives *)
(* at most two hours, so what it deletes is past verification and, the time  *)
(* limits of a request being far shorter, no request still holds it.         *)

PastRetention(i) == i \in expired /\ \A q \in requests : q.cap.i # i

PurgeConsent(i) ==
    /\ PastRetention(i)
    /\ interactions[i].decision # "none"
    /\ interactions' = [interactions EXCEPT ![i] = NoInteractionRow]
    /\ UNCHANGED <<mode, signed, expired, subjects, grants, events, reports, signals,
                   requests, backfill, conflicted, lost, revealed>>

(* Deleting the interaction cascades to its report and their signals.       *)
PurgeInteraction(i) ==
    /\ PastRetention(i)
    /\ reports[i] # "none"
    /\ reports' = [reports EXCEPT ![i] = "none"]
    /\ signals' = [signals EXCEPT ![i] = "none"]
    /\ UNCHANGED <<mode, signed, expired, subjects, interactions, grants, events,
                   requests, backfill, conflicted, lost, revealed>>

(* The interactions that tie a subject to two customers age out as well.    *)
ResolveConflict(s) ==
    /\ s \in conflicted
    /\ conflicted' = conflicted \ {s}
    /\ UNCHANGED <<mode, signed, expired, tables, requests, backfill, lost, revealed>>

-----------------------------------------------------------------------------
(* The start-up backfill of grants.  Its SELECT ... FOR UPDATE finds the    *)
(* subjects without a grant in its snapshot, then waits for the row locks   *)
(* and goes on with the rows' latest versions.                              *)

Ungranted == {s \in Subjects : subjects[s].revision > 0 /\ grants[s].revision = 0}

BackfillScan ==
    /\ backfill = {}
    /\ Ungranted # {}
    /\ backfill' = Ungranted
    /\ UNCHANGED <<mode, signed, expired, tables, requests, conflicted, lost, revealed>>

(* Mutant: a backfilled grant counts revisions from 0.                      *)
BackfillSucceedsFromZero ==
    /\ backfill \cap conflicted = {}
    /\ \A s \in backfill : GrantAdvances(s, subjects[s].revision - 1)

(* One failing subject fails the transaction, and with it the batch.        *)
BackfillSucceeds ==
    /\ backfill \cap conflicted = {}
    /\ \A s \in backfill : GrantAdvances(s, subjects[s].revision)

BackfillWrite ==
    /\ backfill # {}
    /\ BackfillSucceeds
    /\ grants' = [k \in GrantKeys |->
                     IF k \in backfill
                     THEN [state |-> subjects[k].decision, revision |-> subjects[k].revision]
                     ELSE grants[k]]
    /\ events' = events \cup
          {[subject |-> s, prior |-> "none", state |-> subjects[s].decision,
            revision |-> subjects[s].revision, by |-> "migration"] : s \in backfill}
    /\ backfill' = {}
    /\ UNCHANGED <<mode, signed, expired, subjects, interactions, reports, signals,
                   requests, conflicted, lost, revealed>>

BackfillFails ==
    /\ backfill # {}
    /\ ~BackfillSucceeds
    /\ backfill' = {}
    /\ UNCHANGED <<mode, signed, expired, tables, requests, conflicted, lost, revealed>>

-----------------------------------------------------------------------------
Sign == \E i \in Interactions, s \in SubjectOrNone :
           \E r \in 0 .. IF s = NoSubject THEN 0 ELSE subjects[s].revision :
               SignCapability(i, s, r)

Arrive == \E p \in Requests, c \in signed :
             \/ \E d \in Decisions : ReceiveDecision(p, c, d)
             \/ ReceiveReport(p, c)

Handle(q) == CommitDecision(q) \/ CheckConsent(q) \/ StoreReport(q)

Backfill == BackfillScan \/ BackfillWrite \/ BackfillFails

Next ==
    \/ Sign
    \/ \E m \in Policies : UpdatePolicy(m)
    \/ Arrive
    \/ \E q \in requests : Handle(q) \/ Abandon(q)
    \/ \E i \in Interactions : Expire(i) \/ PurgeConsent(i) \/ PurgeInteraction(i)
    \/ \E s \in Subjects : ResolveConflict(s)
    \/ Backfill

Spec == Init /\ [][Next]_vars

(* A handler runs to its end or is dropped, the retention worker wakes every *)
(* hour, and the backfill is retried until it finds nothing left to do.      *)
Fairness ==
    /\ \A p \in Requests :
          WF_vars(\E q \in requests : q.slot = p /\ (Handle(q) \/ Abandon(q)))
    /\ \A i \in Interactions : WF_vars(PurgeConsent(i)) /\ WF_vars(PurgeInteraction(i))
    /\ \A s \in Subjects : WF_vars(ResolveConflict(s))
    /\ WF_vars(Backfill)

FairSpec == Spec /\ Fairness

-----------------------------------------------------------------------------
(* PROPERTIES                                                               *)

(* Every subject's share_outcome grant is the image of the subject's row:   *)
(* same revision, same state, unless it has never been written (a legacy    *)
(* subject).  Two tables written by three code paths (a winning decision,   *)
(* the first decision, the backfill) that run concurrently.                 *)
GrantMirrorsSubject ==
    \A s \in Subjects :
        \/ grants[s].revision = 0
        \/ /\ grants[s].revision = subjects[s].revision
           /\ grants[s].state = subjects[s].decision

(* consent_events is the history of each grant: one event per revision, no  *)
(* revision missing after the first one logged, and prior_state naming the  *)
(* decision it replaced exactly when the decision flipped.                  *)
AuditTrailComplete ==
    \A k \in GrantKeys :
        LET log == {e \in events : e.subject = k}
        IN  /\ \A e, f \in log : e.revision = f.revision => e = f
            /\ \A e \in log : /\ e.revision <= grants[k].revision
                              /\ e.revision = grants[k].revision => e.state = grants[k].state
            /\ grants[k].revision > 0 => \E e \in log : e.revision = grants[k].revision
            /\ \A e, f \in log : e.revision < f.revision =>
                   \E g \in log : g.revision = e.revision + 1
            /\ \A e, f \in log : f.revision = e.revision + 1 =>
                   f.prior = FlippedFrom(e.state, f.state)

(* A revision of a subject is the work of one interaction: of the requests  *)
(* that present the same observed revision, concurrently or replayed later, *)
(* one at most is recorded as having applied it.                            *)
OneWinnerPerRevision ==
    \A i, j \in Interactions :
        /\ i # j
        /\ interactions[i].applied # 0
        /\ interactions[i].subject = interactions[j].subject
        => interactions[i].applied # interactions[j].applied

(* An interaction moves a standing decision once at most, however many      *)
(* capabilities were signed for it, however often they are replayed,        *)
(* whatever the policy was each time, and although retention deletes the    *)
(* row that remembers its decision.                                         *)
InteractionDecidesOnce ==
    \A e, f \in events : e.by = f.by /\ e.by # "migration" => e = f

(* "Consent grant revision did not advance after winning CAS" never reaches *)
(* the caller of the decision endpoint.                                     *)
DecisionNeverFaults ==
    \A q \in requests :
        q.pc = "decide" /\ FirstDecision(q.cap.i) =>
            /\ BySubject(q) /\ CompareAndSet(q.cap)
                  => GrantAdvances(q.cap.s, subjects[q.cap.s].revision + 1)
            /\ q.mode = "ask_always" => GrantAdvances(q.cap.i, 1)

(* While the policy is Ask once, a capability that lost the compare-and-set *)
(* is never answered with the report action, neither at once nor when it is *)
(* replayed after the subject has come back to "approved".                  *)
LoserStaysSilentUnderAskOnce ==
    \A c \in lost : <<c, "ask_once">> \notin revealed

(* When a decision is answered with the report action, the report endpoint, *)
(* which decides by a query of its own over the same tables, would take the *)
(* report at that moment under the same policy.                             *)
RevealedIsAccepted ==
    [][\A answer \in revealed' \ revealed : Permitted(answer[1], answer[2])']_vars

(* A report accepted under Ask every time is backed by the user's approval  *)
(* of that very interaction for as long as that decision is kept, and one   *)
(* accepted under Ask once by an approval of its own or of its subject.     *)
ReportHasApproval ==
    \A i \in Interactions :
        LET own == interactions[i].decision = "approved" \/ PastRetention(i)
            remembered ==
                /\ SubjectOf[i] \in Subjects
                /\ \/ SubjectOf[i] \in Legacy
                   \/ \E e \in events : e.subject = SubjectOf[i] /\ e.state = "approved"
        IN  /\ reports[i] = "ask_always" => own
            /\ reports[i] = "ask_once" => own \/ remembered

(* Evidence cites a grant only for an interaction whose own decision was    *)
(* approved: an interaction that was declined, or that lost to a later      *)
(* decision while declining, is not evidence given under the grant.         *)
CitedEvidenceWasApproved ==
    \A i \in Interactions :
        signals[i] # "none" => interactions[i].decision = "approved" \/ PastRetention(i)

(* What inspection answers for a capability.                                *)
Inspect(c) ==
    LET standing == IF mode = "ask_once" THEN subjects[c.s].decision
                    ELSE interactions[c.i].decision
    IN  CASE mode = "never_ask" -> "feedback_ready"
          [] mode = "ask_once" /\ c.s = NoSubject -> "consent_required"
          [] OTHER -> IF standing = "approved" THEN "feedback_ready"
                      ELSE IF standing = "declined" THEN "declined"
                      ELSE "consent_required"

Live == {c \in signed : Verified(c)}

(* Inspection promises a report only where the report endpoint takes it.    *)
InspectionNeverOverpromises ==
    mode # "off" => \A c \in Live : Inspect(c) = "feedback_ready" => Permitted(c, mode)

(* The grant of a subject follows its row, and no decision trips over it.   *)
GrantFollowsSubject == GrantMirrorsSubject /\ DecisionNeverFaults

(* A decision counts once: for one revision of its subject, and for one turn *)
(* of its interaction.                                                      *)
DecisionsCountOnce == OneWinnerPerRevision /\ InteractionDecidesOnce

(* What stored evidence rests on can be shown: its approval, the approved   *)
(* grant it cites, and the grant's unbroken history.                        *)
EvidenceTrail == AuditTrailComplete /\ ReportHasApproval /\ CitedEvidenceWasApproved

(* What an agent is told it may do, by inspection or by the answer to a     *)
(* decision, the report endpoint then takes.                                *)
PromisesKept == []InspectionNeverOverpromises /\ RevealedIsAccepted

(* Every subject with a decision ends up with a grant, although the         *)
(* backfill is one transaction that a racing decision or one conflicted     *)
(* subject makes fail as a whole.                                           *)
BackfillConverges == <>[](Ungranted = {})

(* Retention catches up with every per-interaction decision.                *)
ConsentRowsExpire ==
    \A i \in Interactions : (i \in expired) ~> (interactions[i].decision = "none")

(* The tasks of the background worker finish what they are for.             *)
MaintenanceSettles == BackfillConverges /\ ConsentRowsExpire

-----------------------------------------------------------------------------
(* REFINEMENT: capabilities are the tickets, the subject table the register. *)

Register == INSTANCE ConsentRegister WITH
    register <- [s \in Subjects |-> [decision |-> subjects[s].decision,
                                     revision |-> subjects[s].revision]],
    tickets  <- {<<c.s, c.r>> : c \in {x \in signed : x.s \in Subjects}}

ImplementsRegister == Register!RegisterSpec
=============================================================================
