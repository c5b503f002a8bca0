------------------------------ MODULE ReportProofs ------------------------------
(***************************************************************************)
(* What holds of feedback reports from the decision to file one to the       *)
(* search for its code: of FeedbackConsent for every set of subjects,        *)
(* interactions, handler slots and policies, of the groups of the reports    *)
(* for any number of reports, findings, facts and merges, and of the         *)
(* code-match queue for any number of workers and reports, every batch size  *)
(* and ceiling, whichever workers die, fail or stall.  The three share no    *)
(* state.                                                                    *)
(***************************************************************************)
EXTENDS FeedbackConsent, ReportGroups, CodeMatchQueue,
        WellFoundedInduction, NaturalsInduction, TLAPS

-----------------------------------------------------------------------------
(* Consent.                                                                  *)

LEMMA CapabilityType ==
  ASSUME NEW c \in Capability
  PROVE  /\ c.i \in Interactions
         /\ c.s \in SubjectOrNone
         /\ c.r \in Nat
BY DEF Capability

LEMMA DecisionRequestType ==
  ASSUME TypeOK, NEW q \in requests, q.pc = "decide"
  PROVE  /\ q.cap \in Capability
         /\ q.decision \in Decisions
         /\ q.mode \in AskModes
BY DEF TypeOK, Request, DecisionRequest, ReportRequest

LEMMA RequestType ==
  ASSUME TypeOK, NEW q \in requests
  PROVE  q.cap \in Capability /\ q.mode \in Modes
BY DEF TypeOK, Request, DecisionRequest, ReportRequest, Modes

LEMMA SubjectRowType ==
  ASSUME TypeOK, NEW s \in Subjects
  PROVE  /\ subjects[s].decision \in Decisions \cup {"none"}
         /\ subjects[s].revision \in Nat
         /\ subjects[s].revision > 0 => subjects[s].decision \in Decisions
         /\ subjects[s].revision = 0 => subjects[s].decision = "none"
<1>1. subjects[s] \in SubjectRow
  BY DEF TypeOK
<1> QED
  BY <1>1 DEF SubjectRow, NoSubjectRow

LEMMA FlippedFromType ==
  ASSUME NEW old \in Decisions \cup {"none"}, NEW new \in Decisions
  PROVE  FlippedFrom(old, new) \in Decisions \cup {"none"}
BY DEF FlippedFrom

LEMMA DualWriteType ==
  ASSUME TypeOK, NEW key \in GrantKeys, NEW state \in Decisions, NEW revision \in Nat,
         NEW prior \in Decisions \cup {"none"}, NEW by \in Interactions,
         DualWrite(key, state, revision, prior, by)
  PROVE  /\ grants' \in [GrantKeys -> GrantRow]
         /\ events' \subseteq Event
<1>1. [state |-> state, revision |-> revision] \in GrantRow
  BY DEF GrantRow
<1>2. [subject |-> key, prior |-> prior, state |-> state, revision |-> revision, by |-> by]
        \in Event
  BY DEF Event
<1> QED
  BY <1>1, <1>2 DEF DualWrite, TypeOK

LEMMA RecordInteractionType ==
  ASSUME TypeOK, NEW q \in requests, q.pc = "decide", NEW applied \in Nat,
         RecordInteraction(q, applied)
  PROVE  interactions' \in [Interactions -> InteractionRow]
<1>1. [decision |-> q.decision, subject |-> q.cap.s, applied |-> applied] \in InteractionRow
  BY DecisionRequestType, CapabilityType DEF InteractionRow
<1> QED
  BY <1>1 DEF RecordInteraction, TypeOK

LEMMA RevealType ==
  ASSUME TypeOK, NEW q \in requests, q.pc = "decide", NEW allowed, Reveal(q, allowed)
  PROVE  revealed' \subseteq Capability \X AskModes
BY DecisionRequestType DEF Reveal, TypeOK

LEMMA TypeInvariant == TypeOK /\ [Next]_vars => TypeOK'
<1> SUFFICES ASSUME TypeOK, [Next]_vars PROVE TypeOK'
  OBVIOUS
<1>1. CASE Sign
  <2> PICK i \in Interactions, s \in SubjectOrNone : 
         \E r \in 0 .. IF s = NoSubject THEN 0 ELSE subjects[s].revision :
             SignCapability(i, s, r)
    BY <1>1 DEF Sign
  <2> PICK r \in 0 .. IF s = NoSubject THEN 0 ELSE subjects[s].revision :
             SignCapability(i, s, r)
    OBVIOUS
  <2>1. r \in Nat
    BY SubjectRowType DEF SignCapability, SubjectOrNone
  <2>2. [i |-> i, s |-> s, r |-> r] \in Capability
    BY <2>1 DEF Capability
  <2> QED
    BY <2>2 DEF SignCapability, TypeOK, tables
<1>2. ASSUME NEW m \in Policies, UpdatePolicy(m) PROVE TypeOK'
  BY <1>2, ConstantsAssumption DEF UpdatePolicy, TypeOK, tables
<1>3. CASE Arrive
  <2> PICK p \in Requests, c \in signed :
         \/ \E d \in Decisions : ReceiveDecision(p, c, d)
         \/ ReceiveReport(p, c)
    BY <1>3 DEF Arrive
  <2>0. c \in Capability
    BY DEF TypeOK
  <2>1. ASSUME NEW d \in Decisions, ReceiveDecision(p, c, d) PROVE TypeOK'
    <3>1. [slot |-> p, pc |-> "decide", cap |-> c, decision |-> d, mode |-> mode] \in Request
      BY <2>0, <2>1 DEF ReceiveDecision, Request, DecisionRequest
    <3> QED
      BY <2>1, <3>1 DEF ReceiveDecision, Receive, TypeOK, tables
  <2>2. CASE ReceiveReport(p, c)
    <3>1. [slot |-> p, pc |-> "check", cap |-> c, decision |-> "none", mode |-> mode] \in Request
      BY <2>0 DEF Request, ReportRequest, TypeOK
    <3> QED
      BY <2>2, <3>1 DEF ReceiveReport, Receive, TypeOK, tables
  <2> QED
    BY <2>1, <2>2
<1>4. ASSUME NEW q \in requests, CommitDecision(q) PROVE TypeOK'
  <2> DEFINE i == q.cap.i
             s == q.cap.s
  <2>0. /\ q.pc = "decide" /\ q.cap \in Capability /\ q.decision \in Decisions
        /\ q.mode \in AskModes /\ i \in Interactions /\ s \in SubjectOrNone
    BY <1>4, DecisionRequestType, CapabilityType DEF CommitDecision
  <2>1. CASE WinSubject(q)
    <3> DEFINE next == subjects[s].revision + 1
               flip == FlippedFrom(subjects[s].decision, q.decision)
    <3>1. s \in Subjects /\ s \in GrantKeys
      BY <2>0, <2>1 DEF WinSubject, BySubject, SubjectOrNone, GrantKeys
    <3>a. /\ subjects[s].revision \in Nat
          /\ subjects[s].decision \in Decisions \cup {"none"}
      BY <3>1, SubjectRowType
    <3>b. next \in Nat /\ next > 0
      BY <3>a
    <3>2. flip \in Decisions \cup {"none"}
      BY <2>0, <3>a, FlippedFromType
    <3>3. [decision |-> q.decision, revision |-> next, flippedFrom |-> flip] \in SubjectRow
      <4>1. next \in Nat \ {0}
        BY <3>b
      <4> HIDE DEF next, flip
      <4> QED
        BY <2>0, <3>2, <4>1 DEF SubjectRow
    <3>4. /\ subjects' \in [Subjects -> SubjectRow]
          /\ backfill' \subseteq {x \in Subjects : subjects'[x].revision > 0}
      <4>1. subjects' = [subjects EXCEPT ![s] =
                [decision |-> q.decision, revision |-> next, flippedFrom |-> flip]]
        BY <2>1 DEF WinSubject
      <4> HIDE DEF next, flip
      <4> QED
        BY <1>4, <3>3, <3>b, <4>1 DEF CommitDecision, TypeOK
    <3>5. interactions' \in [Interactions -> InteractionRow]
      BY <2>0, <2>1, <3>b, RecordInteractionType DEF WinSubject
    <3>6. grants' \in [GrantKeys -> GrantRow] /\ events' \subseteq Event
      <4>1. DualWrite(s, q.decision, next, flip, i)
        BY <2>1 DEF WinSubject
      <4> QED
        BY <4>1, <2>0, <3>1, <3>2, <3>b, DualWriteType
    <3>7. revealed' \subseteq Capability \X AskModes
      BY <2>0, <2>1, RevealType DEF WinSubject
    <3> QED
      BY <1>4, <2>1, <3>4, <3>5, <3>6, <3>7 DEF CommitDecision, WinSubject, TypeOK
  <2>2. CASE LoseSubject(q)
    <3>1. interactions' \in [Interactions -> InteractionRow]
      BY <2>0, <2>2, RecordInteractionType DEF LoseSubject
    <3> QED
      BY <1>4, <2>0, <2>2, <3>1 DEF CommitDecision, LoseSubject, TypeOK
  <2>3. CASE DecideInteraction(q)
    <3>1. interactions' \in [Interactions -> InteractionRow]
      BY <2>0, <2>3, RecordInteractionType DEF DecideInteraction
    <3>2. grants' \in [GrantKeys -> GrantRow] /\ events' \subseteq Event
      <4>1. CASE DualWrite(i, q.decision, 1, "none", i)
        BY <4>1, <2>0, DualWriteType DEF GrantKeys
      <4>2. CASE UNCHANGED <<grants, events>>
        BY <4>2 DEF TypeOK
      <4> QED
        BY <4>1, <4>2, <2>3 DEF DecideInteraction
    <3>3. revealed' \subseteq Capability \X AskModes
      BY <2>0, <2>3, RevealType DEF DecideInteraction
    <3> QED
      BY <1>4, <2>3, <3>1, <3>2, <3>3 DEF CommitDecision, DecideInteraction, TypeOK
  <2>4. CASE RetryDecision(q)
    <3>1. revealed' \subseteq Capability \X AskModes
      BY <2>0, <2>4, RevealType DEF RetryDecision
    <3> QED
      BY <1>4, <2>4, <3>1 DEF CommitDecision, RetryDecision, TypeOK
  <2> QED
    BY <1>4, <2>1, <2>2, <2>3, <2>4 DEF CommitDecision
<1>5. ASSUME NEW q \in requests, CheckConsent(q) PROVE TypeOK'
  <2>1. q \in ReportRequest
    BY <1>5 DEF CheckConsent, TypeOK, Request, DecisionRequest
  <2>2. [q EXCEPT !.pc = "submit"] \in Request
    BY <2>1 DEF ReportRequest, Request
  <2> QED
    BY <1>5, <2>2 DEF CheckConsent, TypeOK, tables
<1>6. ASSUME NEW q \in requests, StoreReport(q) PROVE TypeOK'
  <2> DEFINE i == q.cap.i
  <2>1. i \in Interactions /\ q.mode \in Modes
    BY RequestType, CapabilityType
  <2>2. CitedGrant(i) \in GrantKeys \cup {"none"}
    BY <2>1 DEF CitedGrant, TypeOK, InteractionRow, SubjectOrNone, GrantKeys
  <2>3. reports' \in [Interactions -> Modes \cup {"none"}]
    BY <1>6, <2>1 DEF StoreReport, TypeOK
  <2>4. signals' \in [Interactions -> GrantKeys \cup {"none"}]
    BY <1>6, <2>1, <2>2 DEF StoreReport, TypeOK
  <2> QED
    BY <1>6, <2>3, <2>4 DEF StoreReport, TypeOK
<1>7. ASSUME NEW q \in requests, Abandon(q) PROVE TypeOK'
  BY <1>7 DEF Abandon, TypeOK, tables
<1>8. ASSUME NEW i \in Interactions, Expire(i) PROVE TypeOK'
  BY <1>8 DEF Expire, TypeOK, tables
<1>9. ASSUME NEW i \in Interactions, PurgeConsent(i) PROVE TypeOK'
  <2>1. NoInteractionRow \in InteractionRow
    BY DEF NoInteractionRow, InteractionRow, SubjectOrNone
  <2> QED
    BY <1>9, <2>1 DEF PurgeConsent, TypeOK
<1>10. ASSUME NEW i \in Interactions, PurgeInteraction(i) PROVE TypeOK'
  BY <1>10 DEF PurgeInteraction, TypeOK
<1>11. ASSUME NEW s \in Subjects, ResolveConflict(s) PROVE TypeOK'
  BY <1>11 DEF ResolveConflict, TypeOK, tables
<1>12. CASE BackfillScan
  BY <1>12 DEF BackfillScan, Ungranted, TypeOK, tables
<1>13. CASE BackfillWrite
  <2>1. ASSUME NEW s \in backfill
        PROVE  /\ s \in Subjects /\ s \in GrantKeys
               /\ subjects[s].decision \in Decisions
               /\ subjects[s].revision \in Nat
    BY SubjectRowType DEF TypeOK, GrantKeys
  <2>2. grants' \in [GrantKeys -> GrantRow]
    BY <1>13, <2>1 DEF BackfillWrite, TypeOK, GrantRow
  <2>3. events' \subseteq Event
    BY <1>13, <2>1 DEF BackfillWrite, TypeOK, Event
  <2> QED
    BY <1>13, <2>2, <2>3 DEF BackfillWrite, TypeOK
<1>14. CASE BackfillFails
  BY <1>14 DEF BackfillFails, TypeOK, tables
<1>15. CASE UNCHANGED vars
  BY <1>15 DEF vars, tables, TypeOK
<1> QED
  BY <1>1, <1>2, <1>3, <1>4, <1>5, <1>6, <1>7, <1>8, <1>9, <1>10, <1>11, <1>12, <1>13,
     <1>14, <1>15 DEF Next, Handle, Backfill

LEMMA InitTypeOK == Init => TypeOK
<1> SUFFICES ASSUME Init PROVE TypeOK
  OBVIOUS
<1>1. subjects \in [Subjects -> SubjectRow]
  <2> PICK old \in [Legacy -> Decisions] :
         subjects = [s \in Subjects |->
                        IF s \in Legacy
                        THEN [decision |-> old[s], revision |-> 1, flippedFrom |-> "none"]
                        ELSE NoSubjectRow]
    BY DEF Init
  <2> QED
    BY DEF SubjectRow
<1>2. interactions \in [Interactions -> InteractionRow]
  BY DEF Init, InteractionRow, NoInteractionRow, SubjectOrNone
<1>3. grants \in [GrantKeys -> GrantRow]
  BY DEF Init, GrantRow
<1> QED
  BY <1>1, <1>2, <1>3, ConstantsAssumption DEF Init, TypeOK

(* Every reachable state is well typed.                                    *)
THEOREM TypeCorrect == Spec => []TypeOK
BY InitTypeOK, TypeInvariant, PTL DEF Spec

-----------------------------------------------------------------------------
(* FRAMES: which steps can change what the invariants read.                *)

LEMMA WritersOfConsent ==
  ASSUME [Next]_vars
  PROVE  \/ \E q \in requests : CommitDecision(q)
         \/ BackfillWrite
         \/ UNCHANGED <<subjects, grants, events, lost, revealed>>
BY DEF Next, vars, tables, Sign, SignCapability, UpdatePolicy, Arrive, ReceiveDecision,
       ReceiveReport, Receive, Handle, CheckConsent, StoreReport, Abandon, Expire,
       PurgeConsent, PurgeInteraction, ResolveConflict, Backfill, BackfillScan, BackfillFails

LEMMA WritersOfInteractions ==
  ASSUME [Next]_vars
  PROVE  \/ \E q \in requests : CommitDecision(q)
         \/ \E i \in Interactions : PurgeConsent(i)
         \/ UNCHANGED interactions
BY DEF Next, vars, tables, Sign, SignCapability, UpdatePolicy, Arrive, ReceiveDecision,
       ReceiveReport, Receive, Handle, CheckConsent, StoreReport, Abandon, Expire,
       PurgeInteraction, ResolveConflict, Backfill, BackfillScan, BackfillWrite, BackfillFails

(* A request in flight after a step was there before it, perhaps one phase  *)
(* earlier, or has just been verified.                                      *)
LEMMA RequestsAfterStep ==
  ASSUME TypeOK, [Next]_vars, NEW r \in requests'
  PROVE  \/ \E q \in requests : q.cap = r.cap
         \/ r.cap \in signed /\ Verified(r.cap)
<1>1. CASE Arrive
  BY <1>1 DEF Arrive, ReceiveDecision, ReceiveReport, Receive
<1>2. ASSUME NEW q \in requests, CheckConsent(q)
      PROVE  \E x \in requests : x.cap = r.cap
  <2>1. q.pc = "check" /\ q \in ReportRequest
    BY <1>2 DEF CheckConsent, TypeOK, Request, DecisionRequest
  <2>2. [q EXCEPT !.pc = "submit"].cap = q.cap
    BY <2>1 DEF ReportRequest
  <2> QED
    BY <1>2, <2>2 DEF CheckConsent
<1>3. CASE requests' \subseteq requests
  BY <1>3
<1>4. \/ Arrive
      \/ \E q \in requests : CheckConsent(q)
      \/ requests' \subseteq requests
  BY DEF Next, vars, Sign, SignCapability, UpdatePolicy, Handle, CommitDecision, StoreReport,
         Abandon, Expire, PurgeConsent, PurgeInteraction, ResolveConflict,
         Backfill, BackfillScan, BackfillWrite, BackfillFails
<1> QED
  BY <1>1, <1>2, <1>3, <1>4

LEMMA ExpiredGrows ==
  ASSUME [Next]_vars
  PROVE  expired \subseteq expired'
BY DEF Next, vars, tables, Sign, SignCapability, UpdatePolicy, Arrive, ReceiveDecision,
       ReceiveReport, Receive, Handle, CommitDecision, CheckConsent, StoreReport, Abandon,
       Expire, PurgeConsent, PurgeInteraction, ResolveConflict, Backfill, BackfillScan,
       BackfillWrite, BackfillFails

(* Past retention is for ever: nothing verifies for the interaction again.  *)
LEMMA RetentionStable ==
  ASSUME TypeOK, [Next]_vars, NEW i \in Interactions, PastRetention(i)
  PROVE  PastRetention(i)'
BY RequestsAfterStep, ExpiredGrows DEF PastRetention, Verified

LEMMA PurgedIsPastRetention ==
  ASSUME NEW i \in Interactions, PurgeConsent(i)
  PROVE  PastRetention(i)
BY DEF PurgeConsent

(* The interaction has decided: its row is there, or retention took it.     *)
Settled(i) == interactions[i].decision # "none" \/ PastRetention(i)

(* A decision on record changes in one way: retention deletes it.           *)
LEMMA RowStable ==
  ASSUME TypeOK, [Next]_vars, NEW i \in Interactions, interactions[i].decision # "none"
  PROVE  \/ interactions'[i] = interactions[i]
         \/ PastRetention(i)
<1>1. ASSUME NEW q \in requests, CommitDecision(q)
      PROVE  interactions'[i] = interactions[i]
  BY <1>1, RequestType, CapabilityType
     DEF CommitDecision, WinSubject, LoseSubject, DecideInteraction, RetryDecision, RecordInteraction, FirstDecision, TypeOK
<1>2. ASSUME NEW j \in Interactions, PurgeConsent(j)
      PROVE  interactions'[i] = interactions[i] \/ PastRetention(i)
  BY <1>2 DEF PurgeConsent, TypeOK
<1> QED
  BY <1>1, <1>2, WritersOfInteractions

LEMMA SettledStable ==
  ASSUME TypeOK, [Next]_vars, NEW i \in Interactions, Settled(i)
  PROVE  Settled(i)'
BY RowStable, RetentionStable DEF Settled

(* A decision that is about to be the first belongs to no settled           *)
(* interaction, and settles it.                                             *)
LEMMA FirstDecisionUnsettled ==
  ASSUME TypeOK, NEW q \in requests, FirstDecision(q.cap.i)
  PROVE  ~Settled(q.cap.i)
BY DEF FirstDecision, Settled, PastRetention

LEMMA CommitSettles ==
  ASSUME TypeOK, NEW q \in requests, q.pc = "decide", NEW applied \in Nat,
         RecordInteraction(q, applied)
  PROVE  /\ interactions'[q.cap.i].decision = q.decision
         /\ interactions'[q.cap.i].applied = applied
         /\ Settled(q.cap.i)'
BY DecisionRequestType, CapabilityType DEF RecordInteraction, TypeOK, Settled, Decisions

-----------------------------------------------------------------------------
(* THE GRANT MIRRORS THE SUBJECT.                                          *)

LEMMA WinFacts ==
  ASSUME TypeOK, NEW q \in requests, q.pc = "decide", WinSubject(q)
  PROVE  /\ q.cap.s \in Subjects /\ q.cap.i \in Interactions
         /\ subjects'[q.cap.s].revision = subjects[q.cap.s].revision + 1
         /\ subjects'[q.cap.s].decision = q.decision
         /\ grants'[q.cap.s] = [state |-> q.decision,
                                revision |-> subjects[q.cap.s].revision + 1]
         /\ \A s \in Subjects \ {q.cap.s} :
               subjects'[s] = subjects[s] /\ grants'[s] = grants[s]
         /\ \A i \in Interactions : grants'[i] = grants[i]
         /\ RecordInteraction(q, subjects[q.cap.s].revision + 1)
<1>1. q.cap.s \in Subjects /\ q.cap.i \in Interactions
  BY DecisionRequestType, CapabilityType DEF WinSubject, BySubject, SubjectOrNone
<1> QED
  BY <1>1, ConstantsAssumption DEF WinSubject, DualWrite, TypeOK, GrantKeys

LEMMA MirrorInit == Init => GrantMirrorsSubject
BY DEF Init, GrantMirrorsSubject, GrantKeys

LEMMA MirrorStep ==
  TypeOK /\ GrantMirrorsSubject /\ [Next]_vars => GrantMirrorsSubject'
<1> SUFFICES ASSUME TypeOK, GrantMirrorsSubject, [Next]_vars PROVE GrantMirrorsSubject'
  OBVIOUS
<1>1. ASSUME NEW q \in requests, CommitDecision(q) PROVE GrantMirrorsSubject'
  <2>0. q.pc = "decide"
    BY <1>1 DEF CommitDecision
  <2>1. CASE WinSubject(q)
    <3> SUFFICES ASSUME NEW s \in Subjects
                 PROVE  \/ grants'[s].revision = 0
                        \/ /\ grants'[s].revision = subjects'[s].revision
                           /\ grants'[s].state = subjects'[s].decision
      BY DEF GrantMirrorsSubject
    <3>0. /\ subjects'[q.cap.s].revision = subjects[q.cap.s].revision + 1
          /\ subjects'[q.cap.s].decision = q.decision
          /\ grants'[q.cap.s] = [state |-> q.decision,
                                 revision |-> subjects[q.cap.s].revision + 1]
      BY <2>0, <2>1, WinFacts
    <3>1. CASE s = q.cap.s
      BY <3>0, <3>1
    <3>2. CASE s # q.cap.s
      <4>1. subjects'[s] = subjects[s] /\ grants'[s] = grants[s]
        BY <2>0, <2>1, <3>2, WinFacts
      <4> QED
        BY <4>1 DEF GrantMirrorsSubject
    <3> QED
      BY <3>1, <3>2
  <2>2. CASE DecideInteraction(q)
    <3>1. q.cap.i \in Interactions
      BY RequestType, CapabilityType
    <3>2. \A s \in Subjects : grants'[s] = grants[s]
      BY <2>2, <3>1, ConstantsAssumption DEF DecideInteraction, DualWrite, TypeOK, GrantKeys
    <3> QED
      BY <2>2, <3>2 DEF DecideInteraction, GrantMirrorsSubject
  <2>3. CASE UNCHANGED <<subjects, grants>>
    BY <2>3 DEF GrantMirrorsSubject
  <2> QED
    BY <1>1, <2>1, <2>2, <2>3
       DEF CommitDecision, LoseSubject, RetryDecision
<1>2. CASE BackfillWrite
  BY <1>2 DEF BackfillWrite, GrantMirrorsSubject, TypeOK, GrantKeys
<1>3. CASE UNCHANGED <<subjects, grants, events, lost, revealed>>
  BY <1>3 DEF GrantMirrorsSubject
<1> QED
  BY <1>1, <1>2, <1>3, WritersOfConsent

(* The share_outcome grant of a subject is the image of its Ask-once row,  *)
(* whatever decisions, retries and backfills run against it.               *)
THEOREM GrantMirrors == Spec => []GrantMirrorsSubject
BY MirrorInit, MirrorStep, TypeCorrect, PTL DEF Spec

-----------------------------------------------------------------------------
(* ONE WINNER PER REVISION.                                                *)

(* The strengthening: what an interaction has applied is a revision the    *)
(* subject has reached, so the next revision is nobody's yet.              *)
AppliedBounded ==
    \A i \in Interactions :
        interactions[i].applied # 0 =>
            /\ interactions[i].subject \in Subjects
            /\ interactions[i].applied <= subjects[interactions[i].subject].revision

LEMMA RevisionsGrow ==
  ASSUME TypeOK, [Next]_vars, NEW s \in Subjects
  PROVE  subjects[s].revision \in Nat /\ subjects'[s].revision \in Nat
         /\ subjects[s].revision <= subjects'[s].revision
<1>0. subjects[s].revision \in Nat
  BY SubjectRowType
<1>1. ASSUME NEW q \in requests, CommitDecision(q)
      PROVE  \/ subjects'[s] = subjects[s]
             \/ subjects'[s].revision = subjects[s].revision + 1
  BY <1>1, WinFacts
     DEF CommitDecision, LoseSubject, DecideInteraction, RetryDecision
<1>2. BackfillWrite => subjects' = subjects
  BY DEF BackfillWrite
<1> QED
  BY <1>0, <1>1, <1>2, WritersOfConsent

LEMMA WinnerInit == Init => AppliedBounded /\ OneWinnerPerRevision
BY DEF Init, AppliedBounded, OneWinnerPerRevision, NoInteractionRow

LEMMA WinnerStep ==
  TypeOK /\ AppliedBounded /\ OneWinnerPerRevision /\ [Next]_vars
    => (AppliedBounded /\ OneWinnerPerRevision)'
<1> SUFFICES ASSUME TypeOK, AppliedBounded, OneWinnerPerRevision, [Next]_vars
             PROVE  (AppliedBounded /\ OneWinnerPerRevision)'
  OBVIOUS
<1>a. \A i \in Interactions : interactions[i].applied \in Nat
  BY DEF TypeOK, InteractionRow
<1>1. ASSUME NEW q \in requests, CommitDecision(q), WinSubject(q)
      PROVE  (AppliedBounded /\ OneWinnerPerRevision)'
  <2> DEFINE w == q.cap.i
             s == q.cap.s
             next == subjects[s].revision + 1
  <2>1. w \in Interactions /\ s \in Subjects /\ subjects'[s].revision = next
    BY <1>1, WinFacts DEF CommitDecision
  <2>2. /\ interactions'[w].subject = s /\ interactions'[w].applied = next
        /\ \A j \in Interactions \ {w} : interactions'[j] = interactions[j]
    <3>1. RecordInteraction(q, next)
      BY <1>1, WinFacts DEF CommitDecision
    <3> HIDE DEF next
    <3> QED
      BY <2>1, <3>1 DEF RecordInteraction, TypeOK
  <2>3. AppliedBounded'
    <3> SUFFICES ASSUME NEW j \in Interactions, interactions'[j].applied # 0
                 PROVE  /\ interactions'[j].subject \in Subjects
                        /\ interactions'[j].applied <= subjects'[interactions'[j].subject].revision
      BY DEF AppliedBounded
    <3>1. CASE j = w
      BY <2>1, <2>2, <3>1, RevisionsGrow
    <3>2. CASE j # w
      BY <1>a, <2>2, <3>2, RevisionsGrow DEF AppliedBounded
    <3> QED
      BY <3>1, <3>2
  <2>4. OneWinnerPerRevision'
    <3>1. \A j \in Interactions : j # w /\ interactions'[j].applied # 0
                                  /\ interactions'[j].subject = s
             => interactions'[j].applied < next
      BY <1>a, <2>1, <2>2, RevisionsGrow DEF AppliedBounded
    <3> HIDE DEF next
    <3> QED
      BY <2>1, <2>2, <3>1, <1>a DEF OneWinnerPerRevision
  <2> QED
    BY <2>3, <2>4
<1>2. ASSUME NEW q \in requests, CommitDecision(q), ~WinSubject(q)
      PROVE  (AppliedBounded /\ OneWinnerPerRevision)'
  <2>0. q.cap.i \in Interactions
    BY RequestType, CapabilityType
  <2>1. subjects' = subjects
    BY <1>2 DEF CommitDecision, LoseSubject, DecideInteraction, RetryDecision
  <2>2. \A j \in Interactions :
           interactions'[j] = interactions[j] \/ interactions'[j].applied = 0
    BY <1>2, <2>0 DEF CommitDecision, LoseSubject, DecideInteraction, RetryDecision, RecordInteraction, TypeOK
  <2> QED
    BY <2>1, <2>2 DEF AppliedBounded, OneWinnerPerRevision
<1>3. ASSUME NEW i \in Interactions, PurgeConsent(i)
      PROVE  (AppliedBounded /\ OneWinnerPerRevision)'
  <2>1. \A j \in Interactions :
           interactions'[j] = interactions[j] \/ interactions'[j].applied = 0
    BY <1>3 DEF PurgeConsent, NoInteractionRow, TypeOK
  <2> QED
    BY <1>3, <2>1 DEF PurgeConsent, AppliedBounded, OneWinnerPerRevision
<1>4. CASE UNCHANGED interactions
  BY <1>4, <1>a, RevisionsGrow DEF AppliedBounded, OneWinnerPerRevision
<1> QED
  BY <1>1, <1>2, <1>3, <1>4, WritersOfInteractions

(* Concurrent or replayed, two interactions never own the same revision of *)
(* a subject.                                                              *)
THEOREM OneWinner == Spec => []OneWinnerPerRevision
<1>1. Init => AppliedBounded /\ OneWinnerPerRevision
  BY WinnerInit
<1>2. TypeOK /\ (AppliedBounded /\ OneWinnerPerRevision) /\ [Next]_vars
        => (AppliedBounded /\ OneWinnerPerRevision)'
  BY WinnerStep
<1> QED
  BY <1>1, <1>2, TypeCorrect, PTL DEF Spec

-----------------------------------------------------------------------------
(* AN INTERACTION DECIDES ONCE, AND ITS GRANT IS FRESH WHEN IT DOES.       *)

(* The traces an interaction's decision leaves outlive its row only past   *)
(* retention.                                                              *)
Remembered ==
    \A i \in Interactions :
        /\ grants[i].revision # 0 => Settled(i)
        /\ \A e \in events : e.by = i => Settled(i)

DecideInv == Remembered /\ InteractionDecidesOnce

LEMMA DecideInit == Init => DecideInv
BY DEF Init, DecideInv, Remembered, InteractionDecidesOnce, GrantKeys

LEMMA OneEventMore ==
  ASSUME TypeOK, DecideInv, [Next]_vars, NEW q \in requests, q.pc = "decide",
         FirstDecision(q.cap.i), NEW applied \in Nat, RecordInteraction(q, applied),
         NEW e \in Event, e.by = q.cap.i, events' = events \cup {e},
         \A i \in Interactions : i # q.cap.i => grants'[i] = grants[i]
  PROVE  DecideInv'
<1>1. q.cap.i \in Interactions /\ ~Settled(q.cap.i) /\ Settled(q.cap.i)'
  BY FirstDecisionUnsettled, CommitSettles, RequestType, CapabilityType
<1>2. Remembered'
  BY <1>1, SettledStable DEF DecideInv, Remembered
<1>3. InteractionDecidesOnce'
  BY <1>1 DEF DecideInv, Remembered, InteractionDecidesOnce
<1> QED
  BY <1>2, <1>3 DEF DecideInv

LEMMA DecideStep == TypeOK /\ DecideInv /\ [Next]_vars => DecideInv'
<1> SUFFICES ASSUME TypeOK, DecideInv, [Next]_vars PROVE DecideInv'
  OBVIOUS
<1>1. ASSUME NEW q \in requests, CommitDecision(q) PROVE DecideInv'
  <2> DEFINE i == q.cap.i
             s == q.cap.s
  <2>0. q.pc = "decide" /\ i \in Interactions /\ q.decision \in Decisions
    BY <1>1, DecisionRequestType, CapabilityType DEF CommitDecision
  <2>1. CASE WinSubject(q)
    <3> DEFINE next == subjects[s].revision + 1
               flip == FlippedFrom(subjects[s].decision, q.decision)
               e == [subject |-> s, prior |-> flip, state |-> q.decision,
                     revision |-> next, by |-> i]
    <3>1. s \in Subjects /\ RecordInteraction(q, next)
      BY <2>0, <2>1, WinFacts
    <3>2. next \in Nat /\ subjects[s].decision \in Decisions \cup {"none"}
      BY <3>1, SubjectRowType
    <3>3. flip \in Decisions \cup {"none"}
      BY <2>0, <3>2, FlippedFromType
    <3>4. events' = events \cup {e} /\ FirstDecision(i)
      BY <2>1 DEF WinSubject, DualWrite
    <3>5. e \in Event /\ e.by = i
      <4> HIDE DEF next, flip
      <4> QED
        BY <2>0, <3>1, <3>2, <3>3 DEF Event, GrantKeys
    <3>6. \A j \in Interactions : grants'[j] = grants[j]
      BY <2>0, <2>1, WinFacts
    <3> HIDE DEF e, next
    <3> QED
      BY <2>0, <3>1, <3>2, <3>4, <3>5, <3>6, OneEventMore
  <2>2. CASE DecideInteraction(q) /\ q.mode = "ask_always"
    <3> DEFINE e == [subject |-> i, prior |-> "none", state |-> q.decision,
                     revision |-> 1, by |-> i]
    <3>1. e \in Event /\ e.by = i
      BY <2>0 DEF Event, GrantKeys
    <3>2. events' = events \cup {e} /\ FirstDecision(i) /\ RecordInteraction(q, 0)
      BY <2>2 DEF DecideInteraction, DualWrite
    <3>3. \A j \in Interactions : j # i => grants'[j] = grants[j]
      BY <2>2 DEF DecideInteraction, DualWrite, TypeOK, GrantKeys
    <3> HIDE DEF e
    <3> QED
      BY <2>0, <3>1, <3>2, <3>3, OneEventMore
  <2>3. CASE UNCHANGED <<grants, events>>
    BY <2>3, SettledStable DEF DecideInv, Remembered, InteractionDecidesOnce
  <2> QED
    BY <1>1, <2>1, <2>2, <2>3
       DEF CommitDecision, LoseSubject, DecideInteraction, RetryDecision
<1>2. CASE BackfillWrite
  <2>1. \A i \in Interactions : grants'[i] = grants[i]
    BY <1>2, ConstantsAssumption DEF BackfillWrite, TypeOK, GrantKeys
  <2>2. \A e \in events' : e \in events \/ e.by = "migration"
    BY <1>2 DEF BackfillWrite
  <2>3. \A i \in Interactions : \A e \in events' : e.by = i => e \in events
    BY <2>2, ConstantsAssumption
  <2>4. Remembered'
    BY <2>1, <2>3, SettledStable DEF DecideInv, Remembered
  <2>5. InteractionDecidesOnce'
    BY <2>2 DEF DecideInv, InteractionDecidesOnce
  <2> QED
    BY <2>4, <2>5 DEF DecideInv
<1>3. CASE UNCHANGED <<subjects, grants, events, lost, revealed>>
  BY <1>3, SettledStable DEF DecideInv, Remembered, InteractionDecidesOnce
<1> QED
  BY <1>1, <1>2, <1>3, WritersOfConsent

(* The inductive form of InteractionDecidesOnce: what remembers that an       *)
(* interaction has had its turn stays (feedback_consent_decision).           *)
THEOREM DecideCorrect == Spec => []DecideInv
BY DecideInit, DecideStep, TypeCorrect, PTL DEF Spec

(* However many capabilities are signed for an interaction and however     *)
(* often they are replayed, it moves a standing decision once at most, and *)
(* the retention of its row does not give it another turn.                 *)
THEOREM DecidesOnce == Spec => []InteractionDecidesOnce
<1>1. DecideInv => InteractionDecidesOnce
  BY DEF DecideInv
<1> QED
  BY <1>1, DecideCorrect, PTL

(* A decision that wins never meets the "revision did not advance" error.  *)
THEOREM NeverFaults == Spec => []DecisionNeverFaults
<1>1. TypeOK /\ GrantMirrorsSubject /\ DecideInv => DecisionNeverFaults
  <2> SUFFICES ASSUME TypeOK, GrantMirrorsSubject, DecideInv,
                      NEW q \in requests, q.pc = "decide", FirstDecision(q.cap.i)
               PROVE  /\ BySubject(q) /\ CompareAndSet(q.cap)
                           => GrantAdvances(q.cap.s, subjects[q.cap.s].revision + 1)
                      /\ q.mode = "ask_always" => GrantAdvances(q.cap.i, 1)
    BY DEF DecisionNeverFaults
  <2>1. q.cap.i \in Interactions /\ q.cap.s \in SubjectOrNone
    BY RequestType, CapabilityType
  <2>2. GrantAdvances(q.cap.i, 1)
    <3>1. grants[q.cap.i].revision = 0
      BY <2>1, FirstDecisionUnsettled DEF DecideInv, Remembered
    <3> QED
      BY <3>1 DEF GrantAdvances
  <2>3. ASSUME BySubject(q)
        PROVE  GrantAdvances(q.cap.s, subjects[q.cap.s].revision + 1)
    <3>1. q.cap.s \in Subjects
      BY <2>1, <2>3 DEF BySubject, SubjectOrNone
    <3>2. subjects[q.cap.s].revision \in Nat
      BY <3>1, SubjectRowType
    <3> QED
      BY <3>1, <3>2 DEF GrantMirrorsSubject, GrantAdvances
  <2> QED
    BY <2>2, <2>3
<1> QED
  BY <1>1, TypeCorrect, GrantMirrors, DecideCorrect, PTL
-----------------------------------------------------------------------------
(* THE SUBJECT TABLE IS A VERSIONED REGISTER.                              *)

(* Every request in flight holds a capability that was signed.             *)
CapabilitiesHeld == \A q \in requests : q.cap \in signed

LEMMA SignedGrows ==
  ASSUME [Next]_vars
  PROVE  signed \subseteq signed'
BY DEF Next, vars, tables, Sign, SignCapability, UpdatePolicy, Arrive, ReceiveDecision,
       ReceiveReport, Receive, Handle, CommitDecision, CheckConsent, StoreReport, Abandon,
       Expire, PurgeConsent, PurgeInteraction, ResolveConflict, Backfill, BackfillScan,
       BackfillWrite, BackfillFails

LEMMA HeldCorrect == Spec => []CapabilitiesHeld
<1>1. Init => CapabilitiesHeld
  BY DEF Init, CapabilitiesHeld
<1>2. TypeOK /\ CapabilitiesHeld /\ [Next]_vars => CapabilitiesHeld'
  <2> SUFFICES ASSUME TypeOK, CapabilitiesHeld, [Next]_vars, NEW r \in requests'
               PROVE  r.cap \in signed'
    BY DEF CapabilitiesHeld
  <2>1. r.cap \in signed
    BY RequestsAfterStep DEF CapabilitiesHeld
  <2> QED
    BY <2>1, SignedGrows
<1> QED
  BY <1>1, <1>2, TypeCorrect, PTL DEF Spec

(* The abstract state.                                                     *)
RegisterView == [s \in Subjects |-> [decision |-> subjects[s].decision,
                                     revision |-> subjects[s].revision]]
TicketView == {<<c.s, c.r>> : c \in {x \in signed : x.s \in Subjects}}

LEMMA SignIsObserve ==
  ASSUME TypeOK, Sign
  PROVE  \/ \E s \in Subjects : Register!Observe(s)
         \/ UNCHANGED <<RegisterView, TicketView>>
<1> PICK i \in Interactions, s \in SubjectOrNone :
       \E r \in 0 .. IF s = NoSubject THEN 0 ELSE subjects[s].revision :
           SignCapability(i, s, r)
  BY DEF Sign
<1> PICK r \in 0 .. IF s = NoSubject THEN 0 ELSE subjects[s].revision : SignCapability(i, s, r)
  OBVIOUS
<1> DEFINE c == [i |-> i, s |-> s, r |-> r]
<1>1. signed' = signed \cup {c} /\ subjects' = subjects
  BY DEF SignCapability, tables
<1>2. RegisterView' = RegisterView
  BY <1>1 DEF RegisterView
<1>3. CASE s \in Subjects
  <2>1. r \in 0 .. RegisterView[s].revision
    <3>1. s # NoSubject
      BY <1>3, ConstantsAssumption
    <3> QED
      BY <1>3, <3>1 DEF RegisterView
  <2>2. TicketView' = TicketView \cup {<<s, r>>}
    <3>1. c.s = s /\ c.r = r
      OBVIOUS
    <3> HIDE DEF c
    <3>2. {x \in signed' : x.s \in Subjects} = {x \in signed : x.s \in Subjects} \cup {c}
      BY <1>1, <1>3, <3>1
    <3>3. \A t : t \in TicketView' <=> t \in TicketView \/ t = <<s, r>>
      BY <3>1, <3>2, Zenon DEF TicketView
    <3> QED
      BY <3>3
  <2> QED
    BY <1>2, <1>3, <2>1, <2>2 DEF Register!Observe, RegisterView, TicketView
<1>4. CASE s \notin Subjects
  BY <1>1, <1>2, <1>4 DEF TicketView
<1> QED
  BY <1>3, <1>4

LEMMA WinIsDecide ==
  ASSUME TypeOK, CapabilitiesHeld, NEW q \in requests, CommitDecision(q), WinSubject(q)
  PROVE  \E s \in Subjects, d \in Decisions : Register!Decide(s, d)
<1> DEFINE s == q.cap.s
           next == subjects[s].revision + 1
<1>1. s \in Subjects /\ q.decision \in Decisions
  BY WinFacts, DecisionRequestType DEF CommitDecision
<1>2. q.cap \in signed /\ q.cap.r = subjects[s].revision /\ UNCHANGED signed
  BY DEF CapabilitiesHeld, WinSubject, CompareAndSet, CommitDecision
<1>3. <<s, RegisterView[s].revision>> \in TicketView
  BY <1>1, <1>2 DEF RegisterView, TicketView
<1>4. RegisterView' = [RegisterView EXCEPT ![s] = [decision |-> q.decision, revision |-> next]]
  <2>1. /\ subjects'[s].revision = next /\ subjects'[s].decision = q.decision
        /\ \A x \in Subjects \ {s} : subjects'[x] = subjects[x]
    BY WinFacts DEF CommitDecision
  <2> HIDE DEF next
  <2> QED
    BY <1>1, <2>1 DEF RegisterView
<1>5. TicketView' = TicketView
  BY <1>2 DEF TicketView
<1>6. next = RegisterView[s].revision + 1
  BY <1>1 DEF RegisterView
<1>7. Register!Decide(s, q.decision)
  BY <1>3, <1>4, <1>5, <1>6 DEF Register!Decide, RegisterView, TicketView
<1> QED
  BY <1>1, <1>7

LEMMA RegisterStep ==
  TypeOK /\ CapabilitiesHeld /\ [Next]_vars
    => [Register!RegisterNext]_<<RegisterView, TicketView>>
<1> SUFFICES ASSUME TypeOK, CapabilitiesHeld, [Next]_vars
             PROVE  [Register!RegisterNext]_<<RegisterView, TicketView>>
  OBVIOUS
<1>0. Decisions = Register!Decisions
  BY DEF Decisions, Register!Decisions
<1>1. CASE Sign
  BY <1>1, SignIsObserve DEF Register!RegisterNext
<1>2. ASSUME NEW q \in requests, CommitDecision(q), WinSubject(q)
      PROVE  Register!RegisterNext
  BY <1>0, <1>2, WinIsDecide DEF Register!RegisterNext
<1>3. CASE UNCHANGED <<subjects, signed>>
  BY <1>3 DEF RegisterView, TicketView
<1>4. \/ Sign
      \/ \E q \in requests : CommitDecision(q) /\ WinSubject(q)
      \/ UNCHANGED <<subjects, signed>>
  BY DEF Next, vars, tables, UpdatePolicy, Arrive, ReceiveDecision, ReceiveReport, Receive,
         Handle, CommitDecision, LoseSubject, DecideInteraction, RetryDecision, CheckConsent,
         StoreReport, Abandon, Expire, PurgeConsent, PurgeInteraction, ResolveConflict,
         Backfill, BackfillScan, BackfillWrite, BackfillFails
<1> QED
  BY <1>1, <1>2, <1>3, <1>4

LEMMA RegisterStart == Init => Register!RegisterInit
<1> SUFFICES ASSUME Init PROVE Register!RegisterInit
  OBVIOUS
<1>1. TicketView = {}
  BY DEF Init, TicketView
<1>2. ASSUME NEW s \in Subjects
      PROVE  RegisterView[s] \in
               {x \in [decision : Decisions \cup {"none"}, revision : {0, 1}] :
                    (x.decision = "none") <=> (x.revision = 0)}
  BY DEF Init, RegisterView, NoSubjectRow, Decisions
<1> QED
  BY <1>1, <1>2 DEF Register!RegisterInit, Register!Decisions, Decisions, RegisterView, TicketView

(* The decision endpoint implements a versioned register: whatever the     *)
(* SDK caches, replays and races, a subject changes only at the hands of a *)
(* capability that observed its current revision, one revision at a time.  *)
THEOREM RegisterImplemented == Spec => ImplementsRegister
<1>1. Init => Register!RegisterInit
  BY RegisterStart
<1>2. TypeOK /\ CapabilitiesHeld /\ [Next]_vars
        => [Register!RegisterNext]_(Register!registerVars)
  BY RegisterStep DEF Register!registerVars, RegisterView, TicketView
<1> QED
  BY <1>1, <1>2, TypeCorrect, HeldCorrect, PTL
     DEF Spec, ImplementsRegister, Register!RegisterSpec
-----------------------------------------------------------------------------
(* A LOSER STAYS SILENT.                                                   *)

(* A stale attempt is on record as one that applied nothing, until         *)
(* retention takes the record and every bearer that could replay it.       *)
LoserOnRecord ==
    \A c \in lost :
        /\ c.s \in Subjects
        /\ \/ PastRetention(c.i)
           \/ interactions[c.i].decision # "none" /\ interactions[c.i].applied = 0

RevealedIsSettled == \A answer \in revealed : Settled(answer[1].i)

LoserInv == LoserOnRecord /\ RevealedIsSettled /\ LoserStaysSilentUnderAskOnce

LEMMA LoserInit == Init => LoserInv
BY DEF Init, LoserInv, LoserOnRecord, RevealedIsSettled, LoserStaysSilentUnderAskOnce

LEMMA LoserUntouched ==
  ASSUME TypeOK, LoserInv, [Next]_vars, NEW c \in lost
  PROVE  /\ c.s \in Subjects
         /\ \/ PastRetention(c.i)'
            \/ interactions'[c.i].decision # "none" /\ interactions'[c.i].applied = 0
<1>1. c.i \in Interactions
  BY CapabilityType DEF TypeOK
<1> QED
  BY <1>1, RowStable, RetentionStable DEF LoserInv, LoserOnRecord

LEMMA AnswerUntouched ==
  ASSUME TypeOK, LoserInv, [Next]_vars, NEW answer \in revealed
  PROVE  Settled(answer[1].i)'
<1>1. answer[1].i \in Interactions
  BY CapabilityType DEF TypeOK
<1> QED
  BY <1>1, SettledStable DEF LoserInv, RevealedIsSettled

(* The first decision of an interaction is answered to a capability that   *)
(* has never lost.                                                         *)
LEMMA FirstAnswerIsSafe ==
  ASSUME TypeOK, LoserInv, [Next]_vars, NEW q \in requests, q.pc = "decide",
         FirstDecision(q.cap.i), NEW applied \in Nat, RecordInteraction(q, applied),
         lost' = lost, NEW allowed, Reveal(q, allowed)
  PROVE  LoserInv'
<1>1. q.cap.i \in Interactions /\ ~Settled(q.cap.i) /\ Settled(q.cap.i)'
  BY FirstDecisionUnsettled, CommitSettles, RequestType, CapabilityType
<1>2. q.cap \notin lost
  BY <1>1 DEF LoserInv, LoserOnRecord, Settled
<1>3. LoserOnRecord'
  BY LoserUntouched DEF LoserOnRecord
<1>4. \A answer \in revealed' : answer \in revealed \/ answer = <<q.cap, q.mode>>
  BY DEF Reveal
<1>5. RevealedIsSettled'
  BY <1>1, <1>4, AnswerUntouched DEF RevealedIsSettled
<1>6. LoserStaysSilentUnderAskOnce'
  BY <1>2, <1>4 DEF LoserInv, LoserStaysSilentUnderAskOnce
<1> QED
  BY <1>3, <1>5, <1>6 DEF LoserInv

LEMMA LoserStep == TypeOK /\ LoserInv /\ [Next]_vars => LoserInv'
<1> SUFFICES ASSUME TypeOK, LoserInv, [Next]_vars PROVE LoserInv'
  OBVIOUS
<1>1. ASSUME NEW q \in requests, CommitDecision(q) PROVE LoserInv'
  <2> DEFINE i == q.cap.i
  <2>0. /\ q.pc = "decide" /\ i \in Interactions /\ q.cap \in Capability
        /\ ~PastRetention(i)
    BY <1>1, DecisionRequestType, CapabilityType DEF CommitDecision, PastRetention
  <2>1. CASE WinSubject(q)
    <3>1. subjects[q.cap.s].revision + 1 \in Nat
      <4>1. q.cap.s \in Subjects
        BY <2>0, <2>1, WinFacts
      <4>2. subjects[q.cap.s].revision \in Nat
        BY <4>1, SubjectRowType
      <4> QED
        BY <4>2
    <3>2. /\ RecordInteraction(q, subjects[q.cap.s].revision + 1)
          /\ FirstDecision(i) /\ lost' = lost /\ Reveal(q, q.decision = "approved")
      BY <2>1 DEF WinSubject
    <3> QED
      BY <2>0, <3>1, <3>2, FirstAnswerIsSafe
  <2>2. CASE LoseSubject(q)
    <3>1. q.cap.s \in Subjects
      BY <2>0, <2>2, CapabilityType DEF LoseSubject, BySubject, SubjectOrNone
    <3>2. /\ ~Settled(i) /\ Settled(i)'
          /\ interactions'[i].decision # "none" /\ interactions'[i].applied = 0
      <4>1. RecordInteraction(q, 0) /\ FirstDecision(i)
        BY <2>2 DEF LoseSubject
      <4>2. q.decision # "none"
        BY <2>0, DecisionRequestType DEF Decisions
      <4> QED
        BY <2>0, <4>1, <4>2, FirstDecisionUnsettled, CommitSettles
    <3>3. lost' = lost \cup {q.cap} /\ revealed' = revealed
      BY <2>2 DEF LoseSubject
    <3>4. LoserOnRecord'
      BY <3>1, <3>2, <3>3, LoserUntouched DEF LoserOnRecord
    <3>5. RevealedIsSettled'
      BY <3>3, AnswerUntouched DEF RevealedIsSettled
    <3>6. <<q.cap, "ask_once">> \notin revealed
      BY <3>2 DEF LoserInv, RevealedIsSettled
    <3>7. LoserStaysSilentUnderAskOnce'
      BY <3>3, <3>6 DEF LoserInv, LoserStaysSilentUnderAskOnce
    <3> QED
      BY <3>4, <3>5, <3>7 DEF LoserInv
  <2>3. CASE DecideInteraction(q)
    <3>1. /\ RecordInteraction(q, 0) /\ FirstDecision(i) /\ lost' = lost
          /\ Reveal(q, q.decision = "approved")
      BY <2>3 DEF DecideInteraction
    <3> QED
      BY <2>0, <3>1, FirstAnswerIsSafe
  <2>4. CASE RetryDecision(q)
    <3>1. /\ Reveal(q, StillApplies(q)) /\ ~FirstDecision(i)
          /\ UNCHANGED <<subjects, interactions, lost>>
      BY <2>4 DEF RetryDecision
    <3>2. Settled(i)'
      BY <2>0, <3>1, SettledStable DEF Settled, FirstDecision
    <3>3. \A answer \in revealed' :
             answer \in revealed \/ (answer = <<q.cap, q.mode>> /\ StillApplies(q))
      BY <3>1 DEF Reveal
    <3>4. LoserOnRecord'
      BY <3>1, LoserUntouched DEF LoserOnRecord
    <3>5. RevealedIsSettled'
      BY <3>2, <3>3, AnswerUntouched DEF RevealedIsSettled
    <3>6. ASSUME q.cap \in lost, q.mode = "ask_once" PROVE ~StillApplies(q)
      <4>1. q.cap.s \in Subjects /\ interactions[i].applied = 0
        BY <2>0, <3>6 DEF LoserInv, LoserOnRecord
      <4>2. BySubject(q)
        BY <3>6, <4>1, ConstantsAssumption DEF BySubject
      <4>3. subjects[q.cap.s].revision = 0 => subjects[q.cap.s].decision = "none"
        BY <4>1, SubjectRowType
      <4> QED
        BY <4>1, <4>2, <4>3 DEF StillApplies
    <3>7. LoserStaysSilentUnderAskOnce'
      BY <3>1, <3>3, <3>6 DEF LoserInv, LoserStaysSilentUnderAskOnce
    <3> QED
      BY <3>4, <3>5, <3>7 DEF LoserInv
  <2> QED
    BY <1>1, <2>1, <2>2, <2>3, <2>4 DEF CommitDecision
<1>2. CASE UNCHANGED <<lost, revealed>>
  <2>1. LoserOnRecord'
    BY <1>2, LoserUntouched DEF LoserOnRecord
  <2>2. RevealedIsSettled'
    BY <1>2, AnswerUntouched DEF RevealedIsSettled
  <2> QED
    BY <1>2, <2>1, <2>2 DEF LoserInv, LoserStaysSilentUnderAskOnce
<1> QED
  BY <1>1, <1>2, WritersOfConsent DEF BackfillWrite

(* While the policy is Ask once, a capability that lost the compare-and-set *)
(* is never answered with the report action, replayed or not.              *)
THEOREM LoserSilent == Spec => []LoserStaysSilentUnderAskOnce
<1>1. LoserInv => LoserStaysSilentUnderAskOnce
  BY DEF LoserInv
<1> QED
  BY <1>1, LoserInit, LoserStep, TypeCorrect, PTL DEF Spec

-----------------------------------------------------------------------------
(* THE LOG IS THE HISTORY OF EVERY GRANT.                                  *)

Log(k) == {e \in events : e.subject = k}

Positive(k) == \A e \in Log(k) : e.revision > 0

NoTwins(k) == \A e, f \in Log(k) : e.revision = f.revision => e = f

UpToGrant(k) ==
    \A e \in Log(k) : /\ e.revision <= grants[k].revision
                      /\ e.revision = grants[k].revision => e.state = grants[k].state

LastLogged(k) ==
    grants[k].revision > 0 => \E e \in Log(k) : e.revision = grants[k].revision

NoGap(k) ==
    \A e, f \in Log(k) : e.revision < f.revision =>
        \E g \in Log(k) : g.revision = e.revision + 1

Chained(k) ==
    \A e, f \in Log(k) : f.revision = e.revision + 1 => f.prior = FlippedFrom(e.state, f.state)

(* AuditTrailComplete for one grant, of which no event is of revision 0.   *)
TrailOf(k) ==
    Positive(k) /\ NoTwins(k) /\ UpToGrant(k) /\ LastLogged(k) /\ NoGap(k) /\ Chained(k)

Trails == \A k \in GrantKeys : TrailOf(k)

LEMMA TrailsAreTheTrail == Trails => AuditTrailComplete
<1> SUFFICES ASSUME Trails, NEW k \in GrantKeys
             PROVE  LET log == {e \in events : e.subject = k}
                    IN  /\ \A e, f \in log : e.revision = f.revision => e = f
                        /\ \A e \in log : /\ e.revision <= grants[k].revision
                                          /\ e.revision = grants[k].revision => e.state = grants[k].state
                        /\ grants[k].revision > 0 => \E e \in log : e.revision = grants[k].revision
                        /\ \A e, f \in log : e.revision < f.revision =>
                               \E g \in log : g.revision = e.revision + 1
                        /\ \A e, f \in log : f.revision = e.revision + 1 =>
                               f.prior = FlippedFrom(e.state, f.state)
  BY DEF AuditTrailComplete
<1>1. TrailOf(k)
  BY DEF Trails
<1> QED
  BY <1>1 DEF TrailOf, NoTwins, UpToGrant, LastLogged, NoGap, Chained, Log

LEMMA EventType ==
  ASSUME TypeOK, NEW e \in events
  PROVE  e.revision \in Nat /\ e.subject \in GrantKeys
BY DEF TypeOK, Event

LEMMA GrantType ==
  ASSUME TypeOK, NEW k \in GrantKeys
  PROVE  grants[k].revision \in Nat
BY DEF TypeOK, GrantRow

(* A grant that was never written has no history.                          *)
LEMMA NoGrantNoLog ==
  ASSUME TypeOK, NEW k \in GrantKeys, TrailOf(k), grants[k].revision = 0
  PROVE  Log(k) = {}
<1>1. \A e \in Log(k) : e.revision \in Nat /\ e.revision > 0 /\ e.revision <= 0
  BY EventType DEF TrailOf, Positive, UpToGrant, Log
<1> QED
  BY <1>1

(* The next revision extends a history: either the first that is logged,   *)
(* or the successor of the one the grant holds, naming what it flips.       *)
LEMMA TrailExtended ==
  ASSUME TypeOK, NEW k \in GrantKeys, TrailOf(k), NEW x,
         x.revision \in Nat, x.revision > 0,
         Log(k)' = Log(k) \cup {x},
         grants'[k].revision = x.revision, grants'[k].state = x.state,
         \/ grants[k].revision = 0
         \/ /\ x.revision = grants[k].revision + 1
            /\ x.prior = FlippedFrom(grants[k].state, x.state)
  PROVE  TrailOf(k)'
<1> DEFINE r == grants[k].revision
<1>0. r \in Nat /\ \A e \in Log(k) : e.revision \in Nat
  BY GrantType, EventType DEF Log
<1>1. CASE Log(k) = {}
  <2>1. Log(k)' = {x}
    BY <1>1
  <2>2. Positive(k)' /\ NoTwins(k)' /\ UpToGrant(k)' /\ LastLogged(k)'
    BY <2>1 DEF Positive, NoTwins, UpToGrant, LastLogged
  <2>3. NoGap(k)' /\ Chained(k)'
    BY <2>1 DEF NoGap, Chained
  <2> QED
    BY <2>2, <2>3 DEF TrailOf
<1>2. CASE Log(k) # {}
  <2>1. /\ r # 0 /\ x.revision = r + 1
        /\ x.prior = FlippedFrom(grants[k].state, x.state)
    BY <1>2, NoGrantNoLog
  <2>2. \A e \in Log(k) : e.revision <= r /\ (e.revision = r => e.state = grants[k].state)
    BY DEF TrailOf, UpToGrant
  <2>3. PICK last \in Log(k) : last.revision = r
    BY <1>0, <2>1 DEF TrailOf, LastLogged
  <2>4. Positive(k)'
    BY DEF TrailOf, Positive
  <2>5. NoTwins(k)'
    BY <1>0, <2>1, <2>2 DEF TrailOf, NoTwins
  <2>6. UpToGrant(k)'
    BY <1>0, <2>1, <2>2 DEF UpToGrant
  <2>7. LastLogged(k)'
    BY DEF LastLogged
  <2>8. NoGap(k)'
    <3> SUFFICES ASSUME NEW e \in Log(k)', NEW f \in Log(k)', e.revision < f.revision
                 PROVE  \E g \in Log(k)' : g.revision = e.revision + 1
      BY DEF NoGap
    <3>1. e \in Log(k)
      BY <1>0, <2>1, <2>2
    <3>2. CASE e.revision = r
      BY <2>1, <3>2
    <3>3. CASE e.revision # r
      <4>1. e.revision < last.revision
        BY <1>0, <2>2, <2>3, <3>1, <3>3
      <4>2. \E g \in Log(k) : g.revision = e.revision + 1
        BY <3>1, <4>1 DEF TrailOf, NoGap
      <4> QED
        BY <4>2
    <3> QED
      BY <3>2, <3>3
  <2>9. Chained(k)'
    <3> SUFFICES ASSUME NEW e \in Log(k)', NEW f \in Log(k)', f.revision = e.revision + 1
                 PROVE  f.prior = FlippedFrom(e.state, f.state)
      BY DEF Chained, FlippedFrom
    <3>1. e \in Log(k)
      BY <1>0, <2>1, <2>2
    <3>2. CASE f = x
      <4>1. e.revision = r
        BY <1>0, <2>1, <3>1, <3>2
      <4> QED
        BY <2>1, <2>2, <3>1, <3>2, <4>1
    <3>3. CASE f \in Log(k)
      BY <3>1, <3>3 DEF TrailOf, Chained
    <3> QED
      BY <3>2, <3>3
  <2> QED
    BY <2>4, <2>5, <2>6, <2>7, <2>8, <2>9 DEF TrailOf
<1> QED
  BY <1>1, <1>2

LEMMA TrailKept ==
  ASSUME NEW k, TrailOf(k), Log(k)' = Log(k), grants'[k] = grants[k]
  PROVE  TrailOf(k)'
BY DEF TrailOf, Positive, NoTwins, UpToGrant, LastLogged, NoGap, Chained

LEMMA TrailInit == Init => Trails
BY DEF Init, Trails, TrailOf, Positive, NoTwins, UpToGrant, LastLogged, NoGap, Chained, Log

LEMMA TrailStep ==
  TypeOK /\ GrantMirrorsSubject /\ Trails /\ [Next]_vars => Trails'
<1> SUFFICES ASSUME TypeOK, GrantMirrorsSubject, Trails, [Next]_vars, NEW k \in GrantKeys
             PROVE  TrailOf(k)'
  BY DEF Trails, GrantKeys
<1>0. TrailOf(k)
  BY DEF Trails
<1>1. ASSUME NEW q \in requests, CommitDecision(q) PROVE TrailOf(k)'
  <2>0. q.pc = "decide"
    BY <1>1 DEF CommitDecision
  <2>1. CASE WinSubject(q)
    <3>a. PICK s : s = q.cap.s
      OBVIOUS
    <3>b. PICK next : next = subjects[s].revision + 1
      OBVIOUS
    <3>c. PICK flip : flip = FlippedFrom(subjects[s].decision, q.decision)
      OBVIOUS
    <3>d. PICK x : x = [subject |-> s, prior |-> flip, state |-> q.decision,
                        revision |-> next, by |-> q.cap.i]
      OBVIOUS
    <3>1. /\ s \in Subjects /\ s \in GrantKeys
          /\ grants'[s] = [state |-> q.decision, revision |-> next]
      BY <2>0, <2>1, <3>a, <3>b, WinFacts DEF GrantKeys
    <3>2. events' = events \cup {x} /\ \A j \in GrantKeys \ {s} : grants'[j] = grants[j]
      BY <2>1, <3>a, <3>b, <3>c, <3>d, <3>1 DEF WinSubject, DualWrite, TypeOK
    <3>3. next \in Nat /\ next > 0 /\ subjects[s].revision \in Nat
      BY <3>1, <3>b, SubjectRowType
    <3>4. x.subject = s /\ x.revision = next /\ x.state = q.decision /\ x.prior = flip
      BY <3>d
    <3>5. CASE k = s
      <4>1. Log(k)' = Log(k) \cup {x}
        BY <3>2, <3>4, <3>5 DEF Log
      <4>2. \/ grants[k].revision = 0
            \/ /\ x.revision = grants[k].revision + 1
               /\ x.prior = FlippedFrom(grants[k].state, x.state)
        BY <3>b, <3>c, <3>1, <3>4, <3>5 DEF GrantMirrorsSubject
      <4>3. grants'[k].revision = x.revision /\ grants'[k].state = x.state
        BY <3>1, <3>4, <3>5
      <4> QED
        BY <1>0, <3>3, <3>4, <4>1, <4>2, <4>3, TrailExtended
    <3>6. CASE k # s
      <4>1. Log(k)' = Log(k)
        BY <3>2, <3>4, <3>6 DEF Log
      <4> QED
        BY <1>0, <3>2, <3>6, <4>1, TrailKept
    <3> QED
      BY <3>5, <3>6
  <2>2. CASE DecideInteraction(q) /\ q.mode = "ask_always"
    <3>a. PICK i : i = q.cap.i
      OBVIOUS
    <3>b. PICK x : x = [subject |-> i, prior |-> "none", state |-> q.decision,
                        revision |-> 1, by |-> i]
      OBVIOUS
    <3>1. i \in Interactions /\ i \in GrantKeys
      BY <3>a, RequestType, CapabilityType DEF GrantKeys
    <3>2. DualWrite(i, q.decision, 1, "none", i)
      BY <2>2, <3>a DEF DecideInteraction
    <3>3. /\ events' = events \cup {x}
          /\ grants[i].revision < 1
          /\ grants' = [grants EXCEPT ![i] = [state |-> q.decision, revision |-> 1]]
      BY <3>2, <3>b DEF DualWrite, GrantAdvances
    <3>4. x.subject = i /\ x.revision = 1 /\ x.state = q.decision
      BY <3>b
    <3>5. grants[i].revision = 0
      BY <3>1, <3>3, GrantType
    <3>6. CASE k = i
      <4>1. Log(k)' = Log(k) \cup {x}
        BY <3>3, <3>4, <3>6 DEF Log
      <4>2. grants'[k].revision = x.revision /\ grants'[k].state = x.state
        BY <3>1, <3>3, <3>4, <3>6 DEF TypeOK
      <4>3. x.revision \in Nat /\ x.revision > 0
        BY <3>4
      <4> QED
        BY <1>0, <3>5, <3>6, <4>1, <4>2, <4>3, TrailExtended
    <3>7. CASE k # i
      <4>1. Log(k)' = Log(k) /\ grants'[k] = grants[k]
        BY <3>1, <3>3, <3>4, <3>7 DEF Log, TypeOK
      <4> QED
        BY <1>0, <4>1, TrailKept
    <3> QED
      BY <3>6, <3>7
  <2>3. CASE UNCHANGED <<grants, events>>
    BY <1>0, <2>3, TrailKept DEF Log
  <2> QED
    BY <1>1, <2>1, <2>2, <2>3
       DEF CommitDecision, LoseSubject, DecideInteraction, RetryDecision
<1>2. CASE BackfillWrite
  <2>0. backfill \subseteq Subjects /\ \A s \in backfill : subjects[s].revision > 0
    BY DEF TypeOK
  <2>1. CASE k \in backfill
    <3>a. PICK x : x = [subject |-> k, prior |-> "none", state |-> subjects[k].decision,
                        revision |-> subjects[k].revision, by |-> "migration"]
      OBVIOUS
    <3>1. k \in Subjects /\ subjects[k].revision \in Nat
      BY <2>0, <2>1, SubjectRowType
    <3>2. grants[k].revision = 0
      <4>1. grants[k].revision < subjects[k].revision
        BY <1>2, <2>1 DEF BackfillWrite, BackfillSucceeds, GrantAdvances
      <4> QED
        BY <3>1, <4>1 DEF GrantMirrorsSubject
    <3>3. Log(k)' = Log(k) \cup {x}
      BY <1>2, <2>1, <3>a DEF BackfillWrite, Log
    <3>4. grants'[k].revision = x.revision /\ grants'[k].state = x.state
      BY <1>2, <2>1, <3>a DEF BackfillWrite
    <3>5. x.revision \in Nat /\ x.revision > 0
      BY <2>0, <2>1, <3>a, <3>1
    <3> QED
      BY <1>0, <3>2, <3>3, <3>4, <3>5, TrailExtended
  <2>2. CASE k \notin backfill
    <3>1. Log(k)' = Log(k) /\ grants'[k] = grants[k]
      BY <1>2, <2>2 DEF BackfillWrite, Log
    <3> QED
      BY <1>0, <3>1, TrailKept
  <2> QED
    BY <2>1, <2>2
<1>3. CASE UNCHANGED <<subjects, grants, events, lost, revealed>>
  BY <1>0, <1>3, TrailKept DEF Log
<1> QED
  BY <1>1, <1>2, <1>3, WritersOfConsent

(* Whatever decisions and backfills race for a grant, its events are its    *)
(* whole history: one per revision, none missing, each naming what it       *)
(* flipped.                                                                *)
THEOREM HistoryComplete == Spec => []AuditTrailComplete
<1>1. TypeOK /\ GrantMirrorsSubject /\ Trails /\ [Next]_vars => Trails'
  BY TrailStep
<1> QED
  BY <1>1, TrailInit, TrailsAreTheTrail, TypeCorrect, GrantMirrors, PTL DEF Spec

-----------------------------------------------------------------------------
(* WHAT IS STORED WAS APPROVED.                                            *)

(* The interaction was approved itself, or retention took its decision.    *)
Own(i) == interactions[i].decision = "approved" \/ PastRetention(i)

(* Its customer had approved, as the log or the time before it shows.      *)
ApprovedOnce(s) == s \in Legacy \/ \E e \in events : e.subject = s /\ e.state = "approved"

Backed(i, m) ==
    /\ m = "ask_always" => Own(i)
    /\ m = "ask_once" => Own(i) \/ (SubjectOf[i] \in Subjects /\ ApprovedOnce(SubjectOf[i]))

SignedForCustomer == \A c \in signed : c.s # NoSubject => c.s = SubjectOf[c.i]

ApprovalLogged ==
    \A s \in Subjects : subjects[s].decision = "approved" => ApprovedOnce(s)

SubmitsBacked == \A q \in requests : q.pc = "submit" => Backed(q.cap.i, q.mode)

EvidenceInv ==
    /\ SignedForCustomer
    /\ ApprovalLogged
    /\ SubmitsBacked
    /\ ReportHasApproval
    /\ CitedEvidenceWasApproved

LEMMA EvidenceInit == Init => EvidenceInv
<1> SUFFICES ASSUME Init PROVE EvidenceInv
  OBVIOUS
<1>1. ApprovalLogged
  BY DEF Init, ApprovalLogged, ApprovedOnce, NoSubjectRow
<1>2. SignedForCustomer /\ SubmitsBacked
  BY DEF Init, SignedForCustomer, SubmitsBacked
<1>3. ReportHasApproval /\ CitedEvidenceWasApproved
  BY DEF Init, ReportHasApproval, CitedEvidenceWasApproved
<1> QED
  BY <1>1, <1>2, <1>3 DEF EvidenceInv

LEMMA EventsGrow ==
  ASSUME [Next]_vars
  PROVE  events \subseteq events'
BY WritersOfConsent
   DEF CommitDecision, WinSubject, LoseSubject, DecideInteraction, RetryDecision, DualWrite, BackfillWrite

LEMMA OwnStable ==
  ASSUME TypeOK, [Next]_vars, NEW i \in Interactions, Own(i)
  PROVE  Own(i)'
<1>1. CASE PastRetention(i)
  BY <1>1, RetentionStable DEF Own
<1>2. CASE interactions[i].decision = "approved"
  BY <1>2, RowStable, RetentionStable DEF Own
<1> QED
  BY <1>1, <1>2 DEF Own

LEMMA BackedStable ==
  ASSUME TypeOK, [Next]_vars, NEW i \in Interactions, NEW m, Backed(i, m)
  PROVE  Backed(i, m)'
BY OwnStable, EventsGrow DEF Backed, ApprovedOnce

LEMMA SignedForCustomerStep ==
  ASSUME SignedForCustomer, [Next]_vars
  PROVE  SignedForCustomer'
<1>1. CASE Sign
  BY <1>1 DEF Sign, SignCapability, SignedForCustomer
<1>2. Sign \/ signed' = signed
  BY DEF Next, vars, tables, UpdatePolicy, Arrive, ReceiveDecision, ReceiveReport, Receive,
         Handle, CommitDecision, CheckConsent, StoreReport, Abandon, Expire, PurgeConsent,
         PurgeInteraction, ResolveConflict, Backfill, BackfillScan, BackfillWrite, BackfillFails
<1> QED
  BY <1>1, <1>2 DEF SignedForCustomer

LEMMA ApprovalLoggedStep ==
  ASSUME TypeOK, ApprovalLogged, [Next]_vars
  PROVE  ApprovalLogged'
<1> SUFFICES ASSUME NEW s \in Subjects, subjects'[s].decision = "approved"
             PROVE  ApprovedOnce(s)'
  BY DEF ApprovalLogged
<1>1. CASE subjects'[s] = subjects[s]
  BY <1>1, EventsGrow DEF ApprovalLogged, ApprovedOnce
<1>2. ASSUME NEW q \in requests, CommitDecision(q), WinSubject(q), s = q.cap.s
      PROVE  ApprovedOnce(s)'
  <2>1. subjects'[s].decision = q.decision
    BY <1>2, WinFacts DEF CommitDecision
  <2>a. PICK x : x = [subject |-> s, prior |-> FlippedFrom(subjects[s].decision, q.decision),
                      state |-> q.decision, revision |-> subjects[s].revision + 1,
                      by |-> q.cap.i]
    OBVIOUS
  <2>b. x \in events'
    BY <1>2, <2>a DEF WinSubject, DualWrite
  <2>2. \E e \in events' : e.subject = s /\ e.state = q.decision
    BY <2>a, <2>b
  <2> QED
    BY <2>1, <2>2 DEF ApprovedOnce
<1>3. \/ subjects'[s] = subjects[s]
      \/ \E q \in requests : CommitDecision(q) /\ WinSubject(q) /\ s = q.cap.s
  BY WritersOfConsent, WinFacts
     DEF CommitDecision, LoseSubject, DecideInteraction, RetryDecision, BackfillWrite
<1> QED
  BY <1>1, <1>2, <1>3

(* What the consent check lets through is backed.                          *)
LEMMA PermittedIsBacked ==
  ASSUME TypeOK, EvidenceInv, NEW c \in signed, NEW m \in Modes, Permitted(c, m)
  PROVE  Backed(c.i, m)
<1>1. c.i \in Interactions /\ c.s \in SubjectOrNone
  BY CapabilityType DEF TypeOK
<1>2. m = "ask_always" => Own(c.i)
  BY DEF Permitted, Own
<1>3. CASE m = "ask_once" /\ c.s # NoSubject
  <2>1. c.s \in Subjects /\ c.s = SubjectOf[c.i] /\ subjects[c.s].decision = "approved"
    BY <1>1, <1>3 DEF Permitted, SubjectOrNone, EvidenceInv, SignedForCustomer
  <2> QED
    BY <1>3, <2>1 DEF EvidenceInv, ApprovalLogged, Backed
<1>4. CASE m = "ask_once" /\ c.s = NoSubject
  BY <1>4 DEF Permitted, Own, Backed
<1> QED
  BY <1>2, <1>3, <1>4 DEF Backed

LEMMA SubmitsBackedStep ==
  ASSUME TypeOK, CapabilitiesHeld, EvidenceInv, [Next]_vars
  PROVE  SubmitsBacked'
<1> SUFFICES ASSUME NEW r \in requests', r.pc = "submit"
             PROVE  Backed(r.cap.i, r.mode)'
  BY DEF SubmitsBacked
<1>1. CASE r \in requests
  <2>1. r.cap.i \in Interactions /\ Backed(r.cap.i, r.mode)
    BY <1>1, RequestType, CapabilityType DEF EvidenceInv, SubmitsBacked
  <2> QED
    BY <2>1, BackedStable
<1>2. ASSUME NEW q \in requests, CheckConsent(q), r \notin requests
      PROVE  Backed(r.cap.i, r.mode)'
  <2>1. q \in ReportRequest
    BY <1>2 DEF CheckConsent, TypeOK, Request, DecisionRequest
  <2>2. r = [q EXCEPT !.pc = "submit"] /\ Permitted(q.cap, q.mode)
    BY <1>2 DEF CheckConsent
  <2>3. r.cap = q.cap /\ r.mode = q.mode
    BY <2>1, <2>2 DEF ReportRequest
  <2>4. q.cap \in signed /\ q.mode \in Modes /\ q.cap.i \in Interactions
    BY RequestType, CapabilityType DEF CapabilitiesHeld
  <2>5. Backed(q.cap.i, q.mode)
    BY <2>2, <2>4, PermittedIsBacked
  <2> QED
    BY <2>3, <2>4, <2>5, BackedStable
<1>3. CASE Arrive
  BY <1>1, <1>3 DEF Arrive, ReceiveDecision, ReceiveReport, Receive
<1>4. \/ Arrive
      \/ \E q \in requests : CheckConsent(q)
      \/ requests' \subseteq requests
  BY DEF Next, vars, Sign, SignCapability, UpdatePolicy, Handle, CommitDecision, StoreReport,
         Abandon, Expire, PurgeConsent, PurgeInteraction, ResolveConflict,
         Backfill, BackfillScan, BackfillWrite, BackfillFails
<1> QED
  BY <1>1, <1>2, <1>3, <1>4

LEMMA WritersOfReports ==
  ASSUME [Next]_vars
  PROVE  \/ \E q \in requests : StoreReport(q)
         \/ \E i \in Interactions : PurgeInteraction(i)
         \/ UNCHANGED <<reports, signals>>
BY DEF Next, vars, tables, Sign, SignCapability, UpdatePolicy, Arrive, ReceiveDecision,
       ReceiveReport, Receive, Handle, CommitDecision, CheckConsent, Abandon, Expire,
       PurgeConsent, ResolveConflict, Backfill, BackfillScan, BackfillWrite, BackfillFails

LEMMA ApprovalIsBacking ==
  TypeOK => (ReportHasApproval <=> \A i \in Interactions : Backed(i, reports[i]))
BY DEF ReportHasApproval, Backed, Own, ApprovedOnce

LEMMA StoredStep ==
  ASSUME TypeOK, EvidenceInv, [Next]_vars, NEW i \in Interactions
  PROVE  /\ Backed(i, reports[i])'
         /\ signals'[i] # "none" => Own(i)'
<1>1. CASE reports'[i] = reports[i] /\ signals'[i] = signals[i]
  <2>1. Backed(i, reports[i]) /\ (signals[i] # "none" => Own(i))
    BY ApprovalIsBacking DEF EvidenceInv, CitedEvidenceWasApproved, Own
  <2>a. PICK m : m = reports[i]
    OBVIOUS
  <2>2. Backed(i, m)'
    BY <2>1, <2>a, BackedStable
  <2> QED
    BY <1>1, <2>1, <2>a, <2>2, OwnStable DEF Backed
<1>2. ASSUME NEW q \in requests, StoreReport(q), i = q.cap.i
      PROVE  Backed(i, reports[i])' /\ (signals'[i] # "none" => Own(i)')
  <2>a. PICK m : m = reports'[i]
    OBVIOUS
  <2>1. Backed(i, m)
    <3>1. m = reports[i] \/ m = q.mode
      BY <1>2, <2>a DEF StoreReport, TypeOK
    <3>2. Backed(i, q.mode) /\ Backed(i, reports[i])
      BY <1>2, ApprovalIsBacking DEF EvidenceInv, SubmitsBacked, StoreReport
    <3> QED
      BY <3>1, <3>2
  <2>2. signals'[i] # "none" => Own(i)
    <3>1. signals'[i] = signals[i] \/ signals'[i] = CitedGrant(i)
      BY <1>2 DEF StoreReport, TypeOK
    <3>2. CitedGrant(i) # "none" => Own(i)
      BY DEF CitedGrant, Own
    <3>3. signals[i] # "none" => Own(i)
      BY DEF EvidenceInv, CitedEvidenceWasApproved, Own
    <3> QED
      BY <3>1, <3>2, <3>3
  <2>3. Backed(i, m)'
    BY <2>1, BackedStable
  <2> QED
    BY <2>a, <2>2, <2>3, OwnStable DEF Backed
<1>3. CASE reports'[i] = "none" /\ signals'[i] = "none"
  BY <1>3 DEF Backed
<1>4. \/ reports'[i] = reports[i] /\ signals'[i] = signals[i]
      \/ \E q \in requests : StoreReport(q) /\ i = q.cap.i
      \/ reports'[i] = "none" /\ signals'[i] = "none"
  BY WritersOfReports, RequestType, CapabilityType DEF StoreReport, PurgeInteraction, TypeOK
<1> QED
  BY <1>1, <1>2, <1>3, <1>4

LEMMA EvidenceStep ==
  TypeOK /\ CapabilitiesHeld /\ EvidenceInv /\ [Next]_vars => EvidenceInv'
<1> SUFFICES ASSUME TypeOK, CapabilitiesHeld, EvidenceInv, [Next]_vars PROVE EvidenceInv'
  OBVIOUS
<1>1. SignedForCustomer' /\ ApprovalLogged'
  BY SignedForCustomerStep, ApprovalLoggedStep DEF EvidenceInv
<1>2. SubmitsBacked'
  BY SubmitsBackedStep
<1>3. ReportHasApproval' /\ CitedEvidenceWasApproved'
  BY StoredStep
     DEF ReportHasApproval, CitedEvidenceWasApproved, Backed, Own, ApprovedOnce
<1> QED
  BY <1>1, <1>2, <1>3 DEF EvidenceInv

(* A stored report and the grant its evidence cites go back to an approval: *)
(* of the interaction itself, or, under Ask once, of its customer.         *)
THEOREM EvidenceApproved == Spec => [](ReportHasApproval /\ CitedEvidenceWasApproved)
<1>1. EvidenceInv => ReportHasApproval /\ CitedEvidenceWasApproved
  BY DEF EvidenceInv
<1> QED
  BY <1>1, EvidenceInit, EvidenceStep, TypeCorrect, HeldCorrect, PTL DEF Spec

-----------------------------------------------------------------------------
(* PROMISES ARE KEPT.                                                      *)

LEMMA InspectionIsPermission == TypeOK => InspectionNeverOverpromises
<1> SUFFICES ASSUME TypeOK, mode # "off", NEW c \in Live, Inspect(c) = "feedback_ready"
             PROVE  Permitted(c, mode)
  BY DEF InspectionNeverOverpromises
<1>1. mode \in {"never_ask", "ask_once", "ask_always"}
  BY DEF TypeOK, Modes, AskModes
<1>2. CASE mode = "never_ask"
  BY <1>2 DEF Permitted
<1>3. CASE mode = "ask_once"
  BY <1>3 DEF Inspect, Permitted
<1>4. CASE mode = "ask_always"
  BY <1>4 DEF Inspect, Permitted
<1> QED
  BY <1>1, <1>2, <1>3, <1>4

LEMMA AnswerIsPermission ==
  TypeOK /\ [Next]_vars => [\A answer \in revealed' \ revealed :
                                Permitted(answer[1], answer[2])']_vars
<1> SUFFICES ASSUME TypeOK, [Next]_vars, NEW answer \in revealed' \ revealed
             PROVE  Permitted(answer[1], answer[2])'
  OBVIOUS
<1>1. PICK q \in requests : CommitDecision(q) /\ revealed' # revealed
  BY WritersOfConsent DEF BackfillWrite
<1>2. /\ q.pc = "decide" /\ q.cap.i \in Interactions /\ q.mode \in AskModes
      /\ q.cap.s \in SubjectOrNone /\ q.decision \in Decisions
  BY <1>1, DecisionRequestType, CapabilityType DEF CommitDecision
<1>a. PICK c, m : c = q.cap /\ m = q.mode
  OBVIOUS
<1>3. ASSUME Reveal(q, q.decision = "approved")
      PROVE  q.decision = "approved" /\ answer = <<c, m>>
  BY <1>1, <1>3, <1>a DEF Reveal
<1>4. CASE WinSubject(q)
  <2>1. c.s \in Subjects /\ subjects'[c.s].decision = "approved" /\ answer = <<c, m>>
    BY <1>2, <1>3, <1>4, <1>a, WinFacts DEF WinSubject
  <2>2. m = "ask_once" /\ c.s # NoSubject
    BY <1>4, <1>a DEF WinSubject, BySubject
  <2> QED
    BY <2>1, <2>2 DEF Permitted
<1>5. CASE DecideInteraction(q)
  <2>1. answer = <<c, m>> /\ q.decision = "approved"
    BY <1>3, <1>5 DEF DecideInteraction
  <2>2. interactions'[c.i].decision = "approved"
    BY <1>2, <1>5, <1>a, <2>1 DEF DecideInteraction, RecordInteraction, TypeOK
  <2>3. m = "ask_always" \/ (m = "ask_once" /\ c.s = NoSubject)
    BY <1>2, <1>5, <1>a DEF DecideInteraction, BySubject, AskModes
  <2> QED
    BY <2>1, <2>2, <2>3 DEF Permitted
<1>6. CASE RetryDecision(q)
  <2>1. answer = <<c, m>> /\ StillApplies(q)
    BY <1>1, <1>6, <1>a DEF RetryDecision, Reveal
  <2>2. /\ interactions'[c.i].decision = "approved"
        /\ BySubject(q) => subjects'[c.s].decision = "approved"
    BY <1>6, <1>a, <2>1 DEF RetryDecision, StillApplies
  <2>3. m = "ask_always" \/ (m = "ask_once" /\ c.s = NoSubject) \/ BySubject(q)
    BY <1>2, <1>a DEF BySubject, AskModes
  <2>4. BySubject(q) => m = "ask_once" /\ c.s # NoSubject
    BY <1>a DEF BySubject
  <2> QED
    BY <2>1, <2>2, <2>3, <2>4 DEF Permitted
<1>7. ~LoseSubject(q)
  BY <1>1 DEF LoseSubject
<1> QED
  BY <1>1, <1>4, <1>5, <1>6, <1>7 DEF CommitDecision

(* What inspection or the answer to a decision tells an agent it may do,   *)
(* the report endpoint, which asks the tables by a query of its own, takes  *)
(* at that moment.                                                         *)
THEOREM PromisesAreKept == Spec => PromisesKept
<1>1. TypeOK /\ [Next]_vars => [\A answer \in revealed' \ revealed :
                                   Permitted(answer[1], answer[2])']_vars
  BY AnswerIsPermission
<1>2. TypeOK => InspectionNeverOverpromises
  BY InspectionIsPermission
<1> QED
  BY <1>1, <1>2, TypeCorrect, PTL DEF Spec, PromisesKept, RevealedIsAccepted

-----------------------------------------------------------------------------
(* SUMMARY: the conjunctions the runs check.                               *)

(* The grant of a subject is the image of its row, in every interleaving of *)
(* the three paths that write it, and no winning decision meets the         *)
(* "revision did not advance" error.                                       *)
THEOREM GrantFollows == Spec => []GrantFollowsSubject
BY GrantMirrors, NeverFaults, PTL DEF GrantFollowsSubject

(* A revision has one winner, and an interaction one turn.                 *)
THEOREM CountsOnce == Spec => []DecisionsCountOnce
BY OneWinner, DecidesOnce, PTL DEF DecisionsCountOnce

(* What stored evidence rests on can be shown: an approval, an approved     *)
(* grant, and that grant's unbroken history.                               *)
THEOREM EvidenceShown == Spec => []EvidenceTrail
BY HistoryComplete, EvidenceApproved, PTL DEF EvidenceTrail

-----------------------------------------------------------------------------
(* Report groups.                                                            *)

ReadRow == [findings : Says \cup {Unreadable}, facts : Facts, merged : {Nothing}]

Target == [key : Fingerprints, group : Fingerprints]

Reads == UNION {[S -> ReadRow] : S \in SUBSET ReportIds}

Writes == UNION {[S -> Target] : S \in SUBSET ReportIds}

JobTyped ==
    /\ job \in [kind : {"none", "backfill", "regroup"}, cursor : 0 .. MaxStored,
                rows : SUBSET ReportIds, read : Reads, written : Writes]
    /\ job.rows \cup DOMAIN job.written \subseteq DOMAIN job.read

StateTyped ==
    /\ received \in OldReports .. MaxStored
    /\ said \in [ReportIds -> Says \cup {Unreadable, Nothing}]
    /\ facts \in [ReportIds -> Facts]
    /\ placed \in [ReportIds -> upserted \cup {Nothing}]
    /\ upserted \subseteq Fingerprints
    /\ lineage \in [Fingerprints -> upserted \cup {Nothing}]
    /\ outdated \subseteq Grouped

(* Merges go one hop.                                                        *)
LineageFlat ==
    \A key \in Fingerprints :
        lineage[key] # Nothing => key \in upserted /\ lineage[lineage[key]] = Nothing

(* A report is where its findings and some facts say, those of today unless  *)
(* it is outdated.                                                           *)
ReportFits(r) ==
    /\ r > received => said[r] = Nothing
    /\ said[r] = Nothing => placed[r] = Nothing
    /\ said[r] # Nothing /\ r > OldReports => placed[r] # Nothing
    /\ placed[r] # Nothing =>
          /\ said[r] \in Says
          /\ \E known \in Facts : placed[r] = JoinsGroup(Fingerprint(said[r], known))
          /\ r \notin outdated => placed[r] = JoinsGroup(Fingerprint(said[r], facts[r]))

ReportsFit == \A r \in ReportIds : ReportFits(r)

(* What was read of a report that is still there is what it says; what was    *)
(* written of one still is where its fingerprint joins.                      *)
JobFits ==
    /\ \A r \in DOMAIN job.read : r <= received /\ said[r] \in {job.read[r].findings, Nothing}
    /\ \A r \in DOMAIN job.written :
          /\ said[r] = job.read[r].findings /\ said[r] \in Says
          /\ job.written[r].key = Fingerprint(said[r], job.read[r].facts)
          /\ job.written[r].group = JoinsGroup(job.written[r].key)

GroupsInv == StateTyped /\ JobTyped /\ LineageFlat /\ ReportsFit /\ JobFits

-----------------------------------------------------------------------------
(* Operators.                                                                *)

LEMMA GroupNumbers ==
  /\ MaxStored \in Nat /\ OldReports \in Nat /\ OldReports <= MaxStored
  /\ ReportIds = 1 .. MaxStored /\ Facts = 0 .. MaxFacts /\ MaxFacts \in Nat
  /\ \A r \in ReportIds : r \in Nat
BY GroupsAssumption DEF ReportIds, Facts

LEMMA NoNames ==
  /\ Unreadable \notin Says /\ Nothing \notin Says /\ Nothing # Unreadable
  /\ Nothing \notin Fingerprints
BY NamesAssumption

LEMMA FingerprintType ==
  ASSUME NEW findings \in Says, NEW known \in Facts
  PROVE  /\ Fingerprint(findings, known) \in Fingerprints
         /\ Fingerprint(findings, known).facts = known
         /\ Fingerprint(findings, known).finding =
               IF findings = <<>> THEN NoFinding
               ELSE <<findings[PrimaryFinding(findings)].kind,
                      findings[PrimaryFinding(findings)].topic>>
BY DEF Fingerprint, Fingerprints

LEMMA JoinsType ==
  ASSUME StateTyped, LineageFlat, NEW key \in Fingerprints
  PROVE  /\ JoinsGroup(key) \in Fingerprints /\ JoinsGroup(key) # Nothing
         /\ JoinsGroup(key) \in upserted \cup {key}
         /\ lineage[JoinsGroup(key)] = Nothing
BY NoNames DEF StateTyped, LineageFlat, JoinsGroup

LEMMA ReadType ==
  ASSUME JobTyped
  PROVE  /\ job.read \in [DOMAIN job.read -> ReadRow] /\ DOMAIN job.read \subseteq ReportIds
         /\ job.written \in [DOMAIN job.written -> Target]
         /\ DOMAIN job.written \subseteq ReportIds
         /\ job.rows \subseteq DOMAIN job.read /\ DOMAIN job.written \subseteq DOMAIN job.read
<1>1. PICK S \in SUBSET ReportIds : job.read \in [S -> ReadRow]
  BY DEF JobTyped, Reads
<1>2. PICK T \in SUBSET ReportIds : job.written \in [T -> Target]
  BY DEF JobTyped, Writes
<1> QED
  BY <1>1, <1>2 DEF JobTyped

LEMMA Mapped ==
  ASSUME NEW S \in SUBSET ReportIds
  PROVE  /\ \A read \in [S -> ReadRow] : read \in Reads
         /\ \A written \in [S -> Target] : written \in Writes
BY DEF Reads, Writes

LEMMA NothingMapped == <<>> \in Reads /\ <<>> \in Writes /\ DOMAIN <<>> = {}
<1>1. <<>> \in [{} -> ReadRow] /\ <<>> \in [{} -> Target] /\ DOMAIN <<>> = {}
  OBVIOUS
<1>2. {} \in SUBSET ReportIds
  OBVIOUS
<1> QED
  BY <1>1, <1>2, Mapped

LEMMA NoPassKeeps ==
  ASSUME NEW kind \in {"none", "backfill", "regroup"}, NEW cursor \in 0 .. MaxStored,
         job' = [kind |-> kind, cursor |-> cursor, rows |-> {}, read |-> <<>>, written |-> <<>>]
  PROVE  JobTyped' /\ JobFits'
<1>1. /\ job'.rows = {} /\ DOMAIN job'.read = {} /\ DOMAIN job'.written = {}
  BY NothingMapped
<1>2. JobTyped'
  BY <1>1, NothingMapped DEF JobTyped
<1> QED
  BY <1>1, <1>2 DEF JobFits

LEMMA GroupsBegin == GroupsInit => GroupsInv
<1> SUFFICES ASSUME GroupsInit PROVE GroupsInv
  OBVIOUS
<1>1. StateTyped
  BY GroupNumbers DEF GroupsInit, StateTyped, Grouped
<1>2. JobTyped /\ JobFits
  <2>1. job = [kind |-> "none", cursor |-> 0, rows |-> {}, read |-> <<>>, written |-> <<>>]
    BY DEF GroupsInit, NoPass
  <2>2. /\ job.rows = {} /\ DOMAIN job.read = {} /\ DOMAIN job.written = {}
    BY <2>1, NothingMapped
  <2>3. JobTyped
    BY <2>1, <2>2, NothingMapped, GroupNumbers DEF JobTyped
  <2> QED
    BY <2>2, <2>3 DEF JobFits
<1>3. LineageFlat
  BY DEF GroupsInit, LineageFlat
<1>4. ReportsFit
  BY GroupNumbers DEF GroupsInit, ReportsFit, ReportFits
<1> QED
  BY <1>1, <1>2, <1>3, <1>4 DEF GroupsInv

-----------------------------------------------------------------------------
(* Reports and telemetry.                                                    *)

(* One report says what it says, by facts it has now, and is assigned.        *)
LEMMA AssignKeeps ==
  ASSUME GroupsInv, NEW r \in ReportIds, NEW findings \in Says, NEW known \in Facts,
         NEW new \in OldReports .. MaxStored, received <= new, r <= new,
         received' = new, said' = [said EXCEPT ![r] = findings],
         facts' = [facts EXCEPT ![r] = known], Assign(r, Fingerprint(findings, known)),
         UNCHANGED <<lineage, job>>,
         r \in DOMAIN job.read => said[r] = findings
  PROVE  GroupsInv'
<1> DEFINE key == Fingerprint(findings, known)
<1>1. key \in Fingerprints
  BY FingerprintType
<1> HIDE DEF key
<1>2. /\ upserted' = upserted \cup {key} /\ placed' = [placed EXCEPT ![r] = JoinsGroup(key)]
      /\ outdated' = outdated \ {r} /\ r \notin DOMAIN job.written
  BY DEF Assign, Free, key
<1>3. /\ JoinsGroup(key) \in upserted' /\ JoinsGroup(key) # Nothing
      /\ lineage[JoinsGroup(key)] = Nothing
  BY <1>1, <1>2, JoinsType DEF GroupsInv
<1>4. \A k : JoinsGroup(k)' = JoinsGroup(k)
  BY DEF JoinsGroup
<1>5. StateTyped'
  <2>1. placed' \in [ReportIds -> upserted' \cup {Nothing}]
    BY <1>2, <1>3 DEF GroupsInv, StateTyped
  <2>2. outdated' \subseteq Grouped'
    BY <1>2, <1>3 DEF GroupsInv, StateTyped, Grouped
  <2>3. upserted' \subseteq Fingerprints /\ lineage' \in [Fingerprints -> upserted' \cup {Nothing}]
    BY <1>1, <1>2 DEF GroupsInv, StateTyped
  <2> QED
    BY <2>1, <2>2, <2>3 DEF GroupsInv, StateTyped
<1>6. LineageFlat'
  BY <1>2 DEF GroupsInv, LineageFlat
<1>7. ReportsFit'
  <2> SUFFICES ASSUME NEW q \in ReportIds PROVE ReportFits(q)'
    BY DEF ReportsFit
  <2>1. CASE q = r
    <3>1. said'[q] = findings /\ facts'[q] = known /\ placed'[q] = JoinsGroup(key)
      BY <1>2, <2>1 DEF GroupsInv, StateTyped
    <3>2. ~(q > received')
      BY <2>1, GroupNumbers
    <3> QED
      BY <1>3, <1>4, <2>1, <3>1, <3>2, NoNames DEF ReportFits, key, JoinsGroup
  <2>2. CASE q # r
    <3>1. said'[q] = said[q] /\ facts'[q] = facts[q] /\ placed'[q] = placed[q]
          /\ (q \in outdated' <=> q \in outdated)
      BY <1>2, <2>2 DEF GroupsInv, StateTyped
    <3>2. q > received' => q > received
      BY GroupNumbers DEF GroupsInv, StateTyped
    <3> QED
      BY <3>1, <3>2 DEF ReportFits, JoinsGroup, GroupsInv, ReportsFit
  <2> QED
    BY <2>1, <2>2
<1>8. JobTyped'
  BY DEF GroupsInv, JobTyped
<1>9. JobFits'
  <2>1. ASSUME NEW q \in DOMAIN job.read
        PROVE  q <= received' /\ said'[q] \in {job.read[q].findings, Nothing}
    <3>1. q \in ReportIds /\ q <= received /\ said[q] \in {job.read[q].findings, Nothing}
      BY ReadType DEF GroupsInv, JobFits
    <3>2. q <= received'
      BY <3>1, GroupNumbers DEF GroupsInv, StateTyped
    <3>3. said'[q] = said[q]
      BY <3>1 DEF GroupsInv, StateTyped
    <3> QED
      BY <3>1, <3>2, <3>3
  <2>2. ASSUME NEW q \in DOMAIN job.written
        PROVE  /\ said'[q] = job.read[q].findings /\ said'[q] \in Says
               /\ job.written[q].key = Fingerprint(said'[q], job.read[q].facts)
               /\ job.written[q].group = JoinsGroup(job.written[q].key)'
    <3>1. q \in ReportIds /\ q # r
      BY <1>2, ReadType DEF GroupsInv
    <3>2. said'[q] = said[q]
      BY <3>1 DEF GroupsInv, StateTyped
    <3> QED
      BY <3>2 DEF GroupsInv, JobFits, JoinsGroup
  <2> QED
    BY <2>1, <2>2 DEF JobFits
<1> QED
  BY <1>5, <1>6, <1>7, <1>8, <1>9 DEF GroupsInv

LEMMA JoinReportKeeps ==
  ASSUME GroupsInv, NEW sent \in Sent, NEW known \in Facts, JoinReport(sent, known)
  PROVE  GroupsInv'
<1>0. PICK r : r = received + 1
  OBVIOUS
<1>1. r \in ReportIds /\ r \in OldReports .. MaxStored /\ received <= r /\ r <= r
  BY <1>0, GroupNumbers DEF JoinReport, GroupsInv, StateTyped
<1>2. PICK findings \in Says : findings = Cleaned(sent)
  BY DEF JoinReport, Says
<1>3. r \notin DOMAIN job.read
  BY <1>0, GroupNumbers DEF GroupsInv, JobFits, StateTyped
<1>4. /\ received' = r /\ said' = [said EXCEPT ![r] = findings]
      /\ facts' = [facts EXCEPT ![r] = known] /\ Assign(r, Fingerprint(findings, known))
      /\ UNCHANGED <<lineage, job>>
  BY <1>0, <1>2 DEF JoinReport
<1> QED
  BY <1>1, <1>3, <1>4, AssignKeeps

LEMMA TelemetryFillsKeeps ==
  ASSUME GroupsInv, NEW r \in ReportIds, NEW known \in Facts, TelemetryFills(r, known)
  PROVE  GroupsInv'
<1>1. /\ said[r] # Nothing /\ facts' = [facts EXCEPT ![r] = known]
      /\ UNCHANGED <<received, said, lineage, job>>
  BY DEF TelemetryFills
<1>2. CASE said[r] = Unreadable
  <2>1. UNCHANGED <<placed, upserted, outdated>>
    BY <1>2 DEF TelemetryFills
  <2>2. placed[r] = Nothing
    BY <1>2, NoNames DEF GroupsInv, ReportsFit, ReportFits
  <2>3. StateTyped' /\ LineageFlat'
    BY <1>1, <2>1 DEF GroupsInv, StateTyped, LineageFlat, Grouped
  <2>4. ReportsFit'
    <3> SUFFICES ASSUME NEW q \in ReportIds PROVE ReportFits(q)'
      BY DEF ReportsFit
    <3>1. CASE q = r
      BY <1>1, <2>1, <2>2, <3>1 DEF ReportFits, GroupsInv, ReportsFit
    <3>2. CASE q # r
      <4>1. facts'[q] = facts[q]
        BY <1>1, <3>2 DEF GroupsInv, StateTyped
      <4> QED
        BY <1>1, <2>1, <4>1 DEF ReportFits, GroupsInv, ReportsFit, JoinsGroup
    <3> QED
      BY <3>1, <3>2
  <2>5. JobTyped' /\ JobFits'
    BY <1>1, <2>1 DEF GroupsInv, JobTyped, JobFits, JoinsGroup
  <2> QED
    BY <2>3, <2>4, <2>5 DEF GroupsInv
<1>3. CASE said[r] # Unreadable
  <2>1. said[r] \in Says /\ said' = [said EXCEPT ![r] = said[r]]
        /\ Assign(r, Fingerprint(said[r], known))
    BY <1>1, <1>3 DEF TelemetryFills, GroupsInv, StateTyped
  <2>2. received \in OldReports .. MaxStored /\ received' = received /\ r <= received
        /\ received <= received
    BY <1>1, GroupNumbers DEF GroupsInv, StateTyped, ReportsFit, ReportFits
  <2> QED
    BY <1>1, <2>1, <2>2, AssignKeeps
<1> QED
  BY <1>2, <1>3

LEMMA MergeGroupsKeeps ==
  ASSUME GroupsInv, NEW source \in upserted, NEW target \in upserted, MergeGroups(source, target)
  PROVE  GroupsInv'
<1>1. /\ source # target /\ lineage[source] = Nothing /\ lineage[target] = Nothing
      /\ \A k \in upserted : lineage[k] # source
      /\ placed' = [r \in ReportIds |-> IF placed[r] = source THEN target ELSE placed[r]]
      /\ lineage' = [lineage EXCEPT ![source] = target]
      /\ UNCHANGED <<received, said, facts, upserted, job, outdated>>
  BY DEF MergeGroups, MergesInto
<1>2. \A r \in DOMAIN job.written : job.written[r].key # source
  BY DEF MergeGroups, Free, LockedRows
<1>3. source \in Fingerprints /\ target \in Fingerprints /\ source # Nothing /\ target # Nothing
  BY NoNames DEF GroupsInv, StateTyped
<1>4. /\ lineage'[source] = target
      /\ \A k \in Fingerprints : k # source => lineage'[k] = lineage[k]
  BY <1>1, <1>3 DEF GroupsInv, StateTyped
<1>5. \A k \in Fingerprints : k # source => JoinsGroup(k)' = JoinsGroup(k) /\ JoinsGroup(k) # source
  BY <1>1, <1>4 DEF JoinsGroup, GroupsInv, LineageFlat, StateTyped
<1>6. JoinsGroup(source)' = target /\ JoinsGroup(source) = source
  BY <1>1, <1>3, <1>4 DEF JoinsGroup
<1>7. StateTyped'
  BY <1>1, <1>3 DEF GroupsInv, StateTyped, Grouped
<1>8. LineageFlat'
  <2> SUFFICES ASSUME NEW k \in Fingerprints, lineage'[k] # Nothing
               PROVE  k \in upserted /\ lineage'[lineage'[k]] = Nothing
    BY <1>1 DEF LineageFlat
  <2>1. CASE k = source
    BY <1>1, <1>3, <1>4, <2>1
  <2>2. CASE k # source
    <3>1. lineage'[k] = lineage[k] /\ k \in upserted /\ lineage[lineage[k]] = Nothing
      BY <1>4, <2>2 DEF GroupsInv, LineageFlat
    <3>2. lineage[k] # source /\ lineage[k] \in Fingerprints
      BY <1>1, <3>1, <2>2, <1>4 DEF GroupsInv, StateTyped
    <3> QED
      BY <1>4, <3>1, <3>2
  <2> QED
    BY <2>1, <2>2
<1>9. ReportsFit'
  <2> DEFINE Joins(k) == IF lineage'[k] = Nothing THEN k ELSE lineage'[k]
  <2> SUFFICES ASSUME NEW r \in ReportIds PROVE ReportFits(r)'
    BY DEF ReportsFit
  <2>1. ReportFits(r)
    BY DEF GroupsInv, ReportsFit
  <2>2. placed'[r] = IF placed[r] = source THEN target ELSE placed[r]
    BY <1>1
  <2>3. placed'[r] = Nothing <=> placed[r] = Nothing
    BY <1>3, <2>2
  <2>4. ASSUME NEW known \in Facts, said[r] \in Says,
               placed[r] = JoinsGroup(Fingerprint(said[r], known))
        PROVE  placed'[r] = Joins(Fingerprint(said[r], known))
    <3>1. PICK k \in Fingerprints : k = Fingerprint(said[r], known)
      BY <2>4, FingerprintType
    <3>2. Joins(Fingerprint(said[r], known)) = JoinsGroup(k)'
      BY <3>1 DEF JoinsGroup
    <3>3. CASE k = source
      BY <1>6, <2>2, <2>4, <3>1, <3>2, <3>3
    <3>4. CASE k # source
      BY <1>5, <2>2, <2>4, <3>1, <3>2, <3>4
    <3> QED
      BY <3>3, <3>4
  <2>5. facts[r] \in Facts
    BY DEF GroupsInv, StateTyped
  <2>6. ASSUME placed'[r] # Nothing
        PROVE  /\ said[r] \in Says
               /\ \E known \in Facts : placed'[r] = Joins(Fingerprint(said[r], known))
               /\ r \notin outdated => placed'[r] = Joins(Fingerprint(said[r], facts[r]))
    <3> HIDE DEF Joins
    <3>1. said[r] \in Says /\ placed[r] # Nothing
      BY <2>1, <2>3, <2>6 DEF ReportFits
    <3>2. PICK known \in Facts : placed[r] = JoinsGroup(Fingerprint(said[r], known))
      BY <2>1, <3>1 DEF ReportFits
    <3>3. placed'[r] = Joins(Fingerprint(said[r], known))
      BY <2>4, <3>1, <3>2
    <3>4. r \notin outdated => placed'[r] = Joins(Fingerprint(said[r], facts[r]))
      BY <2>1, <2>4, <2>5, <3>1 DEF ReportFits
    <3> QED
      BY <3>1, <3>3, <3>4
  <2> QED
    BY <1>1, <2>1, <2>3, <2>6 DEF ReportFits, JoinsGroup
<1>10. JobTyped' /\ JobFits'
  <2>1. ASSUME NEW r \in DOMAIN job.written
        PROVE  JoinsGroup(job.written[r].key)' = JoinsGroup(job.written[r].key)
    <3>1. PICK k \in Fingerprints : k = job.written[r].key
      BY ReadType DEF GroupsInv, Target
    <3>2. JoinsGroup(k)' = JoinsGroup(k) /\ JoinsGroup(job.written[r].key)' = JoinsGroup(k)'
      BY <1>1, <1>2, <1>5, <3>1 DEF JoinsGroup
    <3> QED
      BY <3>1, <3>2
  <2> QED
    BY <1>1, <2>1 DEF GroupsInv, JobTyped, JobFits
<1> QED
  BY <1>7, <1>8, <1>9, <1>10 DEF GroupsInv

LEMMA RetentionDeletesKeeps ==
  ASSUME GroupsInv, NEW r \in ReportIds, RetentionDeletes(r)
  PROVE  GroupsInv'
<1>1. /\ said' = [said EXCEPT ![r] = Nothing] /\ facts' = [facts EXCEPT ![r] = 0]
      /\ placed' = [placed EXCEPT ![r] = Nothing] /\ outdated' = outdated \ {r}
      /\ UNCHANGED <<received, upserted, lineage, job>> /\ r \notin DOMAIN job.written
  BY DEF RetentionDeletes, Free
<1>2. /\ said'[r] = Nothing /\ placed'[r] = Nothing
      /\ \A q \in ReportIds \ {r} :
            said'[q] = said[q] /\ placed'[q] = placed[q] /\ facts'[q] = facts[q]
  BY <1>1 DEF GroupsInv, StateTyped
<1>3. StateTyped'
  BY <1>1, <1>2, GroupNumbers DEF GroupsInv, StateTyped, Grouped
<1>4. LineageFlat' /\ JobTyped'
  BY <1>1 DEF GroupsInv, LineageFlat, JobTyped
<1>5. ReportsFit'
  <2> SUFFICES ASSUME NEW q \in ReportIds PROVE ReportFits(q)'
    BY DEF ReportsFit
  <2>1. CASE q = r
    BY <1>1, <1>2, <2>1 DEF ReportFits
  <2>2. CASE q # r
    BY <1>1, <1>2, <2>2 DEF ReportFits, GroupsInv, ReportsFit, JoinsGroup
  <2> QED
    BY <2>1, <2>2
<1>6. JobFits'
  BY <1>1, <1>2, ReadType DEF GroupsInv, JobFits, JoinsGroup
<1> QED
  BY <1>3, <1>4, <1>5, <1>6 DEF GroupsInv

-----------------------------------------------------------------------------
(* The jobs.                                                                 *)

(* A step of a job that leaves the reports alone.                             *)
LEMMA JobMoves ==
  ASSUME GroupsInv, UNCHANGED <<received, said, facts, placed, upserted, lineage, outdated>>,
         JobTyped', JobFits'
  PROVE  GroupsInv'
BY DEF GroupsInv, StateTyped, LineageFlat, ReportsFit, ReportFits, Grouped, JoinsGroup

LEMMA PassMoves ==
  ASSUME GroupsInv, PassFails \/ \E kind \in {"backfill", "regroup"} : StartPass(kind)
  PROVE  GroupsInv'
<1>1. PICK kind \in {"none", "backfill", "regroup"} :
         job' = [kind |-> kind, cursor |-> 0, rows |-> {}, read |-> <<>>, written |-> <<>>]
  BY DEF PassFails, StartPass, Pass, NoPass
<1>2. 0 \in 0 .. MaxStored
  BY GroupNumbers
<1> QED
  BY <1>1, <1>2, NoPassKeeps, JobMoves DEF PassFails, StartPass

LEMMA ReadBatchKeeps ==
  ASSUME GroupsInv, ReadBatch
  PROVE  GroupsInv'
<1> DEFINE read == [r \in NextBatch |->
                       [findings |-> said[r], facts |-> facts[r], merged |-> MergedAway(r)]]
<1>1. CASE NextBatch = {}
  <2>1. job' = [kind |-> "none", cursor |-> 0, rows |-> {}, read |-> <<>>, written |-> <<>>]
    BY <1>1 DEF ReadBatch, NoPass
  <2>2. 0 \in 0 .. MaxStored
    BY GroupNumbers
  <2> QED
    BY <2>1, <2>2, NoPassKeeps, JobMoves DEF ReadBatch
<1>2. CASE NextBatch # {}
  <2>1. job' = [job EXCEPT !.rows = NextBatch, !.read = read]
    BY <1>2 DEF ReadBatch
  <2>3. DOMAIN job.written = {}
    BY ReadType DEF GroupsInv, ReadBatch
  <2>4. \A r \in NextBatch : r \in ReportIds /\ said[r] # Nothing
    BY DEF NextBatch, Due
  <2>5. \A r \in NextBatch : MergedAway(r) = Nothing
    <3> SUFFICES ASSUME NEW r \in NextBatch, placed[r] # Nothing PROVE lineage[placed[r]] = Nothing
      BY DEF MergedAway
    <3>1. PICK known \in Facts :
             said[r] \in Says /\ placed[r] = JoinsGroup(Fingerprint(said[r], known))
      BY <2>4 DEF GroupsInv, ReportsFit, ReportFits
    <3>2. Fingerprint(said[r], known) \in Fingerprints
      BY <3>1, FingerprintType
    <3> QED
      BY <3>1, <3>2, JoinsType DEF GroupsInv
  <2>6. read \in [NextBatch -> ReadRow] /\ DOMAIN read = NextBatch
    BY <2>4, <2>5 DEF ReadRow, GroupsInv, StateTyped
  <2>7. \A r \in NextBatch : read[r].findings = said[r]
    OBVIOUS
  <2> HIDE DEF read
  <2>8. /\ job'.kind = job.kind /\ job'.cursor = job.cursor /\ job'.rows = NextBatch
        /\ job'.read = read /\ job'.written = job.written
        /\ job' = [kind |-> job'.kind, cursor |-> job'.cursor, rows |-> job'.rows,
                   read |-> job'.read, written |-> job'.written]
    BY <2>1 DEF GroupsInv, JobTyped
  <2>9. NextBatch \in SUBSET ReportIds
    BY <2>4
  <2>10. JobTyped'
    BY <2>3, <2>6, <2>8, <2>9, Mapped DEF GroupsInv, JobTyped
  <2>11. \A r \in NextBatch : r <= received
    BY <2>4, GroupNumbers DEF GroupsInv, ReportsFit, ReportFits, StateTyped
  <2>12. JobFits'
    BY <2>3, <2>6, <2>7, <2>8, <2>11 DEF JobFits, ReadBatch
  <2> QED
    BY <2>10, <2>12, JobMoves DEF ReadBatch
<1> QED
  BY <1>1, <1>2

LEMMA WriteRowKeeps ==
  ASSUME GroupsInv, WriteRow
  PROVE  GroupsInv'
<1>1. PICK r \in job.rows :
         LET entry == job.read[r]
             written == [q \in DOMAIN job.written \cup {r} |->
                            IF q = r THEN Written(entry) ELSE job.written[q]]
         IN  IF entry.findings = Unreadable THEN job' = [job EXCEPT !.rows = @ \ {r}]
             ELSE /\ said[r] # Nothing
                  /\ job' = [job EXCEPT !.rows = @ \ {r}, !.written = written]
  BY DEF WriteRow
<1>2. UNCHANGED <<received, said, facts, placed, upserted, lineage, outdated>>
  BY DEF WriteRow
<1> DEFINE entry == job.read[r]
           written == [q \in DOMAIN job.written \cup {r} |->
                          IF q = r THEN Written(entry) ELSE job.written[q]]
<1>3. r \in DOMAIN job.read /\ r \in ReportIds /\ entry \in ReadRow
  BY <1>1, ReadType DEF GroupsInv
<1>4. CASE entry.findings = Unreadable
  <2>1. /\ job'.kind = job.kind /\ job'.cursor = job.cursor /\ job'.rows = job.rows \ {r}
        /\ job'.read = job.read /\ job'.written = job.written
        /\ job' = [kind |-> job'.kind, cursor |-> job'.cursor, rows |-> job'.rows,
                   read |-> job'.read, written |-> job'.written]
    BY <1>1, <1>4 DEF GroupsInv, JobTyped
  <2>2. JobTyped' /\ JobFits'
    BY <1>2, <2>1 DEF GroupsInv, JobTyped, JobFits, JoinsGroup
  <2> QED
    BY <1>2, <2>2, JobMoves
<1>5. CASE entry.findings # Unreadable
  <2>1. said[r] # Nothing /\ job' = [job EXCEPT !.rows = @ \ {r}, !.written = written]
    BY <1>1, <1>5
  <2>2. said[r] = entry.findings /\ entry.findings \in Says /\ entry.facts \in Facts
        /\ entry.merged = Nothing
    BY <1>3, <1>5, <2>1 DEF GroupsInv, JobFits, ReadRow
  <2>3. PICK key \in Fingerprints : key = Fingerprint(said[r], entry.facts)
    BY <2>2, FingerprintType
  <2>4. Written(entry) = [key |-> key, group |-> JoinsGroup(key)]
    BY <2>2, <2>3 DEF Written
  <2>5. JoinsGroup(key) \in Fingerprints
    BY JoinsType DEF GroupsInv
  <2>6. Written(entry) \in Target
    BY <2>4, <2>5 DEF Target
  <2>7. /\ written \in [DOMAIN job.written \cup {r} -> Target]
        /\ DOMAIN written = DOMAIN job.written \cup {r}
    BY <2>6, ReadType DEF GroupsInv
  <2>8. written[r] = Written(entry)
        /\ \A q \in DOMAIN job.written : q # r => written[q] = job.written[q]
    OBVIOUS
  <2> HIDE DEF written, entry
  <2>9. /\ job'.kind = job.kind /\ job'.cursor = job.cursor /\ job'.rows = job.rows \ {r}
        /\ job'.read = job.read /\ job'.written = written
        /\ job' = [kind |-> job'.kind, cursor |-> job'.cursor, rows |-> job'.rows,
                   read |-> job'.read, written |-> job'.written]
    BY <2>1 DEF GroupsInv, JobTyped
  <2>10. DOMAIN written \in SUBSET ReportIds /\ DOMAIN written \subseteq DOMAIN job.read
    BY <1>3, <2>7, ReadType DEF GroupsInv
  <2>11. JobTyped'
    BY <2>7, <2>9, <2>10, Mapped DEF GroupsInv, JobTyped
  <2>12. \A k : JoinsGroup(k)' = JoinsGroup(k)
    BY <1>2 DEF JoinsGroup
  <2>13. JobFits'
    <3>1. ASSUME NEW q \in DOMAIN written
          PROVE  /\ said[q] = job.read[q].findings /\ said[q] \in Says
                 /\ written[q].key = Fingerprint(said[q], job.read[q].facts)
                 /\ written[q].group = JoinsGroup(written[q].key)
      <4>1. CASE q = r
        BY <2>2, <2>3, <2>4, <2>8, <4>1 DEF entry
      <4>2. CASE q # r
        BY <2>7, <2>8, <4>2 DEF GroupsInv, JobFits
      <4> QED
        BY <4>1, <4>2
    <3> QED
      BY <1>2, <2>9, <3>1 DEF GroupsInv, JobFits, JoinsGroup
  <2> QED
    BY <1>2, <2>11, <2>13, JobMoves
<1> QED
  BY <1>4, <1>5

-----------------------------------------------------------------------------
(* Least and greatest numbers.                                               *)

LEMMA LeastNumber ==
  ASSUME NEW S \in SUBSET Nat, S # {}
  PROVE  \E least \in S : \A x \in S : least <= x
<1>1. PICK least \in S : \A y \in S : ~ (<<y, least>> \in OpToRel(<, Nat))
  BY NatLessThanWellFounded, WFMin
<1>2. ASSUME NEW y \in S PROVE least <= y
  <2>1. OpToRel(<, Nat) = {ss \in Nat \X Nat : ss[1] < ss[2]}
    BY Zenon DEF OpToRel
  <2>2. <<y, least>> \notin {ss \in Nat \X Nat : ss[1] < ss[2]}
    BY <1>1, <2>1, Zenon
  <2> QED
    BY <2>2
<1> QED
  BY <1>2

LEMMA GreatestNumber ==
  ASSUME NEW n \in Nat, NEW S \in SUBSET (0 .. n), S # {}
  PROVE  \E top \in S : \A x \in S : x <= top
<1> DEFINE below == {n - x : x \in S}
<1>1. below \in SUBSET Nat /\ below # {}
  <2>1. \A x \in S : n - x \in Nat
    OBVIOUS
  <2>2. PICK x \in S : TRUE
    OBVIOUS
  <2>3. n - x \in below
    BY <2>2
  <2> QED
    BY <2>1, <2>3
<1>2. PICK least \in below : \A y \in below : least <= y
  BY <1>1, LeastNumber
<1>3. PICK top \in S : least = n - top
  BY <1>2
<1>4. ASSUME NEW x \in S PROVE x <= top
  <2>1. least <= n - x
    BY <1>2
  <2>2. x \in 0 .. n /\ top \in 0 .. n
    OBVIOUS
  <2> HIDE DEF below
  <2> QED
    BY <1>3, <2>1, <2>2
<1> QED
  BY <1>4

-----------------------------------------------------------------------------
LEMMA CommitBatchKeeps ==
  ASSUME GroupsInv, CommitBatch
  PROVE  GroupsInv'
<1> DEFINE W == DOMAIN job.written
<1>1. /\ placed' = [r \in ReportIds |-> IF r \in W THEN job.written[r].group ELSE placed[r]]
      /\ upserted' = upserted \cup LockedRows
      /\ outdated' = {r \in outdated : r \notin W}
            \cup {r \in W : job.read[r].facts # facts[r]}
      /\ UNCHANGED <<received, said, facts, lineage>>
  BY DEF CommitBatch
<1>2. W \subseteq ReportIds /\ W \subseteq DOMAIN job.read
      /\ (\A r \in W : job.written[r] \in Target /\ job.read[r] \in ReadRow)
  BY ReadType DEF GroupsInv
<1>3. ASSUME NEW r \in W
      PROVE  /\ said[r] \in Says /\ job.written[r].key \in LockedRows
             /\ job.read[r].facts \in Facts
             /\ job.written[r].group = JoinsGroup(Fingerprint(said[r], job.read[r].facts))
             /\ job.written[r].group \in upserted' /\ job.written[r].group # Nothing
  <2>1. /\ said[r] \in Says /\ job.written[r].key = Fingerprint(said[r], job.read[r].facts)
        /\ job.written[r].group = JoinsGroup(job.written[r].key)
    BY DEF GroupsInv, JobFits
  <2>2. job.written[r].key \in LockedRows /\ job.written[r].key \in Fingerprints
        /\ job.read[r].facts \in Facts
    BY <1>2 DEF LockedRows, Target, ReadRow
  <2>3. PICK key \in Fingerprints : key = job.written[r].key
    BY <2>2
  <2>4. JoinsGroup(key) \in upserted \cup {key} /\ JoinsGroup(key) # Nothing
    BY JoinsType DEF GroupsInv
  <2> QED
    BY <1>1, <2>1, <2>2, <2>3, <2>4
<1>4. \A r \in ReportIds : placed'[r] = IF r \in W THEN job.written[r].group ELSE placed[r]
  BY <1>1
<1>5. StateTyped'
  <2>1. LockedRows \subseteq Fingerprints
    BY <1>2 DEF LockedRows, Target
  <2>2. upserted' \subseteq Fingerprints /\ upserted \subseteq upserted'
    BY <1>1, <2>1 DEF GroupsInv, StateTyped
  <2>3. \A r \in ReportIds : placed'[r] \in upserted' \cup {Nothing}
    BY <1>3, <1>4, <2>2 DEF GroupsInv, StateTyped
  <2>4. placed' \in [ReportIds -> upserted' \cup {Nothing}]
    BY <1>1, <2>3
  <2>5. outdated' \subseteq Grouped'
    BY <1>1, <1>2, <1>3, <1>4 DEF GroupsInv, StateTyped, Grouped
  <2> QED
    BY <1>1, <2>2, <2>4, <2>5 DEF GroupsInv, StateTyped
<1>6. LineageFlat'
  BY <1>1 DEF GroupsInv, LineageFlat
<1>7. ReportsFit'
  <2> SUFFICES ASSUME NEW r \in ReportIds PROVE ReportFits(r)'
    BY DEF ReportsFit
  <2>1. ReportFits(r)
    BY DEF GroupsInv, ReportsFit
  <2>2. CASE r \in W
    <3>1. placed'[r] = job.written[r].group
      BY <1>4, <2>2
    <3>2. r \notin outdated' => job.read[r].facts = facts[r]
      BY <1>1, <2>2
    <3>3. placed'[r] # Nothing /\ said[r] \in Says /\ job.read[r].facts \in Facts
          /\ placed'[r] = JoinsGroup(Fingerprint(said[r], job.read[r].facts))
      BY <1>3, <2>2, <3>1
    <3> QED
      BY <1>1, <2>1, <3>2, <3>3, NoNames DEF ReportFits, JoinsGroup
  <2>3. CASE r \notin W
    <3>1. placed'[r] = placed[r] /\ (r \in outdated' <=> r \in outdated)
      BY <1>1, <1>4, <2>3
    <3> QED
      BY <1>1, <2>1, <3>1 DEF ReportFits, JoinsGroup
  <2> QED
    BY <2>2, <2>3
<1>8. JobTyped' /\ JobFits'
  <2> DEFINE last == CHOOSE r \in DOMAIN job.read : \A q \in DOMAIN job.read : q <= r
  <2>1. DOMAIN job.read # {}
    <3>1. CASE DOMAIN job.read = {}
      <4>1. job.read = <<>>
        BY <3>1, ReadType DEF GroupsInv
      <4> QED
        BY <4>1 DEF CommitBatch
    <3> QED
      BY <3>1
  <2>2. DOMAIN job.read \in SUBSET (0 .. MaxStored)
    BY ReadType, GroupNumbers DEF GroupsInv
  <2>3. \E r \in DOMAIN job.read : \A q \in DOMAIN job.read : q <= r
    BY <2>1, <2>2, GreatestNumber, GroupNumbers
  <2>4. last \in DOMAIN job.read
    BY <2>3
  <2>5. last \in 0 .. MaxStored
    BY <2>2, <2>4
  <2>6. job' = [kind |-> job.kind, cursor |-> last, rows |-> {}, read |-> <<>>,
                written |-> <<>>]
    BY DEF CommitBatch, NoPass
  <2>7. job.kind \in {"none", "backfill", "regroup"}
    BY DEF GroupsInv, JobTyped
  <2> HIDE DEF last
  <2> QED
    BY <2>5, <2>6, <2>7, NoPassKeeps
<1> QED
  BY <1>5, <1>6, <1>7, <1>8 DEF GroupsInv

LEMMA GroupsStay ==
  ASSUME GroupsInv, [GroupsNext]_groupsVars
  PROVE  GroupsInv'
<1>1. CASE UNCHANGED groupsVars
  <2>1. JobTyped' /\ JobFits'
    BY <1>1 DEF groupsVars, GroupsInv, JobTyped, JobFits, JoinsGroup
  <2> QED
    BY <1>1, <2>1, JobMoves DEF groupsVars
<1>2. ASSUME NEW sent \in Sent, NEW known \in Facts, JoinReport(sent, known) PROVE GroupsInv'
  BY <1>2, JoinReportKeeps
<1>3. ASSUME NEW r \in ReportIds, NEW known \in Facts, TelemetryFills(r, known) PROVE GroupsInv'
  BY <1>3, TelemetryFillsKeeps
<1>4. ASSUME NEW source \in upserted, NEW target \in upserted, MergeGroups(source, target)
      PROVE  GroupsInv'
  BY <1>4, MergeGroupsKeeps
<1>5. ASSUME NEW r \in ReportIds, RetentionDeletes(r) PROVE GroupsInv'
  BY <1>5, RetentionDeletesKeeps
<1>6. CASE PassFails \/ \E kind \in {"backfill", "regroup"} : StartPass(kind)
  BY <1>6, PassMoves
<1>7. CASE ReadBatch \/ WriteRow \/ CommitBatch
  BY <1>7, ReadBatchKeeps, WriteRowKeeps, CommitBatchKeeps
<1> QED
  BY <1>1, <1>2, <1>3, <1>4, <1>5, <1>6, <1>7 DEF GroupsNext

-----------------------------------------------------------------------------
(* The finding a group is named for.                                         *)

LEMMA SaidType ==
  ASSUME NEW findings \in Says
  PROVE  /\ DOMAIN findings \in SUBSET Nat /\ (findings = <<>> <=> DOMAIN findings = {})
         /\ \A n \in DOMAIN findings :
               findings[n].severity \in 0 .. 3 /\ findings[n].kind \in 1 .. 7
<1>1. PICK sent \in Sent : findings = Cleaned(sent)
  BY DEF Says
<1>2. PICK length \in Nat : sent \in [1 .. length -> Finding]
  <2>1. sent \in Seq(Finding)
    BY GroupsAssumption
  <2>2. Len(sent) \in Nat /\ sent \in [1 .. Len(sent) -> Finding]
    BY <2>1
  <2> QED
    BY <2>2
<1>3. /\ findings = [n \in 1 .. length |-> [sent[n] EXCEPT !.topic = TopicOf[@]]]
      /\ DOMAIN findings = 1 .. length
  BY <1>1, <1>2 DEF Cleaned
<1>4. ASSUME NEW n \in DOMAIN findings
      PROVE  findings[n].severity \in 0 .. 3 /\ findings[n].kind \in 1 .. 7
  <2>1. sent[n] \in Finding
    BY <1>2, <1>3
  <2>2. findings[n] = [sent[n] EXCEPT !.topic = TopicOf[@]]
    BY <1>3
  <2>3. findings[n].severity = sent[n].severity /\ findings[n].kind = sent[n].kind
    BY <2>1, <2>2 DEF Finding
  <2> QED
    BY <2>1, <2>3 DEF Finding
<1>5. DOMAIN findings = {} => findings = <<>>
  BY <1>3
<1>6. findings = <<>> => DOMAIN findings = {}
  OBVIOUS
<1> QED
  BY <1>3, <1>4, <1>5, <1>6

RankOf(f) == 8 * f.severity + f.kind

LEMMA AboveIsRank ==
  ASSUME NEW f, NEW g, f.severity \in 0 .. 3, f.kind \in 1 .. 7,
         g.severity \in 0 .. 3, g.kind \in 1 .. 7
  PROVE  /\ RankOf(f) \in 0 .. 31 /\ (Above(f, g) <=> RankOf(f) > RankOf(g))
BY DEF RankOf, Above

(* The finding that is the first of those above all others: there is one, and *)
(* it is that of its own report.                                             *)
Topmost(findings, n) ==
    \A k \in DOMAIN findings :
        ~Above(findings[k], findings[n]) /\ (k < n => Above(findings[n], findings[k]))

LEMMA PrimaryIsTopmost ==
  ASSUME NEW findings \in Says, NEW n \in DOMAIN findings, Topmost(findings, n)
  PROVE  PrimaryFinding(findings) = n
<1> DEFINE m == PrimaryFinding(findings)
<1>1. m \in DOMAIN findings /\ Topmost(findings, m)
  <2>1. PICK p : p = PrimaryFinding(findings)
    OBVIOUS
  <2>2. p \in DOMAIN findings /\ Topmost(findings, p)
    BY <2>1 DEF PrimaryFinding, Topmost
  <2> QED
    BY <2>1, <2>2
<1>2. m \in Nat /\ n \in Nat
  BY <1>1, SaidType
<1> HIDE DEF m
<1>3. ~(m < n) /\ ~(n < m)
  BY <1>1 DEF Topmost
<1> QED
  BY <1>2, <1>3 DEF m

(* A member of a group says something by which it may be in it.              *)
LEMMA MembersAgree ==
  ASSUME GroupsInv, NEW key \in upserted, lineage[key] = Nothing, MergesInto(key) = {},
         NEW r \in MembersOf(key)
  PROVE  /\ r \in ReportIds /\ said[r] \in Says
         /\ key.finding = IF said[r] = <<>> THEN NoFinding
                          ELSE <<said[r][PrimaryFinding(said[r])].kind,
                                 said[r][PrimaryFinding(said[r])].topic>>
<1>1. r \in ReportIds /\ placed[r] = key /\ key \in Fingerprints /\ key # Nothing
  BY NoNames DEF MembersOf, GroupsInv, StateTyped
<1>2. PICK known \in Facts :
         said[r] \in Says /\ placed[r] = JoinsGroup(Fingerprint(said[r], known))
  BY <1>1 DEF GroupsInv, ReportsFit, ReportFits
<1>3. PICK own \in Fingerprints : own = Fingerprint(said[r], known)
  BY <1>2, FingerprintType
<1>4. own = key
  BY <1>1, <1>2, <1>3 DEF JoinsGroup, GroupsInv, LineageFlat, MergesInto
<1>5. Fingerprint(said[r], known).finding =
         IF said[r] = <<>> THEN NoFinding
         ELSE <<said[r][PrimaryFinding(said[r])].kind, said[r][PrimaryFinding(said[r])].topic>>
  BY <1>2, FingerprintType
<1>6. Fingerprint(said[r], known) = key
  BY <1>3, <1>4
<1> QED
  BY ONLY <1>1, <1>2, <1>5, <1>6

LEMMA ExpandedAre ==
  ASSUME GroupsInv, NEW key \in upserted, NEW at
  PROVE  at \in Expanded(key) <=>
            \E r \in MembersOf(key) :
               said[r] # Unreadable /\ \E n \in DOMAIN said[r] : at = <<r, n>>
BY DEF Expanded

LEMMA ExpandedType ==
  ASSUME GroupsInv, NEW key \in upserted, NEW at \in Expanded(key)
  PROVE  /\ at[1] \in MembersOf(key) /\ at[1] \in ReportIds /\ at[1] \in Nat /\ at[2] \in Nat
         /\ said[at[1]] \in Says /\ at[2] \in DOMAIN said[at[1]] /\ at = <<at[1], at[2]>>
         /\ FindingAt(at) = said[at[1]][at[2]]
         /\ FindingAt(at).severity \in 0 .. 3 /\ FindingAt(at).kind \in 1 .. 7
<1>1. PICK r \in MembersOf(key) :
         said[r] # Unreadable /\ \E n \in DOMAIN said[r] : at = <<r, n>>
  BY ExpandedAre
<1>2. r \in ReportIds /\ r \in Nat /\ placed[r] = key /\ key # Nothing
  BY GroupNumbers, NoNames DEF MembersOf, GroupsInv, StateTyped
<1>3. said[r] \in Says
  BY <1>2 DEF GroupsInv, ReportsFit, ReportFits
<1>4. at[1] = r /\ at[2] \in DOMAIN said[r] /\ at = <<at[1], at[2]>>
  BY <1>1
<1> QED
  BY <1>2, <1>3, <1>4, SaidType DEF FindingAt

Leads(at, key) ==
    \A other \in Expanded(key) \ {at} :
        /\ ~Above(FindingAt(other), FindingAt(at))
        /\ Before(other, at) => Above(FindingAt(at), FindingAt(other))

LEMMA OneLeads ==
  ASSUME GroupsInv, NEW key \in upserted, Expanded(key) # {}
  PROVE  \E at \in Expanded(key) : Leads(at, key)
<1> DEFINE E == Expanded(key)
           Rank(at) == RankOf(FindingAt(at))
           ranks == {Rank(at) : at \in E}
<1>1. \A at \in E : Rank(at) \in 0 .. 31
  BY ExpandedType, AboveIsRank
<1>2. ranks \in SUBSET (0 .. 31) /\ ranks # {} /\ 31 \in Nat
  BY <1>1
<1>3. PICK top \in ranks : \A x \in ranks : x <= top
  BY <1>2, GreatestNumber
<1> DEFINE T == {at \in E : Rank(at) = top}
           sources == {at[1] : at \in T}
<1>4. T # {} /\ T \subseteq E
  BY <1>3
<1>5. sources \in SUBSET Nat /\ sources # {}
  BY <1>4, ExpandedType
<1>6. PICK r \in sources : \A x \in sources : r <= x
  BY <1>5, LeastNumber
<1> DEFINE F == {at \in T : at[1] = r}
           places == {at[2] : at \in F}
<1>7. F # {} /\ F \subseteq T
  BY <1>6
<1>8. places \in SUBSET Nat /\ places # {}
  BY <1>4, <1>7, ExpandedType
<1>9. PICK n \in places : \A x \in places : n <= x
  BY <1>8, LeastNumber
<1>10. PICK at \in F : at[2] = n
  BY <1>9
<1>11. at \in E /\ Rank(at) = top /\ at[1] = r
  BY <1>10
<1>12. ASSUME NEW other \in E \ {at}
       PROVE  /\ ~Above(FindingAt(other), FindingAt(at))
              /\ Before(other, at) => Above(FindingAt(at), FindingAt(other))
  <2>1. Rank(other) <= top /\ Rank(other) \in Nat /\ top \in Nat
    BY <1>1, <1>2, <1>3
  <2>2. /\ Above(FindingAt(other), FindingAt(at)) <=> Rank(other) > Rank(at)
        /\ Above(FindingAt(at), FindingAt(other)) <=> Rank(at) > Rank(other)
    BY <1>11, ExpandedType, AboveIsRank
  <2>3. ~Above(FindingAt(other), FindingAt(at))
    BY <1>11, <2>1, <2>2
  <2>4. ASSUME Before(other, at), Rank(other) = top PROVE FALSE
    <3>1. other \in T /\ other[1] \in sources /\ other[1] \in Nat /\ other[2] \in Nat
          /\ at[1] \in Nat /\ at[2] \in Nat
      BY <1>11, <2>4, ExpandedType
    <3>2. r <= other[1]
      BY <1>6, <3>1
    <3>3. other[1] = r /\ other[2] < n
      BY <1>10, <1>11, <2>4, <3>1, <3>2 DEF Before
    <3>4. other[2] \in places
      BY <3>1, <3>3
    <3> QED
      BY <1>9, <1>10, <3>1, <3>3, <3>4
  <2> QED
    BY <1>11, <2>1, <2>2, <2>3, <2>4
<1> QED
  BY <1>11, <1>12 DEF Leads

LEMMA NamedFor ==
  ASSUME GroupsInv, NEW key \in upserted, Expanded(key) # {}
  PROVE  \E top \in Expanded(key) :
            /\ Leads(top, key)
            /\ IssueNamedFor(key) = <<FindingAt(top).kind, FindingAt(top).topic>>
<1> DEFINE leader == CHOOSE at \in Expanded(key) : \A other \in Expanded(key) \ {at} :
                        /\ ~Above(FindingAt(other), FindingAt(at))
                        /\ Before(other, at) => Above(FindingAt(at), FindingAt(other))
<1>1. IssueNamedFor(key) = <<FindingAt(leader).kind, FindingAt(leader).topic>>
  BY Zenon DEF IssueNamedFor
<1>2. \E at \in Expanded(key) : \A other \in Expanded(key) \ {at} :
                        /\ ~Above(FindingAt(other), FindingAt(at))
                        /\ Before(other, at) => Above(FindingAt(at), FindingAt(other))
  BY OneLeads DEF Leads
<1>3. leader \in Expanded(key) /\ \A other \in Expanded(key) \ {leader} :
                        /\ ~Above(FindingAt(other), FindingAt(leader))
                        /\ Before(other, leader) => Above(FindingAt(leader), FindingAt(other))
  BY ONLY <1>2, Zenon
<1> HIDE DEF leader
<1>4. Leads(leader, key)
  BY <1>3 DEF Leads
<1> QED
  BY <1>1, <1>3, <1>4

LEMMA IssuesNamed == GroupsInv => IssuesNamedAsGrouped
<1> SUFFICES ASSUME GroupsInv, NEW key \in upserted, lineage[key] = Nothing,
                    MembersOf(key) # {}, MergesInto(key) = {}
             PROVE  IssueNamedFor(key) = key.finding
  BY DEF IssuesNamedAsGrouped, ListedGroups
<1>1. CASE Expanded(key) = {}
  <2>1. PICK r \in MembersOf(key) : TRUE
    OBVIOUS
  <2>2. said[r] \in Says /\ said[r] # Unreadable
    BY MembersAgree, NoNames
  <2>3. said[r] = <<>>
    <3>1. ASSUME NEW n \in DOMAIN said[r] PROVE FALSE
      <4>1. PICK at : at = <<r, n>>
        OBVIOUS
      <4> QED
        BY <1>1, <2>2, <4>1, ExpandedAre
    <3> QED
      BY <2>2, <3>1, SaidType
  <2>4. key.finding = NoFinding
    BY <2>3, MembersAgree
  <2>5. IssueNamedFor(key) = NoFinding
    BY <1>1 DEF IssueNamedFor
  <2> QED
    BY <2>4, <2>5
<1>2. CASE Expanded(key) # {}
  <2>1. PICK top \in Expanded(key) :
           /\ Leads(top, key)
           /\ IssueNamedFor(key) = <<FindingAt(top).kind, FindingAt(top).topic>>
    BY <1>2, NamedFor
  <2>2. PICK r, n : r = top[1] /\ n = top[2]
    OBVIOUS
  <2>3. /\ r \in MembersOf(key) /\ said[r] \in Says /\ n \in DOMAIN said[r] /\ top = <<r, n>>
        /\ FindingAt(top) = said[r][n] /\ r \in Nat /\ n \in Nat
        /\ said[r][n].severity \in 0 .. 3 /\ said[r][n].kind \in 1 .. 7
    BY <2>2, ExpandedType
  <2>4. Topmost(said[r], n)
    <3> SUFFICES ASSUME NEW k \in DOMAIN said[r]
                 PROVE  /\ ~Above(said[r][k], said[r][n])
                        /\ k < n => Above(said[r][n], said[r][k])
      BY DEF Topmost
    <3>1. CASE k = n
      BY <2>3, <3>1 DEF Above
    <3>2. CASE k # n
      <4>1. PICK other : other = <<r, k>>
        OBVIOUS
      <4>2. other \in Expanded(key) \ {top} /\ FindingAt(other) = said[r][k]
            /\ (k < n => Before(other, top))
        BY <2>3, <3>2, <4>1, ExpandedAre, NoNames DEF FindingAt, Before
      <4> QED
        BY <2>1, <2>3, <4>2 DEF Leads
    <3> QED
      BY <3>1, <3>2
  <2>5. PrimaryFinding(said[r]) = n
    BY <2>3, <2>4, PrimaryIsTopmost
  <2>6. said[r] # <<>>
    BY <2>3, SaidType
  <2>7. key.finding = <<said[r][n].kind, said[r][n].topic>>
    BY <2>3, <2>5, <2>6, MembersAgree
  <2> QED
    BY <2>1, <2>3, <2>7
<1> QED
  BY <1>1, <1>2

LEMMA AllShown == GroupsInv => GroupsShowAll
<1> SUFFICES ASSUME GroupsInv PROVE GroupsShowAll
  OBVIOUS
<1>1. \A r \in OldReports + 1 .. received : said[r] # Nothing => r \in Grouped
  BY GroupNumbers DEF GroupsInv, StateTyped, ReportsFit, ReportFits, Grouped
<1>2. ASSUME NEW r \in Grouped
      PROVE  r \in UNION {MembersOf(key) : key \in ListedGroups}
  <2>1. PICK known \in Facts :
           said[r] \in Says /\ placed[r] = JoinsGroup(Fingerprint(said[r], known))
    BY DEF Grouped, GroupsInv, ReportsFit, ReportFits
  <2>2. Fingerprint(said[r], known) \in Fingerprints
    BY <2>1, FingerprintType
  <2>3. placed[r] \in upserted /\ lineage[placed[r]] = Nothing
    BY <2>1, <2>2, JoinsType DEF Grouped, GroupsInv, StateTyped
  <2>4. placed[r] \in ListedGroups /\ r \in MembersOf(placed[r])
    BY <2>3 DEF ListedGroups, MembersOf, Grouped
  <2> QED
    BY <2>4
<1>3. \A key \in ListedGroups : MembersOf(key) \subseteq Grouped
  BY NoNames DEF ListedGroups, MembersOf, Grouped, GroupsInv, StateTyped
<1>4. \A key \in upserted : lineage[key] # Nothing => lineage[lineage[key]] = Nothing
  BY DEF GroupsInv, LineageFlat, StateTyped
<1>5. UNION {MembersOf(key) : key \in ListedGroups} = Grouped
  BY <1>2, <1>3
<1> QED
  BY <1>1, <1>4, <1>5 DEF GroupsShowAll

(* However reports, their telemetry, merges, retention and the batches of the *)
(* two jobs interleave, a report is where its findings and the facts of its    *)
(* interaction say, merges included, unless a job placed it by facts it read   *)
(* before they changed; every report is in a group that is listed; and the    *)
(* issue of a group is named for the finding of its fingerprint               *)
(* (ReportsStayGrouped).  The invariant adds what a job has read and written:  *)
(* of a report that is still there, what it says, and a group that no merge   *)
(* can take away before the batch commits.                                   *)
THEOREM ReportsAreGrouped == GroupsSpec => []ReportsStayGrouped
<1>1. GroupsInv => ReportsStayGrouped
  <2> SUFFICES ASSUME GroupsInv PROVE ReportsStayGrouped
    OBVIOUS
  <2>1. GroupsTypeOK
    BY ReadType DEF GroupsInv, StateTyped, JobTyped, GroupsTypeOK
  <2>2. GroupsFollowFacts
    BY NoNames DEF GroupsInv, ReportsFit, ReportFits, GroupsFollowFacts, Grouped
  <2> QED
    BY <2>1, <2>2, AllShown, IssuesNamed DEF ReportsStayGrouped
<1> QED
  BY <1>1, GroupsBegin, GroupsStay, PTL DEF GroupsSpec

-----------------------------------------------------------------------------
(* The code-match queue.                                                     *)

USE QueueAssumption

HintOutcome == {"none", "settled", "terminal_unverifiable"}

(* What the CHECKs of the table ask of a retry.                              *)
SoundRetry(x) ==
    /\ x.kind = "none" <=> x.repo = NoRepo
    /\ x.cands => x.kind \in {"budget", "fetch"}
    /\ x.kind = "fetch" => x.cands

SoundRow(x) == x \in Row /\ (x.state = "claimed" <=> x.token # NoWorker) /\ SoundRetry(x)

(* A worker at work holds only jobs it has before it, and a row that still    *)
(* names its token is as the worker has it in mind: what it decides by is     *)
(* what the row says.                                                        *)
ClaimInv ==
    \A w \in Workers :
        /\ workers[w].pc \in Draining => Held(w) \subseteq workers[w].todo
        /\ workers[w].pc = "idle" => Held(w) = {}
        /\ \A r \in workers[w].todo :
              /\ SoundRetry(workers[w].seen[r])
              /\ row[r].token = w => row[r] = workers[w].seen[r]

(* A worker past the batch's token has a repository.                         *)
TargetInv ==
    \A w \in Workers :
        /\ workers[w].pc \in {"notoken", "jobs", "verify", "backoff"} => workers[w].repo # NoRepo
        /\ workers[w].pc = "verify" => workers[w].found = workers[w].repo

(* Nothing is there of a report to come.                                     *)
UnbornInv == \A r \in Reports : r > born => row[r] = NoRow /\ hints[r] = "none"

QueueInv == QueueTypeOK /\ ClaimInv /\ TargetInv /\ UnbornInv /\ HintsEndJob

-----------------------------------------------------------------------------
(* Types.                                                                    *)

LEMMA RowType ==
  ASSUME QueueTypeOK, NEW r \in Reports
  PROVE  SoundRow(row[r])
BY DEF QueueTypeOK, SoundRow, SoundRetry

LEMMA SoundRows ==
  ASSUME row' \in [Reports -> Row], \A r \in Reports : SoundRow(row'[r]),
         hints' \in [Reports -> HintOutcome], born' \in 0 .. MaxReports,
         stored' \subseteq 1 .. born', mapping' \in Repos \cup {NoRepo},
         workers' \in [Workers -> Worker]
  PROVE  QueueTypeOK'
BY DEF QueueTypeOK, SoundRow, SoundRetry, HintOutcome

LEMMA WorkerType ==
  ASSUME QueueTypeOK, NEW w \in Workers
  PROVE  /\ workers[w] \in Worker
         /\ workers[w].todo \subseteq Reports
         /\ workers[w].seen \in [Reports -> Row]
         /\ workers[w].repo \in Repos \cup {NoRepo}
         /\ workers[w].spent \in BOOLEAN
BY DEF QueueTypeOK, Worker

LEMMA NoRowType == SoundRow(NoRow) /\ NoRow.token = NoWorker
BY DEF NoRow, SoundRow, SoundRetry, Row

LEMMA DeadRowType == SoundRow(DeadRow) /\ DeadRow.token = NoWorker /\ DeadRow.state = "dead"
<1>1. NoRow \in Row /\ NoRow.token = NoWorker /\ SoundRetry(NoRow)
  BY NoRowType DEF SoundRow
<1>2. DeadRow \in Row /\ DeadRow.state = "dead"
  BY <1>1 DEF DeadRow, Row
<1>3. /\ DeadRow.token = NoRow.token /\ DeadRow.kind = NoRow.kind
      /\ DeadRow.repo = NoRow.repo /\ DeadRow.cands = NoRow.cands
  BY <1>1 DEF DeadRow, Row
<1> QED
  BY <1>1, <1>2, <1>3 DEF SoundRow, SoundRetry

LEMMA IdleWorkerType ==
  IdleWorker \in Worker /\ IdleWorker.todo = {} /\ IdleWorker.pc = "idle"
BY NoRowType DEF IdleWorker, Worker, SoundRow

LEMMA FreedType ==
  ASSUME QueueTypeOK, NEW r \in Reports
  PROVE  SoundRow(Freed(r)) /\ Freed(r).token = NoWorker /\ Freed(r).state = "queued"
BY RowType DEF SoundRow, SoundRetry, Freed, Row

LEMMA AttemptBackType ==
  ASSUME NEW a \in 0 .. MaxAttempts, NEW b \in AttemptBack(a)
  PROVE  b \in 0 .. MaxAttempts
BY DEF AttemptBack

-----------------------------------------------------------------------------
(* The end of a job, as the statements of the worker leave it: nothing        *)
(* happens to a row that was claimed anew, and no hints are written without   *)
(* their row.                                                                *)
Left(w, r) ==
    /\ row' \in [Reports -> Row] /\ hints' \in [Reports -> HintOutcome]
    /\ \A q \in Reports \ {r} : row'[q] = row[q] /\ hints'[q] = hints[q]
    /\ ~Owns(w, r) => row'[r] = row[r] /\ hints'[r] = hints[r]
    /\ Owns(w, r) =>
          /\ SoundRow(row'[r]) /\ row'[r].token = NoWorker
          /\ \/ hints'[r] = hints[r]
             \/ hints'[r] = "settled" /\ row'[r].state = "none"
             \/ hints'[r] = "terminal_unverifiable" /\ row'[r].state = "dead"

LEMMA WrittenRow ==
  ASSUME QueueTypeOK, NEW w \in Workers, NEW r \in Reports, NEW new,
         SoundRow(new), Write(w, r, new)
  PROVE  /\ row' \in [Reports -> Row]
         /\ \A q \in Reports \ {r} : row'[q] = row[q]
         /\ ~Owns(w, r) => row'[r] = row[r]
         /\ Owns(w, r) => row'[r] = new
BY DEF QueueTypeOK, Write, SoundRow

LEMMA HintsType == ASSUME QueueTypeOK PROVE hints \in [Reports -> HintOutcome]
BY DEF QueueTypeOK, HintOutcome

LEMMA ReleaseLeaves ==
  ASSUME QueueTypeOK, NEW w \in Workers, NEW r \in Reports, Release(w, r)
  PROVE  Left(w, r) /\ hints' = hints /\ (Owns(w, r) => row'[r].state = "queued")
BY FreedType, WrittenRow, HintsType DEF Release, Left

LEMMA DeadLetterLeaves ==
  ASSUME QueueTypeOK, NEW w \in Workers, NEW r \in Reports, DeadLetter(w, r)
  PROVE  Left(w, r) /\ hints' = hints
BY DeadRowType, WrittenRow, HintsType DEF DeadLetter, Left

LEMMA EndUnverifiedLeaves ==
  ASSUME QueueTypeOK, NEW w \in Workers, NEW r \in Reports, EndUnverified(w, r)
  PROVE  Left(w, r)
BY DeadRowType, WrittenRow, HintsType DEF EndUnverified, Left, HintOutcome

LEMMA KeepLeaves ==
  ASSUME QueueTypeOK, NEW w \in Workers, NEW r \in Reports, NEW kind, NEW repo, NEW cands,
         NEW counts \in BOOLEAN,
         KeepForLater(w, r, kind, repo, cands, counts),
         kind \in {"pin", "budget", "fetch"}, repo \in Repos, cands \in BOOLEAN,
         cands => kind \in {"budget", "fetch"}, kind = "fetch" => cands,
         Owns(w, r) /\ counts => row[r].retries + 1 < MaxRetries
  PROVE  Left(w, r) /\ hints' = hints /\ (Owns(w, r) => row'[r].state = "queued")
<1> PICK a \in AttemptBack(row[r].attempts) :
         Write(w, r, [Freed(r) EXCEPT !.attempts = a, !.kind = kind, !.repo = repo,
                        !.cands = cands, !.retries = IF counts THEN @ + 1 ELSE @])
  BY DEF KeepForLater
<1> DEFINE new == [Freed(r) EXCEPT !.attempts = a, !.kind = kind, !.repo = repo,
                     !.cands = cands, !.retries = IF counts THEN @ + 1 ELSE @]
<1>1. SoundRow(Freed(r)) /\ Freed(r).token = NoWorker /\ Freed(r).state = "queued"
  BY FreedType
<1>2. a \in 0 .. MaxAttempts
  BY RowType, AttemptBackType DEF SoundRow, Row
<1>3. Freed(r).retries = row[r].retries /\ row[r].retries \in 0 .. MaxRetries - 1
  BY RowType DEF Freed, SoundRow, Row
<1>4. ASSUME Owns(w, r) PROVE SoundRow(new) /\ new.token = NoWorker /\ new.state = "queued"
  <2> DEFINE f == Freed(r)
  <2>1. f \in Row /\ f.token = NoWorker /\ f.state = "queued"
    BY <1>1 DEF SoundRow
  <2>2. (IF counts THEN f.retries + 1 ELSE f.retries) \in 0 .. MaxRetries - 1
    BY <1>3, <1>4
  <2>3. new = [f EXCEPT !.attempts = a, !.kind = kind, !.repo = repo, !.cands = cands,
                        !.retries = IF counts THEN f.retries + 1 ELSE f.retries]
    OBVIOUS
  <2> HIDE DEF f, new
  <2>4. new \in Row
    BY <1>2, <2>1, <2>2, <2>3 DEF Row
  <2>5. /\ new.token = NoWorker /\ new.state = "queued"
        /\ new.kind = kind /\ new.repo = repo /\ new.cands = cands
    BY <2>1, <2>3 DEF Row
  <2> QED
    BY <2>4, <2>5 DEF SoundRow, SoundRetry
<1>5. hints' = hints
  BY DEF KeepForLater
<1> HIDE DEF new
<1>6. Write(w, r, new)
  BY DEF new
<1>7. CASE Owns(w, r)
  BY <1>4, <1>5, <1>6, <1>7, WrittenRow, HintsType DEF Left
<1>8. CASE ~Owns(w, r)
  BY <1>5, <1>6, <1>8, HintsType DEF Left, Write, QueueTypeOK
<1> QED
  BY <1>7, <1>8

-----------------------------------------------------------------------------
(* What a step may do to the hints and to a job with candidates: the bodies   *)
(* of HintsAreFinal, NotJudgedUnsearched and VerdictNotStranded.             *)

HintsKept ==
    \A r \in Reports : hints[r] # "none" => hints'[r] = hints[r] \/ r \notin stored'

JudgedAfterSearch ==
    \A r \in Reports :
        hints'[r] = "terminal_unverifiable" /\ hints[r] = "none" =>
            \/ row[r].cands \/ row[r].kind = "pin"
            \/ workers[row[r].token].pc = "verify"

CandidatesJudged ==
    \A r \in Reports :
        row[r].cands /\ row[r].state # "dead" /\ row'[r].state = "dead" =>
            \/ hints'[r] = "terminal_unverifiable"
            \/ workers[row[r].token].repo = NoRepo

GoodStep == QueueInv' /\ HintsKept /\ JudgedAfterSearch /\ CandidatesJudged

-----------------------------------------------------------------------------
(* The worker leaves a job.                                                  *)

LEMMA JobFacts ==
  ASSUME QueueInv, NEW w \in Workers, NEW r \in Reports, IsJob(w, r)
  PROVE  /\ r \in workers[w].todo
         /\ Job(w, r) \in Row /\ SoundRetry(Job(w, r))
         /\ Owns(w, r) => /\ row[r] = Job(w, r) /\ row[r].token = w
                          /\ row[r].state = "claimed" /\ hints[r] = "none"
<1>1. r \in workers[w].todo
  BY DEF IsJob
<1>2. Job(w, r) \in Row /\ SoundRetry(Job(w, r))
  BY <1>1, WorkerType DEF QueueInv, ClaimInv, Job
<1>3. ASSUME Owns(w, r)
      PROVE  /\ row[r] = Job(w, r) /\ row[r].token = w
             /\ row[r].state = "claimed" /\ hints[r] = "none"
  <2>1. row[r] = Job(w, r) /\ row[r].token = w
    BY <1>1, <1>3 DEF QueueInv, ClaimInv, Job, Owns
  <2>2. row[r].state = "claimed"
    BY <2>1 DEF QueueInv, QueueTypeOK
  <2>3. hints[r] = "none"
    BY <2>2 DEF QueueInv, HintsEndJob, QueueTypeOK
  <2> QED
    BY <2>1, <2>2, <2>3
<1> QED
  BY <1>1, <1>2, <1>3

LEMMA GoOnFacts ==
  ASSUME QueueTypeOK, NEW w \in Workers, NEW r \in Reports, NEW pc \in Draining,
         NEW spends \in BOOLEAN, GoOn(w, r, pc, spends)
  PROVE  /\ workers' \in [Workers -> Worker]
         /\ \A v \in Workers \ {w} : workers'[v] = workers[v]
         /\ workers'[w].todo = workers[w].todo \ {r}
         /\ \/ workers'[w].pc = "idle" /\ workers[w].todo = {r}
            \/ workers'[w].pc = pc /\ workers'[w].repo = workers[w].repo
         /\ \A q \in workers'[w].todo : workers'[w].seen[q] = workers[w].seen[q]
<1>1. CASE workers[w].todo = {r}
  BY <1>1, IdleWorkerType DEF QueueTypeOK, GoOn
<1>2. CASE workers[w].todo # {r}
  <2> DEFINE new == [workers[w] EXCEPT !.pc = pc, !.todo = @ \ {r}, !.seen[r] = NoRow,
                                       !.found = NoRepo, !.spent = @ \/ spends]
  <2>1. workers' = [workers EXCEPT ![w] = new]
    BY <1>2 DEF GoOn
  <2>2. workers[w] \in Worker /\ (workers[w].spent \/ spends) \in BOOLEAN
    BY WorkerType
  <2>3. [workers[w].seen EXCEPT ![r] = NoRow] \in [Reports -> Row]
    BY WorkerType, NoRowType DEF SoundRow
  <2>4. new \in Worker
    BY <2>2, <2>3 DEF Worker, Draining
  <2>5. /\ new.todo = workers[w].todo \ {r} /\ new.pc = pc /\ new.repo = workers[w].repo
        /\ \A q \in new.todo : new.seen[q] = workers[w].seen[q]
    BY <2>2 DEF Worker
  <2> HIDE DEF new
  <2> QED
    BY <2>1, <2>4, <2>5 DEF QueueTypeOK
<1> QED
  BY <1>1, <1>2

LEMMA LeaveStep ==
  ASSUME QueueInv, NEW w \in Workers, NEW r \in Reports, IsJob(w, r),
         workers[w].pc \in Draining, Left(w, r),
         NEW pc \in {"batch", "notoken", "jobs", "backoff"}, NEW spends \in BOOLEAN,
         pc = "batch" \/ workers[w].repo # NoRepo,
         GoOn(w, r, pc, spends), UNCHANGED <<born, stored, mapping>>
  PROVE  QueueInv' /\ HintsKept
<1> USE DEF QueueInv
<1>1. /\ workers' \in [Workers -> Worker]
      /\ \A v \in Workers \ {w} : workers'[v] = workers[v]
      /\ workers'[w].todo = workers[w].todo \ {r}
      /\ \/ workers'[w].pc = "idle" /\ workers[w].todo = {r}
         \/ workers'[w].pc = pc /\ workers'[w].repo = workers[w].repo
      /\ \A q \in workers'[w].todo : workers'[w].seen[q] = workers[w].seen[q]
  BY GoOnFacts DEF Draining
<1>2. Owns(w, r) => row[r].state = "claimed" /\ hints[r] = "none"
  BY JobFacts
<1>3. QueueTypeOK'
  <2>1. \A q \in Reports : SoundRow(row'[q])
    BY RowType DEF Left
  <2> QED
    BY <1>1, <2>1, SoundRows DEF Left, QueueTypeOK
<1>4. \A q \in Reports : row'[q] = row[q] \/ row'[q].token = NoWorker
  BY DEF Left
<1>5. row'[r].token # w
  BY DEF Left, Owns
<1>6. ClaimInv'
  <2> SUFFICES ASSUME NEW v \in Workers
               PROVE  /\ workers'[v].pc \in Draining => Held(v)' \subseteq workers'[v].todo
                      /\ workers'[v].pc = "idle" => Held(v)' = {}
                      /\ \A q \in workers'[v].todo :
                            /\ SoundRetry(workers'[v].seen[q])
                            /\ row'[q].token = v => row'[q] = workers'[v].seen[q]
    BY DEF ClaimInv
  <2>1. Held(v)' \subseteq Held(v)
    BY <1>4 DEF Held
  <2>2. CASE v # w
    BY <1>1, <1>4, <2>1, <2>2, WorkerType DEF ClaimInv
  <2>3. CASE v = w
    <3>1. Held(w) \subseteq workers[w].todo
      BY DEF ClaimInv
    <3>2. Held(w)' \subseteq workers[w].todo \ {r}
      BY <1>5, <2>1, <2>3, <3>1 DEF Held
    <3> QED
      BY <1>1, <1>4, <2>3, <3>2, WorkerType DEF ClaimInv
  <2> QED
    BY <2>2, <2>3
<1>7. TargetInv'
  BY <1>1 DEF TargetInv
<1>8. UnbornInv'
  BY DEF UnbornInv, Left, Owns, NoRow
<1>9. HintsEndJob' /\ HintsKept
  BY <1>2 DEF HintsEndJob, HintsKept, Left
<1> QED
  BY <1>3, <1>6, <1>7, <1>8, <1>9

(* Statements that leave the hints alone, of jobs that keep no candidates.   *)
LEMMA LeaveQuietly ==
  ASSUME QueueInv, NEW w \in Workers, NEW r \in Reports, IsJob(w, r),
         workers[w].pc \in Draining, Left(w, r), hints' = hints,
         NEW pc \in {"batch", "notoken", "jobs", "backoff"}, NEW spends \in BOOLEAN,
         pc = "batch" \/ workers[w].repo # NoRepo,
         GoOn(w, r, pc, spends), UNCHANGED <<born, stored, mapping>>,
         \/ ~Job(w, r).cands
         \/ workers[w].repo = NoRepo
         \/ Owns(w, r) => row'[r].state # "dead"
  PROVE  GoodStep
<1>1. QueueInv' /\ HintsKept
  BY LeaveStep
<1>2. JudgedAfterSearch
  BY DEF JudgedAfterSearch
<1>3. Owns(w, r) => row[r] = Job(w, r) /\ row[r].token = w
  BY JobFacts
<1>4. CandidatesJudged
  BY <1>3 DEF CandidatesJudged, Left
<1> QED
  BY <1>1, <1>2, <1>4 DEF GoodStep

LEMMA RetryStep ==
  ASSUME QueueInv, NEW w \in Workers, NEW r \in Reports, IsJob(w, r),
         workers[w].pc \in Draining, workers[w].repo # NoRepo,
         NEW pc \in {"notoken", "jobs", "backoff"}, RetryOrDeadLetter(w, r, pc),
         UNCHANGED <<born, stored, mapping>>, ~Job(w, r).cands
  PROVE  GoodStep
<1>1. QueueTypeOK
  BY DEF QueueInv
<1>2. CASE Job(w, r).attempts >= MaxAttempts
  <2>1. Left(w, r) /\ hints' = hints
    BY <1>1, <1>2, DeadLetterLeaves DEF RetryOrDeadLetter
  <2>2. PICK p \in {"notoken", "jobs"} : GoOn(w, r, p, TRUE)
    BY <1>2 DEF RetryOrDeadLetter
  <2> QED
    BY <2>1, <2>2, LeaveQuietly
<1>3. CASE ~(Job(w, r).attempts >= MaxAttempts)
  <2>1. Left(w, r) /\ hints' = hints
    BY <1>1, <1>3, ReleaseLeaves DEF RetryOrDeadLetter
  <2>2. GoOn(w, r, pc, TRUE)
    BY <1>3 DEF RetryOrDeadLetter
  <2> QED
    BY <2>1, <2>2, LeaveQuietly
<1> QED
  BY <1>2, <1>3

(* A retry that counts is one with candidates, of a pin, or of a search.     *)
LEMMA VerifyLaterStep ==
  ASSUME QueueInv, NEW w \in Workers, NEW r \in Reports, IsJob(w, r),
         workers[w].pc \in Draining, workers[w].repo # NoRepo,
         NEW kind \in {"pin", "budget", "fetch"}, NEW repo \in Repos, NEW cands \in BOOLEAN,
         NEW counts \in BOOLEAN, NEW pc \in {"notoken", "backoff"},
         cands => kind \in {"budget", "fetch"}, kind = "fetch" => cands,
         counts => Job(w, r).cands \/ Job(w, r).kind = "pin" \/ workers[w].pc = "verify",
         VerifyLater(w, r, kind, repo, cands, counts, pc),
         UNCHANGED <<born, stored, mapping>>
  PROVE  GoodStep
<1>1. QueueTypeOK
  BY DEF QueueInv
<1>2. PICK p \in {"notoken", "jobs", "backoff"} : GoOn(w, r, p, TRUE)
  BY DEF VerifyLater
<1>3. Owns(w, r) => row[r] = Job(w, r) /\ row[r].token = w
  BY JobFacts
<1>4. CASE Exhausted(w, r, counts)
  <2>1. EndUnverified(w, r)
    BY <1>4 DEF VerifyLater
  <2>2. Left(w, r)
    BY <1>1, <2>1, EndUnverifiedLeaves
  <2>3. QueueInv' /\ HintsKept
    BY <1>2, <2>2, LeaveStep
  <2>4. \A q \in Reports \ {r} : row'[q] = row[q] /\ hints'[q] = hints[q]
    BY <2>2 DEF Left
  <2>5. ~Owns(w, r) => row'[r] = row[r] /\ hints'[r] = hints[r]
    BY <2>2 DEF Left
  <2>6. Owns(w, r) => hints'[r] = "terminal_unverifiable"
    BY <1>1, <2>1, HintsType DEF EndUnverified
  <2>7. JudgedAfterSearch
    BY <1>3, <1>4, <2>4, <2>5 DEF JudgedAfterSearch, Exhausted
  <2>8. CandidatesJudged
    BY <2>4, <2>5, <2>6 DEF CandidatesJudged
  <2> QED
    BY <2>3, <2>7, <2>8 DEF GoodStep
<1>5. CASE ~Exhausted(w, r, counts)
  <2>1. KeepForLater(w, r, kind, repo, cands, counts)
    BY <1>5 DEF VerifyLater
  <2>2. Owns(w, r) /\ counts => row[r].retries + 1 < MaxRetries
    BY <1>1, <1>3, <1>5, RowType DEF Exhausted, SoundRow, Row
  <2>3. Left(w, r) /\ hints' = hints /\ (Owns(w, r) => row'[r].state = "queued")
    BY <1>1, <2>1, <2>2, KeepLeaves
  <2> QED
    BY <1>2, <2>3, LeaveQuietly
<1> QED
  BY <1>4, <1>5

-----------------------------------------------------------------------------
(* Steps on a job.                                                           *)

(* The worker writes a job it keeps, and has it in mind as it wrote it.       *)
LEMMA RewriteStep ==
  ASSUME QueueInv, NEW w \in Workers, NEW r \in Reports, IsJob(w, r), Owns(w, r),
         NEW new, SoundRow(new), new.token = w,
         row' = [row EXCEPT ![r] = new],
         workers' = [workers EXCEPT ![w].seen[r] = row'[r]],
         UNCHANGED <<hints, born, stored, mapping>>
  PROVE  GoodStep
<1> USE DEF QueueInv
<1>1. r \in workers[w].todo /\ row[r].token = w /\ hints[r] = "none"
  BY JobFacts
<1>2. new \in Row /\ new.state = "claimed" /\ SoundRetry(new)
  BY DEF SoundRow
<1>3. row' \in [Reports -> Row] /\ row'[r] = new /\ \A q \in Reports \ {r} : row'[q] = row[q]
  BY <1>2 DEF QueueTypeOK
<1>4. /\ workers' \in [Workers -> Worker]
      /\ \A v \in Workers \ {w} : workers'[v] = workers[v]
      /\ \A v \in Workers : /\ workers'[v].todo = workers[v].todo
                            /\ workers'[v].pc = workers[v].pc
                            /\ workers'[v].repo = workers[v].repo
                            /\ workers'[v].found = workers[v].found
      /\ workers'[w].seen[r] = new
      /\ \A q \in Reports \ {r} : workers'[w].seen[q] = workers[w].seen[q]
  <2> DEFINE mind == [workers[w].seen EXCEPT ![r] = new]
  <2>1. workers[w].seen \in [Reports -> Row]
    BY WorkerType
  <2>2. mind \in [Reports -> Row] /\ mind[r] = new
        /\ \A q \in Reports \ {r} : mind[q] = workers[w].seen[q]
    BY <1>2, <2>1
  <2>3. workers' = [workers EXCEPT ![w] = [workers[w] EXCEPT !.seen = mind]]
    BY <1>3
  <2>4. [workers[w] EXCEPT !.seen = mind] \in Worker
    BY <2>2, WorkerType DEF Worker
  <2> DEFINE kept == [workers[w] EXCEPT !.seen = mind]
  <2>5. /\ kept.seen = mind /\ kept.todo = workers[w].todo /\ kept.pc = workers[w].pc
        /\ kept.repo = workers[w].repo /\ kept.found = workers[w].found
    BY WorkerType DEF Worker
  <2> HIDE DEF mind, kept
  <2>6. workers' \in [Workers -> Worker] /\ workers'[w] = kept
        /\ \A v \in Workers \ {w} : workers'[v] = workers[v]
    BY <2>3, <2>4 DEF QueueTypeOK, kept
  <2>7. \A v \in Workers : /\ workers'[v].todo = workers[v].todo
                            /\ workers'[v].pc = workers[v].pc
                            /\ workers'[v].repo = workers[v].repo
                            /\ workers'[v].found = workers[v].found
    BY <2>5, <2>6
  <2>8. workers'[w].seen = mind
    BY <2>5, <2>6
  <2> QED
    BY <2>2, <2>6, <2>7, <2>8
<1>5. QueueTypeOK'
  <2>1. \A q \in Reports : SoundRow(row'[q])
    BY <1>3, RowType
  <2> QED
    BY <1>3, <1>4, <2>1, SoundRows, HintsType DEF QueueTypeOK
<1>6. ClaimInv'
  <2>1. \A v \in Workers : Held(v)' = Held(v)
    BY <1>1, <1>3 DEF Held
  <2> SUFFICES ASSUME NEW v \in Workers
               PROVE  /\ workers'[v].pc \in Draining => Held(v)' \subseteq workers'[v].todo
                      /\ workers'[v].pc = "idle" => Held(v)' = {}
                      /\ \A q \in workers'[v].todo :
                            /\ SoundRetry(workers'[v].seen[q])
                            /\ row'[q].token = v => row'[q] = workers'[v].seen[q]
    BY DEF ClaimInv
  <2>2. /\ workers'[v].pc \in Draining => Held(v)' \subseteq workers'[v].todo
        /\ workers'[v].pc = "idle" => Held(v)' = {}
    BY <1>4, <2>1 DEF ClaimInv
  <2>3. ASSUME NEW q \in workers'[v].todo
        PROVE  /\ SoundRetry(workers'[v].seen[q])
               /\ row'[q].token = v => row'[q] = workers'[v].seen[q]
    <3>1. q \in Reports /\ q \in workers[v].todo
      BY <1>4, <2>3, WorkerType
    <3>2. CASE q = r
      BY <1>1, <1>2, <1>3, <1>4, <3>1, <3>2 DEF ClaimInv
    <3>3. CASE q # r
      BY <1>3, <1>4, <3>1, <3>3 DEF ClaimInv
    <3> QED
      BY <3>2, <3>3
  <2> QED
    BY <2>2, <2>3
<1>7. TargetInv'
  BY <1>4 DEF TargetInv
<1>8. UnbornInv'
  <2>1. ~(r > born)
    BY <1>1, NoRowType DEF UnbornInv
  <2> QED
    BY <1>3, <2>1 DEF UnbornInv
<1>9. HintsEndJob' /\ HintsKept
  BY <1>1, <1>3 DEF HintsEndJob, HintsKept
<1>10. JudgedAfterSearch /\ CandidatesJudged
  BY <1>2, <1>3 DEF JudgedAfterSearch, CandidatesJudged
<1> QED
  BY <1>5, <1>6, <1>7, <1>8, <1>9, <1>10 DEF GoodStep

(* No row, no report and no mapping changes: the worker goes to another phase *)
(* of its batch, or to none.                                                 *)
LEMMA PhaseStep ==
  ASSUME QueueInv, NEW w \in Workers, NEW new \in Worker,
         workers' = [workers EXCEPT ![w] = new],
         new.pc # "idle",
         new.pc \in Draining => new.todo = workers[w].todo /\ workers[w].pc \in Draining,
         new.todo \subseteq workers[w].todo, new.todo # {} => new.seen = workers[w].seen,
         new.pc \in {"notoken", "jobs", "verify", "backoff"} => new.repo # NoRepo,
         new.pc = "verify" => new.found = new.repo,
         UNCHANGED <<row, hints, born, stored, mapping>>
  PROVE  GoodStep
<1> USE DEF QueueInv
<1>1. workers' \in [Workers -> Worker] /\ workers'[w] = new
      /\ \A v \in Workers \ {w} : workers'[v] = workers[v]
  BY DEF QueueTypeOK
<1>2. QueueTypeOK'
  BY <1>1 DEF QueueTypeOK
<1>3. ClaimInv'
  BY <1>1 DEF ClaimInv, Held
<1>4. TargetInv'
  BY <1>1 DEF TargetInv
<1>5. UnbornInv' /\ HintsEndJob'
  BY DEF UnbornInv, HintsEndJob
<1> QED
  BY <1>2, <1>3, <1>4, <1>5 DEF GoodStep, HintsKept, JudgedAfterSearch, CandidatesJudged

-----------------------------------------------------------------------------
(* The steps of a drain, one lemma for each.                                 *)

LEMMA OnJobFacts ==
  ASSUME QueueInv, NEW w \in Workers, NEW r \in Reports,
         workers[w].pc \in {"notoken", "jobs", "verify", "backoff"}
  PROVE  /\ workers[w].pc \in Draining /\ workers[w].repo \in Repos
         /\ workers[w].pc = "verify" => workers[w].found = workers[w].repo
BY WorkerType DEF QueueInv, TargetInv, Draining

LEMMA UnmappedJobStep ==
  ASSUME QueueInv, NEW w \in Workers, NEW r \in Reports, UnmappedJob(w, r)
  PROVE  GoodStep
<1>1. Left(w, r) /\ hints' = hints
  BY DeadLetterLeaves DEF UnmappedJob, QueueInv
<1> QED
  BY <1>1, LeaveQuietly DEF UnmappedJob, Draining

LEMMA ClearedType ==
  ASSUME QueueInv, NEW w \in Workers, NEW r \in Reports, IsJob(w, r), Owns(w, r)
  PROVE  /\ SoundRow(Cleared(r)) /\ Cleared(r).token = w
         /\ SoundRow([Cleared(r) EXCEPT !.retries = 0])
         /\ [Cleared(r) EXCEPT !.retries = 0].token = w
<1>1. row[r] \in Row /\ row[r].state = "claimed" /\ row[r].token = w
  BY JobFacts, RowType DEF QueueInv, SoundRow
<1>2. Cleared(r) \in Row
  BY <1>1 DEF Cleared, Row
<1>3. /\ Cleared(r).state = "claimed" /\ Cleared(r).token = w /\ Cleared(r).kind = "none"
      /\ Cleared(r).repo = NoRepo /\ ~Cleared(r).cands
  BY <1>1 DEF Cleared, Row
<1> DEFINE old == Cleared(r)
           new == [old EXCEPT !.retries = 0]
<1> HIDE DEF old
<1>4. old \in Row /\ old.state = "claimed" /\ old.token = w /\ old.kind = "none"
      /\ old.repo = NoRepo /\ ~old.cands
  BY <1>2, <1>3 DEF old
<1>5. new \in Row
  BY <1>4 DEF Row
<1>6. /\ new.state = "claimed" /\ new.token = w /\ new.kind = "none" /\ new.repo = NoRepo
      /\ ~new.cands
  BY <1>4 DEF Row
<1>7. SoundRow(old) /\ SoundRow(new)
  BY <1>4, <1>5, <1>6 DEF SoundRow, SoundRetry
<1> QED
  BY <1>4, <1>6, <1>7 DEF old

LEMMA ResetRetryStep ==
  ASSUME QueueInv, NEW w \in Workers, NEW r \in Reports, ResetRetry(w, r)
  PROVE  GoodStep
<1>1. /\ IsJob(w, r) /\ workers[w].pc \in {"notoken", "jobs"}
      /\ workers[w].pc \in Draining /\ workers[w].repo # NoRepo
  BY OnJobFacts DEF ResetRetry
<1>2. CASE Owns(w, r)
  BY <1>1, <1>2, ClearedType, RewriteStep DEF ResetRetry, Write
<1>3. CASE ~Owns(w, r)
  <2>1. row' = row /\ hints' = hints /\ GoOn(w, r, workers[w].pc, FALSE)
        /\ UNCHANGED <<born, stored, mapping>>
    BY <1>3 DEF ResetRetry, Write
  <2>2. Left(w, r)
    BY <1>3, <2>1, HintsType DEF Left, QueueInv, QueueTypeOK
  <2> QED
    BY <1>1, <1>3, <2>1, <2>2, LeaveQuietly
<1> QED
  BY <1>2, <1>3

LEMMA PinProvenStep ==
  ASSUME QueueInv, NEW w \in Workers, NEW r \in Reports, PinProven(w, r)
  PROVE  GoodStep
<1>1. IsJob(w, r) /\ workers[w].pc \in Draining /\ workers[w].repo # NoRepo
  BY OnJobFacts DEF PinProven, OnJob
<1>2. CASE Owns(w, r)
  BY <1>1, <1>2, ClearedType, RewriteStep DEF PinProven, Write
<1>3. CASE ~Owns(w, r)
  <2>1. row' = row /\ hints' = hints /\ GoOn(w, r, "jobs", FALSE)
        /\ UNCHANGED <<born, stored, mapping>>
    BY <1>3 DEF PinProven, Write
  <2>2. Left(w, r)
    BY <1>3, <2>1, HintsType DEF Left, QueueInv, QueueTypeOK
  <2> QED
    BY <1>1, <1>3, <2>1, <2>2, LeaveQuietly
<1> QED
  BY <1>2, <1>3

(* The retry a job has is a sound one to keep.                               *)
LEMMA KeptRetry ==
  ASSUME QueueInv, NEW w \in Workers, NEW r \in Reports, IsJob(w, r), Job(w, r).kind # "none"
  PROVE  /\ Job(w, r).kind \in {"pin", "budget", "fetch"}
         /\ Job(w, r).repo \in Repos
         /\ Job(w, r).cands \in BOOLEAN
         /\ Job(w, r).cands => Job(w, r).kind \in {"budget", "fetch"}
         /\ Job(w, r).kind = "fetch" => Job(w, r).cands
         /\ RetryCounts(Job(w, r).kind, Job(w, r).cands) =>
              Job(w, r).cands \/ Job(w, r).kind = "pin"
BY JobFacts DEF Row, SoundRetry, RetryCounts

LEMMA NoTokenJobStep ==
  ASSUME QueueInv, NEW w \in Workers, NEW r \in Reports, NoTokenJob(w, r)
  PROVE  GoodStep
<1>1. IsJob(w, r) /\ workers[w].pc \in Draining /\ workers[w].repo # NoRepo
  BY OnJobFacts DEF NoTokenJob
<1>2. CASE Job(w, r).kind = "none"
  <2>1. ~Job(w, r).cands
    BY <1>1, <1>2, JobFacts DEF SoundRetry
  <2> QED
    BY <1>1, <1>2, <2>1, RetryStep DEF NoTokenJob
<1>3. CASE Job(w, r).kind # "none"
  <2> DEFINE counts == Job(w, r).kind # "pin" /\ RetryCounts(Job(w, r).kind, Job(w, r).cands)
  <2>1. VerifyLater(w, r, Job(w, r).kind, Job(w, r).repo, Job(w, r).cands, counts, "notoken")
    BY <1>3 DEF NoTokenJob
  <2>2. counts \in BOOLEAN /\ (counts => Job(w, r).cands \/ Job(w, r).kind = "pin")
    BY <1>1, <1>3, KeptRetry
  <2> HIDE DEF counts
  <2> QED
    BY <1>1, <1>3, <2>1, <2>2, KeptRetry, VerifyLaterStep DEF NoTokenJob
<1> QED
  BY <1>2, <1>3

LEMMA PinUnprovenStep ==
  ASSUME QueueInv, NEW w \in Workers, NEW r \in Reports, PinUnproven(w, r)
  PROVE  GoodStep
<1>1. IsJob(w, r) /\ workers[w].pc \in Draining /\ workers[w].repo # NoRepo
      /\ Job(w, r).kind = "pin"
  BY OnJobFacts DEF PinUnproven, OnJob
<1>2. PICK counts \in BOOLEAN :
         VerifyLater(w, r, "pin", Job(w, r).repo, FALSE, counts, "backoff")
  BY DEF PinUnproven
<1>3. Job(w, r).repo \in Repos
  BY <1>1, KeptRetry
<1> QED
  BY <1>1, <1>2, <1>3, VerifyLaterStep DEF PinUnproven

LEMMA HeadFailsStep ==
  ASSUME QueueInv, NEW w \in Workers, NEW r \in Reports, HeadFails(w, r)
  PROVE  GoodStep
<1>1. IsJob(w, r) /\ workers[w].pc \in Draining /\ workers[w].repo # NoRepo
  BY OnJobFacts DEF HeadFails, OnJob
<1>2. ~Job(w, r).cands
  BY <1>1, JobFacts DEF HeadFails, SoundRetry
<1> QED
  BY <1>1, <1>2, RetryStep DEF HeadFails

LEMMA NoContentBudgetStep ==
  ASSUME QueueInv, NEW w \in Workers, NEW r \in Reports, NoContentBudget(w, r)
  PROVE  GoodStep
<1>1. IsJob(w, r) /\ workers[w].pc \in Draining /\ workers[w].repo \in Repos
      /\ workers[w].repo # NoRepo
  BY OnJobFacts DEF NoContentBudget, OnJob
<1>2. CASE Job(w, r).kind = "none"
  <2>1. RetryCounts("budget", FALSE) = FALSE
    BY DEF RetryCounts
  <2>2. VerifyLater(w, r, "budget", workers[w].repo, FALSE, FALSE, "backoff")
    BY <1>2, <2>1 DEF NoContentBudget
  <2> QED
    BY <1>1, <2>2, VerifyLaterStep DEF NoContentBudget
<1>3. CASE Job(w, r).kind # "none"
  <2> DEFINE counts == RetryCounts(Job(w, r).kind, Job(w, r).cands)
  <2>1. VerifyLater(w, r, Job(w, r).kind, Job(w, r).repo, Job(w, r).cands, counts, "backoff")
    BY <1>3 DEF NoContentBudget
  <2>2. counts \in BOOLEAN /\ (counts => Job(w, r).cands \/ Job(w, r).kind = "pin")
    BY <1>1, <1>3, KeptRetry DEF RetryCounts
  <2> HIDE DEF counts
  <2> QED
    BY <1>1, <1>3, <2>1, <2>2, KeptRetry, VerifyLaterStep DEF NoContentBudget
<1> QED
  BY <1>2, <1>3

LEMMA RefetchFailsStep ==
  ASSUME QueueInv, NEW w \in Workers, NEW r \in Reports, RefetchFails(w, r)
  PROVE  GoodStep
<1>1. IsJob(w, r) /\ workers[w].pc \in Draining /\ workers[w].repo # NoRepo
      /\ Job(w, r).kind = "fetch"
  BY OnJobFacts DEF RefetchFails, OnJob
<1> QED
  BY <1>1, KeptRetry, VerifyLaterStep DEF RefetchFails

LEMMA VerifyStep ==
  ASSUME QueueInv, NEW w \in Workers, workers[w].pc = "jobs", Verify(w, workers[w].repo)
  PROVE  GoodStep
<1> DEFINE new == [workers[w] EXCEPT !.pc = "verify", !.found = workers[w].repo]
<1>1. workers' = [workers EXCEPT ![w] = new]
  BY WorkerType DEF Verify, QueueInv, QueueTypeOK
<1>2. workers[w] \in Worker /\ workers[w].repo # NoRepo
  BY WorkerType DEF QueueInv, TargetInv
<1>3. /\ new \in Worker /\ new.pc = "verify" /\ new.todo = workers[w].todo
      /\ new.seen = workers[w].seen /\ new.repo = workers[w].repo /\ new.found = workers[w].repo
  BY <1>2 DEF Worker
<1> HIDE DEF new
<1> QED
  BY <1>1, <1>2, <1>3, PhaseStep DEF Verify, Draining

LEMMA ResumeStep ==
  ASSUME QueueInv, NEW w \in Workers, NEW r \in Reports, Resume(w, r)
  PROVE  GoodStep
<1>1. Job(w, r).repo = workers[w].repo
  BY DEF Resume, OnJob, Remapped
<1> QED
  BY <1>1, VerifyStep DEF Resume, OnJob

LEMMA MustSearchFacts ==
  ASSUME QueueInv, NEW w \in Workers, NEW r \in Reports, MustSearch(w, r)
  PROVE  /\ IsJob(w, r) /\ workers[w].pc = "jobs" /\ workers[w].pc \in Draining
         /\ workers[w].repo # NoRepo /\ ~Job(w, r).cands
BY OnJobFacts DEF MustSearch, OnJob

LEMMA SearchSucceedsStep ==
  ASSUME QueueInv, NEW w \in Workers, NEW r \in Reports, SearchSucceeds(w, r)
  PROVE  GoodStep
BY MustSearchFacts, VerifyStep DEF SearchSucceeds

(* A drain gives up: what it held is left to the release of its claim.       *)
LEMMA FailStep ==
  ASSUME QueueInv, NEW w \in Workers, workers' = [workers EXCEPT ![w].pc = "failed"],
         UNCHANGED <<row, hints, born, stored, mapping>>
  PROVE  GoodStep
<1> DEFINE new == [workers[w] EXCEPT !.pc = "failed"]
<1>1. workers' = [workers EXCEPT ![w] = new]
  OBVIOUS
<1>2. /\ new \in Worker /\ new.pc = "failed" /\ new.todo = workers[w].todo
      /\ new.seen = workers[w].seen
  BY WorkerType DEF QueueInv, Worker
<1> HIDE DEF new
<1> QED
  BY <1>1, <1>2, PhaseStep DEF Draining

LEMMA SearchUnrecordedStep ==
  ASSUME QueueInv, NEW w \in Workers, NEW r \in Reports, SearchUnrecorded(w, r)
  PROVE  GoodStep
BY FailStep DEF SearchUnrecorded

LEMMA SearchLimitedStep ==
  ASSUME QueueInv, NEW w \in Workers, NEW r \in Reports, SearchLimited(w, r)
  PROVE  GoodStep
<1>1. Left(w, r) /\ hints' = hints
  BY ReleaseLeaves DEF SearchLimited, QueueInv
<1>2. PICK pc \in {"jobs", "backoff"} : GoOn(w, r, pc, TRUE)
  BY DEF SearchLimited
<1> QED
  BY <1>1, <1>2, MustSearchFacts, LeaveQuietly DEF SearchLimited

LEMMA SearchRefusedStep ==
  ASSUME QueueInv, NEW w \in Workers, NEW r \in Reports, SearchRefused(w, r)
  PROVE  GoodStep
<1>1. Left(w, r) /\ hints' = hints
  BY DeadLetterLeaves DEF SearchRefused, QueueInv
<1> QED
  BY <1>1, MustSearchFacts, LeaveQuietly DEF SearchRefused

LEMMA SearchFailsStep ==
  ASSUME QueueInv, NEW w \in Workers, NEW r \in Reports, SearchFails(w, r)
  PROVE  GoodStep
BY MustSearchFacts, RetryStep DEF SearchFails

LEMMA VerifyIncompleteStep ==
  ASSUME QueueInv, NEW w \in Workers, NEW r \in Reports, VerifyIncomplete(w, r)
  PROVE  GoodStep
<1>1. IsJob(w, r) /\ workers[w].pc = "verify" /\ workers[w].pc \in Draining
      /\ workers[w].repo \in Repos /\ workers[w].repo # NoRepo
  BY OnJobFacts DEF VerifyIncomplete, Verifying
<1>2. PICK kind \in {"budget", "fetch"} :
         VerifyLater(w, r, kind, workers[w].repo, TRUE, RetryCounts(kind, TRUE), "backoff")
  BY DEF VerifyIncomplete
<1>3. RetryCounts(kind, TRUE) = TRUE
  BY DEF RetryCounts
<1> QED
  BY <1>1, <1>2, <1>3, VerifyLaterStep DEF VerifyIncomplete

LEMMA VerifyUnprovenStep ==
  ASSUME QueueInv, NEW w \in Workers, NEW r \in Reports, VerifyUnproven(w, r)
  PROVE  GoodStep
<1>1. IsJob(w, r) /\ workers[w].pc = "verify" /\ workers[w].pc \in Draining
      /\ workers[w].repo \in Repos /\ workers[w].repo # NoRepo
  BY OnJobFacts DEF VerifyUnproven, Verifying
<1>2. PICK counts \in BOOLEAN :
         VerifyLater(w, r, "pin", workers[w].repo, FALSE, counts, "backoff")
  BY DEF VerifyUnproven
<1> QED
  BY <1>1, <1>2, VerifyLaterStep DEF VerifyUnproven

LEMMA CompleteStep ==
  ASSUME QueueInv, NEW w \in Workers, NEW r \in Reports, Complete(w, r)
  PROVE  GoodStep
<1>1. IsJob(w, r) /\ workers[w].pc = "verify" /\ workers[w].pc \in Draining
      /\ workers[w].repo # NoRepo
  BY OnJobFacts DEF Complete, Verifying
<1>2. NoRow.state = "none" /\ SoundRow(NoRow) /\ NoRow.token = NoWorker
  BY NoRowType DEF NoRow
<1>3. Left(w, r)
  BY <1>2, WrittenRow, HintsType DEF Complete, Left, QueueInv, HintOutcome
<1>4. QueueInv' /\ HintsKept
  BY <1>1, <1>3, LeaveStep DEF Complete
<1>5. \A q \in Reports : hints'[q] # "terminal_unverifiable" \/ hints'[q] = hints[q]
  BY HintsType DEF Complete, QueueInv
<1>6. \A q \in Reports : row'[q].state # "dead" \/ row'[q] = row[q]
  BY <1>2, WrittenRow DEF Complete, QueueInv
<1> QED
  BY <1>4, <1>5, <1>6 DEF GoodStep, JudgedAfterSearch, CandidatesJudged

LEMMA ReleaseRestStep ==
  ASSUME QueueInv, NEW w \in Workers, NEW r \in Reports, ReleaseRest(w, r)
  PROVE  GoodStep
<1>1. Left(w, r) /\ hints' = hints /\ (Owns(w, r) => row'[r].state # "dead")
  BY ReleaseLeaves DEF ReleaseRest, QueueInv
<1>2. IsJob(w, r) /\ workers[w].pc \in Draining /\ workers[w].repo # NoRepo
  BY OnJobFacts DEF ReleaseRest
<1> QED
  BY <1>1, <1>2, LeaveQuietly DEF ReleaseRest

-----------------------------------------------------------------------------
(* Steps of a whole drain, of claims, and of the environment.                *)

LEMMA MintTokenStep ==
  ASSUME QueueInv, NEW w \in Workers, MintToken(w)
  PROVE  GoodStep
<1>1. PICK pc \in {"jobs", "notoken"} : workers' = [workers EXCEPT ![w].pc = pc]
  BY DEF MintToken
<1> DEFINE new == [workers[w] EXCEPT !.pc = pc]
<1>2. workers' = [workers EXCEPT ![w] = new]
  BY <1>1
<1>3. /\ new \in Worker /\ new.pc = pc /\ new.todo = workers[w].todo
      /\ new.seen = workers[w].seen /\ new.repo = workers[w].repo
  BY WorkerType DEF QueueInv, Worker
<1> HIDE DEF new
<1> QED
  BY <1>2, <1>3, PhaseStep DEF MintToken, Draining

LEMMA DrainFailsStep ==
  ASSUME QueueInv, NEW w \in Workers, DrainFails(w)
  PROVE  GoodStep
BY FailStep DEF DrainFails

LEMMA WorkerDiesStep ==
  ASSUME QueueInv, NEW w \in Workers, WorkerDies(w)
  PROVE  GoodStep
<1> DEFINE new == [IdleWorker EXCEPT !.pc = "dead"]
<1>1. new \in Worker /\ new.pc = "dead" /\ new.todo = {}
  BY IdleWorkerType DEF Worker
<1>2. workers' = [workers EXCEPT ![w] = new]
  BY DEF WorkerDies
<1> HIDE DEF new
<1> QED
  BY <1>1, <1>2, PhaseStep DEF WorkerDies, Draining

(* Rows are swept, and a worker begins anew with those that name its token    *)
(* afterwards.  Nothing dead or settled is swept or claimed.                 *)
Swept(w, batch) ==
    \A r \in Reports : \/ row'[r] = row[r] /\ r \notin batch /\ row[r].token # w
                       \/ /\ row[r].state \in {"queued", "claimed"}
                          /\ row'[r].state \in {"queued", "claimed"}
                          /\ row'[r].token = IF r \in batch THEN w ELSE NoWorker

Begins(new, batch) ==
    /\ new \in Worker /\ new.todo = batch
    /\ new.pc = IF batch = {} THEN "idle" ELSE "batch"
    /\ \A r \in batch : new.seen[r] = row'[r]

LEMMA TakeStep ==
  ASSUME QueueInv, NEW w \in Workers, NEW batch \in SUBSET Reports, NEW new,
         row' \in [Reports -> Row], \A r \in Reports : SoundRow(row'[r]),
         Swept(w, batch), Begins(new, batch),
         workers' = [workers EXCEPT ![w] = new],
         UNCHANGED <<hints, born, stored, mapping>>
  PROVE  GoodStep
<1> USE DEF QueueInv, Swept, Begins
<1>1. workers' \in [Workers -> Worker] /\ workers'[w] = new
      /\ \A v \in Workers \ {w} : workers'[v] = workers[v]
  BY DEF QueueTypeOK
<1>2. QueueTypeOK'
  BY <1>1, SoundRows, HintsType DEF QueueTypeOK
<1>3. ClaimInv'
  <2> SUFFICES ASSUME NEW v \in Workers
               PROVE  /\ workers'[v].pc \in Draining => Held(v)' \subseteq workers'[v].todo
                      /\ workers'[v].pc = "idle" => Held(v)' = {}
                      /\ \A q \in workers'[v].todo :
                            /\ SoundRetry(workers'[v].seen[q])
                            /\ row'[q].token = v => row'[q] = workers'[v].seen[q]
    BY DEF ClaimInv
  <2>1. CASE v = w
    <3>1. Held(w)' = batch
      BY DEF Held
    <3>2. \A q \in batch : SoundRetry(new.seen[q]) /\ row'[q] = new.seen[q]
      BY DEF SoundRow
    <3> QED
      BY <1>1, <2>1, <3>1, <3>2
  <2>2. CASE v # w
    <3>1. \A q \in Reports : row'[q].token = v => row'[q] = row[q]
      BY <2>2
    <3>2. Held(v)' \subseteq Held(v)
      BY <3>1 DEF Held
    <3> QED
      BY <1>1, <2>2, <3>1, <3>2, WorkerType DEF ClaimInv
  <2> QED
    BY <2>1, <2>2
<1>4. TargetInv'
  BY <1>1 DEF TargetInv
<1>5. UnbornInv'
  <2>1. NoRow.state = "none"
    BY DEF NoRow
  <2> QED
    BY <2>1 DEF UnbornInv
<1>6. HintsEndJob'
  BY DEF HintsEndJob, QueueTypeOK
<1>7. HintsKept /\ JudgedAfterSearch /\ CandidatesJudged
  BY DEF HintsKept, JudgedAfterSearch, CandidatesJudged
<1> QED
  BY <1>2, <1>3, <1>4, <1>5, <1>6, <1>7 DEF GoodStep

LEMMA ReleaseClaimStep ==
  ASSUME QueueInv, NEW w \in Workers, ReleaseClaim(w)
  PROVE  GoodStep
<1>1. row' = [r \in Reports |-> IF row[r].token = w THEN Freed(r) ELSE row[r]]
      /\ workers' = [workers EXCEPT ![w] = IdleWorker]
      /\ UNCHANGED <<hints, born, stored, mapping>>
  BY DEF ReleaseClaim
<1>2. \A r \in Reports : /\ SoundRow(row[r]) /\ SoundRow(Freed(r))
                         /\ Freed(r).token = NoWorker /\ Freed(r).state = "queued"
  BY RowType, FreedType DEF QueueInv
<1>3. row' \in [Reports -> Row] /\ \A r \in Reports : SoundRow(row'[r])
  BY <1>1, <1>2 DEF SoundRow
<1>4. Swept(w, {})
  BY <1>1, <1>2 DEF SoundRow, Swept
<1>5. Begins(IdleWorker, {})
  BY IdleWorkerType DEF Begins
<1> QED
  BY <1>1, <1>3, <1>4, <1>5, TakeStep

LEMMA ClaimedType ==
  ASSUME QueueTypeOK, NEW w \in Workers, NEW r \in Reports
  PROVE  SoundRow(Claimed(w, r)) /\ Claimed(w, r).token = w /\ Claimed(w, r).state = "claimed"
<1>1. SoundRow(row[r])
  BY RowType
<1>2. (IF row[r].attempts < MaxAttempts THEN row[r].attempts + 1 ELSE row[r].attempts)
        \in 0 .. MaxAttempts
  BY <1>1 DEF SoundRow, Row
<1>3. Claimed(w, r) \in Row
  BY <1>1, <1>2 DEF Claimed, SoundRow, Row
<1>4. /\ Claimed(w, r).token = w /\ Claimed(w, r).state = "claimed"
      /\ Claimed(w, r).kind = row[r].kind /\ Claimed(w, r).repo = row[r].repo
      /\ Claimed(w, r).cands = row[r].cands
  BY <1>1 DEF Claimed, SoundRow, Row
<1> QED
  BY <1>1, <1>3, <1>4 DEF SoundRow, SoundRetry

LEMMA ClaimStep ==
  ASSUME QueueInv, NEW w \in Workers, NEW stale \in SUBSET Workers,
         NEW batch \in SUBSET Reports, Claim(w, stale, batch)
  PROVE  GoodStep
<1> DEFINE swept == {r \in Reports : row[r].token \in stale}
           new == IF batch = {} THEN IdleWorker
                  ELSE [IdleWorker EXCEPT !.pc = "batch", !.todo = batch, !.repo = mapping,
                          !.seen = [r \in Reports |-> IF r \in batch THEN row'[r] ELSE NoRow]]
<1>1. /\ Held(w) # {} => w \in stale
      /\ \A r \in batch : row[r].state = "queued" \/ r \in swept
      /\ row' = [r \in Reports |-> IF r \in batch THEN Claimed(w, r)
                                   ELSE IF r \in swept THEN Freed(r) ELSE row[r]]
      /\ UNCHANGED <<hints, born, stored, mapping>>
  BY DEF Claim
<1>2. workers' = [workers EXCEPT ![w] = new]
  BY DEF Claim
<1>3. \A r \in Reports :
         /\ SoundRow(row[r]) /\ SoundRow(Freed(r)) /\ SoundRow(Claimed(w, r))
         /\ Freed(r).token = NoWorker /\ Freed(r).state = "queued"
         /\ Claimed(w, r).token = w /\ Claimed(w, r).state = "claimed"
  BY RowType, FreedType, ClaimedType DEF QueueInv
<1>4. row' \in [Reports -> Row] /\ \A r \in Reports : SoundRow(row'[r])
  BY <1>1, <1>3 DEF SoundRow
<1>5. \A r \in Reports : row[r].token = w => r \in swept
  BY <1>1 DEF Held
<1>6. \A r \in swept : row[r].state = "claimed"
  BY <1>3 DEF SoundRow
<1>7. Swept(w, batch)
  <2> SUFFICES ASSUME NEW r \in Reports
               PROVE  \/ row'[r] = row[r] /\ r \notin batch /\ row[r].token # w
                      \/ /\ row[r].state \in {"queued", "claimed"}
                         /\ row'[r].state \in {"queued", "claimed"}
                         /\ row'[r].token = IF r \in batch THEN w ELSE NoWorker
    BY DEF Swept
  <2>1. CASE r \in batch
    BY <1>1, <1>3, <1>6, <2>1
  <2>2. CASE r \notin batch /\ r \in swept
    BY <1>1, <1>3, <1>6, <2>2
  <2>3. CASE r \notin batch /\ r \notin swept
    BY <1>1, <1>5, <2>3
  <2> QED
    BY <2>1, <2>2, <2>3
<1>8. Begins(new, batch)
  <2>1. CASE batch = {}
    BY <2>1, IdleWorkerType DEF Begins
  <2>2. CASE batch # {}
    <3> DEFINE mind == [r \in Reports |-> IF r \in batch THEN row'[r] ELSE NoRow]
    <3>1. mind \in [Reports -> Row] /\ \A r \in batch : mind[r] = row'[r]
      BY <1>4, NoRowType DEF SoundRow
    <3>2. mapping \in Repos \cup {NoRepo}
      BY DEF QueueInv, QueueTypeOK
    <3>3. new = [IdleWorker EXCEPT !.pc = "batch", !.todo = batch, !.repo = mapping,
                                   !.seen = mind]
      BY <2>2
    <3> HIDE DEF mind, new
    <3> QED
      BY <2>2, <3>1, <3>2, <3>3, IdleWorkerType DEF Worker, Begins
  <2> QED
    BY <2>1, <2>2
<1>9. UNCHANGED <<hints, born, stored, mapping>>
  BY <1>1
<1> HIDE DEF new, swept
<1> QED
  BY <1>2, <1>4, <1>7, <1>8, <1>9, TakeStep

LEMMA SubmitReportStep ==
  ASSUME QueueInv, SubmitReport
  PROVE  GoodStep
<1> USE DEF QueueInv
<1> DEFINE n == born + 1
           new == [NoRow EXCEPT !.state = "queued"]
<1>1. n \in Reports /\ born' = n /\ n > born /\ n \in 0 .. MaxReports
      /\ born \in 0 .. MaxReports
  BY DEF SubmitReport, QueueTypeOK, Reports
<1>2. row[n] = NoRow /\ hints[n] = "none"
  BY <1>1 DEF UnbornInv
<1>3. NoRow \in Row /\ NoRow.token = NoWorker /\ NoRow.state = "none" /\ SoundRetry(NoRow)
  BY NoRowType DEF SoundRow, NoRow
<1>4. /\ new \in Row /\ new.state = "queued" /\ new.token = NoRow.token
      /\ new.kind = NoRow.kind /\ new.repo = NoRow.repo /\ new.cands = NoRow.cands
  BY <1>3 DEF Row
<1>5. SoundRow(new) /\ new.token = NoWorker
  BY <1>3, <1>4 DEF SoundRow, SoundRetry
<1>6. row' = row \/ row' = [row EXCEPT ![n] = new]
  BY <1>1 DEF SubmitReport
<1> HIDE DEF n, new
<1>7. /\ row' \in [Reports -> Row] /\ \A r \in Reports \ {n} : row'[r] = row[r]
      /\ row'[n] \in {NoRow, new}
  BY <1>2, <1>3, <1>4, <1>6 DEF QueueTypeOK
<1>8. UNCHANGED <<hints, mapping, workers>> /\ stored' = stored \cup {n}
  BY <1>1 DEF SubmitReport
<1>9. QueueTypeOK'
  <2>1. \A r \in Reports : SoundRow(row'[r])
    BY <1>5, <1>7, NoRowType, RowType
  <2>2. stored' \subseteq 1 .. born'
    <3>1. stored \subseteq 1 .. born
      BY DEF QueueTypeOK
    <3> QED
      BY <1>1, <1>8, <3>1 DEF n
  <2> QED
    BY <1>1, <1>7, <1>8, <2>1, <2>2, SoundRows, HintsType DEF QueueTypeOK
<1>10. ClaimInv'
  <2>1. row'[n].token = NoWorker
    BY <1>3, <1>5, <1>7
  <2>2. \A v \in Workers : Held(v)' = Held(v)
    BY <1>2, <1>3, <1>7, <2>1 DEF Held
  <2> QED
    BY <1>7, <1>8, <2>1, <2>2, WorkerType DEF ClaimInv
<1>11. TargetInv' /\ HintsEndJob'
  BY <1>2, <1>7, <1>8 DEF TargetInv, HintsEndJob
<1>12. UnbornInv'
  <2>1. \A r \in Reports : r > born' => r > born /\ r # n
    BY <1>1 DEF n, Reports
  <2> QED
    BY <1>7, <1>8, <2>1 DEF UnbornInv
<1>13. HintsKept /\ JudgedAfterSearch /\ CandidatesJudged
  BY <1>3, <1>4, <1>7, <1>8 DEF HintsKept, JudgedAfterSearch, CandidatesJudged
<1> QED
  BY <1>9, <1>10, <1>11, <1>12, <1>13 DEF GoodStep

LEMMA PurgeReportStep ==
  ASSUME QueueInv, NEW r \in Reports, PurgeReport(r)
  PROVE  GoodStep
<1> USE DEF QueueInv
<1>1. SoundRow(NoRow) /\ NoRow \in Row /\ NoRow.token = NoWorker /\ NoRow.state = "none"
  BY NoRowType DEF SoundRow, NoRow
<1>2. /\ row' \in [Reports -> Row] /\ row'[r] = NoRow
      /\ \A q \in Reports \ {r} : row'[q] = row[q]
  BY <1>1 DEF PurgeReport, QueueTypeOK
<1>3. /\ hints' \in [Reports -> HintOutcome] /\ hints'[r] = "none"
      /\ \A q \in Reports \ {r} : hints'[q] = hints[q]
  BY HintsType DEF PurgeReport, HintOutcome
<1>4. UNCHANGED <<born, mapping, workers>> /\ stored' = stored \ {r}
  BY DEF PurgeReport
<1>5. QueueTypeOK'
  <2>1. \A q \in Reports : SoundRow(row'[q])
    BY <1>1, <1>2, RowType
  <2> QED
    BY <1>2, <1>3, <1>4, <2>1, SoundRows DEF QueueTypeOK
<1>6. ClaimInv'
  <2>1. \A v \in Workers : Held(v)' \subseteq Held(v)
    BY <1>1, <1>2 DEF Held
  <2> QED
    BY <1>1, <1>2, <1>4, <2>1, WorkerType DEF ClaimInv
<1>7. TargetInv' /\ UnbornInv'
  BY <1>2, <1>3, <1>4 DEF TargetInv, UnbornInv
<1>8. HintsEndJob' /\ HintsKept
  BY <1>2, <1>3, <1>4 DEF HintsEndJob, HintsKept
<1>9. JudgedAfterSearch /\ CandidatesJudged
  BY <1>1, <1>2, <1>3 DEF JudgedAfterSearch, CandidatesJudged
<1> QED
  BY <1>5, <1>6, <1>7, <1>8, <1>9 DEF GoodStep

LEMMA StillStep ==
  ASSUME QueueInv, UNCHANGED <<row, hints, born, stored, workers>>,
         mapping' \in Repos \cup {NoRepo}
  PROVE  GoodStep
<1>1. QueueTypeOK'
  BY DEF QueueInv, QueueTypeOK
<1>2. ClaimInv' /\ TargetInv' /\ UnbornInv' /\ HintsEndJob'
  BY DEF QueueInv, ClaimInv, TargetInv, UnbornInv, HintsEndJob, Held
<1> QED
  BY <1>1, <1>2 DEF QueueInv, GoodStep, HintsKept, JudgedAfterSearch, CandidatesJudged

-----------------------------------------------------------------------------

LEMMA JobStepGood ==
  ASSUME QueueInv, NEW w \in Workers, NEW r \in Reports, JobStep(w, r)
  PROVE  GoodStep
BY UnmappedJobStep, ResetRetryStep, NoTokenJobStep, PinProvenStep, PinUnprovenStep,
   HeadFailsStep, NoContentBudgetStep, RefetchFailsStep, ResumeStep, SearchSucceedsStep,
   SearchUnrecordedStep, SearchLimitedStep, SearchRefusedStep, SearchFailsStep,
   VerifyIncompleteStep, VerifyUnprovenStep, CompleteStep, ReleaseRestStep DEF JobStep

LEMMA InitQueue == QueueInit => QueueInv
<1> SUFFICES ASSUME QueueInit PROVE QueueInv
  OBVIOUS
<1>1. SoundRow(NoRow) /\ NoRow \in Row /\ NoRow.token = NoWorker /\ NoRow.state = "none"
  BY NoRowType DEF SoundRow, NoRow
<1>2. IdleWorker \in Worker /\ IdleWorker.todo = {} /\ IdleWorker.pc = "idle"
  BY IdleWorkerType
<1>3. QueueTypeOK
  BY <1>1, <1>2 DEF QueueInit, QueueTypeOK, SoundRow, SoundRetry
<1>4. ClaimInv
  BY <1>1, <1>2 DEF QueueInit, ClaimInv, Held, Draining
<1>5. TargetInv /\ UnbornInv /\ HintsEndJob
  BY <1>2 DEF QueueInit, TargetInv, UnbornInv, HintsEndJob
<1> QED
  BY <1>3, <1>4, <1>5 DEF QueueInv

LEMMA QueueStep ==
  ASSUME QueueInv, [QueueNext]_queueVars
  PROVE  GoodStep
<1>1. CASE SubmitReport
  BY <1>1, SubmitReportStep
<1>2. ASSUME NEW repo \in Repos \cup {NoRepo}, Remap(repo) PROVE GoodStep
  BY <1>2, StillStep DEF Remap
<1>3. ASSUME NEW r \in Reports, PurgeReport(r) PROVE GoodStep
  BY <1>3, PurgeReportStep
<1>4. ASSUME NEW w \in Workers, NEW stale \in SUBSET Workers, NEW batch \in SUBSET Reports,
             Claim(w, stale, batch)
      PROVE  GoodStep
  BY <1>4, ClaimStep
<1>5. ASSUME NEW w \in Workers, DrainStep(w) PROVE GoodStep
  BY <1>5, MintTokenStep, ReleaseClaimStep, JobStepGood DEF DrainStep
<1>6. ASSUME NEW w \in Workers, DrainFails(w) \/ WorkerDies(w) PROVE GoodStep
  BY <1>6, DrainFailsStep, WorkerDiesStep
<1>7. CASE UNCHANGED queueVars
  BY <1>7, StillStep DEF queueVars, QueueInv, QueueTypeOK
<1> QED
  BY <1>1, <1>2, <1>3, <1>4, <1>5, <1>6, <1>7 DEF QueueNext

(* The inductive invariant: what a worker has in mind of a job it still owns  *)
(* is what the row says.                                                     *)
THEOREM QueueInvariant == QueueSpec => []QueueInv
<1>1. QueueInv /\ [QueueNext]_queueVars => QueueInv'
  BY QueueStep DEF GoodStep
<1> QED
  BY InitQueue, <1>1, PTL DEF QueueSpec

(* The rows keep to the CHECKs of code_match_queue, retries below the ceiling *)
(* included (QueueTypeOK).                                                        *)
THEOREM QueueTypeCorrect == QueueSpec => []QueueTypeOK
<1>1. QueueInv => QueueTypeOK
  BY DEF QueueInv
<1> QED
  BY <1>1, QueueInvariant, PTL

(* No batch that is cut short leaves a claimed job behind, whichever call     *)
(* fails (NoClaimLeaked).                                                    *)
THEOREM ClaimsReturned == QueueSpec => []NoClaimLeaked
<1>1. QueueInv => NoClaimLeaked
  BY DEF QueueInv, ClaimInv, NoClaimLeaked
<1> QED
  BY <1>1, QueueInvariant, PTL

(* Hints end their job, stay as they are, and are not given up on before a    *)
(* search, however many workers share the queue and lose their claims.       *)
THEOREM HintsFinal == QueueSpec => HintsSettleJobs
<1>1. QueueInv => HintsEndJob
  BY DEF QueueInv
<1>2. QueueInv /\ [QueueNext]_queueVars =>
        [\A r \in Reports : hints[r] # "none" => hints'[r] = hints[r] \/ r \notin stored']_queueVars
  BY QueueStep DEF GoodStep, HintsKept
<1>3. QueueInv /\ [QueueNext]_queueVars =>
        [\A r \in Reports :
           hints'[r] = "terminal_unverifiable" /\ hints[r] = "none" =>
              \/ row[r].cands \/ row[r].kind = "pin"
              \/ workers[row[r].token].pc = "verify"]_queueVars
  BY QueueStep DEF GoodStep, JudgedAfterSearch
<1> QED
  BY <1>1, <1>2, <1>3, QueueInvariant, PTL
  DEF QueueSpec, HintsSettleJobs, HintsAreFinal, NotJudgedUnsearched

(* A job with candidates is not stranded without a verdict, and they are      *)
(* verified where they were searched: the safety half of JobsConclude.       *)
THEOREM VerdictsReached == QueueSpec => []VerifiesWhereSearched /\ VerdictNotStranded
<1>1. QueueInv => VerifiesWhereSearched
  BY DEF QueueInv, TargetInv, VerifiesWhereSearched
<1>2. QueueInv /\ [QueueNext]_queueVars =>
        [\A r \in Reports :
           row[r].cands /\ row[r].state # "dead" /\ row'[r].state = "dead" =>
              \/ hints'[r] = "terminal_unverifiable"
              \/ workers[row[r].token].repo = NoRepo]_queueVars
  BY QueueStep DEF GoodStep, CandidatesJudged
<1> QED
  BY <1>1, <1>2, QueueInvariant, PTL DEF QueueSpec, VerdictNotStranded

=============================================================================
