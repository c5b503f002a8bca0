----------------------------- MODULE IssueFiling -----------------------------
(***************************************************************************)
(* One GitHub issue per feedback group: the handler that files it, the      *)
(* background synchronisation that settles an unclear filing and comments   *)
(* new evidence, the merge of two groups, and the reports that come and go. *)
(*                                                                         *)
(* No transaction is held across a call to GitHub, so a filing and a        *)
(* synchronisation are processes whose steps are the transactions and the   *)
(* calls in between.  A claim and a merge take the advisory locks of their  *)
(* groups, so each is one step; the row of a group is one record, state     *)
(* "none" standing for no row of group_github_issues.                       *)
(***************************************************************************)
EXTENDS Integers, FiniteSets

CONSTANTS
    Groups,         \* report groups of one product
    NoGroup,        \* not merged; or a report that is not stored
    Filers,         \* slots for requests that file an issue
    Syncs,          \* slots for background synchronisations
    NoSync,         \* no reconciliation attempt was claimed
    MaxReports,     \* bound: reports submitted
    MaxIssues,      \* bound: issues GitHub creates
    MaxPurges,      \* bound: reports retention deletes
    Events          \* what the environment may do, a subset of EventKinds

EventKinds ==
    {"filer_dies",      \* a filing request dies, or its statement fails
     "sync_dies",       \* a synchronisation dies between two steps
     "late",            \* GitHub executes a request its caller gave up on
     "comment_fails",   \* GitHub refuses a comment
     "comment_unclear", \* GitHub takes a comment and the answer is lost
     "slow_listing",    \* a listing outlasts the retry throttle
     "merge"}           \* an editor merges two groups

ASSUME ConstantsAssumption ==
    /\ NoGroup \notin Groups
    /\ NoSync \notin Syncs
    /\ IsFiniteSet(Groups)
    /\ MaxReports \in Nat /\ MaxReports >= Cardinality(Groups)
    /\ MaxIssues \in Nat
    /\ MaxPurges \in Nat
    /\ Events \subseteq EventKinds

Reports == 1 .. MaxReports      \* in the order of their creation
Numbers == 1 .. MaxIssues       \* issue numbers, in the order of theirs

VARIABLES
    row,            \* group_github_issues, by group
    mergedInto,     \* report_groups.merged_into_group_key
    home,           \* feedback_reports.group_id, by report
    born,           \* reports submitted so far
    issues,         \* the issues on GitHub, by number
    created,        \* issues created so far
    late,           \* requests GitHub may still execute
    filers,
    syncs

vars == <<row, mergedInto, home, born, issues, created, late, filers, syncs>>

Unsettled == {"pending", "needs_reconciliation"}

NoRow == [state |-> "none", last |-> 0, issue |-> 0, attempt |-> NoSync]

(* last: last_commented_report_count.  attempt: state_refreshed_at, the      *)
(* time of the attempt to reconcile, by the synchronisation that set it.     *)
Row ==
    [state : {"none", "filed"} \cup Unsettled, last : Nat, issue : 0 .. MaxIssues,
     attempt : Syncs \cup {NoSync}]

(* marker: the group named in the body.  told: history, the reports that the *)
(* body or a comment announced.  rebased: history, a merge or a purge         *)
(* renumbered the reports, or a comment was posted without its sender         *)
(* knowing.  late: history, created after its filer gave up.                 *)
Issue ==
    [marker : Groups \cup {NoGroup}, body : SUBSET Reports, told : SUBSET Reports,
     rebased : BOOLEAN, late : BOOLEAN]

NoIssue == [marker |-> NoGroup, body |-> {}, told |-> {}, rebased |-> FALSE,
            late |-> FALSE]

Filer ==
    [pc : {"idle", "claim", "post", "complete", "release", "mark"},
     g : Groups \cup {NoGroup}, body : SUBSET Reports, issue : 0 .. MaxIssues]

IdleFiler == [pc |-> "idle", g |-> NoGroup, body |-> {}, issue |-> 0]

(* issue: the issue found or commented; from, to: the counts it moves        *)
(* between; window: the reports numbered in between when it looked.          *)
Sync ==
    [pc : {"idle", "list", "settle", "bump", "comment", "revert"},
     g : Groups \cup {NoGroup}, issue : 0 .. MaxIssues,
     from : Nat, to : Nat, window : SUBSET Reports]

IdleSync == [pc |-> "idle", g |-> NoGroup, issue |-> 0, from |-> 0, to |-> 0, window |-> {}]

TypeOK ==
    /\ row \in [Groups -> Row]
    /\ mergedInto \in [Groups -> Groups \cup {NoGroup}]
    /\ home \in [Reports -> Groups \cup {NoGroup}]
    /\ born \in 0 .. MaxReports
    /\ issues \in [Numbers -> Issue]
    /\ created \in 0 .. MaxIssues
    /\ late \subseteq [g : Groups, body : SUBSET Reports]
    /\ filers \in [Filers -> Filer]
    /\ syncs \in [Syncs -> Sync]

-----------------------------------------------------------------------------
(* Reports of a group, and their numbers in the order of their creation.     *)

ReportsOf(g) == {r \in Reports : home[r] = g}

NumberOf(r, g) == Cardinality({q \in ReportsOf(g) : q <= r})

(* row_number() > last_commented_report_count                                *)
NewReports(g) == {r \in ReportsOf(g) : NumberOf(r, g) > row[g].last}

(* Init: every group was created by a first report.                          *)
Init ==
    /\ row = [g \in Groups |-> NoRow]
    /\ mergedInto = [g \in Groups |-> NoGroup]
    /\ born = Cardinality(Groups)
    /\ home \in [Reports -> Groups \cup {NoGroup}]
    /\ \A r \in Reports : r > born <=> home[r] = NoGroup
    /\ \A g \in Groups : \E r \in Reports : home[r] = g
    /\ issues = [n \in Numbers |-> NoIssue]
    /\ created = 0
    /\ late = {}
    /\ filers = [f \in Filers |-> IdleFiler]
    /\ syncs = [s \in Syncs |-> IdleSync]

-----------------------------------------------------------------------------
(* Reports and groups.                                                       *)

(* The group a report with fingerprint g joins: the merge target, in one hop. *)
LineageTarget(g) == IF mergedInto[g] = NoGroup THEN g ELSE mergedInto[g]

MarkedIssues(g) == {n \in Numbers : issues[n].marker = g}

Renumber(some) ==
    [n \in Numbers |-> IF n \in some THEN [issues[n] EXCEPT !.rebased = TRUE] ELSE issues[n]]

SubmitReport(g) ==
    /\ born < MaxReports
    /\ born' = born + 1
    /\ home' = [home EXCEPT ![born'] = LineageTarget(g)]
    /\ UNCHANGED <<row, mergedInto, issues, created, late, filers, syncs>>

PurgeReport(r) ==
    /\ Cardinality({q \in 1 .. born : home[q] = NoGroup}) < MaxPurges
    /\ home[r] # NoGroup
    /\ home' = [home EXCEPT ![r] = NoGroup]
    /\ issues' = Renumber({row[home[r]].issue} \cup MarkedIssues(home[r]))
    /\ UNCHANGED <<row, mergedInto, born, created, late, filers, syncs>>

MayMerge(source, target) ==
    /\ source # target
    /\ mergedInto[source] = NoGroup /\ mergedInto[target] = NoGroup
    /\ \A g \in Groups : mergedInto[g] # source
    /\ row[source].state \notin Unsettled /\ row[target].state \notin Unsettled
    /\ ~(row[source].state = "filed" /\ row[target].state = "filed")

(* The issue of the source moves with its reports and starts again at 0.     *)
Merge(source, target) ==
    /\ "merge" \in Events
    /\ MayMerge(source, target)
    /\ mergedInto' = [mergedInto EXCEPT ![source] = target]
    /\ home' = [r \in Reports |-> IF home[r] = source THEN target ELSE home[r]]
    /\ row' = IF row[source].state = "filed"
              THEN [row EXCEPT ![target] = [row[source] EXCEPT !.last = 0],
                               ![source] = NoRow]
              ELSE row
    /\ issues' = Renumber({row[source].issue, row[target].issue})
    /\ UNCHANGED <<born, created, late, filers, syncs>>

-----------------------------------------------------------------------------
(* Filing an issue.                                                          *)

Holding == {"post", "complete", "release", "mark"}

Holds(f, g) == filers[f].pc \in Holding /\ filers[f].g = g

(* A filing of a merged group is a conflict, of a filed one a lookup; else    *)
(* the body is rendered from the reports there are, before the claim.        *)
BeginFiling(f, g) ==
    /\ filers[f] = IdleFiler
    /\ mergedInto[g] = NoGroup
    /\ row[g].state # "filed"
    /\ filers' = [filers EXCEPT ![f] =
            [pc |-> "claim", g |-> g, body |-> ReportsOf(g), issue |-> 0]]
    /\ UNCHANGED <<row, mergedInto, home, born, issues, created, late, syncs>>

(* Five minutes old.  The calls of a live filer time out long before that.   *)
Stale(g) == row[g].state = "pending" /\ \A f \in Filers : ~Holds(f, g)

Claimable(g) == mergedInto[g] = NoGroup /\ row[g].state = "none"

Claim(f) ==
    LET g == filers[f].g
    IN  /\ filers[f].pc = "claim"
        /\ Claimable(g)
        /\ row' = [row EXCEPT ![g] = [NoRow EXCEPT !.state = "pending",
                                       !.last = Cardinality(filers[f].body)]]
        /\ filers' = [filers EXCEPT ![f].pc = "post"]
        /\ UNCHANGED <<mergedInto, home, born, issues, created, late, syncs>>

(* A dead filer's claim may hide an issue: it is quarantined.                *)
Quarantine(f) ==
    LET g == filers[f].g
    IN  /\ filers[f].pc = "claim"
        /\ Stale(g) /\ mergedInto[g] = NoGroup
        /\ row' = [row EXCEPT ![g].state = "needs_reconciliation", ![g].attempt = NoSync]
        /\ filers' = [filers EXCEPT ![f] = IdleFiler]
        /\ UNCHANGED <<mergedInto, home, born, issues, created, late, syncs>>

(* Merged, filed, in progress or being reconciled: the caller is told so.    *)
RefuseClaim(f) ==
    LET g == filers[f].g
    IN  /\ filers[f].pc = "claim"
        /\ mergedInto[g] # NoGroup \/ row[g].state # "none"
        /\ filers' = [filers EXCEPT ![f] = IdleFiler]
        /\ UNCHANGED <<row, mergedInto, home, born, issues, created, late, syncs>>

(* A merge or a purge between the rendering and the creation: the body is not *)
(* the group's first reports.                                                *)
Renumbered(g, body) ==
    \/ ~(body \subseteq ReportsOf(g))
    \/ \E q \in ReportsOf(g) \ body, r \in body : q < r

(* GitHub creates an issue, marked with the group it was filed for.           *)
Create(g, body, isLate) ==
    /\ created < MaxIssues
    /\ created' = created + 1
    /\ issues' = [issues EXCEPT ![created + 1] =
            [marker |-> g, body |-> body, told |-> body,
             rebased |-> isLate \/ Renumbered(g, body), late |-> isLate]]

MoveFiler(f, pc) == filers' = [filers EXCEPT ![f].pc = pc, ![f].body = {}]

PostCreates(f) ==
    /\ filers[f].pc = "post"
    /\ Create(filers[f].g, filers[f].body, FALSE)
    /\ filers' = [filers EXCEPT ![f].pc = "complete", ![f].issue = created + 1]
    /\ UNCHANGED <<row, mergedInto, home, born, late, syncs>>

(* A 4xx answer, or no token: nothing was created.                            *)
PostRefused(f) ==
    /\ filers[f].pc = "post"
    /\ MoveFiler(f, "release")
    /\ UNCHANGED <<row, mergedInto, home, born, issues, created, late, syncs>>

GiveUp(f) ==
    late' = IF "late" \in Events
            THEN late \cup {[g |-> filers[f].g, body |-> filers[f].body]} ELSE late

(* A 5xx, a timeout, a broken or unreadable answer: created or not.           *)
PostUnclear(f) ==
    /\ filers[f].pc = "post"
    /\ \/ Create(filers[f].g, filers[f].body, FALSE) /\ UNCHANGED late
       \/ GiveUp(f) /\ UNCHANGED <<issues, created>>
    /\ MoveFiler(f, "mark")
    /\ UNCHANGED <<row, mergedInto, home, born, syncs>>

ExecuteLate(request) ==
    /\ Create(request.g, request.body, TRUE)
    /\ late' = late \ {request}
    /\ UNCHANGED <<row, mergedInto, home, born, filers, syncs>>

CompleteFiling(f) ==
    LET g == filers[f].g
    IN  /\ filers[f].pc = "complete"
        /\ row' = IF row[g].state = "pending"
                  THEN [row EXCEPT ![g] =
                          [state |-> "filed", last |-> Cardinality(filers[f].body),
                           issue |-> filers[f].issue, attempt |-> NoSync]]
                  ELSE row
        /\ filers' = [filers EXCEPT ![f] = IdleFiler]
        /\ UNCHANGED <<mergedInto, home, born, issues, created, late, syncs>>

ReleaseClaim(f) ==
    LET g == filers[f].g
    IN  /\ filers[f].pc = "release"
        /\ row' = IF row[g].state = "pending" THEN [row EXCEPT ![g] = NoRow] ELSE row
        /\ filers' = [filers EXCEPT ![f] = IdleFiler]
        /\ UNCHANGED <<mergedInto, home, born, issues, created, late, syncs>>

MarkForReconciliation(f) ==
    LET g == filers[f].g
    IN  /\ filers[f].pc = "mark"
        /\ row' = IF row[g].state = "pending"
                  THEN [row EXCEPT ![g].state = "needs_reconciliation", ![g].attempt = NoSync]
                  ELSE row
        /\ filers' = [filers EXCEPT ![f] = IdleFiler]
        /\ UNCHANGED <<mergedInto, home, born, issues, created, late, syncs>>

(* The process dies, the caller hangs up, or the next statement fails.  A     *)
(* request already sent takes effect or not.                                 *)
FilerDies(f) ==
    /\ "filer_dies" \in Events
    /\ filers[f].pc \in Holding
    /\ \/ UNCHANGED <<issues, created, late>>
       \/ /\ filers[f].pc = "post"
          /\ \/ Create(filers[f].g, filers[f].body, FALSE) /\ UNCHANGED late
             \/ GiveUp(f) /\ UNCHANGED <<issues, created>>
    /\ filers' = [filers EXCEPT ![f] = IdleFiler]
    /\ UNCHANGED <<row, mergedInto, home, born, syncs>>

-----------------------------------------------------------------------------
(* Settling an unclear filing.                                               *)

Attempting(s, g) ==
    syncs[s].pc \in {"list", "settle"} /\ syncs[s].g = g /\ row[g].attempt = s

(* Mutant: an attempt is never made again.                                   *)
FirstAttempt(g) == row[g].attempt = NoSync

(* One attempt a minute; a listing of many pages may take longer.            *)
RetryDue(g) == "slow_listing" \in Events \/ \A t \in Syncs : ~Attempting(t, g)

ClaimAttempt(s, g) ==
    /\ syncs[s] = IdleSync
    /\ row[g].state = "needs_reconciliation"
    /\ RetryDue(g)
    /\ row' = [row EXCEPT ![g].attempt = s]
    /\ syncs' = [syncs EXCEPT ![s] =
            [IdleSync EXCEPT !.pc = "list", !.g = g, !.from = row[g].last]]
    /\ UNCHANGED <<mergedInto, home, born, issues, created, late, filers>>

(* All pages were read: the oldest marked issue, or certainly none.          *)
ListComplete(s) ==
    LET found == MarkedIssues(syncs[s].g)
    IN  /\ syncs[s].pc = "list"
        /\ \E n \in found \cup {0} :
             /\ n = 0 <=> found = {}
             /\ \A m \in found : n <= m
             /\ syncs' = [syncs EXCEPT ![s].pc = "settle", ![s].issue = n]
        /\ UNCHANGED <<row, mergedInto, home, born, issues, created, late, filers>>

(* A rate limit, a timeout, a 404, a capped listing...: keep waiting.        *)
ListInconclusive(s) ==
    /\ syncs[s].pc = "list"
    /\ syncs' = [syncs EXCEPT ![s] = IdleSync]
    /\ UNCHANGED <<row, mergedInto, home, born, issues, created, late, filers>>

(* Mutant: the attempt is not compared.                                      *)
Unfenced(s) == row[syncs[s].g].state = "needs_reconciliation"

OwnsAttempt(s) ==
    /\ row[syncs[s].g].state = "needs_reconciliation"
    /\ row[syncs[s].g].attempt = s

(* Mutant: adoption counts the reports there are by now.                     *)
RecountedBaseline(s) == Cardinality(ReportsOf(syncs[s].g))

AdoptedBaseline(s) == syncs[s].from

Adopt(s) ==
    row' = [row EXCEPT ![syncs[s].g] =
        [state |-> "filed", last |-> AdoptedBaseline(s), issue |-> syncs[s].issue,
         attempt |-> NoSync]]

Settle(s) ==
    /\ syncs[s].pc = "settle"
    /\ IF ~OwnsAttempt(s) THEN UNCHANGED row
       ELSE IF syncs[s].issue = 0 THEN row' = [row EXCEPT ![syncs[s].g] = NoRow]
       ELSE Adopt(s)
    /\ syncs' = [syncs EXCEPT ![s] = IdleSync]
    /\ UNCHANGED <<mergedInto, home, born, issues, created, late, filers>>

-----------------------------------------------------------------------------
(* Commenting new evidence on a filed issue.                                 *)

(* Mutant: one new report is not worth a comment.                            *)
SeveralNewReports(g) == Cardinality(ReportsOf(g)) > row[g].last + 1

NewEvidence(g) == Cardinality(ReportsOf(g)) > row[g].last

ReadContext(s, g) ==
    /\ syncs[s] = IdleSync
    /\ row[g].state = "filed"
    /\ NewEvidence(g)
    /\ syncs' = [syncs EXCEPT ![s] =
            [pc |-> "bump", g |-> g, issue |-> row[g].issue, from |-> row[g].last,
             to |-> Cardinality(ReportsOf(g)), window |-> NewReports(g)]]
    /\ UNCHANGED <<row, mergedInto, home, born, issues, created, late, filers>>

CountIs(g, count) == row[g].state = "filed" /\ row[g].last = count

Bump(s) ==
    LET g == syncs[s].g
    IN  /\ syncs[s].pc = "bump"
        /\ IF CountIs(g, syncs[s].from)
           THEN /\ row' = [row EXCEPT ![g].last = syncs[s].to]
                /\ syncs' = [syncs EXCEPT ![s].pc = "comment"]
           ELSE /\ syncs' = [syncs EXCEPT ![s] = IdleSync]
                /\ UNCHANGED row
        /\ UNCHANGED <<mergedInto, home, born, issues, created, late, filers>>

Announce(s, unclear) ==
    issues' = [issues EXCEPT
        ![syncs[s].issue].told = @ \cup syncs[s].window,
        ![syncs[s].issue].rebased = @ \/ unclear]

PostComment(s) ==
    /\ syncs[s].pc = "comment"
    /\ Announce(s, FALSE)
    /\ syncs' = [syncs EXCEPT ![s] = IdleSync]
    /\ UNCHANGED <<row, mergedInto, home, born, created, late, filers>>

CommentFails(s) ==
    /\ syncs[s].pc = "comment"
    /\ \/ "comment_fails" \in Events /\ UNCHANGED issues
       \/ "comment_unclear" \in Events /\ Announce(s, TRUE)
    /\ syncs' = [syncs EXCEPT ![s].pc = "revert", ![s].issue = 0, ![s].window = {}]
    /\ UNCHANGED <<row, mergedInto, home, born, created, late, filers>>

RevertCount(s) ==
    LET g == syncs[s].g
    IN  /\ syncs[s].pc = "revert"
        /\ row' = IF CountIs(g, syncs[s].to)
                  THEN [row EXCEPT ![g].last = syncs[s].from] ELSE row
        /\ syncs' = [syncs EXCEPT ![s] = IdleSync]
        /\ UNCHANGED <<mergedInto, home, born, issues, created, late, filers>>

SyncDies(s) ==
    /\ "sync_dies" \in Events
    /\ syncs[s].pc # "idle"
    /\ \/ UNCHANGED issues
       \/ syncs[s].pc = "comment" /\ Announce(s, TRUE)
    /\ syncs' = [syncs EXCEPT ![s] = IdleSync]
    /\ UNCHANGED <<row, mergedInto, home, born, created, late, filers>>

-----------------------------------------------------------------------------
FilerStep(f) ==
    \/ Claim(f)
    \/ Quarantine(f)
    \/ RefuseClaim(f)
    \/ PostCreates(f)
    \/ PostRefused(f)
    \/ PostUnclear(f)
    \/ CompleteFiling(f)
    \/ ReleaseClaim(f)
    \/ MarkForReconciliation(f)

SyncStep(s) ==
    \/ ListComplete(s)
    \/ ListInconclusive(s)
    \/ Settle(s)
    \/ Bump(s)
    \/ PostComment(s)
    \/ CommentFails(s)
    \/ RevertCount(s)

Next ==
    \/ \E g \in Groups : SubmitReport(g)
    \/ \E r \in Reports : PurgeReport(r)
    \/ \E source, target \in Groups : Merge(source, target)
    \/ \E f \in Filers, g \in Groups : BeginFiling(f, g)
    \/ \E f \in Filers : FilerStep(f) \/ FilerDies(f)
    \/ \E request \in late : ExecuteLate(request)
    \/ \E s \in Syncs, g \in Groups : ClaimAttempt(s, g) \/ ReadContext(s, g)
    \/ \E s \in Syncs : SyncStep(s) \/ SyncDies(s)

Spec == Init /\ [][Next]_vars

(* A filer and a synchronisation go on by themselves.  The dashboard is       *)
(* listed again and again, which starts a synchronisation for every group    *)
(* that is being reconciled or has new reports, and now and then a listing   *)
(* of the issues succeeds.  Nobody has to ask for a filing again.            *)
Fairness ==
    /\ \A f \in Filers : WF_vars(FilerStep(f))
    /\ \A s \in Syncs : WF_vars(SyncStep(s)) /\ SF_vars(ListComplete(s))
    /\ \A g \in Groups : /\ SF_vars(\E s \in Syncs : ClaimAttempt(s, g))
                         /\ SF_vars(\E s \in Syncs : ReadContext(s, g))

FairSpec == Spec /\ Fairness

-----------------------------------------------------------------------------
(* Safety.                                                                   *)

FiledLate(g) == \E n \in MarkedIssues(g) : issues[n].late

(* GitHub never holds two issues for one group, whoever files, dies, or      *)
(* reconciles, unless it created one after its filer gave up (store.rs,      *)
(* claim_group_issue_filing).                                                *)
OneIssuePerGroup ==
    \A g \in Groups : ~FiledLate(g) => \A m, n \in MarkedIssues(g) : m = n

(* An issue on GitHub is never forgotten: a row links to it, or its group's   *)
(* row is unsettled and keeps everyone from filing again; again unless one    *)
(* was created late.                                                         *)
IssueIsHeld ==
    \A n \in Numbers : issues[n].marker \in Groups /\ ~FiledLate(issues[n].marker) =>
        \/ \E g \in Groups : row[g].state = "filed" /\ row[g].issue = n
        \/ row[issues[n].marker].state \in Unsettled

(* A live filer past its claim owns the pending row of its group alone, and  *)
(* the group is not merged away under it (GROUP_ISSUE_FILING_CLAIM_STALE_     *)
(* MINUTES: "a live filer is never displaced").                              *)
FilerOwnsRow ==
    \A f \in Filers : filers[f].pc \in Holding =>
        /\ row[filers[f].g].state = "pending"
        /\ mergedInto[filers[f].g] = NoGroup
        /\ \A e \in Filers \ {f} : ~Holds(e, filers[f].g)

(* A merged group points at an unmerged one in one hop and keeps neither      *)
(* reports nor an issue of its own (merge_report_groups).                    *)
LineageIsFinal ==
    \A g \in Groups : mergedInto[g] # NoGroup =>
        /\ mergedInto[mergedInto[g]] = NoGroup
        /\ ReportsOf(g) = {}
        /\ row[g].state = "none"

(* A comment announces no report that the issue has announced already, and   *)
(* no two comments on their way announce the same one, unless a merge or a   *)
(* purge renumbered the reports or an earlier comment was unclear            *)
(* (bump_last_commented_report_count).                                       *)
CommentsAnnounceNews ==
    \A s \in Syncs : syncs[s].pc = "comment" /\ ~issues[syncs[s].issue].rebased =>
        /\ syncs[s].window \cap issues[syncs[s].issue].told = {}
        /\ \A t \in Syncs \ {s} :
             syncs[t].pc = "comment" /\ syncs[t].issue = syncs[s].issue =>
                syncs[t].window \cap syncs[s].window = {}

(* Where no comment fails and no issue is created late, a report below the    *)
(* watermark was announced or is in a comment on its way: new evidence is    *)
(* not swallowed.                                                            *)
NothingSwallowed ==
    \A g \in Groups : row[g].state = "filed" /\ ~FiledLate(g) =>
        \A r \in ReportsOf(g) \ NewReports(g) :
            \/ r \in issues[row[g].issue].told
            \/ \E s \in Syncs : /\ syncs[s].pc = "comment" /\ syncs[s].g = g
                                /\ r \in syncs[s].window

(* However it was filed, directly or by adoption, a group starts counting     *)
(* from the reports its issue's body was rendered from ("a live recount at   *)
(* adoption would silently swallow reports"), unless one was created late.   *)
CountsFromBody ==
    \A g \in Groups :
        row[g].state \in Unsettled /\ row'[g].state = "filed" /\ ~FiledLate(g) =>
            row'[g].last = Cardinality(issues[row'[g].issue].body)

(* No step links an issue with a count of reports that its body does not     *)
(* announce.                                                                 *)
BaselineIsBody == [][CountsFromBody]_vars

-----------------------------------------------------------------------------
(* Liveness, under Fairness.                                                 *)

(* A quarantined filing is adopted or released in the end.                   *)
ReconciliationSettles ==
    \A g \in Groups :
        row[g].state = "needs_reconciliation" ~> row[g].state # "needs_reconciliation"

(* While no comment fails and no issue is created late, a report of a filed   *)
(* group is announced on its issue in the end.                               *)
EvidenceAnnounced ==
    \A r \in Reports, g \in Groups :
        home[r] = g /\ row[g].state = "filed"
            ~> \/ home[r] = g /\ row[g].issue # 0 /\ r \in issues[row[g].issue].told
               \/ FiledLate(g)

(* Every issue is accounted for: one for a group, and held by its row, while  *)
(* a filing has its group to itself and a merged group is no one's.          *)
IssuesAreAccounted == TypeOK /\ OneIssuePerGroup /\ IssueIsHeld /\ FilerOwnsRow /\ LineageIsFinal

(* A report is announced once: by the body the count starts from, or by the  *)
(* comment that claimed it.                                                  *)
AnnouncedOnce == []CommentsAnnounceNews /\ BaselineIsBody

(* New evidence reaches the issue, and is never below the watermark without. *)
EvidenceArrives == []NothingSwallowed /\ EvidenceAnnounced

(* Every filing comes to an end, and everything it is evidence of arrives.    *)
FilingsConclude == ReconciliationSettles /\ EvidenceArrives

=============================================================================
