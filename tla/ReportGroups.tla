----------------------------- MODULE ReportGroups -----------------------------
(***************************************************************************)
(* The group a feedback report belongs to: by the fingerprint of the report  *)
(* and of what is known of its interaction, and by the merges of editors.    *)
(* Telemetry completes a placeholder interaction after its report and moves  *)
(* the report; two jobs group what predates grouping and group everything    *)
(* anew, a batch at a time, while reports and telemetry go on.               *)
(*                                                                         *)
(* A submission, a telemetry batch and a merge hold the rows they read to    *)
(* their end, so each is one step.  A job's batch is a transaction that      *)
(* reads its rows unlocked and locks each as it writes it: what it has       *)
(* written is in "written" until it commits, and others wait for it.         *)
(***************************************************************************)
EXTENDS Integers, FiniteSets, Sequences

CONSTANTS
    MaxStored,      \* bound: reports
    OldReports,     \* how many of them predate grouping
    Sent,           \* what agents send: sequences of findings
    TopicOf,        \* what becomes of a topic as it was spelled
    NoTopic,        \* nothing a topic may be
    MaxFindings,    \* findings of a report
    Unreadable,     \* findings that no longer deserialize
    Nothing,        \* no report; no group; not merged
    MaxFacts,       \* what there is to know of an interaction, in steps
    BatchSize,      \* reports a job reads at once
    MaxMerges       \* bound: merges

(* What an agent found, by severity_rank and kind_rank.                       *)
Finding == [severity : 0 .. 3, kind : 1 .. 7, topic : DOMAIN TopicOf]

ASSUME GroupsAssumption ==
    /\ MaxStored \in Nat /\ OldReports \in 0 .. MaxStored
    /\ Sent \subseteq Seq(Finding)
    /\ MaxFindings \in Nat
    /\ MaxFacts \in Nat /\ BatchSize \in Nat \ {0} /\ MaxMerges \in Nat

ReportIds == 1 .. MaxStored   \* in the order of their creation
Facts == 0 .. MaxFacts      \* 0: surface unknown, operation pending

VARIABLES
    received,       \* reports so far
    said,           \* feedback_reports.findings
    facts,          \* operation, surface and status of the interaction
    placed,         \* feedback_reports.group_id
    upserted,       \* the fingerprints that have a row in report_groups
    lineage,        \* report_groups.merged_into_group_key
    job,            \* a pass of one of the two jobs
    outdated        \* history: placed by a job by facts changed since its read

groupsVars == <<received, said, facts, placed, upserted, lineage, job, outdated>>

-----------------------------------------------------------------------------
(* What submit_product_feedback accepts, and what it stores of it: topics in  *)
(* one spelling.  A summary, an impact or a workaround that is refused        *)
(* refuses the report as a bad topic does.                                   *)

Acceptable(sent) ==
    Len(sent) <= MaxFindings /\ \A n \in DOMAIN sent : TopicOf[sent[n].topic] # NoTopic

Cleaned(sent) == [n \in DOMAIN sent |-> [sent[n] EXCEPT !.topic = TopicOf[@]]]

Says == {Cleaned(sent) : sent \in {s \in Sent : Acceptable(s)}}

-----------------------------------------------------------------------------
(* Fingerprints.                                                             *)

Above(f, g) == f.severity > g.severity \/ (f.severity = g.severity /\ f.kind > g.kind)

(* The first of the findings above all others.                               *)
PrimaryFinding(findings) ==
    CHOOSE n \in DOMAIN findings : \A k \in DOMAIN findings :
        ~Above(findings[k], findings[n]) /\ (k < n => Above(findings[n], findings[k]))

NoFinding == <<0, 0>>

Fingerprint(findings, known) ==
    LET first == findings[PrimaryFinding(findings)]
    IN  [finding |-> IF findings = <<>> THEN NoFinding ELSE <<first.kind, first.topic>>,
         facts |-> known]

Fingerprints == {Fingerprint(findings, known) : findings \in Says, known \in Facts}

ASSUME NamesAssumption ==
    /\ Unreadable \notin Says
    /\ Nothing \notin Says \cup {Unreadable} \cup Fingerprints

(* The group a report with that fingerprint joins, in one hop.               *)
JoinsGroup(key) == IF lineage[key] = Nothing THEN key ELSE lineage[key]

Grouped == {r \in ReportIds : placed[r] # Nothing}

MembersOf(key) == {r \in ReportIds : placed[r] = key}

NoPass == [kind |-> "none", cursor |-> 0, rows |-> {}, read |-> <<>>, written |-> <<>>]

GroupsInit ==
    /\ received = OldReports
    /\ said \in [ReportIds -> Says \cup {Unreadable, Nothing}]
    /\ \A r \in ReportIds : said[r] = Nothing <=> r > OldReports
    /\ facts \in [ReportIds -> Facts]
    /\ \A r \in ReportIds : r > OldReports => facts[r] = 0
    /\ placed = [r \in ReportIds |-> Nothing]
    /\ upserted = {}
    /\ lineage = [key \in Fingerprints |-> Nothing]
    /\ job = NoPass
    /\ outdated = {}

GroupsTypeOK ==
    /\ received \in OldReports .. MaxStored
    /\ said \in [ReportIds -> Says \cup {Unreadable, Nothing}]
    /\ facts \in [ReportIds -> Facts]
    /\ placed \in [ReportIds -> upserted \cup {Nothing}]
    /\ upserted \subseteq Fingerprints
    /\ lineage \in [Fingerprints -> upserted \cup {Nothing}]
    /\ outdated \subseteq Grouped
    /\ job.kind \in {"none", "backfill", "regroup"} /\ job.cursor \in 0 .. MaxStored
    /\ job.rows \cup DOMAIN job.written \subseteq DOMAIN job.read
    /\ DOMAIN job.read \subseteq ReportIds

-----------------------------------------------------------------------------
(* Reports, telemetry, merges and retention wait for rows a job has written. *)

LockedRows == {job.written[r].key : r \in DOMAIN job.written}

Free(keys, reports) == keys \cap LockedRows = {} /\ reports \cap DOMAIN job.written = {}

(* assign_report_group                                                       *)
Assign(r, key) ==
    /\ Free({key}, {r})
    /\ upserted' = upserted \cup {key}
    /\ placed' = [placed EXCEPT ![r] = JoinsGroup(key)]
    /\ outdated' = outdated \ {r}

(* The interaction may be known by now, or becomes a placeholder.            *)
JoinReport(sent, known) ==
    LET r == received + 1
        findings == Cleaned(sent)
    IN  /\ Acceptable(sent)
        /\ received < MaxStored
        /\ received' = r
        /\ said' = [said EXCEPT ![r] = findings]
        /\ facts' = [facts EXCEPT ![r] = known]
        /\ Assign(r, Fingerprint(findings, known))
        /\ UNCHANGED <<lineage, job>>

(* Mutant: telemetry leaves the report where it is.                          *)
TelemetryFillsOnly(r, known) ==
    /\ said[r] # Nothing
    /\ known > facts[r]
    /\ facts' = [facts EXCEPT ![r] = known]
    /\ UNCHANGED <<received, said, placed, upserted, lineage, job, outdated>>

(* Telemetry of the interaction fills in what is missing, and a report that   *)
(* can be read moves along, grouped before or not.                           *)
TelemetryFills(r, known) ==
    /\ said[r] # Nothing
    /\ known > facts[r]
    /\ facts' = [facts EXCEPT ![r] = known]
    /\ IF said[r] = Unreadable THEN UNCHANGED <<placed, upserted, outdated>>
       ELSE Assign(r, Fingerprint(said[r], known))
    /\ UNCHANGED <<received, said, lineage, job>>

MergesInto(key) == {k \in upserted : lineage[k] = key}

MergeGroups(source, target) ==
    /\ Cardinality({k \in upserted : lineage[k] # Nothing}) < MaxMerges
    /\ source # target
    /\ lineage[source] = Nothing /\ lineage[target] = Nothing
    /\ MergesInto(source) = {}
    /\ Free({source, target}, MembersOf(source))
    /\ placed' = [r \in ReportIds |-> IF placed[r] = source THEN target ELSE placed[r]]
    /\ lineage' = [lineage EXCEPT ![source] = target]
    /\ UNCHANGED <<received, said, facts, upserted, job, outdated>>

RetentionDeletes(r) ==
    /\ said[r] # Nothing
    /\ Free({}, {r})
    /\ said' = [said EXCEPT ![r] = Nothing]
    /\ facts' = [facts EXCEPT ![r] = 0]
    /\ placed' = [placed EXCEPT ![r] = Nothing]
    /\ outdated' = outdated \ {r}
    /\ UNCHANGED <<received, upserted, lineage, job>>

-----------------------------------------------------------------------------
(* The jobs.                                                                 *)

Pass(kind) == [NoPass EXCEPT !.kind = kind]

StartPass(kind) ==
    /\ job = NoPass
    /\ job' = Pass(kind)
    /\ UNCHANGED <<received, said, facts, placed, upserted, lineage, outdated>>

Due(r) ==
    /\ said[r] # Nothing
    /\ r > job.cursor
    /\ job.kind = "backfill" <=> placed[r] = Nothing

(* The first reports that are due, in their order, without a lock.           *)
NextBatch ==
    {r \in ReportIds : Due(r) /\ Cardinality({q \in ReportIds : Due(q) /\ q < r}) < BatchSize}

MergedAway(r) == IF placed[r] = Nothing THEN Nothing ELSE lineage[placed[r]]

ReadBatch ==
    /\ job.kind # "none" /\ job.read = <<>>
    /\ job' = IF NextBatch = {} THEN NoPass
              ELSE [job EXCEPT
                !.rows = NextBatch,
                !.read = [r \in NextBatch |->
                    [findings |-> said[r], facts |-> facts[r], merged |-> MergedAway(r)]]]
    /\ UNCHANGED <<received, said, facts, placed, upserted, lineage, outdated>>

(* A report whose group was merged away goes where that went; any other by    *)
(* the fingerprint of what was read.                                         *)
Written(row) ==
    LET key == Fingerprint(row.findings, row.facts)
    IN  [key |-> key, group |-> IF row.merged # Nothing THEN row.merged ELSE JoinsGroup(key)]

(* The rows are written in their order.                                      *)
WriteRow ==
    \E r \in job.rows :
        LET row == job.read[r]
            written == [q \in DOMAIN job.written \cup {r} |->
                           IF q = r THEN Written(row) ELSE job.written[q]]
        IN  /\ \A q \in job.rows : r <= q
            /\ IF row.findings = Unreadable THEN job' = [job EXCEPT !.rows = @ \ {r}]
               ELSE /\ said[r] # Nothing
                    /\ job' = [job EXCEPT !.rows = @ \ {r}, !.written = written]
            /\ UNCHANGED <<received, said, facts, placed, upserted, lineage, outdated>>

CommitBatch ==
    /\ job.read # <<>> /\ job.rows = {}
    /\ placed' = [r \in ReportIds |->
            IF r \in DOMAIN job.written THEN job.written[r].group ELSE placed[r]]
    /\ upserted' = upserted \cup LockedRows
    /\ outdated' = {r \in outdated : r \notin DOMAIN job.written}
            \cup {r \in DOMAIN job.written : job.read[r].facts # facts[r]}
    /\ job' = [NoPass EXCEPT !.kind = job.kind,
            !.cursor = CHOOSE r \in DOMAIN job.read : \A q \in DOMAIN job.read : q <= r]
    /\ UNCHANGED <<received, said, facts, lineage>>

(* A report of the batch disappeared, the connection broke, two transactions *)
(* waited for each other...: nothing is written.  The backfill of the        *)
(* start-up begins again after a while, the others when they are called.     *)
PassFails ==
    /\ job.kind # "none"
    /\ job' = NoPass
    /\ UNCHANGED <<received, said, facts, placed, upserted, lineage, outdated>>

GroupsNext ==
    \/ \E sent \in Sent, known \in Facts : JoinReport(sent, known)
    \/ \E r \in ReportIds, known \in Facts : TelemetryFills(r, known)
    \/ \E source, target \in upserted : MergeGroups(source, target)
    \/ \E r \in ReportIds : RetentionDeletes(r)
    \/ \E kind \in {"backfill", "regroup"} : StartPass(kind)
    \/ ReadBatch
    \/ WriteRow
    \/ CommitBatch
    \/ PassFails

GroupsSpec == GroupsInit /\ [][GroupsNext]_groupsVars

-----------------------------------------------------------------------------
(* What shows the groups: the list of a product, the issue of a group.       *)

ListedGroups == {key \in upserted : lineage[key] = Nothing}

ListedCount(key) == Cardinality(MembersOf(key))

(* The findings of all reports of a group, by report and position.           *)
Expanded(key) ==
    UNION {{<<r, n>> : n \in DOMAIN said[r]} : r \in {q \in MembersOf(key) : said[q] # Unreadable}}

FindingAt(at) == said[at[1]][at[2]]

Before(at, other) == at[1] < other[1] \/ (at[1] = other[1] /\ at[2] < other[2])

(* The finding an issue is named for.                                        *)
IssueNamedFor(key) ==
    LET top == CHOOSE at \in Expanded(key) : \A other \in Expanded(key) \ {at} :
            /\ ~Above(FindingAt(other), FindingAt(at))
            /\ Before(other, at) => Above(FindingAt(at), FindingAt(other))
    IN  IF Expanded(key) = {} THEN NoFinding
        ELSE <<FindingAt(top).kind, FindingAt(top).topic>>

-----------------------------------------------------------------------------
(* Properties.                                                               *)

(* A report is where its fingerprint says by now, merges included, in        *)
(* whatever order it, its telemetry, merges and the jobs came; but for a     *)
(* report that a job placed by facts that changed after it had read them.    *)
GroupsFollowFacts ==
    \A r \in Grouped \ outdated :
        said[r] # Unreadable /\ placed[r] = JoinsGroup(Fingerprint(said[r], facts[r]))

(* Every report received since is in a group at once, and the list of groups  *)
(* counts every report that is in one: none is in a group merged away.       *)
GroupsShowAll ==
    /\ \A r \in OldReports + 1 .. received : said[r] # Nothing => r \in Grouped
    /\ UNION {MembersOf(key) : key \in ListedGroups} = Grouped
    /\ \A key \in upserted : lineage[key] # Nothing => lineage[lineage[key]] = Nothing

(* The issue of a group into which none was merged is named for the finding  *)
(* in the group's fingerprint, which is found by another algorithm.          *)
IssuesNamedAsGrouped ==
    \A key \in ListedGroups :
        MembersOf(key) # {} /\ MergesInto(key) = {} => IssueNamedFor(key) = key.finding

ReportsStayGrouped == GroupsTypeOK /\ GroupsFollowFacts /\ GroupsShowAll /\ IssuesNamedAsGrouped

=============================================================================
