--------------------------- MODULE DashboardReads ---------------------------
(***************************************************************************)
(* What the dashboard and the read-only MCP tools show of a product while   *)
(* telemetry, reports and the retention job change it: lists that are paged *)
(* with a keyset cursor, their facets, the detail pages and the insights.   *)
(*                                                                         *)
(* Every read is one SQL statement over the committed rows.  The same       *)
(* selection is written out anew in each of them, a page of a list is a     *)
(* request of its own, and the rows move between two pages.                 *)
(*                                                                         *)
(* Time is counted in days.  Interactions, customers, session references    *)
(* and topics are numbers, in the order of the identifiers of their rows.   *)
(***************************************************************************)
EXTENDS CustomerIdentity

CONSTANTS
    Telemetry,      \* the events senders may send
    Contents,       \* what a report may say
    Topics,         \* topics of findings, the keys of features
    Resembles,      \* <<t, u>>: a search for t finds u as well
    Hop,            \* what an interaction is in a journey, see HopKinds
    Retention,      \* product_environments.retention_days
    Window,         \* WINDOW_DAYS of the insights
    Comparison,     \* COMPARISON_DAYS of the insights
    LastDay,        \* bound of the time
    MaxWrites,      \* bound of events, reports and workflow updates
    PageSize,       \* limit of a list
    FeatureScan     \* features a feature page searches for its key (100)

(* What an interaction is in a journey: it names an assistant, it is a JSON  *)
(* hop of the graph, it is one past its guide, it expresses needs, supports  *)
(* a decision, follows a product link, is a page a human browser asked for,  *)
(* is of an MCP server, or ended off the graph.                              *)
HopKinds ==
    {"vendor", "machine", "graph", "needs", "decision", "link", "page", "mcp", "missing"}

ASSUME ReadsAssumption ==
    /\ Owners \cup SessionRefs \cup Topics \subseteq 0 .. 99
    /\ Telemetry \subseteq Event
    /\ Hop \in [Interactions -> SUBSET HopKinds]
    /\ Resembles \subseteq Topics \X Topics
    /\ \A topic \in Topics : <<topic, topic>> \in Resembles
    /\ {Retention, Window, Comparison, LastDay, MaxWrites, PageSize, FeatureScan} \subseteq Nat \ {0}

VARIABLES
    rows,       \* customers, sessions and interactions, see CustomerIdentity
    at,         \* interactions_v2.occurred_at
    seen,       \* customers.last_seen_at, Never without a row
    last,       \* sessions_v2.last_seen_at
    pending,    \* interactions a report created before their telemetry
    confirmed,  \* interactions_v2.classification = 'confirmed'
    reports,    \* feedback_reports with their workflow status
    now, writes,
    list,       \* the list that is traversed
    phase,      \* of its traversal: idle, start, more, done, refused
    cursor,     \* the last entry it returned
    got,        \* the entries its pages returned
    steady      \* the entries it has listed, unmoved, since it began

data == <<rows, at, seen, last, pending, confirmed, reports, writes>>

walk == <<phase, cursor, got>>

vars == <<data, now, list, walk, steady>>

Never == 0

Days == 1 .. LastDay

Lists == {"reports", "open_reports", "mcp_reports", "interactions", "sessions", "customers",
          "signals", "features"}

Impacts == {"helped", "blocked"}

FindingKinds == {"friction", "other"}

Statuses == {"new", "resolved"}

(* A report says an impact and at most one finding.  Identifiers of signals  *)
(* are random: above says that the finding's is the higher one.              *)
Content ==
    [impact : Impacts, kinds : {{}} \cup {{k} : k \in FindingKinds}, topic : Topics,
     above : BOOLEAN]

Report ==
    [created : Days, impact : Impacts, kinds : {{}} \cup {{k} : k \in FindingKinds},
     topic : Topics, above : BOOLEAN, status : Statuses]

ASSUME ContentsAssumption == Contents \subseteq Content

NoReport == [created |-> Never]

RetainedSince == now - Retention

Reported == {i \in Interactions : reports[i] # NoReport}

Greatest(S) == CHOOSE x \in S : \A y \in S : y <= x

Least(S) == CHOOSE x \in S : \A y \in S : x <= y

-----------------------------------------------------------------------------
(* Signals: a report is one of type outcome, and each of its findings is one *)
(* that has a feature key but no impact.                                     *)

SignalType(kind) == IF kind = "friction" THEN "friction" ELSE "outcome"

Signals ==
    UNION {{[report |-> i, id |-> 10 * i + (IF reports[i].above THEN 0 ELSE 2), type |-> "outcome",
             impact |-> reports[i].impact, topics |-> {}, collected |-> reports[i].created]} \cup
           {[report |-> i, id |-> 10 * i + 1, type |-> SignalType(k), impact |-> "unknown",
             topics |-> {reports[i].topic}, collected |-> reports[i].created] :
                k \in reports[i].kinds} : i \in Reported}

RetainedSignals == {s \in Signals : s.collected >= RetainedSince}

SignalOwner(s) == rows.owner[s.report]

-----------------------------------------------------------------------------
(* Lists.  An entry is what a list orders by: a time and an identifier.      *)

Entry(time, id) == [time |-> time, id |-> id]

(* The reports list: both the interaction and the report are retained.       *)
ReportInWindow(i) == at[i] >= RetainedSince /\ reports[i].created >= RetainedSince

Facets == {"status", "impact", "finding_kind"}

FacetValues(facet, i) ==
    CASE facet = "status" -> {reports[i].status}
      [] facet = "impact" -> {reports[i].impact}
      [] facet = "finding_kind" -> reports[i].kinds

(* A filter gives each facet the values to show, none for all of them.       *)
Matches(filter, facet, i) ==
    filter[facet] = {} \/ filter[facet] \cap FacetValues(facet, i) # {}

Filters ==
    [status : {{}, {"new"}}, impact : {{}, {"blocked"}},
     finding_kind : {{}, {"other"}}]

ReportsPage(filter) ==
    {i \in Reported : ReportInWindow(i) /\ \A facet \in Facets : Matches(filter, facet, i)}

(* A facet leaves its own selection out.                                     *)
FeedbackFacet(filter, facet, value) ==
    Cardinality({i \in Reported : /\ ReportInWindow(i)
                                  /\ value \in FacetValues(facet, i)
                                  /\ \A other \in Facets \ {facet} : Matches(filter, other, i)})

(* Sessions with activity in the window; one all of whose interactions moved *)
(* to another session is listed without any.                                 *)
SessionId(key) == 100 * key.ref + key.scope

ListedSessions == {key \in rows.sessions : last[key] >= RetainedSince}

(* Accounts give way to their members, merged visitors to the customer.      *)
Hidden(c) ==
    \/ c \in Visitors /\ rows.into[c] # NoOne
    \/ c \in Accounts /\ \E u \in Users : rows.parent[u] = c /\ seen[u] # Never

VisibleCustomers == {c \in Customers : seen[c] # Never /\ ~Hidden(c)}

Activity(c) == {i \in rows.stored : rows.owner[i] = c /\ at[i] >= RetainedSince}

(* A customer without retained activity is listed where it was last seen.    *)
LastActivity(c) ==
    IF Activity(c) = {} THEN seen[c] ELSE Greatest({at[i] : i \in Activity(c)})

Health(c) ==
    LET outcomes == {s \in RetainedSignals : s.type = "outcome" /\ SignalOwner(s) = c}
        later(s, t) == s.collected > t.collected \/ (s.collected = t.collected /\ s.id > t.id)
        newest == CHOOSE s \in outcomes : \A t \in outcomes \ {s} : later(s, t)
    IN  IF outcomes = {} THEN "unknown"
        ELSE CASE newest.impact = "blocked" -> "at_risk"
               [] newest.impact = "helped" -> "healthy"
               [] newest.impact = "unknown" -> "unknown"

CustomersOfHealth(health) == {c \in VisibleCustomers : Health(c) = health}

HealthFacet(health) ==
    Cardinality({c \in Customers : seen[c] # Never /\ ~Hidden(c) /\ Health(c) = health})

(* Features: the findings of each topic, the filter applied to the findings. *)
Findings(topic, types) ==
    {s \in RetainedSignals : topic \in s.topics /\ (types = {} \/ s.type \in types)}

Features(types) == {topic \in Topics : Findings(topic, types) # {}}

FeatureEntry(topic) ==
    Entry(Greatest({s.collected : s \in Findings(topic, {})}), topic)

FeatureFacet(type) ==
    Cardinality(UNION {s.topics : s \in {t \in RetainedSignals : t.type = type}})

(* The reports by the time they were created, all or those still open; for   *)
(* the tools, by the time of their interaction.                              *)
ReportsList == {Entry(reports[i].created, i) : i \in {j \in Reported : ReportInWindow(j)}}

OpenReportsList == {x \in ReportsList : reports[x.id].status = "new"}

McpReportsList == {Entry(at[i], i) : i \in {j \in Reported : at[j] >= RetainedSince}}

InteractionsList == {Entry(at[i], i) : i \in {j \in rows.stored : at[j] >= RetainedSince}}

SessionsList == {Entry(last[key], SessionId(key)) : key \in ListedSessions}

CustomersList == {Entry(LastActivity(c), c) : c \in VisibleCustomers}

SignalsList == {Entry(s.collected, s.id) : s \in RetainedSignals}

FeaturesList == {FeatureEntry(topic) : topic \in Features({})}

Entries(l) ==
    CASE l = "reports" -> ReportsList
      [] l = "open_reports" -> OpenReportsList
      [] l = "mcp_reports" -> McpReportsList
      [] l = "interactions" -> InteractionsList
      [] l = "sessions" -> SessionsList
      [] l = "customers" -> CustomersList
      [] l = "signals" -> SignalsList
      [] l = "features" -> FeaturesList

-----------------------------------------------------------------------------
(* Detail pages.                                                             *)

InteractionFound(i) == i \in rows.stored /\ at[i] >= RetainedSince

(* Mutant: a report is looked up by the time it was created.                 *)
ReportFoundByCreation(i) == i \in Reported /\ ReportInWindow(i)

ReportFound(i) == i \in Reported /\ at[i] >= RetainedSince

(* An interaction opens with its report, and its session while it is listed. *)
InteractionOpens(i) == InteractionFound(i) /\ (i \in Reported => ReportFound(i))

SessionFound(key) == key \in rows.sessions /\ last[key] >= RetainedSince

CustomerFound(c) == seen[c] # Never /\ ~Hidden(c)

(* A feature page searches the features for its key, takes the newest few    *)
(* and opens the customer of every finding.                                  *)
FeatureOpens(topic) ==
    LET found == {FeatureEntry(t) : t \in {u \in Features({}) : <<topic, u>> \in Resembles}}
        newer(x) == {y \in found : y.time > x.time \/ (y.time = x.time /\ y.id > x.id)}
    IN  /\ \E x \in found : x.id = topic /\ Cardinality(newer(x)) < FeatureScan
        /\ \A s \in Findings(topic, {}) : SignalOwner(s) # NoOne => CustomerFound(SignalOwner(s))

SessionsOf(c) == {rows.filed[i] : i \in Activity(c)} \ {NoKey}

(* The signals a customer has in the list, by its interactions, and on its   *)
(* page, by their own customer and time.                                     *)
SignalsByActivity(c) == {s \in Signals : s.report \in Activity(c)}

SignalsOfPage(c) == {s \in RetainedSignals : SignalOwner(s) = c}

(* The sessions of the page: those with activity of the customer.            *)
SessionsOfPage(c) ==
    {key \in rows.sessions :
        \E i \in rows.stored : /\ rows.filed[i] = key
                               /\ rows.owner[i] = c
                               /\ at[i] >= RetainedSince}

-----------------------------------------------------------------------------
(* Insights.                                                                 *)

WindowStart == Greatest({RetainedSince, now - Window})

PreviousStart == Greatest({RetainedSince, now - 2 * Comparison})

(* The headline counts share a query with the comparison, which starts where *)
(* the comparison does.                                                      *)
Opportunities == {i \in rows.stored : at[i] >= PreviousStart /\ at[i] >= WindowStart}

Surfaces == {i \in rows.stored : at[i] >= WindowStart}

SessionHops == {i \in rows.stored : at[i] >= WindowStart /\ rows.filed[i] # NoKey}

Journeys == {rows.filed[i] : i \in SessionHops}

HopsOf(key) == {i \in SessionHops : rows.filed[i] = key}

Earlier(i, j) == at[i] < at[j] \/ (at[i] = at[j] /\ i < j)

Followed(i) == \E j \in HopsOf(rows.filed[i]) : Earlier(i, j)

EdgeCount == Cardinality({i \in SessionHops : Followed(i)})

ExitCount == Cardinality({i \in SessionHops : ~Followed(i)})

Some(key, kind) == \E i \in HopsOf(key) : kind \in Hop[i]

(* The hint or the user agent names an assistant, or the hop is a JSON one.  *)
ByAgent(i) == {"vendor", "machine"} \cap Hop[i] # {}

Evidenced(key) == \E i \in HopsOf(key) : ByAgent(i)

Funnel ==
    LET arrived == {key \in Journeys : Evidenced(key)}
        entered == {key \in arrived : Some(key, "graph")}
        needs == {key \in entered : Some(key, "needs")}
        decided == {key \in needs : Some(key, "decision")}
    IN  <<arrived, entered, needs, decided, {key \in decided : Some(key, "link")}>>

(* A session begins with its first hop: a page deep in the site, without any *)
(* trace of an agent, is suspected of one.                                   *)
TrafficClass(key) ==
    CASE Evidenced(key) -> "declared_agent"
      [] /\ ~Evidenced(key)
         /\ \E i \in HopsOf(key) : "page" \in Hop[i] /\ \A j \in HopsOf(key) : ~Earlier(j, i)
         -> "suspected_cloud_agent"
      [] OTHER -> "human"

Class(class) == {key \in Journeys : TrafficClass(key) = class}

ClassHops(class) == UNION {HopsOf(key) : key \in Class(class)}

HandoffSessions == {key \in Journeys : Some(key, "link")}

-----------------------------------------------------------------------------
(* Writes.                                                                   *)

CanWrite == writes < MaxWrites /\ phase \notin {"done", "refused"}

(* Where a session goes: to the customer a visitor turned out to be, or to   *)
(* the one that claimed it.                                                  *)
Successor(new, e, key) ==
    IF key \in new.sessions THEN key
    ELSE [scope |-> IF key.scope \in Visitors THEN new.into[key.scope] ELSE CustomerOf(new, e),
          ref |-> key.ref]

LastSeen(new, e, key) ==
    Greatest({last[old] : old \in {k \in rows.sessions : Successor(new, e, k) = key}} \cup
             (IF new.filed[e.id] = key THEN {at'[e.id]} ELSE {Never}))

(* Mutant: the classification is that of the last event.                     *)
ConfirmedByLast(i) == IF "mcp" \in Hop[i] THEN confirmed \cup {i} ELSE confirmed \ {i}

(* An event of an MCP server confirms its interaction; none takes it back.   *)
ConfirmedAfter(i) == IF "mcp" \in Hop[i] THEN confirmed \cup {i} ELSE confirmed

(* ingest_telemetry_batch, of one event: the first one of an interaction     *)
(* says when it occurred, a later one may only say earlier.                  *)
IngestTelemetry(e, occurred) ==
    LET new == IngestOne(rows, e)
        bumped == {e.user, e.account, IF e.visitor = NoOne THEN NoOne ELSE Canonical(rows, e.visitor)}
    IN  /\ CanWrite
        /\ Accepts(rows, e)
        /\ rows' = new
        /\ at' = [at EXCEPT ![e.id] =
                    IF e.id \notin rows.stored \/ e.id \in pending THEN occurred
                    ELSE Least({at[e.id], occurred})]
        /\ last' = [key \in Session |->
                    IF key \in new.sessions THEN LastSeen(new, e, key) ELSE Never]
        /\ seen' = [c \in Customers |->
                    IF c \in bumped THEN Greatest({seen[c], occurred}) ELSE seen[c]]
        /\ pending' = pending \ {e.id}
        /\ confirmed' = ConfirmedAfter(e.id)
        /\ writes' = writes + 1
        /\ UNCHANGED <<reports, now, walk, list>>

ReportSaying(content) ==
    [created |-> now, impact |-> content.impact, kinds |-> content.kinds,
     topic |-> content.topic, above |-> content.above, status |-> "new"]

(* submit_report and project_feedback_signals: a report that is ahead of its *)
(* telemetry creates the interaction, and confirms it in any case.           *)
SubmitReport(i, content) ==
    /\ CanWrite
    /\ i \notin Reported
    /\ reports' = [reports EXCEPT ![i] = ReportSaying(content)]
    /\ confirmed' = confirmed \cup {i}
    /\ IF i \in rows.stored
       THEN UNCHANGED <<rows, at, pending>>
       ELSE /\ rows' = [rows EXCEPT !.stored = @ \cup {i}]
            /\ at' = [at EXCEPT ![i] = now]
            /\ pending' = pending \cup {i}
    /\ writes' = writes + 1
    /\ UNCHANGED <<seen, last, now, walk, list>>

(* update_feedback_workflow: the last editor's row stands.                   *)
UpdateWorkflow(i, status) ==
    /\ CanWrite
    /\ ReportFound(i)
    /\ reports[i].status # status
    /\ reports' = [reports EXCEPT ![i].status = status]
    /\ writes' = writes + 1
    /\ UNCHANGED <<rows, at, seen, last, pending, confirmed, now, walk, list>>

(* purge_expired_product_data: three of its statements, each a transaction.  *)
PurgeInteractions ==
    LET doomed == {i \in rows.stored : at[i] < RetainedSince}
    IN  /\ phase \notin {"done", "refused"}
        /\ doomed # {}
        /\ rows' = [rows EXCEPT
                !.stored = rows.stored \ doomed,
                !.owner = [i \in Interactions |-> IF i \in doomed THEN NoOne ELSE rows.owner[i]],
                !.filed = [i \in Interactions |-> IF i \in doomed THEN NoKey ELSE rows.filed[i]]]
        /\ at' = [i \in Interactions |-> IF i \in doomed THEN Never ELSE at[i]]
        /\ reports' = [i \in Interactions |-> IF i \in doomed THEN NoReport ELSE reports[i]]
        /\ pending' = pending \ doomed
        /\ confirmed' = confirmed \ doomed
        /\ UNCHANGED <<seen, last, writes, now, walk, list>>

PurgeSessions ==
    LET doomed == {key \in rows.sessions : \A i \in Interactions : rows.filed[i] # key}
    IN  /\ phase \notin {"done", "refused"}
        /\ doomed # {}
        /\ rows' = [rows EXCEPT !.sessions = @ \ doomed]
        /\ last' = [key \in Session |-> IF key \in doomed THEN Never ELSE last[key]]
        /\ UNCHANGED <<at, seen, pending, confirmed, reports, writes, now, walk, list>>

PurgeCustomers ==
    LET doomed == {v \in Visitors : /\ seen[v] # Never
                                    /\ rows.into[v] = NoOne
                                    /\ \A i \in Interactions : rows.owner[i] # v}
    IN  /\ phase \notin {"done", "refused"}
        /\ doomed # {}
        /\ seen' = [c \in Customers |-> IF c \in doomed THEN Never ELSE seen[c]]
        /\ UNCHANGED <<rows, at, last, pending, confirmed, reports, writes, now, walk, list>>

DayPasses ==
    /\ now < LastDay
    /\ phase \notin {"done", "refused"}
    /\ now' = now + 1
    /\ UNCHANGED <<data, walk, list>>

-----------------------------------------------------------------------------
(* Traversals: an agent or a page of the dashboard asks for one page after   *)
(* the other, with the cursor of the last one.                               *)

Begin(l) ==
    /\ phase = "idle"
    /\ list' = l
    /\ phase' = "start"
    /\ UNCHANGED <<data, now, cursor, got>>

Behind(x, y) == x.time < y.time \/ (x.time = y.time /\ x.id < y.id)

Rest == IF phase = "start" THEN Entries(list) ELSE {x \in Entries(list) : Behind(x, cursor)}

Page == {x \in Rest : Cardinality({y \in Rest : Behind(x, y)}) < PageSize}

(* Mutant: the cursor is the row that showed there is another page.          *)
NextCursorPeeked ==
    CHOOSE x \in Rest \ Page : \A y \in Rest \ Page : x = y \/ Behind(y, x)

(* The last entry of the page.                                               *)
NextCursor ==
    CHOOSE x \in Page : \A y \in Page : x = y \/ Behind(x, y)

(* Every list but the features refuses a cursor that left the window.        *)
Gone == phase = "more" /\ list # "features" /\ cursor.time < RetainedSince

(* There is another page if the query finds one entry more than it shows.    *)
ReadPage ==
    /\ phase \in {"start", "more"}
    /\ IF Gone
       THEN phase' = "refused" /\ UNCHANGED <<cursor, got>>
       ELSE /\ got' = got \cup Page
            /\ IF Cardinality(Rest) > PageSize
               THEN phase' = "more" /\ cursor' = NextCursor
               ELSE phase' = "done" /\ UNCHANGED cursor
    /\ UNCHANGED <<data, now, list>>

-----------------------------------------------------------------------------

Init ==
    /\ rows = NoRows
    /\ at = [i \in Interactions |-> Never]
    /\ seen = [c \in Customers |-> Never]
    /\ last = [key \in Session |-> Never]
    /\ pending = {}
    /\ confirmed = {}
    /\ reports = [i \in Interactions |-> NoReport]
    /\ now = 1
    /\ writes = 0
    /\ list = "reports"
    /\ phase = "idle"
    /\ cursor = Entry(Never, 0)
    /\ got = {}
    /\ steady = {}

Write ==
    \/ \E e \in Telemetry, occurred \in {now, now - 1} \cap Days : IngestTelemetry(e, occurred)
    \/ \E i \in Interactions, content \in Contents : SubmitReport(i, content)
    \/ \E i \in Interactions, status \in Statuses : UpdateWorkflow(i, status)
    \/ PurgeInteractions
    \/ PurgeSessions
    \/ PurgeCustomers
    \/ DayPasses

Read == (\E l \in Lists : Begin(l)) \/ ReadPage

(* What was listed when the traversal began and has been listed there since. *)
Follow ==
    steady' = CASE phase' = "idle" -> {}
                [] phase' = "start" /\ phase = "idle" -> Entries(list)'
                [] OTHER -> steady \cap Entries(list)'

Next == (Write \/ Read) /\ Follow

Spec == Init /\ [][Next]_vars

-----------------------------------------------------------------------------
(* Properties.                                                               *)

TypeOK ==
    /\ rows \in Rows
    /\ at \in [Interactions -> {Never} \cup Days]
    /\ \A i \in Interactions : at[i] = Never <=> i \notin rows.stored
    /\ seen \in [Customers -> {Never} \cup Days]
    /\ last \in [Session -> {Never} \cup Days]
    /\ \A key \in Session : last[key] = Never <=> key \notin rows.sessions
    /\ confirmed \subseteq rows.stored
    /\ pending \subseteq Reported /\ Reported \subseteq rows.stored
    /\ reports \in [Interactions -> Report \cup {NoReport}]
    /\ now \in Days /\ writes \in 0 .. MaxWrites
    /\ list \in Lists

(* Paging returns every entry that stayed listed where it was exactly once,  *)
(* whatever else arrived, moved or left between two pages: the entries that  *)
(* were returned are those the cursor has passed, all of them at the end.    *)
WalkIsExact ==
    /\ phase = "more" => \A x \in steady : x \in got <=> ~Behind(x, cursor)
    /\ phase = "done" => steady \subseteq got

(* A facet's count is what the list shows once that value is selected:       *)
(* reports under every filter, customers by health, features by type.        *)
FacetsPredictLists ==
    /\ \A filter \in Filters, facet \in Facets :
        \A value \in UNION {FacetValues(facet, i) : i \in Reported} :
            FeedbackFacet(filter, facet, value) =
                Cardinality(ReportsPage([filter EXCEPT ![facet] = {value}]))
    /\ \A health \in {"healthy", "at_risk", "unknown"} :
            HealthFacet(health) = Cardinality(CustomersOfHealth(health))
    /\ \A type \in {"friction", "outcome"} : FeatureFacet(type) = Cardinality(Features({type}))

(* What a list shows can be opened; a feature, if no other feature resembles *)
(* it and the customers of its findings are listed themselves.               *)
ListedThenOpens ==
    phase = "idle" =>
    /\ \A l \in {"reports", "mcp_reports"} : \A x \in Entries(l) : ReportFound(x.id)
    /\ \A x \in Entries("interactions") : InteractionOpens(x.id)
    /\ \A key \in ListedSessions : SessionFound(key)
    /\ \A c \in VisibleCustomers : CustomerFound(c)
    /\ \A topic \in Features({}) :
        /\ \A u \in Topics \ {topic} : <<topic, u>> \notin Resembles
        /\ \A s \in Findings(topic, {}) : SignalOwner(s) \in {NoOne} \cup VisibleCustomers
        => FeatureOpens(topic)

(* The numbers of two screens agree: the sessions and the signals of a       *)
(* customer in the list and on its page, the paths, the traffic classes, the *)
(* funnel and the handoffs of the insights.  The signals do unless a report  *)
(* and its interaction are on two sides of the window; the headline counts   *)
(* agree with those by surface unless data is kept for longer than the       *)
(* comparison goes back.                                                     *)
NumbersAgree ==
    /\ \A c \in VisibleCustomers :
        /\ SessionsOf(c) = SessionsOfPage(c)
        /\ (\A i \in Reported : at[i] >= RetainedSince <=> reports[i].created >= RetainedSince)
            => SignalsByActivity(c) = SignalsOfPage(c)
    /\ Retention <= 2 * Comparison => Opportunities = Surfaces
    /\ EdgeCount + ExitCount =
        Cardinality(ClassHops("declared_agent")) + Cardinality(ClassHops("suspected_cloud_agent"))
            + Cardinality(ClassHops("human"))
    /\ Cardinality(Journeys) >= 1 => ExitCount = Cardinality(Journeys)
    /\ Class("declared_agent") = Funnel[1]
    /\ \A stage \in 1 .. 4 : Funnel[stage + 1] \subseteq Funnel[stage]
    /\ Funnel[5] \subseteq HandoffSessions

=============================================================================
