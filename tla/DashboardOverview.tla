-------------------------- MODULE DashboardOverview --------------------------
(***************************************************************************)
(* The screens that sum up a product: the overview an owner lands on, the    *)
(* summary tool of the MCP server, the headline, demand and path figures of  *)
(* the insights, and the counts of a customer's page.  They select the rows  *)
(* of DashboardReads once more, each in statements of its own.               *)
(***************************************************************************)
EXTENDS DashboardReads

Kept == {i \in rows.stored : at[i] >= RetainedSince}

-----------------------------------------------------------------------------
(* The overview.                                                             *)

Newest(S, limit) == {x \in S : Cardinality({y \in S : Behind(x, y)}) < limit}

(* The reports of retained interactions, by the time they were created.      *)
ReportCards == {Entry(reports[i].created, i) : i \in Reported \cap Kept}

Overview(limit) ==
    [interactions |-> Newest({Entry(at[i], i) : i \in Kept}, limit),
     reports |-> Newest(ReportCards, limit),
     sessions |-> Newest({Entry(last[key], SessionId(key)) : key \in ListedSessions}, limit)]

Totals ==
    [interactions |-> Cardinality(Kept),
     reports |-> Cardinality(Reported \cap Kept),
     sessions |-> Cardinality({key \in rows.sessions : last[key] >= RetainedSince})]

(* The row of a session: its retained activity, its worst impact, and the    *)
(* customer its first activity with a customer is of by now.                 *)
ActivityOf(key) == {i \in Kept : rows.filed[i] = key}

WorstImpact(S) ==
    CASE \E i \in S \cap Reported : reports[i].impact = "blocked" -> "blocked"
      [] S \cap Reported = {} -> "none"
      [] OTHER -> "helped"

Survivor(c) == IF c \in Visitors /\ rows.into[c] # NoOne THEN rows.into[c] ELSE c

CustomerShown(key) ==
    LET owned == {i \in ActivityOf(key) : rows.owner[i] # NoOne}
        first == CHOOSE i \in owned : \A j \in owned \ {i} : Earlier(i, j)
    IN  IF owned = {} THEN NoOne ELSE Survivor(rows.owner[first])

SessionRow(key) ==
    [interactions |-> Cardinality(ActivityOf(key)), impact |-> WorstImpact(ActivityOf(key)),
     customer |-> CustomerShown(key)]

(* The same row on the page of a customer counts what is the customer's.     *)
SessionRowOfPage(c, key) ==
    LET theirs == {i \in ActivityOf(key) : rows.owner[i] = c}
    IN  [interactions |-> Cardinality(theirs), impact |-> WorstImpact(theirs)]

Milder == {<<"none", "helped">>, <<"none", "blocked">>, <<"helped", "blocked">>}

-----------------------------------------------------------------------------
(* Rates.                                                                    *)

(* Rounded to the nearest whole number of percent, 0 of nothing.             *)
Rate(some, all) == IF all = 0 THEN 0 ELSE (200 * some + all) \div (2 * all)

RatesOf(S) ==
    [confirmation |-> Rate(Cardinality(S \cap confirmed), Cardinality(S)),
     review |-> Rate(Cardinality(S \cap Reported), Cardinality(S \cap confirmed))]

(* feedback_summary, from a day on that is retained still.                   *)
Since(day) == Greatest({day, RetainedSince})

Summary(day) ==
    LET window == {i \in rows.stored : at[i] >= Since(day)}
    IN  [interactions |-> Cardinality(window),
         reviewed |-> Cardinality(window \cap Reported),
         impacts |-> [v \in Impacts |->
            Cardinality({i \in window \cap Reported : reports[i].impact = v})],
         findings |-> [k \in FindingKinds |->
            Cardinality({i \in window \cap Reported : k \in reports[i].kinds})],
         rates |-> RatesOf(window)]

-----------------------------------------------------------------------------
(* Insights.                                                                 *)

(* The two halves of the comparison; the headline counts share their query.  *)
Recent == {i \in rows.stored : at[i] >= PreviousStart /\ at[i] >= now - Comparison}

Previous == {i \in rows.stored : at[i] >= PreviousStart /\ at[i] < now - Comparison}

Headline ==
    [opportunities |-> Cardinality(Opportunities),
     reports |-> Cardinality(Opportunities \cap Reported),
     recent |-> Cardinality(Recent), previous |-> Cardinality(Previous),
     rates |-> RatesOf(Opportunities)]

ImpactCount(v) == Cardinality({i \in Surfaces \cap Reported : reports[i].impact = v})

TopicsNamed == {reports[i].topic : i \in {j \in Surfaces \cap Reported : reports[j].kinds # {}}}

(* Decisions and needs, by hops whether or not they are filed in a session.  *)
HopsThat(kind) == {i \in Surfaces : kind \in Hop[i]}

(* A landing is a hop that followed a product link.                          *)
Landings == HopsThat("link")

(* The assistants by name, and every other client that identifies itself.    *)
Vendor(i) == IF "vendor" \in Hop[i] THEN "named" ELSE "other"

Identified == {i \in Surfaces : {"vendor", "page"} \cap Hop[i] # {}}

VendorSessions(vendor) ==
    {rows.filed[i] : i \in {j \in Identified : Vendor(j) = vendor}} \ {NoKey}

(* An agent's fetch of what is not there, or of the graph with a bad token.  *)
OffGraph == {i \in Surfaces : ByAgent(i) /\ "missing" \in Hop[i]}

(* Of all sessions, those with a handoff; of those that arrived, those that    *)
(* entered the graph.                                                        *)
SessionRates ==
    [handoff |-> Rate(Cardinality(HandoffSessions), Cardinality(Journeys)),
     tokened |-> Rate(Cardinality(Funnel[2]), Cardinality(Funnel[1]))]

-----------------------------------------------------------------------------
(* The page of a customer.                                                   *)

CustomerCounts(c) ==
    [signals |-> Cardinality({s \in RetainedSignals : SignalOwner(s) = c}),
     sessions |-> Cardinality({rows.filed[i] : i \in Activity(c)} \ {NoKey}),
     features |-> UNION {s.topics : s \in {t \in RetainedSignals : SignalOwner(t) = c}}]

(* The identifiers it names: the customer's, those of the visitors it turned  *)
(* out to be, and its account's.                                             *)
IdentifiersOfPage(c) ==
    {d \in Customers : /\ seen[d] # Never
                       /\ \/ d = c
                          \/ d \in Visitors /\ rows.into[d] = c
                          \/ c \in Users /\ rows.parent[c] = d}

-----------------------------------------------------------------------------
(* Properties.                                                               *)

(* The overview adds up and leads where it says: its sessions account for    *)
(* all retained activity that has one (each hop is of one session, so their  *)
(* counts add up), one named for a customer is on that customer's page, with no more activity and no worse impact than here; it  *)
(* begins with the report the list begins with.  Two pages name the same      *)
(* identifier only if it is of an account that has no page.                  *)
OverviewAddsUp ==
    /\ UNION {ActivityOf(key) : key \in ListedSessions} = {i \in Kept : rows.filed[i] # NoKey}
    /\ Totals.interactions = Cardinality(InteractionsList)
    /\ Totals.sessions = Cardinality(SessionsList)
    /\ \A key \in ListedSessions :
        LET row == SessionRow(key)
            c == row.customer
        IN  c # NoOne => /\ key \in SessionsOfPage(c)
                         /\ c \in VisibleCustomers \cup Accounts
                         /\ SessionRowOfPage(c, key).interactions \in 1 .. row.interactions
                         /\ <<row.impact, SessionRowOfPage(c, key).impact>> \notin Milder
    /\ ReportsList # {} => Overview(1).reports = Newest(ReportsList, 1)
    /\ \A c \in VisibleCustomers :
        /\ CustomerCounts(c).sessions = Cardinality(SessionsOfPage(c))
        /\ CustomerCounts(c).signals = Cardinality(SignalsOfPage(c))
        /\ CustomerCounts(c).features \subseteq Features({})
        /\ \A d \in VisibleCustomers \ {c} :
              IdentifiersOfPage(c) \cap IdentifiersOfPage(d) \subseteq Accounts \ VisibleCustomers

(* No rate exceeds 100 percent: a report leaves its interaction confirmed,   *)
(* whichever of the two comes first and whatever telemetry follows.  The     *)
(* halves of a comparison make up the headline counts unless the insights    *)
(* window is the shorter one, topics named in the window are features, and   *)
(* an agent that left the graph or gave its name is one that declared itself. *)
FiguresAddUp ==
    /\ \A day \in Days, rate \in {"confirmation", "review"} : Summary(day).rates[rate] <= 100
    /\ \A rate \in {"confirmation", "review"} : Headline.rates[rate] <= 100
    /\ 2 * Comparison <= Window => Headline.opportunities = Headline.recent + Headline.previous
    /\ ImpactCount("helped") + ImpactCount("blocked") = Cardinality(Surfaces \cap Reported)
    /\ Summary(1).reviewed = Cardinality(McpReportsList)
    /\ (\A i \in Reported : at[i] >= RetainedSince <=> reports[i].created >= RetainedSince)
        => TopicsNamed \subseteq Features({})
    /\ \A i \in OffGraph : rows.filed[i] # NoKey => rows.filed[i] \in Class("declared_agent")
    /\ VendorSessions("named") \subseteq Class("declared_agent")
    /\ Cardinality(HandoffSessions) <= Cardinality(Landings)
    /\ \A rate \in {"handoff", "tokened"} : SessionRates[rate] <= 100

(* Screens agree: with the filters that lead to them, with each other, and   *)
(* with what they sum up; looked at while no list is traversed, as a         *)
(* traversal changes no row.                                                 *)
ScreensAgree ==
    phase = "idle" => FacetsPredictLists /\ NumbersAgree /\ OverviewAddsUp /\ FiguresAddUp

=============================================================================
