---------------------------- MODULE DashboardProofs ----------------------------
(***************************************************************************)
(* What holds of the reads of the dashboard for any telemetry, reports,       *)
(* retention, page sizes and length of a traversal: what a traversal         *)
(* returns, what opens, and how the screens agree.                           *)
(***************************************************************************)
EXTENDS DashboardOverview, IdentityProofs, FiniteSetTheorems, NaturalsInduction,
        WellFoundedInduction, TLAPS

-----------------------------------------------------------------------------
(* Orders.                                                                   *)

(* Of finitely many things in a row, one comes last.                         *)
LEMMA LastOf ==
  ASSUME NEW S, IsFiniteSet(S), S # {}, NEW R,
         \A x \in S : <<x, x>> \notin R,
         \A x, y, z \in S : <<x, y>> \in R /\ <<y, z>> \in R => <<x, z>> \in R,
         \A x, y \in S : x = y \/ <<x, y>> \in R \/ <<y, x>> \in R
  PROVE  \E x \in S : \A y \in S : x = y \/ <<y, x>> \in R
<1> DEFINE Above(x) == {y \in S : <<x, y>> \in R}
<1> DEFINE counts == {Cardinality(Above(x)) : x \in S}
<1>1. ASSUME NEW x \in S PROVE IsFiniteSet(Above(x)) /\ Cardinality(Above(x)) \in Nat
  <2>1. Above(x) \in SUBSET S
    OBVIOUS
  <2>2. IsFiniteSet(Above(x))
    BY <2>1, FS_Subset
  <2> QED
    BY <2>2, FS_CardinalityType
<1>2. counts \subseteq Nat /\ counts # {}
  <2>1. \A x \in S : Cardinality(Above(x)) \in Nat
    BY <1>1
  <2> HIDE DEF Above
  <2> QED
    BY <2>1
<1>3. PICK least \in counts : \A n \in counts : ~ (<<n, least>> \in OpToRel(<, Nat))
  BY <1>2, NatLessThanWellFounded, WFMin
<1>4. ASSUME NEW n \in counts PROVE least <= n
  <2>1. OpToRel(<, Nat) = {ss \in Nat \X Nat : ss[1] < ss[2]}
    BY Zenon DEF OpToRel
  <2>2. <<n, least>> \notin {ss \in Nat \X Nat : ss[1] < ss[2]}
    BY <1>3, <2>1, Zenon
  <2>3. n \in Nat /\ least \in Nat
    BY <1>2
  <2> QED
    BY <2>2, <2>3
<1>5. PICK x \in S : least = Cardinality(Above(x))
  BY <1>3
<1>6. ASSUME NEW y \in S, x # y, <<y, x>> \notin R PROVE FALSE
  <2>1. <<x, y>> \in R
    BY <1>6
  <2>2. Above(y) \in SUBSET (Above(x) \ {y})
    BY <2>1, <1>6
  <2>3. y \in Above(x)
    BY <2>1
  <2> HIDE DEF Above
  <2>4. Cardinality(Above(x) \ {y}) = Cardinality(Above(x)) - 1 /\ IsFiniteSet(Above(x) \ {y})
    BY <1>1, <2>3, FS_RemoveElement
  <2>5. Cardinality(Above(y)) <= Cardinality(Above(x) \ {y})
    BY <2>2, <2>4, FS_Subset
  <2>6. Cardinality(Above(y)) \in counts
    OBVIOUS
  <2>7. least <= Cardinality(Above(y))
    BY <1>4, <2>6
  <2> QED
    BY <1>1, <1>5, <2>4, <2>5, <2>7
<1> QED
  BY <1>6

(* The last and the first of finitely many numbers.                          *)
LEMMA GreatestOf ==
  ASSUME NEW S \in SUBSET Int, IsFiniteSet(S), S # {}
  PROVE  Greatest(S) \in S /\ \A y \in S : y <= Greatest(S)
<1> DEFINE R == {p \in S \X S : p[1] < p[2]}
<1>1. \E x \in S : \A y \in S : x = y \/ <<y, x>> \in R
  <2>1. \A x \in S : <<x, x>> \notin R
    OBVIOUS
  <2>2. \A x, y, z \in S : <<x, y>> \in R /\ <<y, z>> \in R => <<x, z>> \in R
    OBVIOUS
  <2>3. \A x, y \in S : x = y \/ <<x, y>> \in R \/ <<y, x>> \in R
    OBVIOUS
  <2> HIDE DEF R
  <2> QED
    BY <2>1, <2>2, <2>3, LastOf
<1>2. \E x \in S : \A y \in S : y <= x
  <2>1. PICK x \in S : \A y \in S : x = y \/ <<y, x>> \in R
    BY <1>1
  <2>2. ASSUME NEW y \in S PROVE y <= x
    <3>1. x \in Int /\ y \in Int
      OBVIOUS
    <3>2. <<y, x>> \in R => y < x
      OBVIOUS
    <3> QED
      BY <2>1, <3>1, <3>2
  <2> QED
    BY <2>2
<1> QED
  BY <1>2 DEF Greatest

LEMMA LeastOf ==
  ASSUME NEW a \in Int, NEW b \in Int
  PROVE  Least({a, b}) = IF a <= b THEN a ELSE b
BY DEF Least

LEMMA GreatestOfTwo ==
  ASSUME NEW a \in Int, NEW b \in Int
  PROVE  Greatest({a, b}) = IF a <= b THEN b ELSE a
BY DEF Greatest

-----------------------------------------------------------------------------
(* Pages.                                                                    *)

Place == [time : Int, id : Int]

LEMMA BehindOrders ==
  ASSUME NEW x \in Place, NEW y \in Place
  PROVE  /\ ~Behind(x, x)
         /\ x = y \/ Behind(x, y) \/ Behind(y, x)
         /\ ~(Behind(x, y) /\ Behind(y, x))
         /\ \A z \in Place : Behind(x, y) /\ Behind(y, z) => Behind(x, z)
<1>1. x.time \in Int /\ x.id \in Int /\ y.time \in Int /\ y.id \in Int
  BY DEF Place
<1>2. x = [time |-> x.time, id |-> x.id] /\ y = [time |-> y.time, id |-> y.id]
  BY DEF Place
<1>3. x = y \/ x.time # y.time \/ x.id # y.id
  BY <1>2
<1>4. ASSUME NEW z \in Place, Behind(x, y), Behind(y, z) PROVE Behind(x, z)
  <2>1. z.time \in Int /\ z.id \in Int
    BY DEF Place
  <2> QED
    BY <1>1, <1>4, <2>1 DEF Behind
<1> QED
  BY <1>1, <1>3, <1>4 DEF Behind

(* Of finitely many entries, one is ahead of the others, one behind them.    *)
LEMMA Ends ==
  ASSUME NEW S \in SUBSET Place, IsFiniteSet(S), S # {}
  PROVE  /\ \E x \in S : \A y \in S : x = y \/ Behind(y, x)
         /\ \E x \in S : \A y \in S : x = y \/ Behind(x, y)
<1> DEFINE R == {p \in S \X S : Behind(p[1], p[2])}
           Q == {p \in S \X S : Behind(p[2], p[1])}
<1>1. \A x, y \in S : (<<x, y>> \in R <=> Behind(x, y)) /\ (<<x, y>> \in Q <=> Behind(y, x))
  OBVIOUS
<1> HIDE DEF R, Q
<1>2. \A x, y, z \in S : Behind(x, y) /\ Behind(y, z) => Behind(x, z)
  BY BehindOrders
<1>3. \A x, y \in S : ~Behind(x, x) /\ (x = y \/ Behind(x, y) \/ Behind(y, x))
  BY BehindOrders
<1>4. \E x \in S : \A y \in S : x = y \/ <<y, x>> \in R
  <2>1. \A x \in S : <<x, x>> \notin R
    BY <1>1, <1>3
  <2>2. \A x, y, z \in S : <<x, y>> \in R /\ <<y, z>> \in R => <<x, z>> \in R
    BY <1>1, <1>2
  <2>3. \A x, y \in S : x = y \/ <<x, y>> \in R \/ <<y, x>> \in R
    BY <1>1, <1>3
  <2> QED
    BY <2>1, <2>2, <2>3, LastOf
<1>5. \E x \in S : \A y \in S : x = y \/ <<y, x>> \in Q
  <2>1. \A x \in S : <<x, x>> \notin Q
    BY <1>1, <1>3
  <2>2. \A x, y, z \in S : <<x, y>> \in Q /\ <<y, z>> \in Q => <<x, z>> \in Q
    BY <1>1, <1>2
  <2>3. \A x, y \in S : x = y \/ <<x, y>> \in Q \/ <<y, x>> \in Q
    BY <1>1, <1>3
  <2> QED
    BY <2>1, <2>2, <2>3, LastOf
<1> QED
  BY <1>1, <1>4, <1>5

(* A page is the first of the rest: what it leaves is behind it, it leaves    *)
(* nothing if the rest fits, and its last entry is the next cursor.          *)
LEMMA PageIs ==
  ASSUME Rest \in SUBSET Place, IsFiniteSet(Rest), PageSize \in Nat \ {0}
  PROVE  /\ \A x \in Rest \ Page, y \in Page : Behind(x, y)
         /\ Cardinality(Rest) <= PageSize => Page = Rest
         /\ Cardinality(Rest) > PageSize =>
               NextCursor \in Page /\ \A y \in Page : NextCursor = y \/ Behind(NextCursor, y)
<1> DEFINE Above(x) == {y \in Rest : Behind(x, y)}
<1>1. Page = {x \in Rest : Cardinality(Above(x)) < PageSize} /\ Page \in SUBSET Rest
  BY DEF Page
<1>2. ASSUME NEW x \in Rest PROVE Above(x) \in SUBSET (Rest \ {x})
  BY BehindOrders
<1>3. ASSUME NEW x \in Rest
      PROVE  IsFiniteSet(Above(x)) /\ Cardinality(Above(x)) \in Nat
             /\ Cardinality(Above(x)) < Cardinality(Rest)
  <2> HIDE DEF Above
  <2>1. IsFiniteSet(Rest \ {x}) /\ Cardinality(Rest \ {x}) = Cardinality(Rest) - 1
    BY FS_RemoveElement
  <2>2. IsFiniteSet(Above(x)) /\ Cardinality(Above(x)) <= Cardinality(Rest \ {x})
    BY <1>2, <2>1, FS_Subset
  <2>3. Cardinality(Above(x)) \in Nat /\ Cardinality(Rest) \in Nat
    BY <2>2, FS_CardinalityType
  <2> QED
    BY <2>1, <2>2, <2>3
<1>4. Cardinality(Rest) \in Nat
  BY FS_CardinalityType
<1>5. ASSUME NEW x \in Rest \ Page, NEW y \in Page PROVE Behind(x, y)
  <2>1. x \in Place /\ y \in Place /\ x # y /\ y \in Rest
    BY <1>1
  <2>2. CASE Behind(y, x)
    <3>1. Above(x) \in SUBSET Above(y)
      BY <2>1, <2>2, BehindOrders
    <3>2. Cardinality(Above(y)) < PageSize /\ ~(Cardinality(Above(x)) < PageSize)
      BY <1>1
    <3> HIDE DEF Above
    <3>3. Cardinality(Above(x)) <= Cardinality(Above(y))
      BY <3>1, <1>3, <2>1, FS_Subset
    <3> QED
      BY <3>2, <3>3, <1>3, <2>1
  <2> QED
    BY <2>1, <2>2, BehindOrders
<1>6. ASSUME Cardinality(Rest) <= PageSize PROVE Page = Rest
  <2>1. \A x \in Rest : Cardinality(Above(x)) < PageSize
    <3> HIDE DEF Above
    <3> QED
      BY <1>3, <1>4, <1>6
  <2> QED
    BY <1>1, <2>1
<1>7. ASSUME Cardinality(Rest) > PageSize
      PROVE  NextCursor \in Page /\ \A y \in Page : NextCursor = y \/ Behind(NextCursor, y)
  <2>1. Rest # {}
    BY <1>4, <1>7, FS_EmptySet
  <2>2. PICK top \in Rest : \A y \in Rest : top = y \/ Behind(y, top)
    BY <2>1, Ends
  <2>3. Above(top) = {}
    BY <2>2, BehindOrders
  <2>4. Cardinality(Above(top)) = 0
    BY <2>3, FS_EmptySet
  <2>5. top \in Page
    BY <1>1, <2>4
  <2>6. IsFiniteSet(Page) /\ Page \in SUBSET Place
    BY <1>1, FS_Subset
  <2>7. \E x \in Page : \A y \in Page : x = y \/ Behind(x, y)
    BY <2>5, <2>6, Ends
  <2> QED
    BY <2>7 DEF NextCursor
<1> QED
  BY <1>5, <1>6, <1>7

-----------------------------------------------------------------------------
(* Lists.                                                                    *)

Ids == 0 .. 10 * MaxInteraction + 10000

(* Where an entry of a list can be.                                          *)
Places == {Entry(time, id) : time \in 0 .. LastDay, id \in Ids}

LEMMA Numbers ==
  /\ MaxInteraction \in Nat
  /\ \A n \in {Retention, Window, Comparison, LastDay, MaxWrites, PageSize, FeatureScan} :
        n \in Nat \ {0}
  /\ Owners \subseteq 0 .. 99 /\ SessionRefs \subseteq 0 .. 99 /\ Topics \subseteq 0 .. 99
  /\ Days \subseteq 0 .. LastDay
BY IdentityAssumption, ReadsAssumption DEF Days

LEMMA FewPlaces == IsFiniteSet(Places) /\ Places \subseteq Place
<1> DEFINE Pairs == (0 .. LastDay) \X Ids
           f == [p \in Pairs |-> Entry(p[1], p[2])]
<1>1. IsFiniteSet(0 .. LastDay) /\ IsFiniteSet(Ids)
  BY Numbers, FS_Interval DEF Ids
<1>2. IsFiniteSet(Pairs)
  BY <1>1, FS_Product
<1>3. f \in Surjection(Pairs, Places)
  <2>1. \A p \in Pairs : f[p] \in Places
    BY DEF Places
  <2>2. ASSUME NEW x \in Places PROVE \E p \in Pairs : f[p] = x
    <3>1. PICK time \in 0 .. LastDay, id \in Ids : x = Entry(time, id)
      BY DEF Places
    <3>2. <<time, id>> \in Pairs
      OBVIOUS
    <3>3. f[<<time, id>>] = x
      BY <3>1, <3>2
    <3> QED
      BY <3>2, <3>3
  <2>3. f \in [Pairs -> Places]
    BY <2>1
  <2> QED
    BY <2>2, <2>3 DEF Surjection
<1>4. Places \subseteq Place
  BY Numbers DEF Places, Place, Entry, Ids
<1> QED
  BY <1>2, <1>3, <1>4, FS_Surjection

LEMMA InPlaces ==
  ASSUME NEW time \in 0 .. LastDay, NEW id \in Ids
  PROVE  Entry(time, id) \in Places
BY DEF Places

LEMMA SignalsAre ==
  ASSUME TypeOK, NEW s \in Signals
  PROVE  /\ s.collected \in Days /\ s.id \in Ids
         /\ s.report \in Reported /\ s.report \in Interactions /\ s.topics \subseteq Topics
         /\ s.collected = reports[s.report].created
<1>1. PICK i \in Reported :
        s \in {[report |-> i, id |-> 10 * i + (IF reports[i].above THEN 0 ELSE 2),
                type |-> "outcome", impact |-> reports[i].impact, topics |-> {},
                collected |-> reports[i].created]} \cup
              {[report |-> i, id |-> 10 * i + 1, type |-> SignalType(k), impact |-> "unknown",
                topics |-> {reports[i].topic}, collected |-> reports[i].created] :
                   k \in reports[i].kinds}
  BY DEF Signals
<1>2. i \in Interactions /\ reports[i] \in Report
  BY DEF TypeOK, Reported
<1>3. reports[i].created \in Days /\ reports[i].topic \in Topics
  BY <1>2 DEF Report
<1>4. 10 * i \in Ids /\ 10 * i + 1 \in Ids /\ 10 * i + 2 \in Ids
  BY <1>2, Numbers DEF Interactions, Ids
<1>5. s.report = i /\ s.collected = reports[i].created /\ s.topics \subseteq {reports[i].topic}
      /\ s.id \in {10 * i, 10 * i + 1, 10 * i + 2}
  BY <1>1, <1>2, <1>4 DEF Interactions
<1> QED
  BY <1>2, <1>3, <1>4, <1>5

LEMMA FewDays ==
  ASSUME NEW S \in SUBSET (0 .. LastDay), S # {}
  PROVE  Greatest(S) \in S /\ \A y \in S : y <= Greatest(S)
<1>1. IsFiniteSet(0 .. LastDay)
  BY Numbers, FS_Interval
<1>2. IsFiniteSet(S)
  BY <1>1, FS_Subset
<1> QED
  BY <1>2, GreatestOf

LEMMA ReportTypes ==
  ASSUME TypeOK, NEW i \in Reported
  PROVE  i \in Interactions /\ i \in Ids /\ reports[i].created \in 0 .. LastDay
         /\ at[i] \in 0 .. LastDay
<1>1. i \in Interactions /\ reports[i] \in Report
  BY DEF TypeOK, Reported
<1>2. reports[i].created \in Days
  BY <1>1 DEF Report
<1>3. at[i] \in {0} \cup Days
  BY <1>1 DEF TypeOK, Never
<1> QED
  BY <1>1, <1>2, <1>3, Numbers DEF Interactions, Ids, Days

LEMMA StoredTypes ==
  ASSUME TypeOK, NEW i \in rows.stored
  PROVE  i \in Interactions /\ i \in Ids /\ at[i] \in 0 .. LastDay
<1>1. rows.stored \subseteq Interactions
  BY DEF TypeOK, Rows
<1>2. at[i] \in {0} \cup Days
  BY <1>1 DEF TypeOK, Never
<1> QED
  BY <1>1, <1>2, Numbers DEF Interactions, Ids, Days

LEMMA SessionPlaces ==
  ASSUME TypeOK, NEW key \in rows.sessions
  PROVE  last[key] \in 0 .. LastDay /\ SessionId(key) \in Ids
<1>1. key \in Session
  BY DEF TypeOK, Rows
<1>2. last[key] \in {0} \cup Days
  BY <1>1 DEF TypeOK, Never
<1>3. key.ref \in 0 .. 99 /\ key.scope \in 0 .. 99
  BY <1>1, Numbers DEF Session
<1>4. ASSUME NEW r \in Int, NEW c \in Int, 0 <= r, r <= 99, 0 <= c, c <= 99
      PROVE  0 <= 100 * r + c /\ 100 * r + c <= 10000 /\ 100 * r + c \in Int
  <2>1. 100 * r \in Int /\ 0 <= 100 * r /\ 100 * r <= 9900
    BY <1>4
  <2>2. \A n \in Int : 0 <= n /\ n <= 9900 => 0 <= n + c /\ n + c <= 10000 /\ n + c \in Int
    BY <1>4
  <2> QED
    BY <2>1, <2>2
<1>5. 0 <= SessionId(key) /\ SessionId(key) <= 10000 /\ SessionId(key) \in Int
  <2>1. key.ref \in Int /\ key.scope \in Int /\ 0 <= key.ref /\ key.ref <= 99
        /\ 0 <= key.scope /\ key.scope <= 99
    BY <1>3
  <2>2. 0 <= 100 * key.ref + key.scope /\ 100 * key.ref + key.scope <= 10000
        /\ 100 * key.ref + key.scope \in Int
    BY <2>1, <1>4
  <2> QED
    BY <2>2, Zenon DEF SessionId
<1>6. \A n \in Int : 0 <= n /\ n <= 10000 => n \in Ids
  BY Numbers DEF Ids
<1>7. SessionId(key) \in Ids
  BY <1>5, <1>6
<1> QED
  BY <1>2, <1>7, Numbers DEF Days

LEMMA CustomerPlaces ==
  ASSUME TypeOK, NEW c \in Customers
  PROVE  c \in Ids /\ LastActivity(c) \in 0 .. LastDay
<1>1. c \in Ids
  BY Numbers DEF Owners, Ids
<1>2. seen[c] \in {0} \cup Days
  BY DEF TypeOK, Never
<1>3. CASE Activity(c) # {}
  <2>1. {at[i] : i \in Activity(c)} \in SUBSET (0 .. LastDay)
    BY StoredTypes DEF Activity
  <2>2. {at[i] : i \in Activity(c)} # {}
    BY <1>3
  <2>3. Greatest({at[i] : i \in Activity(c)}) \in {at[i] : i \in Activity(c)}
    BY <2>1, <2>2, FewDays
  <2> QED
    BY <1>1, <1>3, <2>1, <2>3 DEF LastActivity
<1>4. CASE Activity(c) = {}
  BY <1>1, <1>2, <1>4, Numbers DEF LastActivity, Days
<1> QED
  BY <1>3, <1>4

LEMMA FeaturePlaces ==
  ASSUME TypeOK, NEW topic \in Features({})
  PROVE  FeatureEntry(topic) \in Places
<1> DEFINE days == {s.collected : s \in Findings(topic, {})}
<1>1. topic \in Ids
  <2>1. topic \in Topics
    BY DEF Features
  <2>2. topic \in 0 .. 99
    BY <2>1, Numbers
  <2>3. MaxInteraction \in Nat
    BY Numbers
  <2> HIDE DEF Features
  <2> QED
    BY <2>2, <2>3 DEF Ids
<1>2. days \in SUBSET (0 .. LastDay)
  BY SignalsAre, Numbers DEF Findings, RetainedSignals
<1>3. days # {}
  BY DEF Features
<1>4. Greatest(days) \in 0 .. LastDay
  BY <1>2, <1>3, FewDays
<1> QED
  BY <1>1, <1>4, InPlaces DEF FeatureEntry

LEMMA EntriesPlaced ==
  ASSUME TypeOK, NEW l \in Lists
  PROVE  Entries(l) \in SUBSET Places
<1>1. ReportsList \subseteq Places
  BY ReportTypes, InPlaces DEF ReportsList
<1>2. OpenReportsList \subseteq Places
  BY <1>1 DEF OpenReportsList
<1>3. McpReportsList \subseteq Places
  BY ReportTypes, InPlaces DEF McpReportsList
<1>4. InteractionsList \subseteq Places
  BY StoredTypes, InPlaces DEF InteractionsList
<1>5. SessionsList \subseteq Places
  BY SessionPlaces, InPlaces DEF SessionsList, ListedSessions
<1>6. CustomersList \subseteq Places
  BY CustomerPlaces, InPlaces DEF CustomersList, VisibleCustomers
<1>7. SignalsList \subseteq Places
  BY SignalsAre, Numbers, InPlaces DEF SignalsList, RetainedSignals
<1>8. FeaturesList \subseteq Places
  BY FeaturePlaces DEF FeaturesList
<1> QED
  BY <1>1, <1>2, <1>3, <1>4, <1>5, <1>6, <1>7, <1>8 DEF Entries, Lists

-----------------------------------------------------------------------------
(* One event.                                                                *)

(* Every session there is after an event was there before, is where one of   *)
(* before went, or is the one the event is filed under.                      *)
LEMMA IngestOneIs ==
  ASSUME NEW r \in Rows, NEW e \in Event
  PROVE  /\ IngestOne(r, e) \in Rows
         /\ IngestOne(r, e).stored = r.stored \cup {e.id}
         /\ \A key \in IngestOne(r, e).sessions :
               \/ IngestOne(r, e).filed[e.id] = key
               \/ \E old \in r.sessions : Successor(IngestOne(r, e), e, old) = key
<1> DEFINE resolved == Resolve(r, e)
           stored == Store(resolved, e)
           ref == SessionRefOf(stored, e)
           filed == FileUnder(stored, e.id, ref)
           new == IngestOne(r, e)
           own == filed.filed[e.id]
<1>1. /\ resolved \in Rows /\ resolved.stored = r.stored
      /\ \/ resolved.sessions = r.sessions
         \/ /\ e.visitor \in Visitors /\ Known(e) \in KnownCustomers
            /\ resolved.into[e.visitor] = Known(e)
            /\ resolved.sessions = {MovedKey(key, e.visitor, Known(e)) : key \in r.sessions}
            /\ \A i \in Interactions : resolved.owner[i] # e.visitor
  <2>1. resolved \in Rows /\ resolved.stored = r.stored
    BY ResolveIs
  <2>2. CASE resolved.sessions = r.sessions
    BY <2>1, <2>2
  <2>3. CASE resolved.sessions # r.sessions
    <3>1. /\ e.visitor \in Visitors /\ Known(e) \in KnownCustomers
          /\ resolved.into[e.visitor] = Known(e)
          /\ resolved.sessions = {MovedKey(key, e.visitor, Known(e)) : key \in r.sessions}
          /\ \A i \in Interactions :
                /\ resolved.owner[i] =
                      IF r.owner[i] = e.visitor THEN Known(e) ELSE r.owner[i]
                /\ resolved.owner[i] # e.visitor
                /\ resolved.filed[i] = MovedKey(r.filed[i], e.visitor, Known(e))
      BY <2>3, ResolveIs, Zenon
    <3> HIDE DEF resolved
    <3> QED
      BY <2>1, <3>1
  <2> QED
    BY <2>2, <2>3
<1>2. /\ CustomerOf(resolved, e) \in Owners
      /\ Known(e) # NoOne => CustomerOf(resolved, e) = Known(e)
      /\ e.visitor # NoOne => CustomerOf(resolved, e) # NoOne
  BY <1>1, CustomerOfType
<1> HIDE DEF resolved
<1>3. /\ stored \in Rows /\ stored.stored = r.stored \cup {e.id}
      /\ stored.into = resolved.into /\ stored.sessions = resolved.sessions
      /\ stored.owner[e.id] = OwnerOf(resolved, e)
  BY <1>1, StoreIs
<1> HIDE DEF stored
<1>4. ref \in SessionRefs \cup {NoSession}
  <2>1. e.id \in Interactions /\ e.session \in SessionRefs \cup {NoSession}
    BY EventType
  <2>2. stored.filed[e.id] \in Session \cup {NoKey}
    BY <1>3, <2>1, RowsType
  <2> QED
    BY <2>1, <2>2 DEF SessionRefOf, Session
<1> HIDE DEF ref
<1>5. /\ filed \in Rows /\ filed.stored = stored.stored /\ filed.into = stored.into
      /\ \/ filed.sessions = stored.sessions
         \/ own.scope = stored.owner[e.id] /\ filed.sessions = stored.sessions \cup {own}
  BY <1>3, <1>4, EventType, FileUnderIs
<1>6. new = IF e.link THEN Claim(filed, {ClaimOf(resolved, e)}) ELSE filed
  BY DEF IngestOne, resolved, stored, ref
<1> HIDE DEF filed, new
<1>7. /\ e.visitor # NoOne => OwnerOf(resolved, e) # NoOne
      /\ resolved.sessions # r.sessions => OwnerOf(resolved, e) # e.visitor
  BY <1>1, <1>2, EventType, Names DEF OwnerOf
(* Sessions after the event was filed.                                       *)
<1>8. ASSUME NEW key \in filed.sessions
      PROVE  \/ key = own /\ (e.visitor # NoOne => key.scope # NoOne)
             \/ key \in r.sessions
             \/ \E old \in r.sessions :
                   /\ old.scope \in Visitors /\ old \notin filed.sessions
                   /\ resolved.into[old.scope] = key.scope /\ key.ref = old.ref
                   /\ key.scope # NoOne
                   /\ old.scope = e.visitor /\ Known(e) \in KnownCustomers
  <2>1. CASE key \notin resolved.sessions
    BY <1>3, <1>5, <1>7, <1>8, <2>1
  <2>2. CASE key \in resolved.sessions /\ key \notin r.sessions
    <3>1. /\ e.visitor \in Visitors /\ Known(e) \in KnownCustomers
          /\ resolved.into[e.visitor] = Known(e)
          /\ resolved.sessions = {MovedKey(k, e.visitor, Known(e)) : k \in r.sessions}
      BY <1>1, <2>2
    <3>2. PICK old \in r.sessions : key = MovedKey(old, e.visitor, Known(e))
      BY <2>2, <3>1
    <3>3. old.scope = e.visitor /\ key = [scope |-> Known(e), ref |-> old.ref]
      BY <2>2, <3>2 DEF MovedKey
    <3>4. \A k \in resolved.sessions : k.scope # e.visitor
      <4>1. ASSUME NEW k \in r.sessions PROVE MovedKey(k, e.visitor, Known(e)).scope # e.visitor
        BY <3>1, Names DEF MovedKey
      <4> QED
        BY <3>1, <4>1
    <3>5. OwnerOf(resolved, e) # e.visitor
      BY <1>7, <2>2
    <3>6. old \notin filed.sessions
      BY <1>3, <1>5, <3>3, <3>4, <3>5
    <3> QED
      BY <3>1, <3>3, <3>6, Names
  <2> QED
    BY <2>1, <2>2
<1>9. CASE ~e.link
  <2>1. new = filed
    BY <1>6, <1>9
  <2>2. ASSUME NEW key \in new.sessions
        PROVE  new.filed[e.id] = key \/ \E old \in r.sessions : Successor(new, e, old) = key
    <3>1. CASE key = own
      BY <2>1, <3>1
    <3>2. CASE key \in r.sessions
      BY <3>2, <2>2 DEF Successor
    <3>3. CASE \E old \in r.sessions :
                   /\ old.scope \in Visitors /\ old \notin filed.sessions
                   /\ resolved.into[old.scope] = key.scope /\ key.ref = old.ref
      <4>1. PICK old \in r.sessions : /\ old.scope \in Visitors /\ old \notin filed.sessions
                                      /\ resolved.into[old.scope] = key.scope /\ key.ref = old.ref
        BY <3>3
      <4>2. Successor(new, e, old) = [scope |-> key.scope, ref |-> key.ref]
        BY <1>3, <1>5, <2>1, <4>1 DEF Successor
      <4>3. key \in Session
        BY <1>5, <2>1, RowsType
      <4>4. key = [scope |-> key.scope, ref |-> key.ref]
        BY <4>3 DEF Session
      <4> QED
        BY <4>2, <4>4
    <3> QED
      BY <1>8, <2>1, <3>1, <3>2, <3>3
  <2> QED
    BY <1>3, <1>5, <2>1, <2>2 DEF new
<1>10. CASE e.link
  <2> DEFINE by == CustomerOf(resolved, e)
             source == [scope |-> NoOne, ref |-> e.session]
             target == [scope |-> by, ref |-> e.session]
  <2>1. e.session \in SessionRefs /\ e.visitor \in Visitors /\ e.visitor # NoOne
    BY <1>10, EventType, Names
  <2>2. new = Claim(filed, {[ref |-> e.session, by |-> by]})
    BY <1>6, <1>10 DEF ClaimOf
  <2>11. by \in Owners /\ source = [scope |-> NoOne, ref |-> e.session]
         /\ target = [scope |-> by, ref |-> e.session]
    BY <1>2
  <2> HIDE DEF by, source, target
  <2>3. /\ new \in Rows /\ new.stored = filed.stored /\ new.into = filed.into
        /\ \A i \in Interactions : filed.filed[i] # source => new.filed[i] = filed.filed[i]
        /\ \/ new.sessions = filed.sessions
           \/ source \in filed.sessions /\ new.sessions = (filed.sessions \ {source}) \cup {target}
    BY <1>5, <2>1, <2>2, <2>11, ClaimIs
  <2>4. by # NoOne /\ (Known(e) # NoOne => by = Known(e)) /\ source # target
    BY <1>2, <2>1, <2>11 DEF by
  <2>5. CustomerOf(new, e) = by
    BY <1>3, <1>5, <2>3 DEF CustomerOf, Canonical, by
  <2>6. ASSUME NEW key \in new.sessions
        PROVE  new.filed[e.id] = key \/ \E old \in r.sessions : Successor(new, e, old) = key
    <3>1. CASE key \notin filed.sessions
      <4>1. key = target /\ source \in filed.sessions /\ source \notin new.sessions
        BY <2>3, <2>4, <2>6, <3>1
      <4>2. source.scope = NoOne /\ source.scope # target.scope
        BY <2>4, <2>11
      <4>3. source \in r.sessions
        BY <1>8, <2>1, <4>1, <4>2
      <4>4. Successor(new, e, source) = target
        BY <2>5, <2>11, <4>1, Names DEF Successor
      <4> QED
        BY <4>1, <4>3, <4>4
    <3>2. CASE key \in filed.sessions /\ key = own /\ key.scope # NoOne
      <4>1. own # source
        BY <2>11, <3>2
      <4> QED
        BY <2>3, <3>2, <4>1, EventType
    <3>3. CASE key \in r.sessions
      BY <2>6, <3>3 DEF Successor
    <3>4. CASE \E old \in r.sessions :
                   /\ old.scope \in Visitors /\ old \notin filed.sessions
                   /\ resolved.into[old.scope] = key.scope /\ key.ref = old.ref
                   /\ key.scope # NoOne
                   /\ old.scope = e.visitor /\ Known(e) \in KnownCustomers
      <4>1. PICK old \in r.sessions : /\ old.scope \in Visitors /\ old \notin filed.sessions
                                      /\ resolved.into[old.scope] = key.scope /\ key.ref = old.ref
                                      /\ old.scope = e.visitor /\ Known(e) \in KnownCustomers
        BY <3>4
      <4>2. target.scope # old.scope
        BY <2>4, <2>11, <4>1, Names
      <4>3. old \notin new.sessions
        BY <2>3, <4>1, <4>2
      <4>4. Successor(new, e, old) = [scope |-> key.scope, ref |-> key.ref]
        BY <1>3, <1>5, <2>3, <4>1, <4>3 DEF Successor
      <4>5. key \in Session
        BY <2>3, <2>6, RowsType
      <4>6. key = [scope |-> key.scope, ref |-> key.ref]
        BY <4>5 DEF Session
      <4> QED
        BY <4>1, <4>4, <4>6
    <3> QED
      BY <1>8, <2>1, <3>1, <3>2, <3>3, <3>4
  <2> QED
    BY <1>3, <1>5, <2>3, <2>6 DEF new
<1> QED
  BY <1>9, <1>10

-----------------------------------------------------------------------------
(* Types.                                                                    *)

LEMMA ReadsBegin == Init => TypeOK
<1> SUFFICES ASSUME Init PROVE TypeOK
  OBVIOUS
<1>1. NoRows \in Rows
  <2>1. [v \in Visitors |-> NoOne] \in [Visitors -> KnownCustomers \cup {NoOne}]
        /\ [u \in Users |-> NoOne] \in [Users -> Accounts \cup {NoOne}]
        /\ [i \in Interactions |-> NoOne] \in [Interactions -> Owners]
        /\ [i \in Interactions |-> NoKey] \in [Interactions -> Session \cup {NoKey}]
    BY Names
  <2> QED
    BY <2>1, RowsAre DEF NoRows
<1>2. NoRows.stored = {} /\ NoRows.sessions = {}
  BY DEF NoRows
<1>3. Reported = {}
  BY DEF Init, Reported
<1>4. 1 \in Days /\ 0 \in 0 .. MaxWrites
  BY Numbers DEF Days
<1> QED
  BY <1>1, <1>2, <1>3, <1>4 DEF Init, TypeOK, Lists

LEMMA DaysAre == Days \subseteq Int /\ Never \notin Days /\ \A d \in Days : 1 <= d /\ d <= LastDay
BY Numbers DEF Days, Never

LEMMA LastSeenIs ==
  ASSUME TypeOK, NEW e \in Event, at'[e.id] \in Days, NEW new, NEW key,
         new.filed[e.id] = key \/ \E old \in rows.sessions : Successor(new, e, old) = key
  PROVE  LastSeen(new, e, key) \in Days
<1> DEFINE before == {last[old] : old \in {k \in rows.sessions : Successor(new, e, k) = key}}
           now1 == IF new.filed[e.id] = key THEN {at'[e.id]} ELSE {Never}
           all == before \cup now1
<1>1. \A old \in rows.sessions : last[old] \in Days
  <2>1. rows.sessions \subseteq Session
    BY DEF TypeOK, Rows
  <2> QED
    BY <2>1 DEF TypeOK
<1>2. all \in SUBSET (0 .. LastDay)
  <2>1. before \subseteq Days
    BY <1>1
  <2>2. now1 \subseteq Days \cup {0}
    BY DEF Never
  <2>3. 0 \in 0 .. LastDay
    BY Numbers
  <2> QED
    BY <2>1, <2>2, <2>3, Numbers
<1>3. \E d \in all : d \in Days
  BY <1>1
<1>4. Greatest(all) \in all /\ \A y \in all : y <= Greatest(all)
  BY <1>2, <1>3, FewDays
<1>5. LastSeen(new, e, key) = Greatest(all)
  BY DEF LastSeen
<1> HIDE DEF all
<1>6. PICK g : g = Greatest(all)
  OBVIOUS
<1>7. PICK d \in all : d \in Days
  BY <1>3
<1>8. g \in 0 .. LastDay /\ d <= g
  BY <1>2, <1>4, <1>6, <1>7
<1>9. d \in Nat /\ 1 <= d
  BY <1>7, DaysAre, Numbers
<1>10. g \in 1 .. LastDay
  BY <1>8, <1>9, Numbers
<1> QED
  BY <1>5, <1>6, <1>10 DEF Days

LEMMA IngestType ==
  ASSUME TypeOK, NEW e \in Telemetry, NEW occurred \in Days, IngestTelemetry(e, occurred)
  PROVE  TypeOK'
<1>1. e \in Event /\ e.id \in Interactions
  BY ReadsAssumption, EventType
<1>2. rows \in Rows
  BY DEF TypeOK
<1>3. rows' = IngestOne(rows, e)
  BY DEF IngestTelemetry
<1>4. /\ rows' \in Rows /\ rows'.stored = rows.stored \cup {e.id}
      /\ \A key \in rows'.sessions :
            rows'.filed[e.id] = key \/ \E old \in rows.sessions : Successor(rows', e, old) = key
  BY <1>1, <1>2, <1>3, IngestOneIs
<1>5. at' \in [Interactions -> {Never} \cup Days]
      /\ \A i \in Interactions : at'[i] = Never <=> i \notin rows'.stored
  <2>1. at' = [at EXCEPT ![e.id] = IF e.id \notin rows.stored \/ e.id \in pending THEN occurred
                                   ELSE Least({at[e.id], occurred})]
    BY DEF IngestTelemetry
  <2>2. e.id \in rows.stored => Least({at[e.id], occurred}) \in Days
    <3>1. e.id \in rows.stored => at[e.id] \in Days
      BY <1>1 DEF TypeOK
    <3> QED
      BY <3>1, LeastOf, DaysAre
  <2>3. at'[e.id] \in Days /\ \A i \in Interactions \ {e.id} : at'[i] = at[i]
    BY <1>1, <2>1, <2>2 DEF TypeOK
  <2>4. at' \in [Interactions -> {Never} \cup Days]
    BY <1>1, <2>1, <2>2 DEF TypeOK
  <2>5. ASSUME NEW i \in Interactions PROVE at'[i] = Never <=> i \notin rows'.stored
    <3>1. at[i] = Never <=> i \notin rows.stored
      BY DEF TypeOK
    <3> QED
      BY <1>4, <2>3, <3>1, DaysAre
  <2> QED
    BY <2>4, <2>5
<1>6. at'[e.id] \in Days
  BY <1>1, <1>4, <1>5
<1>7. last' \in [Session -> {Never} \cup Days]
      /\ \A key \in Session : last'[key] = Never <=> key \notin rows'.sessions
  <2>1. last' = [key \in Session |-> IF key \in rows'.sessions THEN LastSeen(rows', e, key) ELSE Never]
    BY <1>3 DEF IngestTelemetry
  <2>2. \A key \in rows'.sessions : LastSeen(rows', e, key) \in Days
    BY <1>1, <1>4, <1>6, LastSeenIs
  <2> QED
    BY <2>1, <2>2, DaysAre
<1>8. seen' \in [Customers -> {Never} \cup Days]
  <2>1. PICK bumped : seen' = [c \in Customers |->
                                 IF c \in bumped THEN Greatest({seen[c], occurred}) ELSE seen[c]]
    BY DEF IngestTelemetry
  <2>2. ASSUME NEW c \in Customers PROVE Greatest({seen[c], occurred}) \in {Never} \cup Days
    <3>1. seen[c] \in {0} \cup Days
      BY DEF TypeOK, Never
    <3>2. Days \subseteq Int /\ occurred \in Days
      BY DaysAre
    <3>4. 0 \in Int
      OBVIOUS
    <3>5. seen[c] \in Int /\ occurred \in Int
      BY <3>1, <3>2, <3>4, Zenon
    <3>3. Greatest({seen[c], occurred}) \in {seen[c], occurred}
      BY <3>5, GreatestOfTwo
    <3> QED
      BY <3>1, <3>2, <3>3 DEF Never
  <2> QED
    BY <2>1, <2>2 DEF TypeOK
<1>9. reports' = reports /\ now' = now /\ list' = list /\ Reported' = Reported
  BY DEF IngestTelemetry, Reported
<1>10. confirmed' \subseteq rows'.stored
  BY <1>4 DEF IngestTelemetry, ConfirmedAfter, TypeOK
<1>11. pending' \subseteq Reported' /\ Reported' \subseteq rows'.stored
  BY <1>4, <1>9 DEF IngestTelemetry, TypeOK
<1>12. writes' \in 0 .. MaxWrites
  BY Numbers DEF IngestTelemetry, CanWrite, TypeOK
<1> QED
  BY <1>4, <1>5, <1>7, <1>8, <1>9, <1>10, <1>11, <1>12 DEF TypeOK

LEMMA SubmitType ==
  ASSUME TypeOK, NEW i \in Interactions, NEW content \in Contents, SubmitReport(i, content)
  PROVE  TypeOK'
<1>1. ReportSaying(content) \in Report /\ ReportSaying(content) # NoReport
  <2>1. content \in Content /\ now \in Days
    BY ContentsAssumption DEF TypeOK
  <2>2. ReportSaying(content) \in Report
    BY <2>1 DEF Content, Report, ReportSaying, Statuses
  <2>3. ReportSaying(content).created # NoReport.created
    BY <2>1, DaysAre DEF ReportSaying, NoReport
  <2> QED
    BY <2>2, <2>3
<1>2. reports' = [reports EXCEPT ![i] = ReportSaying(content)]
  BY DEF SubmitReport
<1>3. reports' \in [Interactions -> Report \cup {NoReport}] /\ Reported' = Reported \cup {i}
  BY <1>1, <1>2 DEF TypeOK, Reported
<1>4. seen' = seen /\ last' = last /\ now' = now /\ list' = list /\ writes' \in 0 .. MaxWrites
  BY Numbers DEF SubmitReport, CanWrite, TypeOK
<1>5. now \in Days /\ now # Never
  BY DaysAre DEF TypeOK
<1>6. CASE i \in rows.stored
  <2>1. rows' = rows /\ at' = at /\ pending' = pending /\ confirmed' = confirmed \cup {i}
    BY <1>6 DEF SubmitReport
  <2> QED
    BY <1>3, <1>4, <1>6, <2>1 DEF TypeOK
<1>7. CASE i \notin rows.stored
  <2>1. /\ rows' = [rows EXCEPT !.stored = rows.stored \cup {i}] /\ at' = [at EXCEPT ![i] = now]
        /\ pending' = pending \cup {i} /\ confirmed' = confirmed \cup {i}
    BY <1>7 DEF SubmitReport
  <2>2. rows \in Rows
    BY DEF TypeOK
  <2>3. rows' = [into |-> rows.into, parent |-> rows.parent, stored |-> rows.stored \cup {i},
                 owner |-> rows.owner, filed |-> rows.filed, sessions |-> rows.sessions]
    BY <2>1, <2>2, MoreStored
  <2>4. rows' \in Rows
    BY <2>2, <2>3, RowsType, RowsAre
  <2>5. rows'.stored = rows.stored \cup {i} /\ rows'.sessions = rows.sessions
    BY <2>3
  <2>6. at' \in [Interactions -> {Never} \cup Days]
        /\ \A j \in Interactions : at'[j] = Never <=> j \notin rows'.stored
    BY <1>5, <2>1, <2>5 DEF TypeOK
  <2>7. \A key \in Session : last'[key] = Never <=> key \notin rows'.sessions
    BY <1>4, <2>5 DEF TypeOK
  <2>8. confirmed' \subseteq rows'.stored /\ pending' \subseteq Reported'
        /\ Reported' \subseteq rows'.stored
    BY <1>3, <2>1, <2>5 DEF TypeOK
  <2> QED
    BY <1>3, <1>4, <2>4, <2>6, <2>7, <2>8 DEF TypeOK
<1> QED
  BY <1>6, <1>7

LEMMA WorkflowType ==
  ASSUME TypeOK, NEW i \in Interactions, NEW status \in Statuses, UpdateWorkflow(i, status)
  PROVE  TypeOK'
<1>1. i \in Interactions /\ reports[i] \in Report /\ i \in Reported
  BY DEF UpdateWorkflow, ReportFound, TypeOK, Reported
<1> DEFINE report == [reports[i] EXCEPT !.status = status]
<1>2. report \in Report /\ report # NoReport
  <2>1. report \in Report
    BY <1>1 DEF Report
  <2>2. report.created \in Days /\ NoReport.created = Never
    BY <2>1 DEF Report, NoReport
  <2> QED
    BY <2>1, <2>2, DaysAre
<1>3. reports' = [reports EXCEPT ![i] = report]
  BY DEF UpdateWorkflow
<1> HIDE DEF report
<1>4. reports' \in [Interactions -> Report \cup {NoReport}] /\ Reported' = Reported
  BY <1>1, <1>2, <1>3 DEF TypeOK, Reported
<1>5. writes' \in 0 .. MaxWrites
  BY Numbers DEF UpdateWorkflow, CanWrite, TypeOK
<1>6. UNCHANGED <<rows, at, seen, last, pending, confirmed, now, list>>
  BY DEF UpdateWorkflow, walk
<1> QED
  BY <1>4, <1>5, <1>6 DEF TypeOK

LEMMA PurgeInteractionsType ==
  ASSUME TypeOK, PurgeInteractions
  PROVE  TypeOK'
<1> DEFINE doomed == {i \in rows.stored : at[i] < RetainedSince}
           stored == rows.stored \ doomed
           owner == [i \in Interactions |-> IF i \in doomed THEN NoOne ELSE rows.owner[i]]
           filed == [i \in Interactions |-> IF i \in doomed THEN NoKey ELSE rows.filed[i]]
<1>1. /\ rows' = [rows EXCEPT !.stored = stored, !.owner = owner, !.filed = filed]
      /\ at' = [i \in Interactions |-> IF i \in doomed THEN Never ELSE at[i]]
      /\ reports' = [i \in Interactions |-> IF i \in doomed THEN NoReport ELSE reports[i]]
      /\ pending' = pending \ doomed /\ confirmed' = confirmed \ doomed
      /\ UNCHANGED <<seen, last, writes, now, list>>
  BY Zenon DEF PurgeInteractions, walk
<1>2. owner \in [Interactions -> Owners] /\ filed \in [Interactions -> Session \cup {NoKey}]
      /\ stored \in SUBSET Interactions
  BY RowsType, Names DEF TypeOK
<1> HIDE DEF doomed, stored, owner, filed
<1>3. rows' = [into |-> rows.into, parent |-> rows.parent, stored |-> stored,
               owner |-> owner, filed |-> filed, sessions |-> rows.sessions]
  BY <1>1, FewerStored DEF TypeOK
<1>4. rows' \in Rows
  BY <1>2, <1>3, RowsType, RowsAre DEF TypeOK
<1>5. rows'.stored = rows.stored \ doomed /\ rows'.sessions = rows.sessions
  BY <1>3 DEF stored
<1>6. at' \in [Interactions -> {Never} \cup Days]
      /\ \A i \in Interactions : at'[i] = Never <=> i \notin rows'.stored
  BY <1>1, <1>5 DEF TypeOK
<1>7. reports' \in [Interactions -> Report \cup {NoReport}] /\ Reported' = Reported \ doomed
  BY <1>1 DEF TypeOK, Reported
<1> QED
  BY <1>1, <1>4, <1>5, <1>6, <1>7 DEF TypeOK

LEMMA PurgeSessionsType ==
  ASSUME TypeOK, PurgeSessions
  PROVE  TypeOK'
<1> DEFINE doomed == {key \in rows.sessions : \A i \in Interactions : rows.filed[i] # key}
<1>1. /\ rows' = [rows EXCEPT !.sessions = rows.sessions \ doomed]
      /\ last' = [key \in Session |-> IF key \in doomed THEN Never ELSE last[key]]
      /\ UNCHANGED <<at, seen, pending, confirmed, reports, writes, now, list>>
  BY DEF PurgeSessions, walk
<1> HIDE DEF doomed
<1>2. rows' = [into |-> rows.into, parent |-> rows.parent, stored |-> rows.stored,
               owner |-> rows.owner, filed |-> rows.filed, sessions |-> rows.sessions \ doomed]
  BY <1>1, FewerSessions DEF TypeOK
<1>3. rows.sessions \ doomed \in SUBSET Session
  BY RowsType DEF TypeOK
<1>4. rows' \in Rows
  BY <1>2, <1>3, RowsType, RowsAre DEF TypeOK
<1>5. rows'.stored = rows.stored /\ rows'.sessions = rows.sessions \ doomed
  BY <1>2
<1>6. last' \in [Session -> {Never} \cup Days]
      /\ \A key \in Session : last'[key] = Never <=> key \notin rows'.sessions
  BY <1>1, <1>5 DEF TypeOK
<1>7. Reported' = Reported
  BY <1>1 DEF Reported
<1> QED
  BY <1>1, <1>4, <1>5, <1>6, <1>7 DEF TypeOK

LEMMA PurgeCustomersType ==
  ASSUME TypeOK, PurgeCustomers
  PROVE  TypeOK'
<1>1. PICK doomed : seen' = [c \in Customers |-> IF c \in doomed THEN Never ELSE seen[c]]
  BY DEF PurgeCustomers
<1>2. seen' \in [Customers -> {Never} \cup Days]
  BY <1>1 DEF TypeOK
<1>3. UNCHANGED <<rows, at, last, pending, confirmed, reports, writes, now, list>>
  BY DEF PurgeCustomers, walk
<1>4. Reported' = Reported
  BY <1>3 DEF Reported
<1> QED
  BY <1>2, <1>3, <1>4 DEF TypeOK

(* Nothing of the types changes but the day or the list.                     *)
LEMMA RestTypes ==
  ASSUME TypeOK, UNCHANGED data, now' \in Days, list' \in Lists
  PROVE  TypeOK'
<1>1. UNCHANGED <<rows, at, seen, last, pending, confirmed, reports, writes>>
  BY DEF data
<1>2. Reported' = Reported
  BY <1>1 DEF Reported
<1> QED
  BY <1>1, <1>2 DEF TypeOK

LEMMA ReadsTypeStep == TypeOK /\ [Next]_vars => TypeOK'
<1> SUFFICES ASSUME TypeOK, [Next]_vars PROVE TypeOK'
  OBVIOUS
<1>1. ASSUME NEW e \in Telemetry, NEW occurred \in {now, now - 1} \cap Days,
             IngestTelemetry(e, occurred)
      PROVE  TypeOK'
  BY <1>1, IngestType
<1>2. ASSUME NEW i \in Interactions, NEW content \in Contents, SubmitReport(i, content)
      PROVE  TypeOK'
  BY <1>2, SubmitType
<1>3. ASSUME NEW i \in Interactions, NEW status \in Statuses, UpdateWorkflow(i, status)
      PROVE  TypeOK'
  BY <1>3, WorkflowType
<1>4. CASE PurgeInteractions
  BY <1>4, PurgeInteractionsType
<1>5. CASE PurgeSessions
  BY <1>5, PurgeSessionsType
<1>6. CASE PurgeCustomers
  BY <1>6, PurgeCustomersType
<1>7. CASE DayPasses
  <2>1. now' \in Days /\ UNCHANGED data /\ list' = list
    BY <1>7, Numbers DEF DayPasses, TypeOK, Days
  <2> QED
    BY <2>1, RestTypes DEF TypeOK
<1>8. ASSUME NEW l \in Lists, Begin(l) PROVE TypeOK'
  BY <1>8, RestTypes DEF Begin, TypeOK
<1>9. CASE ReadPage
  BY <1>9, RestTypes DEF ReadPage, TypeOK
<1>10. CASE UNCHANGED vars
  BY <1>10, RestTypes DEF vars, TypeOK
<1> QED
  BY <1>1, <1>2, <1>3, <1>4, <1>5, <1>6, <1>7, <1>8, <1>9, <1>10 DEF Next, Write, Read

-----------------------------------------------------------------------------
(* Traversals.                                                               *)

(* While a list is traversed, what has stayed is still listed, and was        *)
(* returned exactly if the cursor has passed it.                             *)
WalkInv ==
    /\ TypeOK
    /\ phase \in {"idle", "start", "more", "done", "refused"}
    /\ phase \in {"idle", "start"} => got = {}
    /\ phase \in {"start", "more"} => steady \subseteq Entries(list)
    /\ phase = "more" => /\ cursor \in Place
                         /\ \A x \in steady : x \in got <=> ~Behind(x, cursor)
    /\ phase = "done" => steady \subseteq got

LEMMA RestIs ==
  ASSUME WalkInv, phase \in {"start", "more"}
  PROVE  /\ Rest \in SUBSET Place /\ IsFiniteSet(Rest) /\ Rest \subseteq Entries(list)
         /\ \A x \in Rest \ Page, y \in Page : Behind(x, y)
         /\ Cardinality(Rest) <= PageSize => Page = Rest
         /\ Cardinality(Rest) > PageSize =>
               NextCursor \in Page /\ \A y \in Page : NextCursor = y \/ Behind(NextCursor, y)
         /\ Cardinality(Rest) \in Nat /\ Page \subseteq Rest
<1>1. Entries(list) \in SUBSET Places
  BY EntriesPlaced DEF WalkInv, TypeOK
<1>2. Rest \subseteq Entries(list)
  BY DEF Rest
<1>3. Rest \in SUBSET Places /\ Rest \in SUBSET Place
  BY <1>1, <1>2, FewPlaces
<1>4. IsFiniteSet(Rest)
  BY <1>3, FewPlaces, FS_Subset
<1>5. Page \subseteq Rest
  BY DEF Page
<1>6. Cardinality(Rest) \in Nat
  BY <1>4, FS_CardinalityType
<1> QED
  BY <1>2, <1>3, <1>4, <1>5, <1>6, PageIs, Numbers

(* What has stayed after a step of anything but the traversal.               *)
LEMMA StaysListed ==
  ASSUME WalkInv, TypeOK', Follow, UNCHANGED <<walk, list>>
  PROVE  WalkInv'
<1>1. phase' = phase /\ cursor' = cursor /\ got' = got /\ list' = list
  BY DEF walk
<1>2. CASE phase = "idle"
  BY <1>1, <1>2 DEF WalkInv
<1>3. CASE phase # "idle"
  <2>1. steady' = steady \cap Entries(list)'
    BY <1>1, <1>3 DEF Follow
  <2> QED
    BY <1>1, <1>3, <2>1 DEF WalkInv, Behind
<1> QED
  BY <1>2, <1>3

LEMMA BeginWalks ==
  ASSUME WalkInv, TypeOK', Follow, NEW l \in Lists, Begin(l)
  PROVE  WalkInv'
<1>1. phase = "idle" /\ phase' = "start" /\ got' = got /\ steady' = Entries(list)'
  BY DEF Begin, Follow
<1> QED
  BY <1>1 DEF WalkInv

LEMMA ReadPageWalks ==
  ASSUME WalkInv, TypeOK', Follow, ReadPage
  PROVE  WalkInv'
<1>1. phase \in {"start", "more"}
  BY DEF ReadPage
<1>2. /\ phase' \in {"more", "done", "refused"} /\ steady \subseteq Entries(list)
      /\ steady' \subseteq steady /\ steady' \subseteq Entries(list)'
  <2>1. phase' \in {"more", "done", "refused"}
    BY DEF ReadPage
  <2>2. steady' = steady \cap Entries(list)'
    BY <1>1, <2>1 DEF Follow
  <2> QED
    BY <1>1, <2>1, <2>2 DEF WalkInv
<1>3. ASSUME NEW x \in steady
      PROVE  /\ x \in Place
             /\ phase = "start" => x \in Rest /\ x \notin got
             /\ phase = "more" => (x \in Rest <=> x \notin got) /\ (x \in Rest <=> Behind(x, cursor))
  <2>1. x \in Entries(list)
    BY <1>2
  <2>2. x \in Place
    BY <2>1, EntriesPlaced, FewPlaces DEF WalkInv, TypeOK
  <2> QED
    BY <2>1, <2>2 DEF WalkInv, Rest
<1>4. CASE phase' = "refused"
  BY <1>2, <1>4 DEF WalkInv
<1>5. CASE phase' = "done"
  <2>1. got' = got \cup Page /\ ~(Cardinality(Rest) > PageSize)
    BY <1>5 DEF ReadPage
  <2>2. Page = Rest
    BY <1>1, <2>1, RestIs, Numbers
  <2> QED
    BY <1>1, <1>2, <1>3, <1>5, <2>1, <2>2 DEF WalkInv
<1>6. CASE phase' = "more"
  <2>1. got' = got \cup Page /\ Cardinality(Rest) > PageSize /\ cursor' = NextCursor
    BY <1>6 DEF ReadPage
  <2>2. /\ cursor' \in Page /\ cursor' \in Place /\ Page \subseteq Rest
        /\ \A y \in Page : cursor' = y \/ Behind(cursor', y)
        /\ \A x \in Rest \ Page : Behind(x, cursor')
    BY <1>1, <2>1, RestIs
  <2>3. phase = "more" => Behind(cursor', cursor) /\ cursor \in Place
    BY <2>2 DEF Rest, WalkInv
  <2>4. ASSUME NEW x \in steady PROVE x \in got' <=> ~Behind(x, cursor')
    <3>1. CASE x \in Page
      <4>1. ~Behind(x, cursor')
        BY <1>3, <2>2, <3>1, BehindOrders
      <4> QED
        BY <2>1, <3>1, <4>1
    <3>2. CASE x \in Rest \ Page
      BY <1>1, <1>3, <2>1, <2>2, <3>2
    <3>3. CASE x \notin Rest
      <4>1. phase = "more" /\ x \in got /\ ~Behind(x, cursor)
        BY <1>1, <1>3, <3>3
      <4>2. ~Behind(x, cursor')
        BY <1>3, <2>2, <2>3, <4>1, BehindOrders
      <4> QED
        BY <2>1, <4>1, <4>2
    <3> QED
      BY <3>1, <3>2, <3>3
  <2>5. \A x \in steady' : x \in got' <=> ~Behind(x, cursor)'
    BY <1>2, <2>4 DEF Behind
  <2> QED
    BY <1>1, <1>2, <1>6, <2>2, <2>5 DEF WalkInv
<1> QED
  BY <1>2, <1>4, <1>5, <1>6

LEMMA SameEntries ==
  ASSUME UNCHANGED <<rows, at, seen, last, reports, now, list>>
  PROVE  Entries(list)' = Entries(list)
<1>1. /\ rows' = rows /\ at' = at /\ seen' = seen /\ last' = last /\ reports' = reports
      /\ now' = now /\ list' = list
  OBVIOUS
<1>2. RetainedSince' = RetainedSince /\ Reported' = Reported
  BY <1>1 DEF RetainedSince, Reported
<1>3. ReportsList' = ReportsList
  BY <1>1, <1>2 DEF ReportsList, ReportInWindow
<1>4. OpenReportsList' = OpenReportsList
  BY <1>1, <1>3 DEF OpenReportsList
<1>5. McpReportsList' = McpReportsList /\ InteractionsList' = InteractionsList
  BY <1>1, <1>2 DEF McpReportsList, InteractionsList
<1>6. SessionsList' = SessionsList
  BY <1>1, <1>2 DEF SessionsList, ListedSessions
<1>7. CustomersList' = CustomersList
  BY <1>1, <1>2 DEF CustomersList, VisibleCustomers, Hidden, LastActivity, Activity
<1>8. RetainedSignals' = RetainedSignals
  BY <1>1, <1>2 DEF RetainedSignals, Signals
<1>9. SignalsList' = SignalsList /\ FeaturesList' = FeaturesList
  BY <1>8 DEF SignalsList, FeaturesList, FeatureEntry, Features, Findings
<1> QED
  BY <1>1, <1>3, <1>4, <1>5, <1>6, <1>7, <1>9 DEF Entries

LEMMA WalkBegins == Init => WalkInv
BY ReadsBegin DEF Init, WalkInv

LEMMA WalkStep == WalkInv /\ [Next]_vars => WalkInv'
<1> SUFFICES ASSUME WalkInv, [Next]_vars PROVE WalkInv'
  OBVIOUS
<1>1. TypeOK'
  BY ReadsTypeStep DEF WalkInv
<1>2. CASE Write /\ Follow
  <2>1. UNCHANGED <<walk, list>>
    BY <1>2 DEF Write, IngestTelemetry, SubmitReport, UpdateWorkflow, PurgeInteractions,
                PurgeSessions, PurgeCustomers, DayPasses
  <2> QED
    BY <1>1, <1>2, <2>1, StaysListed
<1>3. CASE (\E l \in Lists : Begin(l)) /\ Follow
  BY <1>1, <1>3, BeginWalks
<1>4. CASE ReadPage /\ Follow
  BY <1>1, <1>4, ReadPageWalks
<1>5. CASE UNCHANGED vars
  <2>1. UNCHANGED <<rows, at, seen, last, pending, confirmed, reports, writes, now, list, walk, steady>>
        /\ phase' = phase /\ got' = got /\ cursor' = cursor
    BY <1>5 DEF vars, data, walk
  <2>2. Entries(list)' = Entries(list)
    BY <2>1, SameEntries
  <2> QED
    BY <1>1, <2>1, <2>2 DEF WalkInv, Behind
<1> QED
  BY <1>2, <1>3, <1>4, <1>5 DEF Next, Read

(* Whatever is written between two pages, a traversal returns each entry     *)
(* that stays where it is, and no entry before its turn.                     *)
THEOREM WalksAreExact == Spec => []WalkIsExact
<1>1. WalkInv => WalkIsExact
  BY DEF WalkInv, WalkIsExact
<1> QED
  BY WalkBegins, WalkStep, <1>1, PTL DEF Spec

(* The rows, and what a traversal keeps, have their types.                   *)
THEOREM ReadsTyped == Spec => []TypeOK
<1>1. WalkInv => TypeOK
  BY DEF WalkInv
<1> QED
  BY WalkBegins, WalkStep, <1>1, PTL DEF Spec

-----------------------------------------------------------------------------
(* Pages of what is listed.                                                  *)

LEMMA FeaturesOpen ==
  ASSUME TypeOK, NEW topic \in Features({}),
         \A u \in Topics \ {topic} : <<topic, u>> \notin Resembles,
         \A s \in Findings(topic, {}) : SignalOwner(s) \in {NoOne} \cup VisibleCustomers
  PROVE  FeatureOpens(topic)
<1> DEFINE found == {FeatureEntry(t) : t \in {u \in Features({}) : <<topic, u>> \in Resembles}}
           newer(x) == {y \in found : y.time > x.time \/ (y.time = x.time /\ y.id > x.id)}
           x == FeatureEntry(topic)
<1>1. topic \in Topics /\ <<topic, topic>> \in Resembles /\ Features({}) \subseteq Topics
  BY ReadsAssumption DEF Features
<1>2. found = {x}
  BY <1>1
<1>3. x \in Place /\ x.id = topic
  BY FeaturePlaces, FewPlaces DEF FeatureEntry, Entry
<1>4. x.time \in Int /\ x.id \in Int
  BY <1>3 DEF Place
<1> HIDE DEF x
<1>5. newer(x) = {}
  <2>1. ~(x.time > x.time \/ (x.time = x.time /\ x.id > x.id))
    BY <1>4
  <2> HIDE DEF found
  <2> QED
    BY <1>2, <2>1
<1>6. Cardinality(newer(x)) < FeatureScan
  <2> HIDE DEF newer
  <2>1. Cardinality(newer(x)) = 0
    BY <1>5, FS_EmptySet, Zenon
  <2>2. FeatureScan \in Nat \ {0}
    BY Numbers
  <2> QED
    BY <2>1, <2>2
<1>7. \E y \in found : y.id = topic /\ Cardinality(newer(y)) < FeatureScan
  BY <1>2, <1>3, <1>6
<1>8. \A s \in Findings(topic, {}) : SignalOwner(s) # NoOne => CustomerFound(SignalOwner(s))
  BY DEF VisibleCustomers, CustomerFound
<1> QED
  BY <1>7, <1>8 DEF FeatureOpens

LEMMA Opens == TypeOK => ListedThenOpens
<1> SUFFICES ASSUME TypeOK PROVE ListedThenOpens
  OBVIOUS
<1>1. \A y \in ReportsList : ReportFound(y.id)
  BY DEF ReportsList, ReportInWindow, ReportFound, Entry
<1>2. \A y \in McpReportsList : ReportFound(y.id)
  BY DEF McpReportsList, ReportFound, Entry
<1>3. \A y \in InteractionsList : InteractionOpens(y.id)
  BY DEF InteractionsList, InteractionOpens, InteractionFound, ReportFound, Entry
<1>4. \A key \in ListedSessions : SessionFound(key)
  BY DEF ListedSessions, SessionFound
<1>5. \A c \in VisibleCustomers : CustomerFound(c)
  BY DEF VisibleCustomers, CustomerFound
<1> QED
  BY <1>1, <1>2, <1>3, <1>4, <1>5, FeaturesOpen DEF ListedThenOpens, Entries

(* Whatever a list shows has a page.                                         *)
THEOREM ListedOpens == Spec => []ListedThenOpens
<1>1. WalkInv => ListedThenOpens
  BY Opens DEF WalkInv
<1> QED
  BY WalkBegins, WalkStep, <1>1, PTL DEF Spec

-----------------------------------------------------------------------------
(* Rows that fit each other.                                                 *)

(* Nothing belongs to a visitor that turned out to be somebody.              *)
Merged(r) == \A i \in Interactions : r.owner[i] \in Visitors => r.into[r.owner[i]] = NoOne

(* The customers an event is of.                                             *)
Bumped(r, e) ==
    {e.user, e.account, IF e.visitor = NoOne THEN NoOne ELSE Canonical(r, e.visitor)}

LEMMA SessionParts ==
  ASSUME NEW key \in Session
  PROVE  /\ key.ref \in SessionRefs /\ key.scope \in Owners /\ key # NoKey
         /\ key = [scope |-> key.scope, ref |-> key.ref]
<1>1. key.ref \in SessionRefs /\ key.scope \in Owners
      /\ key = [scope |-> key.scope, ref |-> key.ref]
  BY DEF Session
<1>2. NoKey.ref = NoSession /\ NoSession \notin SessionRefs
  BY IdentityAssumption DEF NoKey
<1> QED
  BY <1>1, <1>2

(* Resolving moves sessions and owners of one visitor together.              *)
LEMMA ResolveFits ==
  ASSUME NEW r \in Rows, NEW e \in Event, Filed(r), Merged(r), NEW x, x = Resolve(r, e)
  PROVE  /\ x \in Rows /\ Filed(x) /\ Merged(x)
         /\ Known(e) = NoOne => x.into = r.into
         /\ \A i \in Interactions : x.owner[i] = r.owner[i] \/ x.owner[i] = Known(e)
         /\ \A i \in Interactions :
               /\ x.filed[i] # NoKey => r.filed[i] # NoKey
               /\ \/ x.filed[i] = r.filed[i]
                  \/ /\ e.visitor \in Visitors /\ r.filed[i].scope = e.visitor
                     /\ x.filed[i] = [scope |-> Known(e), ref |-> r.filed[i].ref]
                     /\ Known(e) \in KnownCustomers /\ x.into[e.visitor] = Known(e)
                     /\ \A key \in x.sessions : key.scope # e.visitor
                     /\ \A j \in Interactions : x.owner[j] # e.visitor
<1>0. \/ x.sessions = r.sessions /\ x.filed = r.filed /\ x.owner = r.owner /\ x.into = r.into
      \/ /\ e.visitor \in Visitors /\ Known(e) \in KnownCustomers
         /\ x.into = [r.into EXCEPT ![e.visitor] = Known(e)] /\ x.into[e.visitor] = Known(e)
         /\ x.sessions = {MovedKey(key, e.visitor, Known(e)) : key \in r.sessions}
         /\ \A i \in Interactions :
               /\ x.owner[i] = IF r.owner[i] = e.visitor THEN Known(e) ELSE r.owner[i]
               /\ x.owner[i] # e.visitor
               /\ x.filed[i] = MovedKey(r.filed[i], e.visitor, Known(e))
  BY ResolveIs
<1>1. x \in Rows
  BY ResolveIs
<1>2. CASE x.sessions = r.sessions /\ x.filed = r.filed /\ x.owner = r.owner /\ x.into = r.into
  BY <1>1, <1>2 DEF Filed, Merged
<1>3. CASE ~(x.sessions = r.sessions /\ x.filed = r.filed /\ x.owner = r.owner /\ x.into = r.into)
  <2>1. /\ e.visitor \in Visitors /\ Known(e) \in KnownCustomers
        /\ x.into = [r.into EXCEPT ![e.visitor] = Known(e)] /\ x.into[e.visitor] = Known(e)
        /\ x.sessions = {MovedKey(key, e.visitor, Known(e)) : key \in r.sessions}
        /\ \A i \in Interactions :
              /\ x.owner[i] = IF r.owner[i] = e.visitor THEN Known(e) ELSE r.owner[i]
              /\ x.owner[i] # e.visitor
              /\ x.filed[i] = MovedKey(r.filed[i], e.visitor, Known(e))
    BY <1>0, <1>3
  <2>2. e.visitor # NoOne /\ Known(e) # NoOne /\ Known(e) # e.visitor /\ Known(e) \notin Visitors
    BY <2>1, Names
  <2>3. \A key \in r.sessions : MovedKey(key, e.visitor, Known(e)).scope # e.visitor
    BY <2>2 DEF MovedKey
  <2>4. \A key \in x.sessions : key.scope # e.visitor
    BY <2>1, <2>3
  <2>5. ASSUME NEW i \in Interactions
        PROVE  /\ x.filed[i] # NoKey => /\ r.filed[i] # NoKey
                                        /\ x.filed[i] \in x.sessions
                                        /\ x.filed[i].scope = x.owner[i]
               /\ \/ x.filed[i] = r.filed[i]
                  \/ /\ r.filed[i].scope = e.visitor
                     /\ x.filed[i] = [scope |-> Known(e), ref |-> r.filed[i].ref]
    <3>1. CASE r.filed[i] = NoKey
      <4>1. NoKey.scope # e.visitor
        BY <2>2 DEF NoKey
      <4>2. x.filed[i] = NoKey
        BY <2>1, <3>1, <4>1 DEF MovedKey
      <4> QED
        BY <3>1, <4>2
    <3>2. CASE r.filed[i] # NoKey
      <4>1. r.filed[i] \in r.sessions /\ r.filed[i].scope = r.owner[i]
        BY <3>2 DEF Filed
      <4>2. x.filed[i] = MovedKey(r.filed[i], e.visitor, Known(e)) /\ x.filed[i] \in x.sessions
        BY <2>1, <4>1
      <4>3. x.owner[i] = IF r.owner[i] = e.visitor THEN Known(e) ELSE r.owner[i]
        BY <2>1
      <4> QED
        BY <3>2, <4>1, <4>2, <4>3 DEF MovedKey
    <3> QED
      BY <3>1, <3>2
  <2>6. Merged(x)
    <3>1. ASSUME NEW i \in Interactions, x.owner[i] \in Visitors PROVE x.into[x.owner[i]] = NoOne
      <4>1. x.owner[i] = r.owner[i] /\ x.owner[i] # e.visitor
        BY <2>1, <2>2, <3>1
      <4>2. r.into[r.owner[i]] = NoOne
        BY <3>1, <4>1 DEF Merged
      <4> QED
        BY <2>1, <3>1, <4>1, <4>2, RowsType
    <3> QED
      BY <3>1 DEF Merged
  <2>7. Filed(x)
    BY <2>5 DEF Filed
  <2> QED
    BY <1>1, <2>1, <2>2, <2>4, <2>5, <2>6, <2>7
<1> QED
  BY <1>2, <1>3

(* The customer of an event is one it names, and nobody that was merged.     *)
LEMMA CustomerFits ==
  ASSUME NEW r \in Rows, NEW e \in Event, NEW x \in Rows, Known(e) = NoOne => x.into = r.into
  PROVE  /\ CustomerOf(x, e) \in Owners
         /\ CustomerOf(x, e) # NoOne => CustomerOf(x, e) \in Bumped(r, e)
         /\ CustomerOf(x, e) \in Visitors => x.into[CustomerOf(x, e)] = NoOne
         /\ Known(e) # NoOne => CustomerOf(x, e) = Known(e)
         /\ e.visitor # NoOne => CustomerOf(x, e) # NoOne
<1>1. CASE Known(e) # NoOne
  <2>1. CustomerOf(x, e) = Known(e) /\ Known(e) \in {e.user, e.account}
    BY <1>1 DEF CustomerOf, Known
  <2>2. Known(e) \notin Visitors
    BY <2>1, EventType, Names
  <2> QED
    BY <1>1, <2>1, <2>2, CustomerOfType DEF Bumped
<1>2. CASE Known(e) = NoOne /\ e.visitor # NoOne
  <2>1. CustomerOf(x, e) = Canonical(r, e.visitor) /\ x.into = r.into /\ e.visitor \in Visitors
    BY <1>2, EventType DEF CustomerOf, Canonical
  <2>2. r.into[e.visitor] \in KnownCustomers \cup {NoOne}
    BY <2>1, RowsType
  <2>3. CustomerOf(x, e) \in Visitors => x.into[CustomerOf(x, e)] = NoOne
    BY <2>1, <2>2, Names DEF Canonical
  <2> QED
    BY <1>2, <2>1, <2>3, CustomerOfType DEF Bumped
<1>3. CASE Known(e) = NoOne /\ e.visitor = NoOne
  <2>1. CustomerOf(x, e) = NoOne
    BY <1>3 DEF CustomerOf
  <2> QED
    BY <1>3, <2>1, Names, CustomerOfType
<1> QED
  BY <1>1, <1>2, <1>3

(* The interaction of an event is filed under its customer as of then.       *)
LEMMA FileFits ==
  ASSUME NEW x \in Rows, NEW e \in Event, Filed(x), Merged(x), NEW s, s = Store(x, e),
         NEW y, y = FileUnder(s, e.id, SessionRefOf(s, e)),
         CustomerOf(x, e) \in Visitors => x.into[CustomerOf(x, e)] = NoOne
  PROVE  /\ y \in Rows /\ y.into = x.into /\ Filed(y) /\ Merged(y)
         /\ y.stored = x.stored \cup {e.id}
         /\ \A i \in Interactions \ {e.id} : y.filed[i] = x.filed[i] /\ y.owner[i] = x.owner[i]
         /\ y.owner[e.id] = OwnerOf(x, e)
         /\ x.sessions \subseteq y.sessions
         /\ \A key \in y.sessions : key \in x.sessions \/ key.scope = OwnerOf(x, e)
<1> DEFINE ref == SessionRefOf(s, e)
<1>1. /\ s \in Rows /\ s.stored = x.stored \cup {e.id} /\ s.into = x.into
      /\ s.sessions = x.sessions /\ s.owner[e.id] = OwnerOf(x, e) /\ s.filed = x.filed
      /\ \A i \in Interactions \ {e.id} : s.owner[i] = x.owner[i]
  BY StoreIs
<1>2. e.id \in Interactions
  BY EventType
<1>3. ref \in SessionRefs \cup {NoSession} /\ (ref = NoSession => s.filed[e.id] = NoKey)
  <2>1. e.session \in SessionRefs \cup {NoSession}
    BY EventType
  <2>2. s.filed[e.id] \in Session \cup {NoKey}
    BY <1>1, <1>2, RowsType
  <2>3. s.filed[e.id] # NoKey => s.filed[e.id].ref \in SessionRefs
    BY <2>2, SessionParts
  <2> QED
    BY <2>1, <2>3, IdentityAssumption DEF SessionRefOf
<1>4. y = FileUnder(s, e.id, ref)
  OBVIOUS
<1> HIDE DEF ref
<1>5. /\ y \in Rows /\ y.stored = s.stored /\ y.into = s.into /\ y.owner = s.owner
      /\ \A j \in Interactions \ {e.id} : y.filed[j] = s.filed[j]
      /\ \/ y.sessions = s.sessions /\ ref = NoSession /\ y.filed = s.filed
         \/ /\ y.filed[e.id].scope = s.owner[e.id]
            /\ y.sessions = s.sessions \cup {y.filed[e.id]}
  BY <1>1, <1>2, <1>3, <1>4, FileUnderIs
<1>6. ASSUME NEW i \in Interactions, y.filed[i] # NoKey
      PROVE  y.filed[i] \in y.sessions /\ y.filed[i].scope = y.owner[i]
  <2>1. CASE i = e.id
    BY <1>3, <1>5, <1>6, <2>1
  <2>2. CASE i # e.id
    <3>1. y.filed[i] = x.filed[i] /\ y.owner[i] = x.owner[i]
      BY <1>1, <1>5, <2>2
    <3>2. x.filed[i] \in x.sessions /\ x.filed[i].scope = x.owner[i]
      BY <1>6, <3>1 DEF Filed
    <3> QED
      BY <1>1, <1>5, <3>1, <3>2
  <2> QED
    BY <2>1, <2>2
<1>7. ASSUME NEW i \in Interactions, y.owner[i] \in Visitors PROVE y.into[y.owner[i]] = NoOne
  <2>1. y.owner[i] = x.owner[i] \/ y.owner[i] = CustomerOf(x, e)
    BY <1>1, <1>5 DEF OwnerOf
  <2> QED
    BY <1>1, <1>5, <1>7, <2>1 DEF Merged
<1>8. Filed(y) /\ Merged(y)
  BY <1>6, <1>7 DEF Filed, Merged
<1> QED
  BY <1>1, <1>5, <1>8

(* A claim moves the unowned activity of one session to one customer.        *)
LEMMA ClaimFits ==
  ASSUME NEW y \in Rows, NEW ref \in SessionRefs, NEW by \in Owners, by # NoOne,
         Filed(y), Merged(y), by \in Visitors => y.into[by] = NoOne,
         NEW z, z = Claim(y, {[ref |-> ref, by |-> by]})
  PROVE  /\ z \in Rows /\ z.into = y.into /\ Filed(z) /\ Merged(z) /\ z.stored = y.stored
         /\ \A key \in z.sessions : key \in y.sessions \/ key.scope = by
         /\ \A i \in Interactions :
               /\ z.owner[i] = y.owner[i] \/ z.owner[i] = by
               /\ \/ z.filed[i] = y.filed[i]
                  \/ /\ y.filed[i] = [scope |-> NoOne, ref |-> ref]
                     /\ z.filed[i] = [scope |-> by, ref |-> ref]
                     /\ y.filed[i] \notin z.sessions
<1>1. PICK source : source = [scope |-> NoOne, ref |-> ref]
  OBVIOUS
<1>2. PICK target : target = [scope |-> by, ref |-> ref]
  OBVIOUS
<1>3. /\ z \in Rows /\ z.stored = y.stored /\ z.into = y.into
      /\ \A i \in Interactions :
            y.filed[i] # source => z.filed[i] = y.filed[i] /\ z.owner[i] = y.owner[i]
      /\ \/ z = y /\ source \notin y.sessions
         \/ /\ source \in y.sessions /\ z.sessions = (y.sessions \ {source}) \cup {target}
            /\ \A i \in Interactions :
                  y.filed[i] = source /\ y.owner[i] = NoOne =>
                     z.filed[i] = target /\ z.owner[i] = by
  BY <1>1, <1>2, ClaimIs
<1>4. source.scope = NoOne /\ target.scope = by /\ source # target /\ source # NoKey
  <2>1. source.ref = ref /\ NoKey.ref = NoSession
    BY <1>1 DEF NoKey
  <2>2. source.scope = NoOne /\ target.scope = by
    BY <1>1, <1>2
  <2> QED
    BY <2>1, <2>2, IdentityAssumption
<1>5. CASE z = y
  BY <1>3, <1>5 DEF Filed, Merged
<1>6. CASE z # y
  <2>1. /\ z.sessions = (y.sessions \ {source}) \cup {target}
        /\ \A i \in Interactions :
              y.filed[i] = source /\ y.owner[i] = NoOne => z.filed[i] = target /\ z.owner[i] = by
    BY <1>3, <1>6
  <2>2. ASSUME NEW i \in Interactions
        PROVE  \/ z.filed[i] = y.filed[i] /\ z.owner[i] = y.owner[i] /\ y.filed[i] # source
               \/ y.filed[i] = source /\ z.filed[i] = target /\ z.owner[i] = by
    <3>1. CASE y.filed[i] = source
      <4>1. y.owner[i] = NoOne
        BY <1>4, <3>1 DEF Filed
      <4> QED
        BY <2>1, <3>1, <4>1
    <3>2. CASE y.filed[i] # source
      BY <1>3, <3>2
    <3> QED
      BY <3>1, <3>2
  <2>3. source \notin z.sessions /\ target \in z.sessions
    BY <1>4, <2>1
  <2>4. Filed(z)
    <3>1. ASSUME NEW i \in Interactions, z.filed[i] # NoKey
          PROVE  z.filed[i] \in z.sessions /\ z.filed[i].scope = z.owner[i]
      <4>1. CASE z.filed[i] = y.filed[i] /\ z.owner[i] = y.owner[i] /\ y.filed[i] # source
        BY <2>1, <3>1, <4>1 DEF Filed
      <4>2. CASE z.filed[i] = target /\ z.owner[i] = by
        BY <1>4, <2>3, <4>2
      <4> QED
        BY <2>2, <4>1, <4>2
    <3> QED
      BY <3>1 DEF Filed
  <2>5. Merged(z)
    <3>1. ASSUME NEW i \in Interactions, z.owner[i] \in Visitors PROVE z.into[z.owner[i]] = NoOne
      <4>1. z.owner[i] = y.owner[i] \/ z.owner[i] = by
        BY <2>2
      <4> QED
        BY <1>3, <3>1, <4>1 DEF Merged
    <3> QED
      BY <3>1 DEF Merged
  <2>6. \A key \in z.sessions : key \in y.sessions \/ key.scope = by
    BY <1>4, <2>1
  <2> QED
    BY <1>1, <1>2, <1>3, <2>2, <2>3, <2>4, <2>5, <2>6
<1> QED
  BY <1>5, <1>6

(* After an event rows fit as before, every other interaction is filed in    *)
(* what became of its session, and new owners are customers of the event.    *)
LEMMA IngestFits ==
  ASSUME NEW r \in Rows, NEW e \in Event, Filed(r), Merged(r), NEW new, new = IngestOne(r, e)
  PROVE  /\ Filed(new) /\ Merged(new)
         /\ \A i \in Interactions :
               /\ new.owner[i] \in {NoOne, r.owner[i]} \cup Bumped(r, e)
               /\ i # e.id /\ new.filed[i] # NoKey =>
                     r.filed[i] # NoKey /\ Successor(new, e, r.filed[i]) = new.filed[i]
<1>1. PICK x : x = Resolve(r, e)
  OBVIOUS
<1>2. PICK s : s = Store(x, e)
  OBVIOUS
<1>3. PICK y : y = FileUnder(s, e.id, SessionRefOf(s, e))
  OBVIOUS
<1>4. PICK by : by = CustomerOf(x, e)
  OBVIOUS
<1>5. new = IF e.link THEN Claim(y, {[ref |-> e.session, by |-> by]}) ELSE y
  BY <1>1, <1>2, <1>3, <1>4 DEF IngestOne, ClaimOf
<1>6. x \in Rows /\ Filed(x) /\ Merged(x) /\ (Known(e) = NoOne => x.into = r.into)
  BY <1>1, ResolveFits
<1>7. /\ by \in Owners /\ (by # NoOne => by \in Bumped(r, e))
      /\ by \in Visitors => x.into[by] = NoOne
      /\ Known(e) # NoOne => by = Known(e)
      /\ e.visitor # NoOne => by # NoOne
  BY <1>4, <1>6, CustomerFits
<1>8. /\ y \in Rows /\ y.into = x.into /\ Filed(y) /\ Merged(y)
      /\ \A i \in Interactions \ {e.id} : y.filed[i] = x.filed[i] /\ y.owner[i] = x.owner[i]
      /\ y.owner[e.id] = OwnerOf(x, e)
      /\ \A key \in y.sessions : key \in x.sessions \/ key.scope = OwnerOf(x, e)
  BY <1>2, <1>3, <1>4, <1>6, <1>7, FileFits
<1>9. /\ new \in Rows /\ new.into = y.into /\ Filed(new) /\ Merged(new)
      /\ \A key \in new.sessions : key \in y.sessions \/ (e.link /\ key.scope = by)
      /\ \A i \in Interactions :
            /\ new.owner[i] = y.owner[i] \/ new.owner[i] = by
            /\ \/ new.filed[i] = y.filed[i]
               \/ /\ y.filed[i] = [scope |-> NoOne, ref |-> e.session]
                  /\ e.session \in SessionRefs
                  /\ new.filed[i] = [scope |-> by, ref |-> e.session]
                  /\ y.filed[i] \notin new.sessions
  <2>1. CASE ~e.link
    BY <1>5, <1>8, <2>1
  <2>2. CASE e.link
    <3>1. e.session \in SessionRefs /\ e.visitor # NoOne
      BY <2>2, EventType, Names
    <3>2. new = Claim(y, {[ref |-> e.session, by |-> by]})
      BY <1>5, <2>2
    <3> QED
      BY <1>7, <1>8, <2>2, <3>1, <3>2, ClaimFits
  <2> QED
    BY <2>1, <2>2
<1>10. ASSUME NEW i \in Interactions PROVE new.owner[i] \in {NoOne, r.owner[i]} \cup Bumped(r, e)
  <2>1. x.owner[i] = r.owner[i] \/ x.owner[i] = Known(e)
    BY <1>1, ResolveFits
  <2>2. y.owner[i] = x.owner[i] \/ y.owner[i] = by
    <3>1. CASE i = e.id
      BY <1>4, <1>8, <3>1 DEF OwnerOf
    <3>2. CASE i # e.id
      BY <1>8, <3>2
    <3> QED
      BY <3>1, <3>2
  <2>3. Known(e) \in Bumped(r, e)
    BY DEF Known, Bumped
  <2> QED
    BY <1>7, <1>9, <2>1, <2>2, <2>3
<1>11. ASSUME NEW i \in Interactions, i # e.id, new.filed[i] # NoKey
       PROVE  r.filed[i] # NoKey /\ Successor(new, e, r.filed[i]) = new.filed[i]
  <2>1. /\ x.filed[i] # NoKey => r.filed[i] # NoKey
        /\ \/ x.filed[i] = r.filed[i]
           \/ /\ e.visitor \in Visitors /\ r.filed[i].scope = e.visitor
              /\ x.filed[i] = [scope |-> Known(e), ref |-> r.filed[i].ref]
              /\ Known(e) \in KnownCustomers /\ x.into[e.visitor] = Known(e)
              /\ \A key \in x.sessions : key.scope # e.visitor
              /\ \A j \in Interactions : x.owner[j] # e.visitor
    BY <1>1, ResolveFits
  <2>2. y.filed[i] = x.filed[i]
    BY <1>8, <1>11
  <2>3. CASE new.filed[i] = y.filed[i] /\ x.filed[i] = r.filed[i]
    <3>1. new.filed[i] \in new.sessions
      BY <1>9, <1>11 DEF Filed
    <3> QED
      BY <1>11, <2>2, <2>3, <3>1 DEF Successor
  <2>4. CASE new.filed[i] = y.filed[i] /\ x.filed[i] # r.filed[i]
    <3>1. Known(e) # NoOne /\ e.visitor # NoOne /\ Known(e) # e.visitor
      BY <2>1, <2>4, Names
    <3>2. OwnerOf(x, e) # e.visitor /\ by # e.visitor
      BY <1>4, <1>7, <2>1, <2>4, <3>1, EventType DEF OwnerOf
    <3>3. r.filed[i] \notin new.sessions
      BY <1>8, <1>9, <2>1, <2>4, <3>2
    <3>4. Successor(new, e, r.filed[i]) = [scope |-> new.into[e.visitor], ref |-> r.filed[i].ref]
      BY <2>1, <2>4, <3>3 DEF Successor
    <3> QED
      BY <1>8, <1>9, <1>11, <2>1, <2>2, <2>4, <3>4
  <2>5. CASE new.filed[i] # y.filed[i]
    <3>1. /\ x.filed[i] = [scope |-> NoOne, ref |-> e.session]
          /\ e.session \in SessionRefs
          /\ new.filed[i] = [scope |-> by, ref |-> e.session]
          /\ x.filed[i] \notin new.sessions
      BY <1>9, <2>2, <2>5
    <3>2. x.filed[i].scope = NoOne /\ x.filed[i].ref = e.session
      BY <3>1
    <3>3. x.filed[i] = r.filed[i]
      BY <2>1, <3>2, Names
    <3>4. x.filed[i] # NoKey
      BY <3>1, <3>2, IdentityAssumption DEF NoKey
    <3>5. CustomerOf(new, e) = by
      BY <1>4, <1>8, <1>9 DEF CustomerOf, Canonical
    <3>6. NoOne \notin Visitors
      BY Names
    <3> QED
      BY <2>1, <3>1, <3>2, <3>3, <3>4, <3>5, <3>6 DEF Successor
  <2> QED
    BY <2>3, <2>4, <2>5
<1> QED
  BY <1>9, <1>10, <1>11

-----------------------------------------------------------------------------
(* Rows, times and confirmations that fit each other.                        *)

(* Activity is no later than its session was last seen.                      *)
Timely == \A i \in Interactions : rows.filed[i] # NoKey => i \in rows.stored /\ at[i] <= last[rows.filed[i]]

OwnersSeen == \A i \in Interactions : rows.owner[i] # NoOne => seen[rows.owner[i]] # Never

RowsFit == Filed(rows) /\ Merged(rows) /\ Timely /\ OwnersSeen /\ Reported \subseteq confirmed

LEMMA FitsAtFirst == Init => RowsFit
BY DEF Init, RowsFit, Filed, Merged, Timely, OwnersSeen, NoRows, Reported

LEMMA LastSeenCovers ==
  ASSUME TypeOK, NEW e \in Event, at'[e.id] \in Days, NEW new, NEW key
  PROVE  /\ new.filed[e.id] = key => at'[e.id] <= LastSeen(new, e, key)
         /\ \A old \in rows.sessions :
               Successor(new, e, old) = key => last[old] <= LastSeen(new, e, key)
<1> DEFINE before == {last[old] : old \in {k \in rows.sessions : Successor(new, e, k) = key}}
           now1 == IF new.filed[e.id] = key THEN {at'[e.id]} ELSE {Never}
           all == before \cup now1
<1>1. \A old \in rows.sessions : last[old] \in Days
  <2>1. rows.sessions \subseteq Session
    BY DEF TypeOK, Rows
  <2> QED
    BY <2>1 DEF TypeOK
<1>2. all \in SUBSET (0 .. LastDay) /\ all # {}
  <2>1. before \subseteq Days
    BY <1>1
  <2>2. now1 \subseteq Days \cup {0} /\ now1 # {}
    BY DEF Never
  <2>3. 0 \in 0 .. LastDay
    BY Numbers
  <2> QED
    BY <2>1, <2>2, <2>3, Numbers
<1>3. \A y \in all : y <= Greatest(all)
  BY <1>2, FewDays
<1>4. LastSeen(new, e, key) = Greatest(all)
  BY DEF LastSeen
<1>5. new.filed[e.id] = key => at'[e.id] \in all
  OBVIOUS
<1>6. \A old \in rows.sessions : Successor(new, e, old) = key => last[old] \in all
  OBVIOUS
<1> HIDE DEF all
<1> QED
  BY <1>3, <1>4, <1>5, <1>6

LEMMA IngestKeepsFit ==
  ASSUME TypeOK, TypeOK', RowsFit, NEW e \in Telemetry, NEW occurred \in Days,
         IngestTelemetry(e, occurred)
  PROVE  RowsFit'
<1>1. e \in Event /\ e.id \in Interactions /\ rows \in Rows /\ rows' = IngestOne(rows, e)
  BY ReadsAssumption, EventType DEF TypeOK, IngestTelemetry
<1>2. rows'.stored = rows.stored \cup {e.id} /\ rows' \in Rows
  BY <1>1, IngestOneIs
<1>3. /\ Filed(rows') /\ Merged(rows')
      /\ \A i \in Interactions :
            /\ rows'.owner[i] \in {NoOne, rows.owner[i]} \cup Bumped(rows, e)
            /\ i # e.id /\ rows'.filed[i] # NoKey =>
                  rows.filed[i] # NoKey /\ Successor(rows', e, rows.filed[i]) = rows'.filed[i]
  BY <1>1, IngestFits DEF RowsFit
<1>4. Filed(rows)' /\ Merged(rows)'
  BY <1>3 DEF Filed, Merged
<1>5. at'[e.id] \in Days /\ \A i \in Interactions \ {e.id} : at'[i] = at[i]
  <2>1. at'[e.id] \in {Never} \cup Days /\ (at'[e.id] = Never <=> e.id \notin rows'.stored)
    BY <1>1 DEF TypeOK
  <2>2. \A i \in Interactions \ {e.id} : at'[i] = at[i]
    BY <1>1 DEF IngestTelemetry, TypeOK
  <2> QED
    BY <1>2, <2>1, <2>2
<1>6. last' = [key \in Session |-> IF key \in rows'.sessions THEN LastSeen(rows', e, key) ELSE Never]
  BY <1>1 DEF IngestTelemetry
<1>7. Timely'
  <2>1. ASSUME NEW i \in Interactions, rows'.filed[i] # NoKey
        PROVE  i \in rows'.stored /\ at'[i] <= last'[rows'.filed[i]]
    <3> DEFINE key == rows'.filed[i]
    <3>1. key \in rows'.sessions /\ key \in Session
      BY <1>2, <1>3, <2>1, RowsType DEF Filed
    <3>2. last'[key] = LastSeen(rows', e, key)
      BY <1>6, <3>1
    <3>3. CASE i = e.id
      <4>1. at'[e.id] <= LastSeen(rows', e, key)
        BY <1>1, <1>5, <3>3, LastSeenCovers
      <4> QED
        BY <1>2, <3>2, <3>3, <4>1
    <3>4. CASE i # e.id
      <4>1. rows.filed[i] # NoKey /\ Successor(rows', e, rows.filed[i]) = key
        BY <1>3, <2>1, <3>4
      <4>2. rows.filed[i] \in rows.sessions /\ i \in rows.stored /\ at[i] <= last[rows.filed[i]]
        BY <4>1 DEF RowsFit, Filed, Timely
      <4>3. last[rows.filed[i]] <= LastSeen(rows', e, key)
        BY <1>1, <1>5, <4>1, <4>2, LastSeenCovers
      <4>4. at[i] \in Int /\ last[rows.filed[i]] \in Int /\ LastSeen(rows', e, key) \in Int
        <5>1. last[rows.filed[i]] \in 0 .. LastDay
          BY <4>2, SessionPlaces
        <5>2. at[i] \in 0 .. LastDay
          BY <4>2, StoredTypes
        <5>3. LastSeen(rows', e, key) \in Days
          BY <1>1, <1>5, <4>1, <4>2, LastSeenIs
        <5> QED
          <6>1. \A d \in 0 .. LastDay : d \in Int
            OBVIOUS
          <6>2. \A d \in Days : d \in Int
            BY DaysAre
          <6> HIDE DEF key
          <6> QED
            BY <5>1, <5>2, <5>3, <6>1, <6>2
      <4> QED
        BY <1>2, <1>5, <3>2, <3>4, <4>2, <4>3, <4>4
    <3> QED
      BY <3>3, <3>4
  <2> QED
    BY <2>1 DEF Timely
<1>8. OwnersSeen'
  <2>1. seen' = [c \in Customers |->
                   IF c \in Bumped(rows, e) THEN Greatest({seen[c], occurred}) ELSE seen[c]]
    BY DEF IngestTelemetry, Bumped
  <2>2. ASSUME NEW c \in Customers PROVE Greatest({seen[c], occurred}) # Never
    <3>1. seen[c] \in {0} \cup Days /\ Days \subseteq Int /\ 0 \in Int
      BY DaysAre DEF TypeOK, Never
    <3>2. seen[c] \in Int /\ occurred \in Int /\ 1 <= occurred
      BY <3>1, DaysAre
    <3>3. Greatest({seen[c], occurred}) = IF seen[c] <= occurred THEN occurred ELSE seen[c]
      BY <3>2, GreatestOfTwo
    <3> QED
      BY <3>2, <3>3 DEF Never
  <2>3. ASSUME NEW i \in Interactions, rows'.owner[i] # NoOne PROVE seen'[rows'.owner[i]] # Never
    <3>1. rows'.owner[i] \in Customers
      BY <1>2, <2>3, RowsType, Names
    <3>2. rows'.owner[i] \in Bumped(rows, e) \/ seen[rows'.owner[i]] # Never
      BY <1>3, <2>3 DEF RowsFit, OwnersSeen
    <3> QED
      BY <2>1, <2>2, <3>1, <3>2
  <2> QED
    BY <2>3 DEF OwnersSeen
<1>9. Reported' \subseteq confirmed'
  BY DEF RowsFit, IngestTelemetry, ConfirmedAfter, Reported
<1> QED
  BY <1>4, <1>7, <1>8, <1>9 DEF RowsFit

LEMMA SubmitKeepsFit ==
  ASSUME TypeOK, RowsFit, NEW i \in Interactions, NEW content \in Contents,
         SubmitReport(i, content)
  PROVE  RowsFit'
<1>1. /\ rows'.owner = rows.owner /\ rows'.filed = rows.filed /\ rows'.into = rows.into
      /\ rows'.sessions = rows.sessions /\ rows.stored \subseteq rows'.stored
      /\ \A j \in Interactions : j \in rows.stored => at'[j] = at[j]
  <2>1. CASE i \in rows.stored
    BY <2>1 DEF SubmitReport
  <2>2. CASE i \notin rows.stored
    <3>1. rows' = [rows EXCEPT !.stored = rows.stored \cup {i}] /\ at' = [at EXCEPT ![i] = now]
      BY <2>2 DEF SubmitReport
    <3>2. rows' = [into |-> rows.into, parent |-> rows.parent, stored |-> rows.stored \cup {i},
                   owner |-> rows.owner, filed |-> rows.filed, sessions |-> rows.sessions]
      BY <3>1, MoreStored DEF TypeOK
    <3>3. \A j \in Interactions : j \in rows.stored => at'[j] = at[j]
      BY <2>2, <3>1 DEF TypeOK
    <3> QED
      BY <3>2, <3>3
  <2> QED
    BY <2>1, <2>2
<1>2. seen' = seen /\ last' = last
  BY DEF SubmitReport
<1>3. Reported' \subseteq confirmed'
  <2>1. reports' = [reports EXCEPT ![i] = ReportSaying(content)] /\ confirmed' = confirmed \cup {i}
    BY DEF SubmitReport
  <2>2. Reported' \subseteq Reported \cup {i}
    BY <2>1 DEF TypeOK, Reported
  <2> QED
    BY <2>1, <2>2 DEF RowsFit
<1> QED
  BY <1>1, <1>2, <1>3 DEF RowsFit, Filed, Merged, Timely, OwnersSeen

LEMMA WorkflowKeepsFit ==
  ASSUME TypeOK, RowsFit, NEW i \in Interactions, NEW status \in Statuses,
         UpdateWorkflow(i, status)
  PROVE  RowsFit'
<1>1. UNCHANGED <<rows, at, seen, last, confirmed>>
  BY DEF UpdateWorkflow
<1>2. Reported' \subseteq Reported
  BY DEF UpdateWorkflow, ReportFound, TypeOK, Reported
<1> QED
  BY <1>1, <1>2 DEF RowsFit, Filed, Merged, Timely, OwnersSeen

LEMMA PurgeInteractionsKeepsFit ==
  ASSUME TypeOK, RowsFit, PurgeInteractions
  PROVE  RowsFit'
<1> DEFINE doomed == {i \in rows.stored : at[i] < RetainedSince}
           stored == rows.stored \ doomed
           owner == [i \in Interactions |-> IF i \in doomed THEN NoOne ELSE rows.owner[i]]
           filed == [i \in Interactions |-> IF i \in doomed THEN NoKey ELSE rows.filed[i]]
<1>1. /\ rows' = [rows EXCEPT !.stored = stored, !.owner = owner, !.filed = filed]
      /\ at' = [i \in Interactions |-> IF i \in doomed THEN Never ELSE at[i]]
      /\ reports' = [i \in Interactions |-> IF i \in doomed THEN NoReport ELSE reports[i]]
      /\ confirmed' = confirmed \ doomed
      /\ UNCHANGED <<seen, last>>
  BY Zenon DEF PurgeInteractions
<1>2. \A i \in Interactions : /\ owner[i] = IF i \in doomed THEN NoOne ELSE rows.owner[i]
                             /\ filed[i] = IF i \in doomed THEN NoKey ELSE rows.filed[i]
  OBVIOUS
<1> HIDE DEF doomed, stored, owner, filed
<1>3. rows' = [into |-> rows.into, parent |-> rows.parent, stored |-> stored,
               owner |-> owner, filed |-> filed, sessions |-> rows.sessions]
  BY <1>1, FewerStored DEF TypeOK
<1>4. /\ rows'.into = rows.into /\ rows'.stored = rows.stored \ doomed
      /\ rows'.sessions = rows.sessions /\ rows'.owner = owner /\ rows'.filed = filed
  BY <1>3 DEF stored
<1>5. Reported' \subseteq confirmed'
  BY <1>1 DEF RowsFit, Reported
<1>6. Filed(rows)' /\ Merged(rows)'
  BY <1>2, <1>4, Names DEF RowsFit, Filed, Merged
<1>7. Timely'
  BY <1>1, <1>2, <1>4 DEF RowsFit, Timely
<1>8. OwnersSeen'
  BY <1>1, <1>2, <1>4 DEF RowsFit, OwnersSeen
<1> QED
  BY <1>5, <1>6, <1>7, <1>8 DEF RowsFit

LEMMA PurgeSessionsKeepsFit ==
  ASSUME TypeOK, RowsFit, PurgeSessions
  PROVE  RowsFit'
<1> DEFINE doomed == {key \in rows.sessions : \A i \in Interactions : rows.filed[i] # key}
<1>1. /\ rows' = [rows EXCEPT !.sessions = rows.sessions \ doomed]
      /\ last' = [key \in Session |-> IF key \in doomed THEN Never ELSE last[key]]
      /\ UNCHANGED <<at, seen, confirmed, reports>>
  BY DEF PurgeSessions
<1>2. \A i \in Interactions : rows.filed[i] \notin doomed
  OBVIOUS
<1> HIDE DEF doomed
<1>3. rows' = [into |-> rows.into, parent |-> rows.parent, stored |-> rows.stored,
               owner |-> rows.owner, filed |-> rows.filed, sessions |-> rows.sessions \ doomed]
  BY <1>1, FewerSessions DEF TypeOK
<1>4. /\ rows'.into = rows.into /\ rows'.stored = rows.stored /\ rows'.owner = rows.owner
      /\ rows'.filed = rows.filed /\ rows'.sessions = rows.sessions \ doomed
  BY <1>3
<1>5. \A i \in Interactions : rows.filed[i] # NoKey => rows.filed[i] \in Session
  BY RowsType DEF TypeOK
<1>6. Timely'
  BY <1>1, <1>2, <1>4, <1>5 DEF RowsFit, Timely
<1> QED
  BY <1>1, <1>2, <1>4, <1>6 DEF RowsFit, Filed, Merged, OwnersSeen, Reported

LEMMA PurgeCustomersKeepsFit ==
  ASSUME TypeOK, RowsFit, PurgeCustomers
  PROVE  RowsFit'
<1>1. /\ UNCHANGED <<rows, at, last, confirmed, reports>>
      /\ \A c \in Customers :
            seen[c] # Never /\ (\E i \in Interactions : rows.owner[i] = c) => seen'[c] # Never
  BY DEF PurgeCustomers, TypeOK
<1>2. \A i \in Interactions : rows.owner[i] # NoOne => rows.owner[i] \in Customers
  BY RowsType, Names DEF TypeOK
<1>3. OwnersSeen'
  BY <1>1, <1>2 DEF RowsFit, OwnersSeen
<1> QED
  BY <1>1, <1>3 DEF RowsFit, Filed, Merged, Timely, Reported

LEMMA RowsStayFit == TypeOK /\ RowsFit /\ [Next]_vars => RowsFit'
<1> SUFFICES ASSUME TypeOK, RowsFit, [Next]_vars PROVE RowsFit'
  OBVIOUS
<1>1. TypeOK'
  BY ReadsTypeStep
<1>2. ASSUME NEW e \in Telemetry, NEW occurred \in {now, now - 1} \cap Days,
             IngestTelemetry(e, occurred)
      PROVE  RowsFit'
  BY <1>1, <1>2, IngestKeepsFit
<1>3. ASSUME NEW i \in Interactions, NEW content \in Contents, SubmitReport(i, content)
      PROVE  RowsFit'
  BY <1>3, SubmitKeepsFit
<1>4. ASSUME NEW i \in Interactions, NEW status \in Statuses, UpdateWorkflow(i, status)
      PROVE  RowsFit'
  BY <1>4, WorkflowKeepsFit
<1>5. CASE PurgeInteractions
  BY <1>5, PurgeInteractionsKeepsFit
<1>6. CASE PurgeSessions
  BY <1>6, PurgeSessionsKeepsFit
<1>7. CASE PurgeCustomers
  BY <1>7, PurgeCustomersKeepsFit
<1>8. CASE UNCHANGED data
  BY <1>8 DEF data, RowsFit, Filed, Merged, Timely, OwnersSeen, Reported
<1>9. DayPasses \/ (\E l \in Lists : Begin(l)) \/ ReadPage \/ UNCHANGED vars => UNCHANGED data
  BY DEF DayPasses, Begin, ReadPage, vars
<1> QED
  BY <1>2, <1>3, <1>4, <1>5, <1>6, <1>7, <1>8, <1>9 DEF Next, Write, Read

-----------------------------------------------------------------------------
(* Numbers.                                                                  *)

LEMMA FewInteractions ==
  ASSUME NEW S \in SUBSET Interactions
  PROVE  IsFiniteSet(S) /\ Cardinality(S) \in Nat
<1>1. IsFiniteSet(Interactions)
  BY IdentityAssumption, FS_Interval DEF Interactions
<1>2. IsFiniteSet(S)
  BY <1>1, FS_Subset
<1> QED
  BY <1>2, FS_CardinalityType

(* What is numbered one to one has as many members.                          *)
LEMMA AsMany ==
  ASSUME NEW S, NEW T, IsFiniteSet(S), NEW f \in Surjection(S, T),
         \A x, y \in S : f[x] = f[y] => x = y
  PROVE  IsFiniteSet(T) /\ Cardinality(T) = Cardinality(S)
<1>1. f \in Injection(S, T)
  BY DEF Surjection, Injection, IsInjective
<1> QED
  BY <1>1, FS_Surjection

LEMMA TwoParts ==
  ASSUME NEW S, IsFiniteSet(S), NEW A \in SUBSET S, NEW B \in SUBSET S,
         A \cup B = S, A \cap B = {}
  PROVE  Cardinality(A) + Cardinality(B) = Cardinality(S)
<1>1. IsFiniteSet(A) /\ IsFiniteSet(B)
  BY FS_Subset
<1>2. Cardinality(A \cup B) = Cardinality(A) + Cardinality(B) - Cardinality(A \cap B)
  BY <1>1, FS_Union
<1>3. Cardinality(A \cap B) = 0
  BY FS_EmptySet, Zenon
<1>4. Cardinality(A) \in Nat /\ Cardinality(B) \in Nat
  BY <1>1, FS_CardinalityType
<1> QED
  BY <1>2, <1>3, <1>4

LEMMA RateBound ==
  ASSUME NEW some \in Nat, NEW all \in Nat, some <= all
  PROVE  Rate(some, all) <= 100
<1>1. CASE all = 0
  BY <1>1 DEF Rate
<1>2. CASE all # 0
  <2> DEFINE q == (200 * some + all) \div (2 * all)
  <2>1. q \in Int /\ q * (2 * all) <= 200 * some + all
    BY <1>2
  <2>2. 200 * some + all <= 201 * all
    OBVIOUS
  <2>3. ASSUME q >= 101 PROVE FALSE
    <3>1. 101 * (2 * all) <= q * (2 * all)
      BY <2>1, <2>3, <1>2
    <3> HIDE DEF q
    <3> QED
      BY <2>1, <2>2, <3>1, <1>2
  <2>4. Rate(some, all) = q
    BY <1>2 DEF Rate
  <2> HIDE DEF q
  <2> QED
    BY <2>1, <2>3, <2>4
<1> QED
  BY <1>1, <1>2

LEMMA PartRate ==
  ASSUME NEW S, IsFiniteSet(S), NEW A \in SUBSET S
  PROVE  Rate(Cardinality(A), Cardinality(S)) <= 100
<1>1. IsFiniteSet(A) /\ Cardinality(A) <= Cardinality(S)
  BY FS_Subset
<1>2. Cardinality(A) \in Nat /\ Cardinality(S) \in Nat
  BY <1>1, FS_CardinalityType
<1> QED
  BY <1>1, <1>2, RateBound

LEMMA SetsOfRows ==
  ASSUME TypeOK
  PROVE  /\ rows \in Rows /\ rows.stored \in SUBSET Interactions
         /\ Reported \in SUBSET rows.stored /\ Reported \in SUBSET Interactions
         /\ Kept \in SUBSET rows.stored /\ Kept \in SUBSET Interactions
         /\ Surfaces \in SUBSET rows.stored /\ Surfaces \in SUBSET Interactions
         /\ SessionHops \in SUBSET Surfaces /\ SessionHops \in SUBSET Interactions
         /\ Opportunities \in SUBSET Interactions
<1>1. rows \in Rows /\ rows.stored \in SUBSET Interactions
  BY RowsType DEF TypeOK
<1>2. Reported \in SUBSET rows.stored
  BY DEF TypeOK
<1> QED
  BY <1>1, <1>2 DEF Kept, Surfaces, SessionHops, Opportunities

LEMMA Keys ==
  ASSUME TypeOK, RowsFit
  PROVE  /\ \A key \in rows.sessions : key \in Session /\ key # NoKey
         /\ \A i \in Interactions : rows.filed[i] # NoKey => rows.filed[i] \in rows.sessions
<1>1. rows.sessions \subseteq Session
  BY SetsOfRows, RowsType
<1> QED
  BY <1>1, SessionParts DEF RowsFit, Filed

LEMMA Times ==
  ASSUME TypeOK
  PROVE  /\ now \in Int /\ RetainedSince \in Int
         /\ WindowStart \in {RetainedSince, now - Window} /\ WindowStart \in Int
         /\ RetainedSince <= WindowStart /\ now - Window <= WindowStart
         /\ PreviousStart \in {RetainedSince, now - 2 * Comparison} /\ PreviousStart \in Int
         /\ RetainedSince <= PreviousStart /\ now - 2 * Comparison <= PreviousStart
         /\ \A i \in rows.stored : at[i] \in Days /\ at[i] \in Int /\ 1 <= at[i]
<1>1. now \in Int /\ Retention \in Nat /\ Window \in Nat /\ Comparison \in Nat
  BY DaysAre, Numbers DEF TypeOK
<1>2. RetainedSince \in Int /\ now - Window \in Int /\ now - 2 * Comparison \in Int
  BY <1>1 DEF RetainedSince
<1>3. WindowStart = IF RetainedSince <= now - Window THEN now - Window ELSE RetainedSince
  BY <1>2, GreatestOfTwo DEF WindowStart
<1>4. PreviousStart =
        IF RetainedSince <= now - 2 * Comparison THEN now - 2 * Comparison ELSE RetainedSince
  BY <1>2, GreatestOfTwo DEF PreviousStart
<1>5. \A i \in rows.stored : at[i] \in Days
  BY SetsOfRows DEF TypeOK
<1>6. \A i \in rows.stored : at[i] \in Days /\ at[i] \in Int /\ 1 <= at[i]
  BY <1>5, DaysAre
<1> QED
  BY <1>1, <1>2, <1>3, <1>4, <1>6

-----------------------------------------------------------------------------
(* Facets.                                                                   *)

LEMMA FacetsPredict == TypeOK => FacetsPredictLists
<1> SUFFICES ASSUME TypeOK PROVE FacetsPredictLists
  OBVIOUS
<1>1. ASSUME NEW filter \in Filters, NEW facet \in Facets, NEW value
      PROVE  FeedbackFacet(filter, facet, value) =
                Cardinality(ReportsPage([filter EXCEPT ![facet] = {value}]))
  <2>1. PICK picked : picked = [filter EXCEPT ![facet] = {value}]
    OBVIOUS
  <2>2. picked[facet] = {value} /\ \A other \in Facets \ {facet} : picked[other] = filter[other]
    BY <2>1 DEF Filters, Facets
  <2>3. \A i : Matches(picked, facet, i) <=> value \in FacetValues(facet, i)
    BY <2>2 DEF Matches
  <2>4. \A i : \A other \in Facets \ {facet} : Matches(picked, other, i) <=> Matches(filter, other, i)
    BY <2>2 DEF Matches
  <2>5. ReportsPage(picked) =
          {i \in Reported : /\ ReportInWindow(i)
                            /\ value \in FacetValues(facet, i)
                            /\ \A other \in Facets \ {facet} : Matches(filter, other, i)}
    BY <2>3, <2>4 DEF ReportsPage
  <2> QED
    BY <2>1, <2>5 DEF FeedbackFacet
<1>2. ASSUME NEW health PROVE HealthFacet(health) = Cardinality(CustomersOfHealth(health))
  <2>1. CustomersOfHealth(health) =
          {c \in Customers : seen[c] # Never /\ ~Hidden(c) /\ Health(c) = health}
    BY DEF CustomersOfHealth, VisibleCustomers
  <2> QED
    BY <2>1, Zenon DEF HealthFacet
<1>3. ASSUME NEW type PROVE FeatureFacet(type) = Cardinality(Features({type}))
  <2>1. ASSUME NEW topic
        PROVE  topic \in UNION {s.topics : s \in {t \in RetainedSignals : t.type = type}}
                  <=> topic \in Features({type})
    <3>1. ASSUME NEW s \in RetainedSignals, topic \in s.topics PROVE topic \in Topics
      BY <3>1, SignalsAre DEF RetainedSignals
    <3> QED
      BY <3>1 DEF Features, Findings
  <2>2. UNION {s.topics : s \in {t \in RetainedSignals : t.type = type}} = Features({type})
    BY <2>1
  <2> QED
    BY <2>2, Zenon DEF FeatureFacet
<1> QED
  BY <1>1, <1>2, <1>3 DEF FacetsPredictLists

-----------------------------------------------------------------------------
(* Paths, classes, the funnel.                                               *)

LEMMA EarlierOrders ==
  ASSUME TypeOK, NEW i \in rows.stored, NEW j \in rows.stored
  PROVE  /\ ~Earlier(i, i) /\ ~(Earlier(i, j) /\ Earlier(j, i))
         /\ i = j \/ Earlier(i, j) \/ Earlier(j, i)
         /\ \A k \in rows.stored : Earlier(i, j) /\ Earlier(j, k) => Earlier(i, k)
<1>1. \A k \in rows.stored : k \in Int /\ at[k] \in Int
  BY SetsOfRows, Times DEF Interactions
<1> QED
  BY <1>1 DEF Earlier

(* Every journey has one last hop.                                           *)
LEMMA LastHop ==
  ASSUME TypeOK, NEW key \in Journeys
  PROVE  \E i \in HopsOf(key) : ~Followed(i)
<1> DEFINE R == {p \in HopsOf(key) \X HopsOf(key) : Earlier(p[1], p[2])}
<1>1. /\ HopsOf(key) \in SUBSET Interactions /\ HopsOf(key) \in SUBSET rows.stored
      /\ HopsOf(key) # {} /\ \A i \in HopsOf(key) : rows.filed[i] = key
  BY SetsOfRows DEF HopsOf, Journeys
<1>2. \A x, y \in HopsOf(key) : <<x, y>> \in R <=> Earlier(x, y)
  OBVIOUS
<1> HIDE DEF R
<1>3. /\ \A x \in HopsOf(key) : <<x, x>> \notin R
      /\ \A x, y, z \in HopsOf(key) : <<x, y>> \in R /\ <<y, z>> \in R => <<x, z>> \in R
      /\ \A x, y \in HopsOf(key) : x = y \/ <<x, y>> \in R \/ <<y, x>> \in R
  BY <1>1, <1>2, EarlierOrders
<1>4. IsFiniteSet(HopsOf(key))
  BY <1>1, FewInteractions
<1>5. PICK x \in HopsOf(key) : \A y \in HopsOf(key) : x = y \/ <<y, x>> \in R
  BY <1>1, <1>3, <1>4, LastOf
<1>6. \A y \in HopsOf(key) : ~Earlier(x, y)
  BY <1>1, <1>2, <1>5, EarlierOrders
<1> QED
  BY <1>1, <1>6 DEF Followed

LEMMA OneExit ==
  ASSUME TypeOK
  PROVE  ExitCount = Cardinality(Journeys) /\ IsFiniteSet(Journeys)
<1> DEFINE exits == {i \in SessionHops : ~Followed(i)}
           f == [i \in exits |-> rows.filed[i]]
<1>1. exits \in SUBSET Interactions
  BY SetsOfRows
<1>2. IsFiniteSet(exits)
  BY <1>1, FewInteractions
<1>3. f \in Surjection(exits, Journeys)
  <2>1. f \in [exits -> Journeys]
    BY DEF Journeys
  <2>2. ASSUME NEW key \in Journeys PROVE \E i \in exits : f[i] = key
    <3>1. PICK i \in HopsOf(key) : ~Followed(i)
      BY LastHop
    <3> QED
      BY <3>1 DEF HopsOf
  <2> QED
    BY <2>1, <2>2 DEF Surjection
<1>4. ASSUME NEW i \in exits, NEW j \in exits, f[i] = f[j] PROVE i = j
  <2>1. i \in HopsOf(rows.filed[j]) /\ j \in HopsOf(rows.filed[i])
    BY <1>4 DEF HopsOf
  <2>2. ~Earlier(i, j) /\ ~Earlier(j, i)
    BY <2>1 DEF Followed
  <2>3. i \in rows.stored /\ j \in rows.stored
    BY SetsOfRows
  <2> QED
    BY <2>2, <2>3, EarlierOrders
<1>5. ExitCount = Cardinality(exits)
  BY DEF ExitCount
<1> HIDE DEF exits, f
<1> QED
  BY <1>2, <1>3, <1>4, <1>5, AsMany

LEMMA ClassHopsAre ==
  ASSUME NEW class
  PROVE  ClassHops(class) = {i \in SessionHops : TrafficClass(rows.filed[i]) = class}
BY DEF ClassHops, Class, HopsOf, Journeys

LEMMA ClassesPart ==
  ASSUME TypeOK
  PROVE  EdgeCount + ExitCount =
           Cardinality(ClassHops("declared_agent")) + Cardinality(ClassHops("suspected_cloud_agent"))
               + Cardinality(ClassHops("human"))
<1> DEFINE edges == {i \in SessionHops : Followed(i)}
           exits == {i \in SessionHops : ~Followed(i)}
           agents == ClassHops("declared_agent")
           suspects == ClassHops("suspected_cloud_agent")
           humans == ClassHops("human")
<1>1. SessionHops \in SUBSET Interactions
  BY SetsOfRows
<1>2. IsFiniteSet(SessionHops)
  BY <1>1, FewInteractions
<1>3. Cardinality(edges) + Cardinality(exits) = Cardinality(SessionHops)
  BY <1>2, TwoParts
<1>4. \A key : TrafficClass(key) \in {"declared_agent", "suspected_cloud_agent", "human"}
  BY DEF TrafficClass
<1>5. /\ agents = {i \in SessionHops : TrafficClass(rows.filed[i]) = "declared_agent"}
      /\ suspects = {i \in SessionHops : TrafficClass(rows.filed[i]) = "suspected_cloud_agent"}
      /\ humans = {i \in SessionHops : TrafficClass(rows.filed[i]) = "human"}
  BY ClassHopsAre
<1> HIDE DEF agents, suspects, humans
<1>6. /\ agents \in SUBSET SessionHops /\ suspects \cup humans \in SUBSET SessionHops
      /\ agents \cup (suspects \cup humans) = SessionHops /\ agents \cap (suspects \cup humans) = {}
      /\ suspects \in SUBSET (suspects \cup humans) /\ humans \in SUBSET (suspects \cup humans)
      /\ suspects \cap humans = {}
  BY <1>4, <1>5
<1>7. Cardinality(agents) + Cardinality(suspects \cup humans) = Cardinality(SessionHops)
  BY <1>2, <1>6, TwoParts
<1>8. IsFiniteSet(suspects \cup humans)
  BY <1>2, <1>6, FS_Subset
<1>9. Cardinality(suspects) + Cardinality(humans) = Cardinality(suspects \cup humans)
  BY <1>6, <1>8, TwoParts
<1>10. /\ Cardinality(agents) \in Nat /\ Cardinality(suspects) \in Nat
       /\ Cardinality(humans) \in Nat
  <2>1. agents \in SUBSET Interactions /\ suspects \in SUBSET Interactions
        /\ humans \in SUBSET Interactions
    BY <1>1, <1>6
  <2> QED
    BY <2>1, FewInteractions
<1>11. EdgeCount = Cardinality(edges) /\ ExitCount = Cardinality(exits)
  BY DEF EdgeCount, ExitCount
<1> QED
  BY <1>3, <1>7, <1>9, <1>10, <1>11 DEF agents, suspects, humans

LEMMA Stages ==
  /\ Class("declared_agent") = Funnel[1]
  /\ \A stage \in 1 .. 4 : Funnel[stage + 1] \subseteq Funnel[stage]
  /\ Funnel[5] \subseteq HandoffSessions /\ Funnel[1] \subseteq Journeys
<1> DEFINE arrived == {key \in Journeys : Evidenced(key)}
           entered == {key \in arrived : Some(key, "graph")}
           needs == {key \in entered : Some(key, "needs")}
           decided == {key \in needs : Some(key, "decision")}
           linked == {key \in decided : Some(key, "link")}
<1>1. Funnel = <<arrived, entered, needs, decided, linked>>
  BY DEF Funnel
<1>2. Class("declared_agent") = arrived
  BY DEF Class, TrafficClass
<1>3. linked \subseteq HandoffSessions /\ arrived \subseteq Journeys
  BY DEF HandoffSessions
<1>4. entered \subseteq arrived /\ needs \subseteq entered /\ decided \subseteq needs
      /\ linked \subseteq decided
  OBVIOUS
<1> HIDE DEF arrived, entered, needs, decided, linked
<1>5. /\ Funnel[1] = arrived /\ Funnel[2] = entered /\ Funnel[3] = needs /\ Funnel[4] = decided
      /\ Funnel[5] = linked
  BY <1>1
<1>6. ASSUME NEW stage \in 1 .. 4 PROVE Funnel[stage + 1] \subseteq Funnel[stage]
  <2>1. stage = 1 \/ stage = 2 \/ stage = 3 \/ stage = 4
    OBVIOUS
  <2> QED
    BY <1>4, <1>5, <2>1
<1> QED
  BY <1>2, <1>3, <1>5, <1>6

-----------------------------------------------------------------------------
(* Numbers of two screens.                                                   *)

LEMMA PageSessions ==
  ASSUME TypeOK, RowsFit, NEW c
  PROVE  SessionsOf(c) = SessionsOfPage(c)
<1>1. ASSUME NEW i \in Activity(c), rows.filed[i] # NoKey
      PROVE  rows.filed[i] \in SessionsOfPage(c)
  <2>1. i \in rows.stored /\ rows.owner[i] = c /\ at[i] >= RetainedSince
    BY DEF Activity
  <2>2. rows.filed[i] \in rows.sessions
    BY <1>1, <2>1, Keys, SetsOfRows
  <2> QED
    BY <2>1, <2>2 DEF SessionsOfPage
<1>2. ASSUME NEW key \in SessionsOfPage(c) PROVE key \in SessionsOf(c)
  BY Keys DEF SessionsOfPage, SessionsOf, Activity
<1> QED
  BY <1>1, <1>2 DEF SessionsOf

LEMMA PageSignals ==
  ASSUME TypeOK, NEW c,
         \A i \in Reported : at[i] >= RetainedSince <=> reports[i].created >= RetainedSince
  PROVE  SignalsByActivity(c) = SignalsOfPage(c)
<1>1. ASSUME NEW s \in Signals
      PROVE  s.report \in Activity(c) <=> s \in RetainedSignals /\ SignalOwner(s) = c
  <2>1. s.report \in Reported /\ s.report \in rows.stored
        /\ s.collected = reports[s.report].created
    BY SignalsAre, SetsOfRows
  <2>2. at[s.report] >= RetainedSince <=> s.collected >= RetainedSince
    BY <2>1
  <2> QED
    BY <2>1, <2>2 DEF Activity, RetainedSignals, SignalOwner
<1> QED
  BY <1>1 DEF SignalsByActivity, SignalsOfPage, RetainedSignals

LEMMA NumbersDoAgree ==
  ASSUME TypeOK, RowsFit
  PROVE  NumbersAgree
<1>1. Retention <= 2 * Comparison => Opportunities = Surfaces
  <2>1. Retention \in Nat /\ Comparison \in Nat
    BY Numbers
  <2>2. ASSUME Retention <= 2 * Comparison PROVE PreviousStart <= WindowStart
    <3>1. now - 2 * Comparison <= RetainedSince
      BY <2>1, <2>2, Times DEF RetainedSince
    <3> QED
      BY <2>1, <3>1, Times
  <2> QED
    BY <2>2, Times DEF Opportunities, Surfaces
<1> QED
  BY <1>1, PageSessions, PageSignals, ClassesPart, OneExit, Stages DEF NumbersAgree

-----------------------------------------------------------------------------
(* The overview.                                                             *)

(* Retained activity is in a session that is listed.                         *)
LEMMA ActivityListed ==
  ASSUME TypeOK, RowsFit, NEW i \in Kept, rows.filed[i] # NoKey
  PROVE  rows.filed[i] \in ListedSessions
<1>1. i \in Interactions /\ at[i] >= RetainedSince /\ i \in rows.stored
  BY SetsOfRows DEF Kept
<1>2. rows.filed[i] \in rows.sessions /\ at[i] <= last[rows.filed[i]]
  BY <1>1, Keys DEF RowsFit, Timely
<1>3. at[i] \in Int /\ last[rows.filed[i]] \in Int /\ RetainedSince \in Int
  BY <1>1, <1>2, Times, SessionPlaces
<1>4. last[rows.filed[i]] >= RetainedSince
  BY <1>1, <1>2, <1>3
<1> QED
  BY <1>2, <1>4 DEF ListedSessions

LEMMA AllActivity ==
  ASSUME TypeOK, RowsFit
  PROVE  UNION {ActivityOf(key) : key \in ListedSessions} = {i \in Kept : rows.filed[i] # NoKey}
<1>1. \A key \in ListedSessions : key # NoKey
  BY Keys DEF ListedSessions
<1>2. ASSUME NEW i \in Kept, rows.filed[i] # NoKey
      PROVE  \E key \in ListedSessions : i \in ActivityOf(key)
  BY <1>2, ActivityListed DEF ActivityOf
<1>3. ASSUME NEW key \in ListedSessions, NEW i \in ActivityOf(key)
      PROVE  i \in Kept /\ rows.filed[i] # NoKey
  BY <1>1 DEF ActivityOf
<1> QED
  BY <1>2, <1>3

LEMMA EntriesDiffer ==
  ASSUME NEW t, NEW u, NEW i, NEW j, Entry(t, i) = Entry(u, j)
  PROVE  t = u /\ i = j
<1>1. Entry(t, i).time = t /\ Entry(t, i).id = i /\ Entry(u, j).time = u /\ Entry(u, j).id = j
  BY DEF Entry
<1> QED
  BY <1>1

(* As many entries as there are interactions.                                *)
LEMMA EntryEach ==
  ASSUME NEW S \in SUBSET Interactions, NEW time, NEW T, T = {Entry(time[i], i) : i \in S}
  PROVE  Cardinality(T) = Cardinality(S) /\ IsFiniteSet(T)
<1> DEFINE f == [i \in S |-> Entry(time[i], i)]
<1>1. f \in Surjection(S, T)
  BY DEF Surjection
<1>2. \A i, j \in S : f[i] = f[j] => i = j
  BY EntriesDiffer
<1>3. IsFiniteSet(S)
  BY FewInteractions
<1> HIDE DEF f
<1> QED
  BY <1>1, <1>2, <1>3, AsMany

LEMMA FewSessions == ASSUME TypeOK PROVE IsFiniteSet(ListedSessions)
<1>1. IsFiniteSet(0 .. 99)
  <2>1. 0 \in Int /\ 99 \in Int
    OBVIOUS
  <2> QED
    BY <2>1, FS_Interval, Zenon
<1>2. IsFiniteSet(Owners) /\ IsFiniteSet(SessionRefs)
  BY <1>1, Numbers, FS_Subset
<1>3. IsFiniteSet(Owners \X SessionRefs)
  BY <1>2, FS_Product
<1> DEFINE f == [p \in Owners \X SessionRefs |-> [scope |-> p[1], ref |-> p[2]]]
<1>4. f \in Surjection(Owners \X SessionRefs, Session)
  <2>1. f \in [Owners \X SessionRefs -> Session]
    BY DEF Session
  <2>2. ASSUME NEW key \in Session PROVE \E p \in Owners \X SessionRefs : f[p] = key
    <3>1. <<key.scope, key.ref>> \in Owners \X SessionRefs
      BY SessionParts
    <3>2. f[<<key.scope, key.ref>>] = [scope |-> key.scope, ref |-> key.ref]
      BY <3>1
    <3> QED
      BY <3>1, <3>2, SessionParts
  <2> QED
    BY <2>1, <2>2 DEF Surjection
<1>5. IsFiniteSet(Session)
  BY <1>3, <1>4, FS_Surjection
<1>6. ListedSessions \in SUBSET Session
  BY SetsOfRows, RowsType DEF ListedSessions
<1> QED
  BY <1>5, <1>6, FS_Subset

LEMMA IdsDiffer ==
  ASSUME NEW a \in Session, NEW b \in Session, SessionId(a) = SessionId(b)
  PROVE  a = b
<1>1. ASSUME NEW m \in Int, NEW n \in Int, NEW c \in 0 .. 99, NEW d \in 0 .. 99,
             100 * m + c = 100 * n + d
      PROVE  m = n /\ c = d
  BY <1>1
<1>2. PICK m, n, c, d : m = a.ref /\ n = b.ref /\ c = a.scope /\ d = b.scope
  OBVIOUS
<1>3. m \in 0 .. 99 /\ n \in 0 .. 99 /\ c \in 0 .. 99 /\ d \in 0 .. 99
  BY <1>2, SessionParts, Numbers
<1>4. a.ref = b.ref /\ a.scope = b.scope
  <2>1. 100 * m + c = 100 * n + d
    BY <1>2 DEF SessionId
  <2>2. m \in Int /\ n \in Int
    BY <1>3
  <2>3. m = n /\ c = d
    BY <1>1, <1>3, <2>1, <2>2
  <2> QED
    BY <1>2, <2>3
<1> QED
  BY <1>4, SessionParts

LEMMA SessionEach ==
  ASSUME TypeOK
  PROVE  Cardinality(SessionsList) = Cardinality(ListedSessions)
<1> DEFINE f == [key \in ListedSessions |-> Entry(last[key], SessionId(key))]
<1>1. ListedSessions \subseteq Session
  BY SetsOfRows, RowsType DEF ListedSessions
<1>2. f \in Surjection(ListedSessions, SessionsList)
  BY DEF Surjection, SessionsList
<1>3. \A a, b \in ListedSessions : f[a] = f[b] => a = b
  BY <1>1, EntriesDiffer, IdsDiffer
<1> HIDE DEF f
<1> QED
  BY <1>2, <1>3, FewSessions, AsMany

(* A session named for a customer leads to the page of that customer.        *)
LEMMA RowLeads ==
  ASSUME TypeOK, RowsFit, NEW key \in ListedSessions, NEW c, c = CustomerShown(key), c # NoOne
  PROVE  /\ key \in SessionsOfPage(c)
         /\ c \in VisibleCustomers \cup Accounts
         /\ SessionRowOfPage(c, key).interactions \in 1 .. SessionRow(key).interactions
         /\ <<SessionRow(key).impact, SessionRowOfPage(c, key).impact>> \notin Milder
<1> DEFINE owned == {i \in ActivityOf(key) : rows.owner[i] # NoOne}
           R == {p \in owned \X owned : Earlier(p[2], p[1])}
           theirs == {i \in ActivityOf(key) : rows.owner[i] = c}
<1>1. owned \in SUBSET Interactions /\ owned \in SUBSET rows.stored
  BY SetsOfRows DEF ActivityOf, Kept
<1>2. owned # {}
  BY DEF CustomerShown
<1>3. \E x \in owned : \A y \in owned \ {x} : Earlier(x, y)
  <2>1. \A x, y \in owned : <<x, y>> \in R <=> Earlier(y, x)
    OBVIOUS
  <2>2. IsFiniteSet(owned)
    BY <1>1, FewInteractions
  <2> HIDE DEF R, owned
  <2>3. /\ \A x \in owned : <<x, x>> \notin R
        /\ \A x, y, z \in owned : <<x, y>> \in R /\ <<y, z>> \in R => <<x, z>> \in R
        /\ \A x, y \in owned : x = y \/ <<x, y>> \in R \/ <<y, x>> \in R
    BY <1>1, <2>1, EarlierOrders
  <2>4. PICK x \in owned : \A y \in owned : x = y \/ <<y, x>> \in R
    BY <1>2, <2>2, <2>3, LastOf
  <2> QED
    BY <2>1, <2>4
<1>4. PICK first \in owned : c = Survivor(rows.owner[first])
  <2>1. PICK first : first = CHOOSE i \in owned : \A j \in owned \ {i} : Earlier(i, j)
    OBVIOUS
  <2>2. first \in owned
    BY <1>3, <2>1
  <2>3. CustomerShown(key) = Survivor(rows.owner[first])
    BY <1>2, <2>1, Zenon DEF CustomerShown
  <2> QED
    BY <2>2, <2>3
<1>5. c = rows.owner[first] /\ c \in Customers /\ seen[c] # Never
      /\ (c \in Visitors => rows.into[c] = NoOne)
  <2>1. rows.owner[first] \in Customers
    BY <1>1, SetsOfRows, RowsType, Names
  <2>2. rows.owner[first] \in Visitors => rows.into[rows.owner[first]] = NoOne
    BY <1>1 DEF RowsFit, Merged
  <2>3. seen[rows.owner[first]] # Never
    BY <1>1 DEF RowsFit, OwnersSeen
  <2> QED
    BY <1>4, <2>1, <2>2, <2>3 DEF Survivor
<1>6. first \in theirs /\ theirs \in SUBSET ActivityOf(key) /\ ActivityOf(key) \in SUBSET Interactions
  BY <1>5, SetsOfRows DEF ActivityOf
<1>7. key \in SessionsOfPage(c)
  <2>1. first \in rows.stored /\ rows.filed[first] = key /\ at[first] >= RetainedSince
    BY DEF ActivityOf, Kept
  <2>2. key \in rows.sessions
    BY DEF ListedSessions
  <2> QED
    BY <1>5, <2>1, <2>2 DEF SessionsOfPage
<1>8. c \in VisibleCustomers \cup Accounts
  BY <1>5 DEF VisibleCustomers, Hidden
<1> HIDE DEF theirs
<1>9. SessionRowOfPage(c, key).interactions \in 1 .. SessionRow(key).interactions
  <2>1. IsFiniteSet(ActivityOf(key)) /\ Cardinality(ActivityOf(key)) \in Nat
    BY <1>6, FewInteractions
  <2>2. IsFiniteSet(theirs) /\ Cardinality(theirs) <= Cardinality(ActivityOf(key))
    BY <1>6, <2>1, FS_Subset
  <2>3. Cardinality(theirs) \in Nat /\ Cardinality(theirs) # 0
    BY <1>6, <2>2, FS_CardinalityType, FS_EmptySet
  <2>4. SessionRowOfPage(c, key).interactions = Cardinality(theirs)
        /\ SessionRow(key).interactions = Cardinality(ActivityOf(key))
    BY DEF SessionRowOfPage, SessionRow, theirs
  <2> QED
    BY <2>1, <2>2, <2>3, <2>4
<1>10. <<WorstImpact(ActivityOf(key)), WorstImpact(theirs)>> \notin Milder
  <2>1. WorstImpact(ActivityOf(key)) \in {"none", "helped", "blocked"}
        /\ WorstImpact(theirs) \in {"none", "helped", "blocked"}
    BY DEF WorstImpact
  <2>2. WorstImpact(ActivityOf(key)) = "none" => WorstImpact(theirs) = "none"
    BY <1>6 DEF WorstImpact
  <2>3. WorstImpact(theirs) = "blocked" => WorstImpact(ActivityOf(key)) = "blocked"
    BY <1>6 DEF WorstImpact
  <2> QED
    BY <2>1, <2>2, <2>3 DEF Milder
<1>11. SessionRow(key).impact = WorstImpact(ActivityOf(key))
       /\ SessionRowOfPage(c, key).impact = WorstImpact(theirs)
  BY DEF SessionRowOfPage, SessionRow, theirs
<1> QED
  BY <1>7, <1>8, <1>9, <1>10, <1>11

(* The newest of finitely many entries is the one ahead of the others.       *)
LEMMA NewestIs ==
  ASSUME NEW S \in SUBSET Place, IsFiniteSet(S)
  PROVE  Newest(S, 1) = {x \in S : \A y \in S : ~Behind(x, y)}
<1>1. ASSUME NEW x \in S
      PROVE  Cardinality({y \in S : Behind(x, y)}) < 1 <=> \A y \in S : ~Behind(x, y)
  <2> DEFINE above == {y \in S : Behind(x, y)}
  <2>1. above \in SUBSET S
    OBVIOUS
  <2>2. above = {} <=> \A y \in S : ~Behind(x, y)
    OBVIOUS
  <2> HIDE DEF above
  <2>3. IsFiniteSet(above)
    BY <2>1, FS_Subset
  <2>4. Cardinality(above) \in Nat /\ (Cardinality(above) = 0 <=> above = {})
    BY <2>3, FS_CardinalityType, FS_EmptySet
  <2>5. Cardinality(above) < 1 <=> \A y \in S : ~Behind(x, y)
    BY <2>2, <2>4
  <2> QED
    BY <2>5 DEF above
<1> QED
  BY <1>1 DEF Newest

LEMMA NewestReport ==
  ASSUME TypeOK, ReportsList # {}
  PROVE  Overview(1).reports = Newest(ReportsList, 1)
<1>1. /\ ReportCards = {Entry(reports[i].created, i) : i \in Reported \cap Kept}
      /\ ReportsList \subseteq ReportCards
      /\ \A x \in ReportCards \ ReportsList, y \in ReportsList : Behind(x, y)
  <2>1. \A i \in Reported : reports[i].created \in Int /\ i \in rows.stored
    BY ReportTypes, SetsOfRows
  <2>2. ReportCards = {Entry(reports[i].created, i) : i \in Reported \cap Kept}
    BY DEF ReportCards
  <2>3. ReportsList \subseteq ReportCards
    BY <2>1, <2>2 DEF ReportsList, ReportInWindow, Kept
  <2>4. ASSUME NEW x \in ReportCards \ ReportsList, NEW y \in ReportsList PROVE Behind(x, y)
    <3>1. PICK i \in Reported \cap Kept : x = Entry(reports[i].created, i)
      BY <2>2
    <3>2. PICK j \in Reported : ReportInWindow(j) /\ y = Entry(reports[j].created, j)
      BY DEF ReportsList
    <3>3. ~(reports[i].created >= RetainedSince)
      BY <3>1 DEF ReportsList, ReportInWindow, Kept
    <3>4. reports[j].created >= RetainedSince /\ RetainedSince \in Int
      BY <3>2, Times DEF ReportInWindow
    <3>5. x.time = reports[i].created /\ y.time = reports[j].created
      BY <3>1, <3>2 DEF Entry
    <3> QED
      BY <2>1, <3>3, <3>4, <3>5 DEF Behind
  <2> QED
    BY <2>2, <2>3, <2>4
<1>2. ReportCards \in SUBSET Place /\ IsFiniteSet(ReportCards)
  <2>1. ReportCards \in SUBSET Places
    BY <1>1, ReportTypes, InPlaces
  <2> QED
    BY <2>1, FewPlaces, FS_Subset
<1>3. ReportsList \in SUBSET Place /\ IsFiniteSet(ReportsList)
  BY <1>1, <1>2, FS_Subset
<1>4. Newest(ReportCards, 1) = Newest(ReportsList, 1)
  <2>1. Newest(ReportCards, 1) = {x \in ReportCards : \A y \in ReportCards : ~Behind(x, y)}
    BY <1>2, NewestIs
  <2>2. Newest(ReportsList, 1) = {x \in ReportsList : \A y \in ReportsList : ~Behind(x, y)}
    BY <1>3, NewestIs
  <2>3. \A x, y \in ReportCards : ~(Behind(x, y) /\ Behind(y, x))
    BY <1>2, BehindOrders
  <2> QED
    BY <1>1, <2>1, <2>2, <2>3
<1>5. Overview(1).reports = Newest(ReportCards, 1)
  BY DEF Overview
<1> QED
  BY <1>4, <1>5

LEMMA PagesApart ==
  ASSUME TypeOK, NEW c \in VisibleCustomers, NEW d \in VisibleCustomers, c # d
  PROVE  IdentifiersOfPage(c) \cap IdentifiersOfPage(d) \subseteq Accounts \ VisibleCustomers
<1>1. /\ c \in Customers /\ d \in Customers /\ seen[c] # Never /\ seen[d] # Never
      /\ ~Hidden(c) /\ ~Hidden(d)
  BY DEF VisibleCustomers
<1>2. /\ rows.parent \in [Users -> Accounts \cup {NoOne}] /\ c # NoOne /\ d # NoOne
      /\ Visitors \cap Accounts = {} /\ Users \cap Accounts = {}
  BY <1>1, SetsOfRows, RowsType, Names, IdentityAssumption
<1>3. ASSUME NEW x, x \in IdentifiersOfPage(c), x \in IdentifiersOfPage(d)
      PROVE  x \in Accounts \ VisibleCustomers
  <2>1. x \in Customers /\ x # NoOne
    BY <1>3, Names DEF IdentifiersOfPage
  <2>2. \/ x = c
        \/ x \in Visitors /\ rows.into[x] = c
        \/ c \in Users /\ rows.parent[c] = x
    BY <1>3 DEF IdentifiersOfPage
  <2>3. \/ x = d
        \/ x \in Visitors /\ rows.into[x] = d
        \/ d \in Users /\ rows.parent[d] = x
    BY <1>3 DEF IdentifiersOfPage
  <2>4. ASSUME NEW u \in Users, rows.parent[u] = x, seen[u] # Never
        PROVE  x \in Accounts /\ Hidden(x) /\ x \notin VisibleCustomers
    BY <1>2, <2>1, <2>4 DEF Hidden, VisibleCustomers
  <2>5. ~(x = c /\ x = d)
    OBVIOUS
  <2>6. x \in Visitors => x \notin Accounts
    BY <1>2
  <2>7. CASE x = c
    BY <1>1, <1>2, <2>3, <2>4, <2>7 DEF Hidden
  <2>8. CASE x = d
    BY <1>1, <1>2, <2>2, <2>4, <2>8 DEF Hidden
  <2>9. CASE x # c /\ x # d
    BY <1>1, <2>2, <2>3, <2>4, <2>9
  <2> QED
    BY <2>7, <2>8, <2>9
<1> QED
  BY <1>3

LEMMA CountsOfPage ==
  ASSUME TypeOK, RowsFit, NEW c
  PROVE  /\ CustomerCounts(c).sessions = Cardinality(SessionsOfPage(c))
         /\ CustomerCounts(c).signals = Cardinality(SignalsOfPage(c))
         /\ CustomerCounts(c).features \subseteq Features({})
<1>1. CustomerCounts(c).sessions = Cardinality(SessionsOf(c))
  BY DEF CustomerCounts, SessionsOf
<1>2. CustomerCounts(c).signals = Cardinality(SignalsOfPage(c))
  BY DEF CustomerCounts, SignalsOfPage
<1>3. CustomerCounts(c).features = UNION {s.topics : s \in SignalsOfPage(c)}
  BY DEF CustomerCounts, SignalsOfPage
<1>4. ASSUME NEW s \in SignalsOfPage(c), NEW topic \in s.topics PROVE topic \in Features({})
  BY <1>4, SignalsAre DEF SignalsOfPage, RetainedSignals, Features, Findings
<1> QED
  BY <1>1, <1>2, <1>3, <1>4, PageSessions

LEMMA OverviewDoesAddUp ==
  ASSUME TypeOK, RowsFit
  PROVE  OverviewAddsUp
<1>1. Totals.interactions = Cardinality(InteractionsList)
  <2>1. Kept \in SUBSET Interactions /\ InteractionsList = {Entry(at[i], i) : i \in Kept}
    BY SetsOfRows DEF InteractionsList, Kept
  <2>2. Cardinality(InteractionsList) = Cardinality(Kept)
    BY <2>1, EntryEach
  <2> QED
    BY <2>2 DEF Totals
<1>2. Totals.sessions = Cardinality(SessionsList)
  <2>1. Totals.sessions = Cardinality(ListedSessions)
    BY DEF Totals, ListedSessions
  <2> QED
    BY <2>1, SessionEach
<1>3. ASSUME NEW key \in ListedSessions
      PROVE  LET line == SessionRow(key)
                 c == line.customer
             IN  c # NoOne => /\ key \in SessionsOfPage(c)
                              /\ c \in VisibleCustomers \cup Accounts
                              /\ SessionRowOfPage(c, key).interactions \in 1 .. line.interactions
                              /\ <<line.impact, SessionRowOfPage(c, key).impact>> \notin Milder
  <2>1. PICK line : line = SessionRow(key)
    OBVIOUS
  <2>2. PICK c : c = line.customer
    OBVIOUS
  <2>3. c = CustomerShown(key)
    BY <2>1, <2>2 DEF SessionRow
  <2>4. c # NoOne => /\ key \in SessionsOfPage(c)
                     /\ c \in VisibleCustomers \cup Accounts
                     /\ SessionRowOfPage(c, key).interactions \in 1 .. line.interactions
                     /\ <<line.impact, SessionRowOfPage(c, key).impact>> \notin Milder
    BY <2>1, <2>3, RowLeads
  <2> QED
    BY <2>1, <2>2, <2>4, Zenon
<1> QED
  BY <1>1, <1>2, <1>3, AllActivity, NewestReport, CountsOfPage, PagesApart DEF OverviewAddsUp

-----------------------------------------------------------------------------
(* Figures.                                                                  *)

LEMMA RatesBounded ==
  ASSUME TypeOK, RowsFit, NEW S \in SUBSET Interactions, NEW rate \in {"confirmation", "review"}
  PROVE  RatesOf(S)[rate] <= 100
<1>1. S \cap confirmed \in SUBSET S /\ S \cap Reported \in SUBSET (S \cap confirmed)
  BY DEF RowsFit
<1>2. IsFiniteSet(S) /\ IsFiniteSet(S \cap confirmed)
  BY <1>1, FewInteractions
<1>3. Rate(Cardinality(S \cap confirmed), Cardinality(S)) <= 100
  BY <1>1, <1>2, PartRate
<1>4. Rate(Cardinality(S \cap Reported), Cardinality(S \cap confirmed)) <= 100
  BY <1>1, <1>2, PartRate
<1>5. CASE rate = "confirmation"
  BY <1>3, <1>5 DEF RatesOf
<1>6. CASE rate = "review"
  BY <1>4, <1>6 DEF RatesOf
<1> QED
  BY <1>5, <1>6

LEMMA Halves ==
  ASSUME TypeOK, 2 * Comparison <= Window
  PROVE  Headline.opportunities = Headline.recent + Headline.previous
<1>1. Comparison \in Nat /\ Window \in Nat
  BY Numbers
<1>2. WindowStart <= PreviousStart
  <2>1. now - Window <= PreviousStart
    BY <1>1, Times
  <2> QED
    BY <2>1, Times
<1>3. Opportunities = {i \in rows.stored : at[i] >= PreviousStart}
  BY <1>2, Times DEF Opportunities
<1>4. /\ Recent \in SUBSET Opportunities /\ Previous \in SUBSET Opportunities
      /\ Recent \cup Previous = Opportunities /\ Recent \cap Previous = {}
  BY <1>1, <1>3, Times DEF Recent, Previous
<1>5. IsFiniteSet(Opportunities)
  BY SetsOfRows, FewInteractions
<1>6. Cardinality(Recent) + Cardinality(Previous) = Cardinality(Opportunities)
  BY <1>4, <1>5, TwoParts
<1>7. /\ Headline.opportunities = Cardinality(Opportunities)
      /\ Headline.recent = Cardinality(Recent) /\ Headline.previous = Cardinality(Previous)
  BY DEF Headline
<1> QED
  BY <1>6, <1>7

LEMMA ImpactsPart ==
  ASSUME TypeOK
  PROVE  ImpactCount("helped") + ImpactCount("blocked") = Cardinality(Surfaces \cap Reported)
<1> DEFINE all == Surfaces \cap Reported
           helped == {i \in all : reports[i].impact = "helped"}
           blocked == {i \in all : reports[i].impact = "blocked"}
<1>1. \A i \in all : reports[i].impact \in {"blocked", "helped"}
  BY DEF TypeOK, Reported, Report, Impacts
<1>2. /\ helped \in SUBSET all /\ blocked \in SUBSET all /\ helped \cup blocked = all
      /\ helped \cap blocked = {}
  BY <1>1
<1>3. all \in SUBSET Interactions
  BY SetsOfRows
<1>4. ImpactCount("helped") = Cardinality(helped) /\ ImpactCount("blocked") = Cardinality(blocked)
  BY DEF ImpactCount
<1> HIDE DEF helped, blocked
<1>5. IsFiniteSet(all)
  BY <1>3, FewInteractions
<1> QED
  BY <1>2, <1>4, <1>5, TwoParts

LEMMA ReviewsListed ==
  ASSUME TypeOK
  PROVE  Summary(1).reviewed = Cardinality(McpReportsList)
<1> DEFINE listed == {j \in Reported : at[j] >= RetainedSince}
           window == {i \in rows.stored : at[i] >= Since(1)}
<1>1. Since(1) = IF 1 <= RetainedSince THEN RetainedSince ELSE 1
  BY Times, GreatestOfTwo DEF Since
<1>2. window \cap Reported = listed
  BY <1>1, Times, SetsOfRows
<1>3. Summary(1).reviewed = Cardinality(window \cap Reported)
  BY DEF Summary
<1>4. listed \in SUBSET Interactions /\ McpReportsList = {Entry(at[i], i) : i \in listed}
  BY SetsOfRows DEF McpReportsList
<1> HIDE DEF listed, window
<1>5. Cardinality(McpReportsList) = Cardinality(listed)
  BY <1>4, EntryEach
<1> QED
  BY <1>2, <1>3, <1>5

LEMMA TopicsAreFeatures ==
  ASSUME TypeOK,
         \A i \in Reported : at[i] >= RetainedSince <=> reports[i].created >= RetainedSince
  PROVE  TopicsNamed \subseteq Features({})
<1>1. ASSUME NEW i \in Surfaces \cap Reported, reports[i].kinds # {}
      PROVE  reports[i].topic \in Features({})
  <2>1. PICK k : k \in reports[i].kinds
    BY <1>1
  <2> DEFINE s == [report |-> i, id |-> 10 * i + 1, type |-> SignalType(k), impact |-> "unknown",
                   topics |-> {reports[i].topic}, collected |-> reports[i].created]
  <2>2. s \in Signals
    <3> DEFINE outcome(j) == [report |-> j, id |-> 10 * j + (IF reports[j].above THEN 0 ELSE 2),
                              type |-> "outcome", impact |-> reports[j].impact, topics |-> {},
                              collected |-> reports[j].created]
               found(j, n) == [report |-> j, id |-> 10 * j + 1, type |-> SignalType(n),
                               impact |-> "unknown", topics |-> {reports[j].topic},
                               collected |-> reports[j].created]
    <3>1. Signals = UNION {{outcome(j)} \cup {found(j, n) : n \in reports[j].kinds} : j \in Reported}
      BY DEF Signals
    <3>2. s = found(i, k) /\ i \in Reported
      OBVIOUS
    <3> HIDE DEF outcome, found, s
    <3> QED
      BY <2>1, <3>1, <3>2
  <2>3. s.collected = reports[i].created /\ reports[i].topic \in s.topics
    OBVIOUS
  <2>4. at[i] >= RetainedSince
    BY Times, SetsOfRows DEF Surfaces
  <2>5. reports[i].topic \in Topics
    BY DEF TypeOK, Reported, Report
  <2> HIDE DEF s
  <2>6. s \in RetainedSignals
    BY <2>2, <2>3, <2>4 DEF RetainedSignals
  <2> QED
    BY <2>3, <2>5, <2>6 DEF Features, Findings
<1> QED
  BY <1>1 DEF TopicsNamed

(* A hop of an agent declares its session.                                   *)
LEMMA Declares ==
  ASSUME NEW i \in Surfaces, ByAgent(i), rows.filed[i] # NoKey
  PROVE  rows.filed[i] \in Class("declared_agent")
<1>1. i \in SessionHops
  BY DEF Surfaces, SessionHops
<1>2. rows.filed[i] \in Journeys /\ i \in HopsOf(rows.filed[i])
  BY <1>1 DEF Journeys, HopsOf
<1>3. Evidenced(rows.filed[i])
  BY <1>2 DEF Evidenced
<1> QED
  BY <1>2, <1>3 DEF Class, TrafficClass

LEMMA Handoffs ==
  ASSUME TypeOK
  PROVE  Cardinality(HandoffSessions) <= Cardinality(Landings)
<1> DEFINE S == {i \in SessionHops : "link" \in Hop[i]}
           f == [i \in S |-> rows.filed[i]]
<1>1. S \in SUBSET Landings /\ Landings \in SUBSET Interactions
  BY SetsOfRows DEF Landings, HopsThat
<1>2. f \in Surjection(S, HandoffSessions)
  <2>1. \A key \in HandoffSessions : \E i \in S : rows.filed[i] = key
    BY DEF HandoffSessions, Some, HopsOf
  <2>2. \A i \in S : rows.filed[i] \in HandoffSessions
    BY DEF HandoffSessions, Some, HopsOf, Journeys
  <2> QED
    BY <2>1, <2>2 DEF Surjection
<1> HIDE DEF f, S
<1>3. IsFiniteSet(Landings) /\ Cardinality(Landings) \in Nat
  BY <1>1, FewInteractions
<1>4. IsFiniteSet(S) /\ Cardinality(S) <= Cardinality(Landings)
  BY <1>1, <1>3, FS_Subset
<1>5. IsFiniteSet(HandoffSessions) /\ Cardinality(HandoffSessions) <= Cardinality(S)
  BY <1>2, <1>4, FS_Surjection
<1>6. Cardinality(S) \in Nat /\ Cardinality(HandoffSessions) \in Nat
  BY <1>4, <1>5, FS_CardinalityType
<1> QED
  BY <1>3, <1>4, <1>5, <1>6

LEMMA SessionRatesBounded ==
  ASSUME TypeOK, NEW rate \in {"handoff", "tokened"}
  PROVE  SessionRates[rate] <= 100
<1>1. IsFiniteSet(Journeys) /\ HandoffSessions \in SUBSET Journeys /\ Funnel[1] \in SUBSET Journeys
  BY OneExit, Stages DEF HandoffSessions
<1>2. Funnel[2] \in SUBSET Funnel[1]
  <2>1. 1 \in 1 .. 4 /\ 1 + 1 = 2
    OBVIOUS
  <2>2. Funnel[1 + 1] \subseteq Funnel[1]
    BY <2>1, Stages
  <2> QED
    BY <2>1, <2>2
<1>3. IsFiniteSet(Funnel[1])
  BY <1>1, FS_Subset
<1>4. Rate(Cardinality(HandoffSessions), Cardinality(Journeys)) <= 100
  BY <1>1, PartRate
<1>5. Rate(Cardinality(Funnel[2]), Cardinality(Funnel[1])) <= 100
  BY <1>2, <1>3, PartRate
<1>6. CASE rate = "handoff"
  BY <1>4, <1>6 DEF SessionRates
<1>7. CASE rate = "tokened"
  BY <1>5, <1>7 DEF SessionRates
<1> QED
  BY <1>6, <1>7

LEMMA FiguresDoAddUp ==
  ASSUME TypeOK, RowsFit
  PROVE  FiguresAddUp
<1>1. ASSUME NEW day \in Days, NEW rate \in {"confirmation", "review"}
      PROVE  Summary(day).rates[rate] <= 100
  <2> DEFINE window == {i \in rows.stored : at[i] >= Since(day)}
  <2>1. window \in SUBSET Interactions
    BY SetsOfRows
  <2>2. Summary(day).rates = RatesOf(window)
    BY DEF Summary
  <2> HIDE DEF window
  <2> QED
    BY <2>1, <2>2, RatesBounded
<1>2. ASSUME NEW rate \in {"confirmation", "review"} PROVE Headline.rates[rate] <= 100
  <2>1. Headline.rates = RatesOf(Opportunities)
    BY DEF Headline
  <2> QED
    BY <2>1, SetsOfRows, RatesBounded
<1>3. \A i \in OffGraph : rows.filed[i] # NoKey => rows.filed[i] \in Class("declared_agent")
  BY Declares DEF OffGraph
<1>4. VendorSessions("named") \subseteq Class("declared_agent")
  BY Declares DEF VendorSessions, Identified, Vendor, ByAgent
<1> QED
  BY <1>1, <1>2, <1>3, <1>4, Halves, ImpactsPart, ReviewsListed, TopicsAreFeatures, Handoffs,
     SessionRatesBounded DEF FiguresAddUp

LEMMA RowsFitAlways == Spec => [](WalkInv /\ RowsFit)
<1>1. Init => WalkInv /\ RowsFit
  BY WalkBegins, FitsAtFirst
<1>2. WalkInv /\ RowsFit /\ [Next]_vars => WalkInv' /\ RowsFit'
  BY WalkStep, RowsStayFit DEF WalkInv
<1> QED
  BY <1>1, <1>2, PTL DEF Spec

(* Whatever telemetry, reports and retention made of the rows, the filters,   *)
(* lists, pages, the overview and the insights tell of them alike, and no    *)
(* rate exceeds 100 percent.                                                 *)
THEOREM ScreensDoAgree == Spec => []ScreensAgree
<1>1. WalkInv /\ RowsFit => ScreensAgree
  BY FacetsPredict, NumbersDoAgree, OverviewDoesAddUp, FiguresDoAddUp DEF WalkInv, ScreensAgree
<1> QED
  BY <1>1, RowsFitAlways, PTL

=============================================================================
