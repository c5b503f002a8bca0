-------------------------- MODULE IssueFilingProofs --------------------------
(***************************************************************************)
(* What holds of IssueFiling for any number of groups, filing requests,      *)
(* synchronisations, reports and issues, whatever dies, answers late, is      *)
(* merged or is purged: GitHub holds one issue of a group, and never one      *)
(* that is forgotten, and each report is announced once.                     *)
(***************************************************************************)
EXTENDS IssueFiling, FiniteSetTheorems, TLAPS

USE ConstantsAssumption

(* A request or a synchronisation under way is about a group.                *)
Engaged ==
    /\ \A f \in Filers : filers[f].pc # "idle" => filers[f].g \in Groups
    /\ \A s \in Syncs : syncs[s].pc # "idle" => syncs[s].g \in Groups

(* GitHub numbers its issues in the order of their creation.                 *)
Blank == \A n \in Numbers : n > created => issues[n].marker = NoGroup

OneMarked(g) == \A m, n \in MarkedIssues(g) : m = n

(* The issue of a group that was not merged is linked by its row, or the row *)
(* is unsettled.                                                             *)
Linked(g) ==
    mergedInto[g] = NoGroup =>
        \/ MarkedIssues(g) = {}
        \/ row[g].state \in Unsettled
        \/ row[g].state = "filed" /\ row[g].issue \in MarkedIssues(g)

(* A merge took the issue along.                                             *)
LinkedByTarget(g) ==
    mergedInto[g] # NoGroup =>
        \/ MarkedIssues(g) = {}
        \/ row[mergedInto[g]].state = "filed" /\ row[mergedInto[g]].issue \in MarkedIssues(g)

(* A filer that has not asked GitHub, or was refused, has nothing to lose by *)
(* releasing its claim; one that completes links the issue there is.         *)
FilerKnows(f, g) ==
    Holds(f, g) =>
        /\ filers[f].pc \in {"post", "release"} => MarkedIssues(g) = {}
        /\ filers[f].pc = "complete" => filers[f].issue \in MarkedIssues(g)

(* What the listing found is still all there is when its attempt settles.    *)
SyncKnows(s, g) ==
    syncs[s].pc = "settle" /\ syncs[s].g = g /\ OwnsAttempt(s) =>
        IF syncs[s].issue = 0 THEN MarkedIssues(g) = {} ELSE syncs[s].issue \in MarkedIssues(g)

PlacedAt(g) ==
    ~FiledLate(g) =>
        /\ OneMarked(g)
        /\ Linked(g)
        /\ LinkedByTarget(g)
        /\ \A f \in Filers : FilerKnows(f, g)
        /\ \A s \in Syncs : SyncKnows(s, g)

Placed == \A g \in Groups : PlacedAt(g)

FilingInv == TypeOK /\ Engaged /\ FilerOwnsRow /\ LineageIsFinal /\ Blank /\ Placed

-----------------------------------------------------------------------------
(* Types.                                                                    *)

LEMMA SomeReports ==
  ASSUME NEW S \in SUBSET Reports
  PROVE  IsFiniteSet(S) /\ Cardinality(S) \in Nat
<1>1. IsFiniteSet(Reports)
  BY FS_Interval DEF Reports
<1> QED
  BY <1>1, FS_Subset, FS_CardinalityType

LEMMA RowType ==
  ASSUME TypeOK, NEW g \in Groups
  PROVE  /\ row[g] \in Row
         /\ row[g].state \in {"none", "filed"} \cup Unsettled
         /\ row[g].last \in Nat
         /\ row[g].issue \in 0 .. MaxIssues
         /\ row[g].attempt \in Syncs \cup {NoSync}
BY DEF TypeOK, Row

LEMMA FilerType ==
  ASSUME TypeOK, NEW f \in Filers
  PROVE  /\ filers[f] \in Filer
         /\ filers[f].pc \in {"idle", "claim", "post", "complete", "release", "mark"}
         /\ filers[f].g \in Groups \cup {NoGroup}
         /\ filers[f].body \subseteq Reports
         /\ filers[f].issue \in 0 .. MaxIssues
BY DEF TypeOK, Filer

LEMMA SyncType ==
  ASSUME TypeOK, NEW s \in Syncs
  PROVE  /\ syncs[s] \in Sync
         /\ syncs[s].pc \in {"idle", "list", "settle", "bump", "comment", "revert"}
         /\ syncs[s].g \in Groups \cup {NoGroup}
         /\ syncs[s].issue \in 0 .. MaxIssues
         /\ syncs[s].from \in Nat /\ syncs[s].to \in Nat
         /\ syncs[s].window \subseteq Reports
BY DEF TypeOK, Sync

LEMMA IdleTypes == NoRow \in Row /\ IdleFiler \in Filer /\ IdleSync \in Sync /\ NoIssue \in Issue
BY DEF NoRow, Row, IdleFiler, Filer, IdleSync, Sync, NoIssue, Issue

LEMMA EngagedFiler ==
  ASSUME FilingInv, NEW f \in Filers, filers[f].pc # "idle"
  PROVE  filers[f].g \in Groups
BY DEF FilingInv, Engaged

LEMMA EngagedSync ==
  ASSUME FilingInv, NEW s \in Syncs, syncs[s].pc # "idle"
  PROVE  syncs[s].g \in Groups
BY DEF FilingInv, Engaged

-----------------------------------------------------------------------------
(* Frames.                                                                   *)

(* No issue is created.                                                      *)
SameMarks ==
    \A n \in Numbers : issues'[n].marker = issues[n].marker /\ issues'[n].late = issues[n].late

LEMMA MarksKept ==
  ASSUME SameMarks, NEW g
  PROVE  MarkedIssues(g)' = MarkedIssues(g) /\ FiledLate(g)' = FiledLate(g)
BY DEF SameMarks, MarkedIssues, FiledLate

(* Links on GitHub's side of a row hold on.                                  *)
FiledStays ==
    \A g \in Groups : row[g].state = "filed" =>
        row'[g].state = "filed" /\ row'[g].issue = row[g].issue

SameRow(g) ==
    /\ row'[g].state = row[g].state
    /\ row'[g].issue = row[g].issue
    /\ row'[g].attempt = row[g].attempt

(* What f holds of g it held before, and knows no more than it did.          *)
FilerNoNews(f, g) ==
    Holds(f, g)' =>
        /\ Holds(f, g)
        /\ \/ filers'[f].pc = filers[f].pc /\ filers'[f].issue = filers[f].issue
           \/ filers[f].pc \in {"post", "release"} /\ filers'[f].pc \in {"post", "release"}
           \/ filers'[f].pc = "mark"

SyncNoNews(s) == syncs'[s].pc = "settle" => syncs'[s] = syncs[s]

LEMMA PlaceKept ==
  ASSUME FilingInv, NEW g \in Groups,
         MarkedIssues(g)' = MarkedIssues(g), FiledLate(g)' = FiledLate(g),
         mergedInto' = mergedInto, FiledStays, SameRow(g),
         \A f \in Filers : FilerNoNews(f, g),
         \A s \in Syncs : syncs'[s].g = g => SyncNoNews(s)
  PROVE  PlacedAt(g)'
<1> SUFFICES ASSUME ~FiledLate(g)
             PROVE  /\ OneMarked(g)' /\ Linked(g)' /\ LinkedByTarget(g)'
                    /\ \A f \in Filers : FilerKnows(f, g)'
                    /\ \A s \in Syncs : SyncKnows(s, g)'
  BY DEF PlacedAt
<1>0. /\ OneMarked(g) /\ Linked(g) /\ LinkedByTarget(g)
      /\ \A f \in Filers : FilerKnows(f, g)
      /\ \A s \in Syncs : SyncKnows(s, g)
  BY DEF FilingInv, Placed, PlacedAt
<1>1. OneMarked(g)' /\ Linked(g)'
  BY <1>0 DEF OneMarked, Linked, SameRow
<1>2. LinkedByTarget(g)'
  BY <1>0 DEF LinkedByTarget, FiledStays, FilingInv, TypeOK
<1>3. ASSUME NEW f \in Filers PROVE FilerKnows(f, g)'
  BY <1>0 DEF FilerKnows, FilerNoNews
<1>4. ASSUME NEW s \in Syncs PROVE SyncKnows(s, g)'
  BY <1>0 DEF SyncKnows, SyncNoNews, OwnsAttempt, SameRow
<1> QED
  BY <1>1, <1>2, <1>3, <1>4

LEMMA OwnersKept ==
  ASSUME FilingInv, mergedInto' = mergedInto, Engaged',
         \A g \in Groups : row'[g].state = row[g].state,
         \A f \in Filers, g \in Groups : Holds(f, g)' => Holds(f, g)
  PROVE  FilerOwnsRow'
<1> SUFFICES ASSUME NEW f \in Filers, filers'[f].pc \in Holding
             PROVE  /\ row'[filers'[f].g].state = "pending"
                    /\ mergedInto'[filers'[f].g] = NoGroup
                    /\ \A e \in Filers \ {f} : ~Holds(e, filers[f].g)'
  BY DEF FilerOwnsRow, Holds
<1>a. PICK g : g = filers'[f].g
  OBVIOUS
<1>1. g \in Groups /\ Holds(f, g)'
  BY <1>a DEF Engaged, Holding, Holds
<1>2. Holds(f, g)
  BY <1>1
<1>3. row[g].state = "pending" /\ mergedInto[g] = NoGroup /\ \A e \in Filers \ {f} : ~Holds(e, g)
  BY <1>2 DEF FilingInv, FilerOwnsRow, Holds
<1>4. \A e \in Filers : Holds(e, g)' => Holds(e, g)
  BY <1>1
<1>5. \A e \in Filers \ {f} : ~Holds(e, g)'
  BY <1>3, <1>4
<1>6. row'[g].state = "pending" /\ mergedInto'[g] = NoGroup
  BY <1>1, <1>3
<1> QED
  BY <1>a, <1>5, <1>6

LEMMA LineageKept ==
  ASSUME FilingInv, UNCHANGED <<mergedInto, home>>,
         \A g \in Groups : row[g].state = "none" /\ mergedInto[g] # NoGroup => row'[g].state = "none"
  PROVE  LineageIsFinal'
BY DEF FilingInv, LineageIsFinal, ReportsOf

(* Steps that change nothing of a row but its count, and tell nobody more.   *)
Quiet ==
    /\ SameMarks
    /\ UNCHANGED <<mergedInto, created>>
    /\ \A g \in Groups : SameRow(g)
    /\ \A f \in Filers, g \in Groups : FilerNoNews(f, g)
    /\ \A s \in Syncs : SyncNoNews(s)

LEMMA QuietKeeps ==
  ASSUME FilingInv, Quiet, Engaged'
  PROVE  FilerOwnsRow' /\ Placed'
<1>1. FilerOwnsRow'
  BY OwnersKept DEF Quiet, FilerNoNews, SameRow
<1>2. FiledStays
  BY DEF Quiet, SameRow, FiledStays
<1>3. ASSUME NEW g \in Groups PROVE PlacedAt(g)'
  BY <1>2, MarksKept, PlaceKept DEF Quiet
<1> QED
  BY <1>1, <1>3 DEF Placed

LEMMA HomeKept ==
  ASSUME FilingInv, Quiet, home' = home
  PROVE  LineageIsFinal'
BY LineageKept DEF Quiet, SameRow

(* Nobody moves.                                                             *)
LEMMA NoFilerNews ==
  ASSUME filers' = filers
  PROVE  \A f \in Filers, g \in Groups : FilerNoNews(f, g)
BY DEF FilerNoNews, Holds

LEMMA BlankKept ==
  ASSUME FilingInv, SameMarks, created' = created
  PROVE  Blank'
BY DEF SameMarks, FilingInv, Blank

LEMMA RenumberFacts ==
  ASSUME FilingInv, NEW some, issues' = Renumber(some)
  PROVE  issues' \in [Numbers -> Issue] /\ SameMarks
<1>1. ASSUME NEW n \in Numbers
      PROVE  /\ issues'[n] \in Issue
             /\ issues'[n].marker = issues[n].marker /\ issues'[n].late = issues[n].late
  <2>1. issues[n] \in Issue
    BY DEF FilingInv, TypeOK
  <2> QED
    BY <2>1 DEF Renumber, Issue
<1> QED
  BY <1>1 DEF Renumber, SameMarks

(* TypeOK where nothing but the filers or the synchronisations moved.        *)
LEMMA OnlyFilers ==
  ASSUME FilingInv, filers' \in [Filers -> Filer],
         UNCHANGED <<row, mergedInto, home, born, issues, created, late, syncs>>
  PROVE  TypeOK'
BY DEF FilingInv, TypeOK

LEMMA OnlySyncs ==
  ASSUME FilingInv, syncs' \in [Syncs -> Sync],
         UNCHANGED <<row, mergedInto, home, born, issues, created, late, filers>>
  PROVE  TypeOK'
BY DEF FilingInv, TypeOK

-----------------------------------------------------------------------------
(* Reports and groups.                                                       *)

LEMMA SubmitKeeps ==
  ASSUME FilingInv, NEW g \in Groups, SubmitReport(g)
  PROVE  FilingInv'
<1>a. PICK t : t = LineageTarget(g)
  OBVIOUS
<1>1. t \in Groups /\ mergedInto[t] = NoGroup
  BY <1>a DEF LineageTarget, FilingInv, TypeOK, LineageIsFinal
<1>2. /\ born < MaxReports /\ born' = born + 1 /\ home' = [home EXCEPT ![born + 1] = t]
      /\ UNCHANGED <<row, mergedInto, issues, created, late, filers, syncs>>
  BY <1>a DEF SubmitReport
<1>3. TypeOK'
  <2>1. born' \in 0 .. MaxReports
    BY <1>2 DEF FilingInv, TypeOK
  <2>2. home' \in [Reports -> Groups \cup {NoGroup}]
    BY <1>1, <1>2 DEF FilingInv, TypeOK
  <2> QED
    BY <1>2, <2>1, <2>2 DEF FilingInv, TypeOK
<1>4. Quiet
  BY <1>2, NoFilerNews DEF Quiet, SameMarks, SameRow, SyncNoNews
<1>5. Engaged' /\ Blank'
  BY <1>2 DEF FilingInv, Engaged, Blank
<1>6. LineageIsFinal'
  <2>1. \A h \in Groups : mergedInto[h] # NoGroup => ReportsOf(h)' \subseteq ReportsOf(h)
    BY <1>1, <1>2 DEF ReportsOf, FilingInv, TypeOK
  <2> QED
    BY <1>2, <2>1 DEF FilingInv, LineageIsFinal
<1> QED
  BY <1>3, <1>4, <1>5, <1>6, QuietKeeps DEF FilingInv

LEMMA PurgeKeeps ==
  ASSUME FilingInv, NEW r \in Reports, PurgeReport(r)
  PROVE  FilingInv'
<1>2. /\ home' = [home EXCEPT ![r] = NoGroup]
      /\ issues' = Renumber({row[home[r]].issue} \cup MarkedIssues(home[r]))
      /\ UNCHANGED <<row, mergedInto, born, created, late, filers, syncs>>
  BY DEF PurgeReport
<1>3. issues' \in [Numbers -> Issue] /\ SameMarks
  BY <1>2, RenumberFacts
<1>4. TypeOK'
  BY <1>2, <1>3 DEF FilingInv, TypeOK
<1>5. Quiet
  BY <1>2, <1>3, NoFilerNews DEF Quiet, SameRow, SyncNoNews
<1>6. Engaged' /\ Blank'
  BY <1>2, <1>3, BlankKept DEF FilingInv, Engaged
<1>7. LineageIsFinal'
  <2>1. \A h \in Groups : ReportsOf(h)' \subseteq ReportsOf(h)
    BY <1>2 DEF ReportsOf, FilingInv, TypeOK
  <2> QED
    BY <1>2, <2>1 DEF FilingInv, LineageIsFinal
<1> QED
  BY <1>4, <1>5, <1>6, <1>7, QuietKeeps DEF FilingInv

LEMMA MergeKeeps ==
  ASSUME FilingInv, NEW source \in Groups, NEW target \in Groups, Merge(source, target)
  PROVE  FilingInv'
<1>1. /\ source # target
      /\ mergedInto[source] = NoGroup /\ mergedInto[target] = NoGroup
      /\ \A g \in Groups : mergedInto[g] # source
      /\ row[source].state \notin Unsettled /\ row[target].state \notin Unsettled
      /\ ~(row[source].state = "filed" /\ row[target].state = "filed")
  BY DEF Merge, MayMerge
<1>2. /\ mergedInto' = [mergedInto EXCEPT ![source] = target]
      /\ home' = [r \in Reports |-> IF home[r] = source THEN target ELSE home[r]]
      /\ issues' = Renumber({row[source].issue, row[target].issue})
      /\ UNCHANGED <<born, created, late, filers, syncs>>
  BY DEF Merge
<1>a. PICK moved : moved = [row[source] EXCEPT !.last = 0]
  OBVIOUS
<1>3. row' = IF row[source].state = "filed"
             THEN [row EXCEPT ![target] = moved, ![source] = NoRow]
             ELSE row
  BY <1>a DEF Merge
<1>4. /\ moved \in Row
      /\ moved.state = row[source].state /\ moved.issue = row[source].issue
      /\ moved.attempt = row[source].attempt
  BY <1>a, RowType DEF FilingInv, Row
<1>5. issues' \in [Numbers -> Issue] /\ SameMarks
  BY <1>2, RenumberFacts
<1>6. /\ row' \in [Groups -> Row]
      /\ \A g \in Groups \ {source, target} : row'[g] = row[g]
      /\ row[source].state = "filed" => row'[target] = moved /\ row'[source] = NoRow
      /\ row[source].state # "filed" => row'[target] = row[target] /\ row'[source] = row[source]
  BY <1>1, <1>3, <1>4, IdleTypes DEF FilingInv, TypeOK
<1>7. /\ mergedInto'[source] = target
      /\ \A g \in Groups \ {source} : mergedInto'[g] = mergedInto[g]
  BY <1>2 DEF FilingInv, TypeOK
<1>8. row'[source].state = "none"
  BY <1>1, <1>6, RowType DEF FilingInv, NoRow
<1>9. TypeOK'
  BY <1>2, <1>5, <1>6 DEF FilingInv, TypeOK
<1>10. Engaged' /\ Blank'
  BY <1>2, <1>5, BlankKept DEF FilingInv, Engaged
<1>11. LineageIsFinal'
  <2> SUFFICES ASSUME NEW g \in Groups, mergedInto'[g] # NoGroup
               PROVE  /\ mergedInto'[mergedInto'[g]] = NoGroup
                      /\ ReportsOf(g)' = {}
                      /\ row'[g].state = "none"
    BY DEF LineageIsFinal
  <2>1. CASE g = source
    <3>1. ReportsOf(g)' = {}
      BY <1>1, <1>2, <2>1 DEF ReportsOf
    <3> QED
      BY <1>1, <1>7, <1>8, <2>1, <3>1
  <2>2. CASE g # source
    <3>1. /\ mergedInto'[g] = mergedInto[g] /\ mergedInto[g] \in Groups
          /\ mergedInto[mergedInto[g]] = NoGroup /\ ReportsOf(g) = {} /\ row[g].state = "none"
          /\ mergedInto[g] # source
      BY <1>1, <1>7, <2>2 DEF FilingInv, LineageIsFinal, TypeOK
    <3>2. g # target /\ mergedInto'[mergedInto[g]] = NoGroup
      BY <1>1, <1>7, <2>2, <3>1
    <3>3. ReportsOf(g)' = {}
      BY <1>2, <2>2, <3>1, <3>2 DEF ReportsOf
    <3> QED
      BY <1>6, <2>2, <3>1, <3>2, <3>3
  <2> QED
    BY <2>1, <2>2
<1>12. FilerOwnsRow'
  <2>1. ASSUME NEW f \in Filers, filers[f].pc \in Holding
        PROVE  filers[f].g \in Groups \ {source, target}
    <3>1. filers[f].g \in Groups
      BY <2>1, EngagedFiler DEF Holding
    <3>2. row[filers[f].g].state = "pending"
      BY <2>1 DEF FilingInv, FilerOwnsRow
    <3> QED
      BY <1>1, <3>1, <3>2 DEF Unsettled
  <2> QED
    BY <1>2, <1>6, <1>7, <2>1 DEF FilingInv, FilerOwnsRow, Holds
<1>13. ASSUME NEW g \in Groups, ~FiledLate(g)'
       PROVE  /\ OneMarked(g)' /\ Linked(g)' /\ LinkedByTarget(g)'
              /\ \A f \in Filers : FilerKnows(f, g)'
              /\ \A s \in Syncs : SyncKnows(s, g)'
  <2>0. MarkedIssues(g)' = MarkedIssues(g) /\ ~FiledLate(g)
    BY <1>5, <1>13, MarksKept
  <2>1. /\ OneMarked(g) /\ Linked(g) /\ LinkedByTarget(g)
        /\ \A f \in Filers : FilerKnows(f, g)
        /\ \A s \in Syncs : SyncKnows(s, g)
    BY <2>0 DEF FilingInv, Placed, PlacedAt
  <2>2. OneMarked(g)'
    BY <2>0, <2>1 DEF OneMarked
  <2>3. \A f \in Filers : FilerKnows(f, g)'
    BY <1>2, <2>0, <2>1 DEF FilerKnows, Holds
  <2>4. CASE g = source
    <3>1. Linked(g)'
      BY <1>1, <1>7, <2>4 DEF Linked
    <3>2. LinkedByTarget(g)'
      BY <1>1, <1>4, <1>6, <1>7, <2>0, <2>1, <2>4 DEF LinkedByTarget, Linked
    <3>3. \A s \in Syncs : SyncKnows(s, g)'
      BY <1>2, <1>8, <2>4 DEF SyncKnows, OwnsAttempt
    <3> QED
      BY <2>2, <2>3, <3>1, <3>2, <3>3
  <2>5. CASE g = target
    <3>1. Linked(g)'
      BY <1>1, <1>6, <1>7, <2>0, <2>1, <2>5 DEF Linked
    <3>2. LinkedByTarget(g)'
      BY <1>1, <1>7, <2>5 DEF LinkedByTarget
    <3>3. row'[g].state # "needs_reconciliation"
      BY <1>1, <1>4, <1>6, <2>5 DEF Unsettled
    <3>4. \A s \in Syncs : SyncKnows(s, g)'
      BY <1>2, <3>3 DEF SyncKnows, OwnsAttempt
    <3> QED
      BY <2>2, <2>3, <3>1, <3>2, <3>4
  <2>6. CASE g \notin {source, target}
    <3>1. Linked(g)'
      BY <1>6, <1>7, <2>0, <2>1, <2>6 DEF Linked
    <3>2. LinkedByTarget(g)'
      <4>1. mergedInto[g] # NoGroup => mergedInto[g] \in Groups /\ mergedInto[g] # source
        BY <1>1 DEF FilingInv, TypeOK
      <4> QED
        BY <1>1, <1>6, <1>7, <2>0, <2>1, <2>6, <4>1 DEF LinkedByTarget
    <3>3. \A s \in Syncs : SyncKnows(s, g)'
      BY <1>2, <1>6, <2>0, <2>1, <2>6 DEF SyncKnows, OwnsAttempt
    <3> QED
      BY <2>2, <2>3, <3>1, <3>2, <3>3
  <2> QED
    BY <2>4, <2>5, <2>6
<1> QED
  BY <1>9, <1>10, <1>11, <1>12, <1>13 DEF FilingInv, Placed, PlacedAt

-----------------------------------------------------------------------------
(* Filing.                                                                   *)

LEMMA MovedFiler ==
  ASSUME FilingInv, NEW f \in Filers, NEW x \in Filer, filers' = [filers EXCEPT ![f] = x]
  PROVE  /\ filers' \in [Filers -> Filer]
         /\ filers'[f] = x
         /\ \A e \in Filers \ {f} : filers'[e] = filers[e]
BY DEF FilingInv, TypeOK

LEMMA BeginKeeps ==
  ASSUME FilingInv, NEW f \in Filers, NEW g \in Groups, BeginFiling(f, g)
  PROVE  FilingInv'
<1>a. PICK x : x = [pc |-> "claim", g |-> g, body |-> ReportsOf(g), issue |-> 0]
  OBVIOUS
<1>1. /\ filers' = [filers EXCEPT ![f] = x]
      /\ UNCHANGED <<row, mergedInto, home, born, issues, created, late, syncs>>
  BY <1>a DEF BeginFiling
<1>2. x \in Filer /\ x.pc = "claim" /\ x.g = g
  BY <1>a DEF Filer, ReportsOf, FilingInv, TypeOK
<1>3. /\ filers' \in [Filers -> Filer] /\ filers'[f] = x
      /\ \A e \in Filers \ {f} : filers'[e] = filers[e]
  BY <1>1, <1>2, MovedFiler
<1>4. TypeOK'
  BY <1>1, <1>3, OnlyFilers
<1>5. Engaged'
  BY <1>1, <1>2, <1>3 DEF FilingInv, Engaged
<1>6. Quiet
  <2>1. \A e \in Filers, h \in Groups : FilerNoNews(e, h)
    BY <1>2, <1>3 DEF FilerNoNews, Holds, Holding
  <2> QED
    BY <1>1, <2>1 DEF Quiet, SameMarks, SameRow, SyncNoNews
<1>7. LineageIsFinal' /\ Blank'
  BY <1>1, <1>6, HomeKept, BlankKept DEF Quiet
<1> QED
  BY <1>4, <1>5, <1>6, <1>7, QuietKeeps DEF FilingInv

LEMMA RefuseKeeps ==
  ASSUME FilingInv, NEW f \in Filers, RefuseClaim(f)
  PROVE  FilingInv'
<1>1. /\ filers' = [filers EXCEPT ![f] = IdleFiler]
      /\ UNCHANGED <<row, mergedInto, home, born, issues, created, late, syncs>>
  BY DEF RefuseClaim
<1>2. IdleFiler \in Filer /\ IdleFiler.pc = "idle"
  BY IdleTypes DEF IdleFiler
<1>3. /\ filers' \in [Filers -> Filer] /\ filers'[f] = IdleFiler
      /\ \A e \in Filers \ {f} : filers'[e] = filers[e]
  BY <1>1, <1>2, MovedFiler
<1>4. TypeOK'
  BY <1>1, <1>3, OnlyFilers
<1>5. Engaged'
  BY <1>1, <1>2, <1>3 DEF FilingInv, Engaged
<1>6. Quiet
  <2>1. \A e \in Filers, h \in Groups : FilerNoNews(e, h)
    BY <1>2, <1>3 DEF FilerNoNews, Holds, Holding
  <2> QED
    BY <1>1, <2>1 DEF Quiet, SameMarks, SameRow, SyncNoNews
<1>7. LineageIsFinal' /\ Blank'
  BY <1>1, <1>6, HomeKept, BlankKept DEF Quiet
<1> QED
  BY <1>4, <1>5, <1>6, <1>7, QuietKeeps DEF FilingInv

(* A step of the filer of g that changes the row of g and no other.          *)
LEMMA ElsewhereKept ==
  ASSUME FilingInv, NEW g \in Groups, SameMarks, mergedInto' = mergedInto, syncs' = syncs,
         \A h \in Groups \ {g} : row'[h] = row[h], row[g].state # "filed",
         \A f \in Filers, h \in Groups \ {g} : FilerNoNews(f, h)
  PROVE  \A h \in Groups \ {g} : PlacedAt(h)'
<1> SUFFICES ASSUME NEW h \in Groups \ {g} PROVE PlacedAt(h)'
  OBVIOUS
<1>1. FiledStays
  BY DEF FiledStays
<1>2. SameRow(h)
  BY DEF SameRow
<1> QED
  BY <1>1, <1>2, MarksKept, PlaceKept DEF SyncNoNews

LEMMA ClaimKeeps ==
  ASSUME FilingInv, NEW f \in Filers, Claim(f)
  PROVE  FilingInv'
<1>a. PICK g : g = filers[f].g
  OBVIOUS
<1>b. PICK pending : pending = [NoRow EXCEPT !.state = "pending",
                                             !.last = Cardinality(filers[f].body)]
  OBVIOUS
<1>c. PICK x : x = [filers[f] EXCEPT !.pc = "post"]
  OBVIOUS
<1>1. /\ filers[f].pc = "claim" /\ mergedInto[g] = NoGroup /\ row[g].state = "none"
      /\ row' = [row EXCEPT ![g] = pending]
      /\ filers' = [filers EXCEPT ![f] = x]
      /\ UNCHANGED <<mergedInto, home, born, issues, created, late, syncs>>
  BY <1>a, <1>b, <1>c DEF Claim, Claimable
<1>2. g \in Groups
  BY <1>a, <1>1, EngagedFiler
<1>3. pending \in Row /\ pending.state = "pending" /\ pending.attempt = NoSync
  <2>1. Cardinality(filers[f].body) \in Nat
    BY FilerType, SomeReports DEF FilingInv
  <2>2. pending = [state |-> "pending", last |-> Cardinality(filers[f].body), issue |-> 0,
                   attempt |-> NoSync]
    BY <1>b DEF NoRow
  <2> QED
    BY <2>1, <2>2 DEF Row, Unsettled
<1>4. x \in Filer /\ x.pc = "post" /\ x.g = g
  BY <1>a, <1>c, FilerType DEF FilingInv, Filer
<1>5. /\ filers' \in [Filers -> Filer] /\ filers'[f] = x
      /\ \A e \in Filers \ {f} : filers'[e] = filers[e]
  BY <1>1, <1>4, MovedFiler
<1>6. /\ row' \in [Groups -> Row] /\ row'[g] = pending
      /\ \A h \in Groups \ {g} : row'[h] = row[h]
  BY <1>1, <1>2, <1>3 DEF FilingInv, TypeOK
<1>7. TypeOK'
  BY <1>1, <1>5, <1>6 DEF FilingInv, TypeOK
<1>8. Engaged' /\ Blank'
  BY <1>1, <1>2, <1>4, <1>5 DEF FilingInv, Engaged, Blank
<1>9. LineageIsFinal'
  BY <1>1, <1>2, <1>6, LineageKept
<1>10. \A e \in Filers : ~Holds(e, g)
  BY <1>1, <1>a DEF FilingInv, FilerOwnsRow, Holds
<1>11. FilerOwnsRow'
  <2> SUFFICES ASSUME NEW e \in Filers, filers'[e].pc \in Holding
               PROVE  /\ row'[filers'[e].g].state = "pending"
                      /\ mergedInto'[filers'[e].g] = NoGroup
                      /\ \A d \in Filers \ {e} : ~Holds(d, filers[e].g)'
    BY DEF FilerOwnsRow
  <2>1. CASE e = f
    BY <1>1, <1>3, <1>4, <1>5, <1>6, <1>10, <2>1 DEF Holds
  <2>2. CASE e # f
    <3>1. filers[e].pc \in Holding /\ filers'[e].g = filers[e].g /\ filers[e].g \in Groups
      BY <1>5, <2>2, EngagedFiler DEF Holding
    <3>2. filers[e].g # g
      BY <1>10, <3>1 DEF Holds
    <3>3. /\ row[filers[e].g].state = "pending" /\ mergedInto[filers[e].g] = NoGroup
          /\ \A d \in Filers \ {e} : ~Holds(d, filers[e].g)
      BY <3>1 DEF FilingInv, FilerOwnsRow
    <3> QED
      BY <1>1, <1>4, <1>5, <1>6, <3>1, <3>2, <3>3 DEF Holds
  <2> QED
    BY <2>1, <2>2
<1>12. SameMarks
  BY <1>1 DEF SameMarks
<1>13. \A e \in Filers, h \in Groups \ {g} : FilerNoNews(e, h)
  BY <1>4, <1>5 DEF FilerNoNews, Holds
<1>14. \A h \in Groups \ {g} : PlacedAt(h)'
  BY <1>1, <1>2, <1>6, <1>12, <1>13, ElsewhereKept
<1>15. PlacedAt(g)'
  <2> SUFFICES ASSUME ~FiledLate(g)
               PROVE  /\ OneMarked(g)' /\ Linked(g)' /\ LinkedByTarget(g)'
                      /\ \A e \in Filers : FilerKnows(e, g)'
                      /\ \A s \in Syncs : SyncKnows(s, g)'
    BY <1>12, MarksKept DEF PlacedAt
  <2>1. MarkedIssues(g) = {}
    BY <1>1, <1>2 DEF FilingInv, Placed, PlacedAt, Linked, Unsettled
  <2>2. MarkedIssues(g)' = {}
    BY <1>12, <2>1, MarksKept
  <2>3. \A e \in Filers : FilerKnows(e, g)'
    BY <1>4, <1>5, <1>10, <2>2 DEF FilerKnows, Holds
  <2>4. \A s \in Syncs : SyncKnows(s, g)'
    BY <1>3, <1>6 DEF SyncKnows, OwnsAttempt
  <2> QED
    BY <2>2, <2>3, <2>4 DEF OneMarked, Linked, LinkedByTarget
<1> QED
  BY <1>7, <1>8, <1>9, <1>11, <1>14, <1>15 DEF FilingInv, Placed

(* The row of g is settled, released or quarantined by the one who may: no    *)
(* filer holds g afterwards.                                                 *)
LEMMA RowSettledKeeps ==
  ASSUME FilingInv, NEW f \in Filers, NEW g \in Groups, NEW x \in Row,
         row[g].state = "pending", mergedInto[g] = NoGroup,
         x.state # "pending", x.attempt = NoSync,
         \A e \in Filers \ {f} : ~Holds(e, g),
         row' = [row EXCEPT ![g] = x],
         filers' = [filers EXCEPT ![f] = IdleFiler],
         UNCHANGED <<mergedInto, home, born, issues, created, late, syncs>>,
         ~FiledLate(g) => \/ x.state = "filed" /\ x.issue \in MarkedIssues(g)
                          \/ x.state = "none" /\ MarkedIssues(g) = {}
                          \/ x.state = "needs_reconciliation"
  PROVE  FilingInv'
<1>2. IdleFiler \in Filer /\ IdleFiler.pc = "idle"
  BY IdleTypes DEF IdleFiler
<1>5. /\ filers' \in [Filers -> Filer] /\ filers'[f] = IdleFiler
      /\ \A e \in Filers \ {f} : filers'[e] = filers[e]
  BY <1>2, MovedFiler
<1>6. /\ row' \in [Groups -> Row] /\ row'[g] = x
      /\ \A h \in Groups \ {g} : row'[h] = row[h]
  BY DEF FilingInv, TypeOK
<1>7. TypeOK'
  BY <1>5, <1>6 DEF FilingInv, TypeOK
<1>8. Engaged' /\ Blank'
  BY <1>2, <1>5 DEF FilingInv, Engaged, Blank
<1>9. LineageIsFinal'
  BY <1>6, LineageKept
<1>10. \A e \in Filers : ~Holds(e, g)'
  BY <1>2, <1>5 DEF Holds, Holding
<1>11. FilerOwnsRow'
  <2> SUFFICES ASSUME NEW e \in Filers, filers'[e].pc \in Holding
               PROVE  /\ row'[filers'[e].g].state = "pending"
                      /\ mergedInto'[filers'[e].g] = NoGroup
                      /\ \A d \in Filers \ {e} : ~Holds(d, filers[e].g)'
    BY DEF FilerOwnsRow
  <2>1. e # f /\ filers'[e] = filers[e]
    BY <1>2, <1>5 DEF Holding
  <2>2. filers[e].g \in Groups /\ filers[e].g # g
    BY <1>10, <2>1, EngagedFiler DEF Holding, Holds
  <2>3. /\ row[filers[e].g].state = "pending" /\ mergedInto[filers[e].g] = NoGroup
        /\ \A d \in Filers \ {e} : ~Holds(d, filers[e].g)
    BY <2>1 DEF FilingInv, FilerOwnsRow
  <2> QED
    BY <1>2, <1>5, <1>6, <2>1, <2>2, <2>3 DEF Holds, Holding
<1>12. SameMarks
  BY DEF SameMarks
<1>13. \A e \in Filers, h \in Groups \ {g} : FilerNoNews(e, h)
  BY <1>2, <1>5 DEF FilerNoNews, Holds, Holding
<1>14. \A h \in Groups \ {g} : PlacedAt(h)'
  BY <1>6, <1>12, <1>13, ElsewhereKept
<1>15. PlacedAt(g)'
  <2> SUFFICES ASSUME ~FiledLate(g)
               PROVE  /\ OneMarked(g)' /\ Linked(g)' /\ LinkedByTarget(g)'
                      /\ \A e \in Filers : FilerKnows(e, g)'
                      /\ \A s \in Syncs : SyncKnows(s, g)'
    BY <1>12, MarksKept DEF PlacedAt
  <2>1. OneMarked(g)' /\ MarkedIssues(g)' = MarkedIssues(g)
    BY <1>12, MarksKept DEF FilingInv, Placed, PlacedAt, OneMarked
  <2>2. Linked(g)'
    BY <1>6, <2>1 DEF Linked, Unsettled
  <2>3. LinkedByTarget(g)'
    BY DEF LinkedByTarget
  <2>4. \A e \in Filers : FilerKnows(e, g)'
    BY <1>10 DEF FilerKnows
  <2>5. \A s \in Syncs : SyncKnows(s, g)'
    BY <1>6 DEF SyncKnows, OwnsAttempt
  <2> QED
    BY <2>1, <2>2, <2>3, <2>4, <2>5
<1> QED
  BY <1>7, <1>8, <1>9, <1>11, <1>14, <1>15 DEF FilingInv, Placed

LEMMA QuarantineKeeps ==
  ASSUME FilingInv, NEW f \in Filers, Quarantine(f)
  PROVE  FilingInv'
<1>a. PICK g : g = filers[f].g
  OBVIOUS
<1>b. PICK x : x = [row[g] EXCEPT !.state = "needs_reconciliation", !.attempt = NoSync]
  OBVIOUS
<1>1. /\ filers[f].pc = "claim" /\ mergedInto[g] = NoGroup /\ row[g].state = "pending"
      /\ \A e \in Filers : ~Holds(e, g)
      /\ filers' = [filers EXCEPT ![f] = IdleFiler]
      /\ UNCHANGED <<mergedInto, home, born, issues, created, late, syncs>>
  BY <1>a DEF Quarantine, Stale
<1>2. g \in Groups
  BY <1>a, <1>1, EngagedFiler
<1>3. /\ x \in Row /\ x.state = "needs_reconciliation" /\ x.attempt = NoSync
      /\ row' = [row EXCEPT ![g] = x]
  BY <1>a, <1>b, <1>2, RowType DEF FilingInv, Row, Unsettled, Quarantine, TypeOK
<1> QED
  BY <1>1, <1>2, <1>3, RowSettledKeeps

(* What a filer past its claim may rely on.                                  *)
LEMMA HolderFacts ==
  ASSUME FilingInv, NEW f \in Filers, NEW g, g = filers[f].g, filers[f].pc \in Holding
  PROVE  /\ g \in Groups /\ row[g].state = "pending" /\ mergedInto[g] = NoGroup
         /\ \A e \in Filers \ {f} : ~Holds(e, g)
         /\ ~FiledLate(g) => FilerKnows(f, g) /\ OneMarked(g) /\ Holds(f, g)
<1>1. g \in Groups
  BY EngagedFiler DEF Holding
<1> QED
  BY <1>1 DEF FilingInv, FilerOwnsRow, Placed, PlacedAt, Holds

LEMMA CompleteKeeps ==
  ASSUME FilingInv, NEW f \in Filers, CompleteFiling(f)
  PROVE  FilingInv'
<1>a. PICK g : g = filers[f].g
  OBVIOUS
<1>b. PICK x : x = [state |-> "filed", last |-> Cardinality(filers[f].body),
                    issue |-> filers[f].issue, attempt |-> NoSync]
  OBVIOUS
<1>1. filers[f].pc = "complete" /\ filers[f].pc \in Holding
  BY DEF CompleteFiling, Holding
<1>2. /\ g \in Groups /\ row[g].state = "pending" /\ mergedInto[g] = NoGroup
      /\ \A e \in Filers \ {f} : ~Holds(e, g)
      /\ ~FiledLate(g) => FilerKnows(f, g) /\ Holds(f, g)
  BY <1>a, <1>1, HolderFacts
<1>3. x \in Row /\ x.state = "filed" /\ x.issue = filers[f].issue /\ x.attempt = NoSync
  <2>1. Cardinality(filers[f].body) \in Nat
    BY FilerType, SomeReports DEF FilingInv
  <2> QED
    BY <1>b, <2>1, FilerType DEF FilingInv, Row
<1>4. /\ row' = [row EXCEPT ![g] = x]
      /\ filers' = [filers EXCEPT ![f] = IdleFiler]
      /\ UNCHANGED <<mergedInto, home, born, issues, created, late, syncs>>
  BY <1>a, <1>b, <1>2 DEF CompleteFiling
<1>5. ~FiledLate(g) => x.issue \in MarkedIssues(g)
  BY <1>1, <1>2, <1>3 DEF FilerKnows
<1> QED
  BY <1>2, <1>3, <1>4, <1>5, RowSettledKeeps

LEMMA ReleaseKeeps ==
  ASSUME FilingInv, NEW f \in Filers, ReleaseClaim(f)
  PROVE  FilingInv'
<1>a. PICK g : g = filers[f].g
  OBVIOUS
<1>1. filers[f].pc = "release" /\ filers[f].pc \in Holding
  BY DEF ReleaseClaim, Holding
<1>2. /\ g \in Groups /\ row[g].state = "pending" /\ mergedInto[g] = NoGroup
      /\ \A e \in Filers \ {f} : ~Holds(e, g)
      /\ ~FiledLate(g) => FilerKnows(f, g) /\ Holds(f, g)
  BY <1>a, <1>1, HolderFacts
<1>3. NoRow \in Row /\ NoRow.state = "none" /\ NoRow.attempt = NoSync
  BY IdleTypes DEF NoRow
<1>4. /\ row' = [row EXCEPT ![g] = NoRow]
      /\ filers' = [filers EXCEPT ![f] = IdleFiler]
      /\ UNCHANGED <<mergedInto, home, born, issues, created, late, syncs>>
  BY <1>a, <1>2 DEF ReleaseClaim
<1>5. ~FiledLate(g) => MarkedIssues(g) = {}
  BY <1>1, <1>2 DEF FilerKnows
<1> QED
  BY <1>2, <1>3, <1>4, <1>5, RowSettledKeeps

LEMMA MarkKeeps ==
  ASSUME FilingInv, NEW f \in Filers, MarkForReconciliation(f)
  PROVE  FilingInv'
<1>a. PICK g : g = filers[f].g
  OBVIOUS
<1>b. PICK x : x = [row[g] EXCEPT !.state = "needs_reconciliation", !.attempt = NoSync]
  OBVIOUS
<1>1. filers[f].pc \in Holding
  BY DEF MarkForReconciliation, Holding
<1>2. /\ g \in Groups /\ row[g].state = "pending" /\ mergedInto[g] = NoGroup
      /\ \A e \in Filers \ {f} : ~Holds(e, g)
  BY <1>a, <1>1, HolderFacts
<1>3. /\ x \in Row /\ x.state = "needs_reconciliation" /\ x.attempt = NoSync
      /\ row' = [row EXCEPT ![g] = x]
  BY <1>a, <1>b, <1>2, RowType
     DEF FilingInv, Row, Unsettled, MarkForReconciliation, TypeOK
<1>4. /\ filers' = [filers EXCEPT ![f] = IdleFiler]
      /\ UNCHANGED <<mergedInto, home, born, issues, created, late, syncs>>
  BY DEF MarkForReconciliation
<1> QED
  BY <1>2, <1>3, <1>4, RowSettledKeeps

(* A filer moves on without an issue having been created.                    *)
LEMMA FilerMoves ==
  ASSUME FilingInv, NEW f \in Filers, filers[f].pc \in Holding, NEW x \in Filer,
         filers' = [filers EXCEPT ![f] = x],
         \/ x.pc = "idle"
         \/ x.pc = "mark" /\ x.g = filers[f].g
         \/ x.pc = "release" /\ x.g = filers[f].g /\ filers[f].pc = "post",
         late' \subseteq [g : Groups, body : SUBSET Reports],
         UNCHANGED <<row, mergedInto, home, born, issues, created, syncs>>
  PROVE  FilingInv'
<1>1. /\ filers' \in [Filers -> Filer] /\ filers'[f] = x
      /\ \A e \in Filers \ {f} : filers'[e] = filers[e]
  BY MovedFiler
<1>2. TypeOK'
  BY <1>1 DEF FilingInv, TypeOK
<1>3. Engaged'
  BY <1>1, EngagedFiler DEF FilingInv, Engaged, Holding
<1>4. Quiet
  <2>1. \A e \in Filers, h \in Groups : FilerNoNews(e, h)
    BY <1>1 DEF FilerNoNews, Holds, Holding
  <2> QED
    BY <2>1 DEF Quiet, SameMarks, SameRow, SyncNoNews
<1>5. LineageIsFinal' /\ Blank'
  BY <1>4, HomeKept, BlankKept DEF Quiet
<1> QED
  BY <1>2, <1>3, <1>4, <1>5, QuietKeeps DEF FilingInv

LEMMA RefusedKeeps ==
  ASSUME FilingInv, NEW f \in Filers, PostRefused(f)
  PROVE  FilingInv'
<1>b. PICK x : x = [filers[f] EXCEPT !.pc = "release", !.body = {}]
  OBVIOUS
<1>1. x \in Filer /\ x.pc = "release" /\ x.g = filers[f].g
  BY <1>b, FilerType DEF FilingInv, Filer
<1>2. /\ filers[f].pc = "post" /\ filers[f].pc \in Holding
      /\ filers' = [filers EXCEPT ![f] = x]
      /\ UNCHANGED <<row, mergedInto, home, born, issues, created, late, syncs>>
  BY <1>b DEF PostRefused, MoveFiler, Holding, FilingInv, TypeOK
<1>3. late' \subseteq [g : Groups, body : SUBSET Reports]
  BY <1>2 DEF FilingInv, TypeOK
<1> QED
  BY <1>1, <1>2, <1>3, FilerMoves

-----------------------------------------------------------------------------
(* GitHub creates an issue.                                                  *)

LEMMA Created ==
  ASSUME FilingInv, NEW g \in Groups, NEW x \in Issue, x.marker = g,
         created < MaxIssues, created' = created + 1,
         issues' = [issues EXCEPT ![created + 1] = x]
  PROVE  /\ created' \in 0 .. MaxIssues /\ issues' \in [Numbers -> Issue]
         /\ Blank'
         /\ created + 1 \in Numbers
         /\ MarkedIssues(g)' = MarkedIssues(g) \cup {created + 1}
         /\ x.late => FiledLate(g)'
         /\ FiledLate(g) => FiledLate(g)'
         /\ \A h \in Groups \ {g} : /\ MarkedIssues(h)' = MarkedIssues(h)
                                    /\ FiledLate(h)' = FiledLate(h)
<1>a. PICK new : new = created + 1
  OBVIOUS
<1>1. /\ created \in Nat /\ new \in Numbers /\ created' \in 0 .. MaxIssues
      /\ issues \in [Numbers -> Issue]
  BY <1>a DEF FilingInv, TypeOK, Numbers
<1>2. issues[new].marker = NoGroup
  BY <1>a, <1>1 DEF FilingInv, Blank
<1>3. /\ issues' \in [Numbers -> Issue] /\ issues'[new] = x
      /\ \A n \in Numbers \ {new} : issues'[n] = issues[n]
  BY <1>a, <1>1
<1>4. Blank'
  BY <1>a, <1>1, <1>3 DEF FilingInv, Blank, Numbers
<1>5. MarkedIssues(g)' = MarkedIssues(g) \cup {new}
  BY <1>1, <1>2, <1>3 DEF MarkedIssues
<1>6. x.late => FiledLate(g)'
  BY <1>3, <1>5 DEF FiledLate
<1>7. FiledLate(g) => FiledLate(g)'
  BY <1>1, <1>2, <1>3 DEF FiledLate, MarkedIssues
<1>8. ASSUME NEW h \in Groups \ {g}
      PROVE  MarkedIssues(h)' = MarkedIssues(h) /\ FiledLate(h)' = FiledLate(h)
  <2>1. MarkedIssues(h)' = MarkedIssues(h) /\ new \notin MarkedIssues(h)
    BY <1>1, <1>2, <1>3 DEF MarkedIssues
  <2>2. \A n \in MarkedIssues(h) : issues'[n] = issues[n]
    BY <1>3, <2>1 DEF MarkedIssues
  <2> QED
    BY <2>1, <2>2 DEF FiledLate
<1> QED
  BY <1>a, <1>1, <1>3, <1>4, <1>5, <1>6, <1>7, <1>8

(* The filer that asked for it moves on, knowing or not.                     *)
LEMMA CreationKeeps ==
  ASSUME FilingInv, NEW f \in Filers, filers[f].pc = "post", NEW g, g = filers[f].g,
         NEW x \in Issue, x.marker = g,
         created < MaxIssues, created' = created + 1,
         issues' = [issues EXCEPT ![created + 1] = x],
         NEW y \in Filer, filers' = [filers EXCEPT ![f] = y],
         \/ y.pc = "idle"
         \/ y.pc = "mark" /\ y.g = g
         \/ y.pc = "complete" /\ y.g = g /\ y.issue = created + 1,
         UNCHANGED <<row, mergedInto, home, born, late, syncs>>
  PROVE  FilingInv'
<1>1. /\ g \in Groups /\ row[g].state = "pending" /\ mergedInto[g] = NoGroup
      /\ \A e \in Filers \ {f} : ~Holds(e, g)
      /\ ~FiledLate(g) => FilerKnows(f, g) /\ Holds(f, g)
  BY HolderFacts DEF Holding
<1>2. /\ filers' \in [Filers -> Filer] /\ filers'[f] = y
      /\ \A e \in Filers \ {f} : filers'[e] = filers[e]
  BY MovedFiler
<1>3. /\ created' \in 0 .. MaxIssues /\ issues' \in [Numbers -> Issue] /\ Blank'
      /\ MarkedIssues(g)' = MarkedIssues(g) \cup {created + 1}
      /\ FiledLate(g) => FiledLate(g)'
      /\ \A h \in Groups \ {g} : MarkedIssues(h)' = MarkedIssues(h) /\ FiledLate(h)' = FiledLate(h)
  BY <1>1, Created
<1>4. TypeOK'
  BY <1>2, <1>3 DEF FilingInv, TypeOK
<1>5. Engaged'
  BY <1>1, <1>2 DEF FilingInv, Engaged
<1>6. LineageIsFinal'
  BY LineageKept
<1>7. \A h \in Groups : SameRow(h)
  BY DEF SameRow
<1>8. FilerOwnsRow'
  <2>1. \A e \in Filers, h \in Groups : Holds(e, h)' => Holds(e, h)
    BY <1>2 DEF Holds, Holding
  <2> QED
    BY <1>5, <2>1, OwnersKept
<1>9. FiledStays
  BY DEF FiledStays
<1>10. ASSUME NEW h \in Groups \ {g} PROVE PlacedAt(h)'
  <2>1. \A e \in Filers : FilerNoNews(e, h)
    BY <1>2 DEF FilerNoNews, Holds, Holding
  <2> QED
    BY <1>3, <1>7, <1>9, <2>1, PlaceKept DEF SyncNoNews
<1>11. PlacedAt(g)'
  <2> SUFFICES ASSUME ~FiledLate(g)
               PROVE  /\ OneMarked(g)' /\ Linked(g)' /\ LinkedByTarget(g)'
                      /\ \A e \in Filers : FilerKnows(e, g)'
                      /\ \A s \in Syncs : SyncKnows(s, g)'
    BY <1>3 DEF PlacedAt
  <2>1. MarkedIssues(g)' = {created + 1}
    BY <1>1, <1>3 DEF FilerKnows
  <2>2. OneMarked(g)'
    BY <2>1 DEF OneMarked
  <2>3. Linked(g)' /\ LinkedByTarget(g)'
    BY <1>1 DEF Linked, LinkedByTarget, Unsettled
  <2>4. \A e \in Filers : FilerKnows(e, g)'
    BY <1>1, <1>2, <2>1 DEF FilerKnows, Holds, Holding
  <2>5. \A s \in Syncs : SyncKnows(s, g)'
    BY <1>1 DEF SyncKnows, OwnsAttempt
  <2> QED
    BY <2>2, <2>3, <2>4, <2>5
<1> QED
  BY <1>3, <1>4, <1>5, <1>6, <1>8, <1>10, <1>11 DEF FilingInv, Placed

LEMMA CreateIs ==
  ASSUME FilingInv, NEW g \in Groups, NEW body \in SUBSET Reports, NEW isLate \in BOOLEAN,
         Create(g, body, isLate)
  PROVE  /\ created < MaxIssues /\ created' = created + 1
         /\ \E x \in Issue : /\ x.marker = g /\ x.late = isLate
                             /\ issues' = [issues EXCEPT ![created + 1] = x]
<1>a. PICK again : again = (isLate \/ Renumbered(g, body))
  OBVIOUS
<1>b. PICK x : x = [marker |-> g, body |-> body, told |-> body, rebased |-> again,
                    late |-> isLate]
  OBVIOUS
<1>1. again \in BOOLEAN
  BY <1>a DEF Renumbered
<1>2. x \in Issue /\ x.marker = g /\ x.late = isLate
  BY <1>b, <1>1 DEF Issue
<1>3. /\ created < MaxIssues /\ created' = created + 1
      /\ issues' = [issues EXCEPT ![created + 1] = x]
  BY <1>a, <1>b DEF Create
<1> QED
  BY <1>2, <1>3

LEMMA CreatesKeeps ==
  ASSUME FilingInv, NEW f \in Filers, PostCreates(f)
  PROVE  FilingInv'
<1>a. PICK y : y = [filers[f] EXCEPT !.pc = "complete", !.issue = created + 1]
  OBVIOUS
<1>1. filers[f].pc = "post" /\ filers[f].g \in Groups /\ filers[f].body \in SUBSET Reports
  BY EngagedFiler, FilerType DEF PostCreates, FilingInv
<1>2. created < MaxIssues /\ created' = created + 1
  BY DEF PostCreates, Create
<1>3. PICK x \in Issue : x.marker = filers[f].g
                         /\ issues' = [issues EXCEPT ![created + 1] = x]
  BY <1>1, CreateIs DEF PostCreates
<1>4. created + 1 \in 0 .. MaxIssues
  BY <1>2 DEF FilingInv, TypeOK
<1>5. y \in Filer /\ y.pc = "complete" /\ y.g = filers[f].g /\ y.issue = created + 1
  BY <1>a, <1>4, FilerType DEF FilingInv, Filer
<1>6. filers' = [filers EXCEPT ![f] = y]
  BY <1>a DEF PostCreates, FilingInv, TypeOK
<1>7. UNCHANGED <<row, mergedInto, home, born, late, syncs>>
  BY DEF PostCreates
<1> QED
  BY <1>1, <1>2, <1>3, <1>5, <1>6, <1>7, CreationKeeps

LEMMA GiveUpType ==
  ASSUME FilingInv, NEW f \in Filers, filers[f].pc = "post", GiveUp(f)
  PROVE  late' \subseteq [g : Groups, body : SUBSET Reports]
BY EngagedFiler, FilerType DEF GiveUp, FilingInv, TypeOK

LEMMA UnclearKeeps ==
  ASSUME FilingInv, NEW f \in Filers, PostUnclear(f)
  PROVE  FilingInv'
<1>a. PICK y : y = [filers[f] EXCEPT !.pc = "mark", !.body = {}]
  OBVIOUS
<1>1. /\ filers[f].pc = "post" /\ filers[f].pc \in Holding
      /\ filers[f].g \in Groups /\ filers[f].body \in SUBSET Reports
  BY EngagedFiler, FilerType DEF PostUnclear, FilingInv, Holding
<1>2. y \in Filer /\ y.pc = "mark" /\ y.g = filers[f].g
  BY <1>a, FilerType DEF FilingInv, Filer
<1>3. filers' = [filers EXCEPT ![f] = y] /\ UNCHANGED <<row, mergedInto, home, born, syncs>>
  BY <1>a DEF PostUnclear, MoveFiler, FilingInv, TypeOK
<1>4. CASE Create(filers[f].g, filers[f].body, FALSE) /\ UNCHANGED late
  <2>1. created < MaxIssues /\ created' = created + 1
    BY <1>4 DEF Create
  <2>2. PICK x \in Issue : x.marker = filers[f].g
                           /\ issues' = [issues EXCEPT ![created + 1] = x]
    BY <1>1, <1>4, CreateIs
  <2> QED
    BY <1>1, <1>2, <1>3, <1>4, <2>1, <2>2, CreationKeeps
<1>5. CASE GiveUp(f) /\ UNCHANGED <<issues, created>>
  BY <1>1, <1>2, <1>3, <1>5, GiveUpType, FilerMoves
<1> QED
  BY <1>4, <1>5 DEF PostUnclear

LEMMA FilerDiesKeeps ==
  ASSUME FilingInv, NEW f \in Filers, FilerDies(f)
  PROVE  FilingInv'
<1>1. /\ filers[f].pc \in Holding
      /\ filers[f].g \in Groups /\ filers[f].body \in SUBSET Reports
  BY EngagedFiler, FilerType DEF FilerDies, FilingInv, Holding
<1>2. IdleFiler \in Filer /\ IdleFiler.pc = "idle"
  BY IdleTypes DEF IdleFiler
<1>3. filers' = [filers EXCEPT ![f] = IdleFiler] /\ UNCHANGED <<row, mergedInto, home, born, syncs>>
  BY DEF FilerDies
<1>4. CASE filers[f].pc = "post" /\ Create(filers[f].g, filers[f].body, FALSE) /\ UNCHANGED late
  <2>1. created < MaxIssues /\ created' = created + 1
    BY <1>4 DEF Create
  <2>2. PICK x \in Issue : x.marker = filers[f].g
                           /\ issues' = [issues EXCEPT ![created + 1] = x]
    BY <1>1, <1>4, CreateIs
  <2> QED
    BY <1>2, <1>3, <1>4, <2>1, <2>2, CreationKeeps
<1>5. CASE filers[f].pc = "post" /\ GiveUp(f) /\ UNCHANGED <<issues, created>>
  BY <1>1, <1>2, <1>3, <1>5, GiveUpType, FilerMoves
<1>6. CASE UNCHANGED <<issues, created, late>>
  <2>1. late' \subseteq [g : Groups, body : SUBSET Reports]
    BY <1>6 DEF FilingInv, TypeOK
  <2> QED
    BY <1>1, <1>2, <1>3, <1>6, <2>1, FilerMoves
<1> QED
  BY <1>4, <1>5, <1>6 DEF FilerDies

(* Late: nobody knows, and the group is excused.                             *)
LEMMA LateKeeps ==
  ASSUME FilingInv, NEW request \in late, ExecuteLate(request)
  PROVE  FilingInv'
<1>a. PICK g : g = request.g
  OBVIOUS
<1>1. g \in Groups /\ request.body \in SUBSET Reports
  BY <1>a DEF FilingInv, TypeOK
<1>2. /\ created < MaxIssues /\ created' = created + 1 /\ late' \subseteq late
      /\ UNCHANGED <<row, mergedInto, home, born, filers, syncs>>
  BY DEF ExecuteLate, Create
<1>3. PICK x \in Issue : x.marker = g /\ x.late
                         /\ issues' = [issues EXCEPT ![created + 1] = x]
  BY <1>a, <1>1, CreateIs DEF ExecuteLate
<1>4. /\ created' \in 0 .. MaxIssues /\ issues' \in [Numbers -> Issue] /\ Blank'
      /\ FiledLate(g)'
      /\ \A h \in Groups \ {g} : MarkedIssues(h)' = MarkedIssues(h) /\ FiledLate(h)' = FiledLate(h)
  BY <1>1, <1>2, <1>3, Created
<1>5. TypeOK' /\ Engaged'
  BY <1>2, <1>4 DEF FilingInv, TypeOK, Engaged
<1>6. LineageIsFinal'
  BY <1>2, LineageKept
<1>7. /\ \A h \in Groups : SameRow(h)
      /\ \A e \in Filers, h \in Groups : FilerNoNews(e, h)
      /\ FiledStays
  BY <1>2, NoFilerNews DEF SameRow, FiledStays
<1>8. FilerOwnsRow'
  BY <1>2, <1>5, OwnersKept DEF Holds
<1>9. ASSUME NEW h \in Groups \ {g} PROVE PlacedAt(h)'
  BY <1>2, <1>4, <1>7, PlaceKept DEF SyncNoNews
<1>10. PlacedAt(g)'
  BY <1>4 DEF PlacedAt
<1> QED
  BY <1>4, <1>5, <1>6, <1>8, <1>9, <1>10 DEF FilingInv, Placed

-----------------------------------------------------------------------------
(* Synchronisations.                                                         *)

LEMMA MovedSync ==
  ASSUME FilingInv, NEW s \in Syncs, NEW x \in Sync, syncs' = [syncs EXCEPT ![s] = x]
  PROVE  /\ syncs' \in [Syncs -> Sync]
         /\ syncs'[s] = x
         /\ \A t \in Syncs \ {s} : syncs'[t] = syncs[t]
BY DEF FilingInv, TypeOK

(* A step that finds nothing out and settles nothing.                        *)
LEMMA SyncMoves ==
  ASSUME FilingInv, NEW s \in Syncs, NEW x \in Sync, syncs' = [syncs EXCEPT ![s] = x],
         x.pc # "settle", x.pc # "idle" => x.g \in Groups,
         row' \in [Groups -> Row], \A g \in Groups : SameRow(g),
         issues' \in [Numbers -> Issue], SameMarks,
         UNCHANGED <<mergedInto, home, born, created, late, filers>>
  PROVE  FilingInv'
<1>1. /\ syncs' \in [Syncs -> Sync] /\ syncs'[s] = x
      /\ \A t \in Syncs \ {s} : syncs'[t] = syncs[t]
  BY MovedSync
<1>2. TypeOK'
  BY <1>1 DEF FilingInv, TypeOK
<1>3. Engaged'
  BY <1>1 DEF FilingInv, Engaged
<1>4. Quiet
  BY <1>1, NoFilerNews DEF Quiet, SyncNoNews
<1>5. LineageIsFinal' /\ Blank'
  BY <1>4, HomeKept, BlankKept DEF Quiet
<1> QED
  BY <1>2, <1>3, <1>4, <1>5, QuietKeeps DEF FilingInv

LEMMA NothingElse ==
  ASSUME FilingInv
  PROVE  /\ row' = row => row' \in [Groups -> Row] /\ \A g \in Groups : SameRow(g)
         /\ issues' = issues => issues' \in [Numbers -> Issue] /\ SameMarks
BY DEF FilingInv, TypeOK, SameRow, SameMarks

(* Only the count of a filed row moves.                                      *)
LEMMA CountMoves ==
  ASSUME FilingInv, NEW g \in Groups, NEW count \in Nat, row' = [row EXCEPT ![g].last = count]
  PROVE  row' \in [Groups -> Row] /\ \A h \in Groups : SameRow(h)
<1>a. PICK x : x = [row[g] EXCEPT !.last = count]
  OBVIOUS
<1>1. /\ x \in Row /\ x.state = row[g].state /\ x.issue = row[g].issue
      /\ x.attempt = row[g].attempt
  BY <1>a, RowType DEF FilingInv, Row
<1>2. row' = [row EXCEPT ![g] = x]
  BY <1>a DEF FilingInv, TypeOK
<1> QED
  BY <1>1, <1>2 DEF SameRow, FilingInv, TypeOK

LEMMA AnnounceFacts ==
  ASSUME FilingInv, NEW s \in Syncs, NEW unclear \in BOOLEAN, Announce(s, unclear)
  PROVE  issues' \in [Numbers -> Issue] /\ SameMarks
<1>a. PICK k : k = syncs[s].issue
  OBVIOUS
<1>b. PICK w : w = syncs[s].window
  OBVIOUS
<1>1. issues' = [issues EXCEPT ![k].told = @ \cup w, ![k].rebased = @ \/ unclear]
  BY <1>a, <1>b DEF Announce
<1>2. issues \in [Numbers -> Issue] /\ w \subseteq Reports
  BY <1>b, SyncType DEF FilingInv, TypeOK
<1>3. CASE k \in Numbers
  <2>c. PICK again : again = (issues[k].rebased \/ unclear)
    OBVIOUS
  <2>d. PICK x : x = [issues[k] EXCEPT !.told = issues[k].told \cup w, !.rebased = again]
    OBVIOUS
  <2>0. issues[k] \in Issue
    BY <1>2, <1>3
  <2>1. again \in BOOLEAN
    BY <2>c, <2>0 DEF Issue
  <2>2. x \in Issue /\ x.marker = issues[k].marker /\ x.late = issues[k].late
    BY <1>2, <2>0, <2>1, <2>d DEF Issue
  <2>3. issues' = [issues EXCEPT ![k] = x]
    BY <1>1, <1>2, <1>3, <2>0, <2>c, <2>d DEF Issue
  <2> QED
    BY <1>2, <1>3, <2>2, <2>3 DEF SameMarks
<1>4. CASE k \notin Numbers
  <2>1. issues' = issues
    BY <1>1, <1>2, <1>4
  <2> QED
    BY <1>2, <2>1 DEF SameMarks
<1> QED
  BY <1>3, <1>4

LEMMA IdleAgain == IdleSync \in Sync /\ IdleSync.pc = "idle"
BY IdleTypes DEF IdleSync

LEMMA InconclusiveKeeps ==
  ASSUME FilingInv, NEW s \in Syncs, ListInconclusive(s)
  PROVE  FilingInv'
<1>1. /\ syncs' = [syncs EXCEPT ![s] = IdleSync]
      /\ UNCHANGED <<row, mergedInto, home, born, issues, created, late, filers>>
  BY DEF ListInconclusive
<1> QED
  BY <1>1, IdleAgain, NothingElse, SyncMoves

LEMMA ReadContextKeeps ==
  ASSUME FilingInv, NEW s \in Syncs, NEW g \in Groups, ReadContext(s, g)
  PROVE  FilingInv'
<1>a. PICK x : x = [pc |-> "bump", g |-> g, issue |-> row[g].issue, from |-> row[g].last,
                    to |-> Cardinality(ReportsOf(g)), window |-> NewReports(g)]
  OBVIOUS
<1>1. x \in Sync /\ x.pc = "bump" /\ x.g = g
  <2>1. ReportsOf(g) \in SUBSET Reports /\ NewReports(g) \in SUBSET Reports
    BY DEF ReportsOf, NewReports
  <2>2. Cardinality(ReportsOf(g)) \in Nat
    BY <2>1, SomeReports
  <2> QED
    BY <1>a, <2>1, <2>2, RowType DEF FilingInv, Sync
<1>2. /\ syncs' = [syncs EXCEPT ![s] = x]
      /\ UNCHANGED <<row, mergedInto, home, born, issues, created, late, filers>>
  BY <1>a DEF ReadContext
<1> QED
  BY <1>1, <1>2, NothingElse, SyncMoves

LEMMA BumpKeeps ==
  ASSUME FilingInv, NEW s \in Syncs, Bump(s)
  PROVE  FilingInv'
<1>a. PICK x : x = [syncs[s] EXCEPT !.pc = "comment"]
  OBVIOUS
<1>1. syncs[s].g \in Groups /\ syncs[s].to \in Nat
  BY EngagedSync, SyncType DEF Bump, FilingInv
<1>2. x \in Sync /\ x.pc = "comment" /\ x.g = syncs[s].g
  BY <1>a, SyncType DEF FilingInv, Sync
<1>3. UNCHANGED <<mergedInto, home, born, issues, created, late, filers>>
  BY DEF Bump
<1>4. CASE CountIs(syncs[s].g, syncs[s].from)
  <2>1. row' = [row EXCEPT ![syncs[s].g].last = syncs[s].to] /\ syncs' = [syncs EXCEPT ![s] = x]
    BY <1>4, <1>a DEF Bump, FilingInv, TypeOK
  <2>2. row' \in [Groups -> Row] /\ \A h \in Groups : SameRow(h)
    BY <1>1, <2>1, CountMoves
  <2> QED
    BY <1>1, <1>2, <1>3, <2>1, <2>2, NothingElse, SyncMoves
<1>5. CASE ~CountIs(syncs[s].g, syncs[s].from)
  <2>1. row' = row /\ syncs' = [syncs EXCEPT ![s] = IdleSync]
    BY <1>5 DEF Bump
  <2> QED
    BY <1>3, <2>1, IdleAgain, NothingElse, SyncMoves
<1> QED
  BY <1>4, <1>5

LEMMA CommentKeeps ==
  ASSUME FilingInv, NEW s \in Syncs, PostComment(s)
  PROVE  FilingInv'
<1>1. issues' \in [Numbers -> Issue] /\ SameMarks
  BY AnnounceFacts DEF PostComment
<1>2. /\ syncs' = [syncs EXCEPT ![s] = IdleSync]
      /\ UNCHANGED <<row, mergedInto, home, born, created, late, filers>>
  BY DEF PostComment
<1> QED
  BY <1>1, <1>2, IdleAgain, NothingElse, SyncMoves

LEMMA CommentFailsKeeps ==
  ASSUME FilingInv, NEW s \in Syncs, CommentFails(s)
  PROVE  FilingInv'
<1>a. PICK x : x = [syncs[s] EXCEPT !.pc = "revert", !.issue = 0, !.window = {}]
  OBVIOUS
<1>0. syncs[s].g \in Groups
  BY EngagedSync DEF CommentFails
<1>1. x \in Sync /\ x.pc = "revert" /\ x.g = syncs[s].g
  <2>1. x = [pc |-> "revert", g |-> syncs[s].g, issue |-> 0, from |-> syncs[s].from,
             to |-> syncs[s].to, window |-> {}]
    BY <1>a, SyncType DEF FilingInv, Sync
  <2>2. 0 \in 0 .. MaxIssues /\ {} \in SUBSET Reports
    OBVIOUS
  <2> QED
    BY <2>1, <2>2, SyncType DEF FilingInv, Sync
<1>2. issues' \in [Numbers -> Issue] /\ SameMarks
  BY AnnounceFacts, NothingElse DEF CommentFails
<1>3. /\ syncs' = [syncs EXCEPT ![s] = x]
      /\ UNCHANGED <<row, mergedInto, home, born, created, late, filers>>
  BY <1>a DEF CommentFails, FilingInv, TypeOK
<1> QED
  BY <1>0, <1>1, <1>2, <1>3, NothingElse, SyncMoves

LEMMA RevertKeeps ==
  ASSUME FilingInv, NEW s \in Syncs, RevertCount(s)
  PROVE  FilingInv'
<1>1. syncs[s].g \in Groups /\ syncs[s].from \in Nat
  BY EngagedSync, SyncType DEF RevertCount, FilingInv
<1>2. /\ syncs' = [syncs EXCEPT ![s] = IdleSync]
      /\ UNCHANGED <<mergedInto, home, born, issues, created, late, filers>>
  BY DEF RevertCount
<1>3. row' \in [Groups -> Row] /\ \A h \in Groups : SameRow(h)
  <2>1. row' = row \/ row' = [row EXCEPT ![syncs[s].g].last = syncs[s].from]
    BY DEF RevertCount
  <2> QED
    BY <1>1, <2>1, CountMoves, NothingElse
<1> QED
  BY <1>2, <1>3, IdleAgain, NothingElse, SyncMoves

LEMMA SyncDiesKeeps ==
  ASSUME FilingInv, NEW s \in Syncs, SyncDies(s)
  PROVE  FilingInv'
<1>1. issues' \in [Numbers -> Issue] /\ SameMarks
  BY AnnounceFacts, NothingElse DEF SyncDies
<1>2. /\ syncs' = [syncs EXCEPT ![s] = IdleSync]
      /\ UNCHANGED <<row, mergedInto, home, born, created, late, filers>>
  BY DEF SyncDies
<1> QED
  BY <1>1, <1>2, IdleAgain, NothingElse, SyncMoves

LEMMA ListKeeps ==
  ASSUME FilingInv, NEW s \in Syncs, ListComplete(s)
  PROVE  FilingInv'
<1>a. PICK g : g = syncs[s].g
  OBVIOUS
<1>1. PICK n \in MarkedIssues(g) \cup {0} :
          /\ n = 0 <=> MarkedIssues(g) = {}
          /\ syncs' = [syncs EXCEPT ![s].pc = "settle", ![s].issue = n]
  BY <1>a DEF ListComplete
<1>b. PICK x : x = [syncs[s] EXCEPT !.pc = "settle", !.issue = n]
  OBVIOUS
<1>2. g \in Groups /\ UNCHANGED <<row, mergedInto, home, born, issues, created, late, filers>>
  BY <1>a, EngagedSync DEF ListComplete
<1>3. n \in 0 .. MaxIssues
  BY DEF MarkedIssues, Numbers
<1>4. x \in Sync /\ x.pc = "settle" /\ x.g = g /\ x.issue = n
  BY <1>a, <1>b, <1>3, SyncType DEF FilingInv, Sync
<1>5. syncs' = [syncs EXCEPT ![s] = x]
  BY <1>1, <1>b DEF FilingInv, TypeOK
<1>6. /\ syncs' \in [Syncs -> Sync] /\ syncs'[s] = x
      /\ \A t \in Syncs \ {s} : syncs'[t] = syncs[t]
  BY <1>4, <1>5, MovedSync
<1>7. TypeOK'
  BY <1>2, <1>6, OnlySyncs
<1>8. Engaged' /\ Blank'
  BY <1>2, <1>4, <1>6 DEF FilingInv, Engaged, Blank
<1>9. LineageIsFinal'
  BY <1>2, LineageKept
<1>10. FilerOwnsRow'
  BY <1>2, <1>8, OwnersKept DEF Holds
<1>11. SameMarks /\ FiledStays /\ \A h \in Groups : SameRow(h)
  BY <1>2 DEF SameMarks, FiledStays, SameRow
<1>12. ASSUME NEW h \in Groups \ {g} PROVE PlacedAt(h)'
  BY <1>2, <1>4, <1>6, <1>11, NoFilerNews, MarksKept, PlaceKept DEF SyncNoNews
<1>13. PlacedAt(g)'
  <2> SUFFICES ASSUME ~FiledLate(g)
               PROVE  /\ OneMarked(g)' /\ Linked(g)' /\ LinkedByTarget(g)'
                      /\ \A e \in Filers : FilerKnows(e, g)'
                      /\ \A t \in Syncs : SyncKnows(t, g)'
    BY <1>11, MarksKept DEF PlacedAt
  <2>0. /\ OneMarked(g) /\ Linked(g) /\ LinkedByTarget(g)
        /\ \A e \in Filers : FilerKnows(e, g)
        /\ \A t \in Syncs : SyncKnows(t, g)
        /\ MarkedIssues(g)' = MarkedIssues(g)
    BY <1>2, <1>11, MarksKept DEF FilingInv, Placed, PlacedAt
  <2>1. OneMarked(g)' /\ Linked(g)' /\ LinkedByTarget(g)'
    BY <1>2, <2>0 DEF OneMarked, Linked, LinkedByTarget
  <2>2. \A e \in Filers : FilerKnows(e, g)'
    BY <1>2, <2>0 DEF FilerKnows, Holds
  <2>3. ASSUME NEW t \in Syncs PROVE SyncKnows(t, g)'
    BY <1>1, <1>2, <1>4, <1>6, <2>0 DEF SyncKnows, OwnsAttempt
  <2> QED
    BY <2>1, <2>2, <2>3
<1> QED
  BY <1>7, <1>8, <1>9, <1>10, <1>12, <1>13 DEF FilingInv, Placed

LEMMA ClaimAttemptKeeps ==
  ASSUME FilingInv, NEW s \in Syncs, NEW g \in Groups, ClaimAttempt(s, g)
  PROVE  FilingInv'
<1>a. PICK x : x = [IdleSync EXCEPT !.pc = "list", !.g = g, !.from = row[g].last]
  OBVIOUS
<1>b. PICK y : y = [row[g] EXCEPT !.attempt = s]
  OBVIOUS
<1>1. x \in Sync /\ x.pc = "list" /\ x.g = g
  <2>1. x = [pc |-> "list", g |-> g, issue |-> 0, from |-> row[g].last, to |-> 0, window |-> {}]
    BY <1>a DEF IdleSync
  <2>2. 0 \in 0 .. MaxIssues /\ {} \in SUBSET Reports
    OBVIOUS
  <2> QED
    BY <2>1, <2>2, RowType DEF FilingInv, Sync
<1>2. /\ y \in Row /\ y.state = row[g].state /\ y.issue = row[g].issue /\ y.attempt = s
      /\ row[g].state = "needs_reconciliation"
  BY <1>b, RowType DEF FilingInv, Row, ClaimAttempt
<1>3. /\ row' = [row EXCEPT ![g] = y] /\ syncs' = [syncs EXCEPT ![s] = x]
      /\ UNCHANGED <<mergedInto, home, born, issues, created, late, filers>>
  BY <1>a, <1>b DEF ClaimAttempt, FilingInv, TypeOK
<1>4. /\ syncs' \in [Syncs -> Sync] /\ syncs'[s] = x
      /\ \A t \in Syncs \ {s} : syncs'[t] = syncs[t]
  BY <1>1, <1>3, MovedSync
<1>5. /\ row' \in [Groups -> Row] /\ row'[g] = y
      /\ \A h \in Groups \ {g} : row'[h] = row[h]
  BY <1>2, <1>3 DEF FilingInv, TypeOK
<1>6. TypeOK'
  BY <1>3, <1>4, <1>5 DEF FilingInv, TypeOK
<1>7. Engaged' /\ Blank'
  BY <1>1, <1>3, <1>4 DEF FilingInv, Engaged, Blank
<1>8. LineageIsFinal'
  BY <1>2, <1>3, <1>5, LineageKept
<1>9. FilerOwnsRow'
  <2>1. \A h \in Groups : row'[h].state = row[h].state
    BY <1>2, <1>5
  <2> QED
    BY <1>3, <1>7, <2>1, OwnersKept DEF Holds
<1>10. SameMarks /\ FiledStays
  BY <1>2, <1>3, <1>5 DEF SameMarks, FiledStays
<1>11. ASSUME NEW h \in Groups \ {g} PROVE PlacedAt(h)'
  <2>1. SameRow(h)
    BY <1>5 DEF SameRow
  <2>2. \A t \in Syncs : SyncNoNews(t)
    BY <1>1, <1>4 DEF SyncNoNews
  <2> QED
    BY <1>3, <1>10, <2>1, <2>2, NoFilerNews, MarksKept, PlaceKept
<1>12. PlacedAt(g)'
  <2> SUFFICES ASSUME ~FiledLate(g)
               PROVE  /\ OneMarked(g)' /\ Linked(g)' /\ LinkedByTarget(g)'
                      /\ \A e \in Filers : FilerKnows(e, g)'
                      /\ \A t \in Syncs : SyncKnows(t, g)'
    BY <1>10, MarksKept DEF PlacedAt
  <2>0. /\ OneMarked(g) /\ Linked(g) /\ LinkedByTarget(g)
        /\ \A e \in Filers : FilerKnows(e, g)
        /\ \A t \in Syncs : SyncKnows(t, g)
        /\ MarkedIssues(g)' = MarkedIssues(g)
    BY <1>3, <1>10, MarksKept DEF FilingInv, Placed, PlacedAt
  <2>1. OneMarked(g)' /\ Linked(g)'
    BY <1>2, <1>3, <1>5, <2>0 DEF OneMarked, Linked
  <2>2. mergedInto[g] = NoGroup
    BY <1>2 DEF FilingInv, LineageIsFinal
  <2>3. LinkedByTarget(g)'
    BY <1>3, <2>2 DEF LinkedByTarget
  <2>4. \A e \in Filers : FilerKnows(e, g)'
    BY <1>3, <2>0 DEF FilerKnows, Holds
  <2>5. \A t \in Syncs : SyncKnows(t, g)'
    BY <1>1, <1>2, <1>4, <1>5 DEF SyncKnows, OwnsAttempt
  <2> QED
    BY <2>1, <2>3, <2>4, <2>5
<1> QED
  BY <1>6, <1>7, <1>8, <1>9, <1>11, <1>12 DEF FilingInv, Placed

LEMMA SettleKeeps ==
  ASSUME FilingInv, NEW s \in Syncs, Settle(s)
  PROVE  FilingInv'
<1>a. PICK g : g = syncs[s].g
  OBVIOUS
<1>1. /\ g \in Groups /\ syncs[s].pc = "settle"
      /\ syncs' = [syncs EXCEPT ![s] = IdleSync]
      /\ UNCHANGED <<mergedInto, home, born, issues, created, late, filers>>
  BY <1>a, EngagedSync DEF Settle
<1>2. CASE ~OwnsAttempt(s)
  <2>1. row' = row
    BY <1>2 DEF Settle
  <2> QED
    BY <1>1, <2>1, IdleAgain, NothingElse, SyncMoves
<1>3. CASE OwnsAttempt(s)
  <2>b. PICK y : y = IF syncs[s].issue = 0 THEN NoRow
                     ELSE [state |-> "filed", last |-> syncs[s].from, issue |-> syncs[s].issue,
                           attempt |-> NoSync]
    OBVIOUS
  <2>1. row' = [row EXCEPT ![g] = y]
    BY <1>3, <1>a, <2>b DEF Settle, Adopt, AdoptedBaseline
  <2>2. /\ y \in Row
        /\ syncs[s].issue = 0 => y.state = "none"
        /\ syncs[s].issue # 0 => y.state = "filed" /\ y.issue = syncs[s].issue
        /\ y.state \in {"none", "filed"}
    BY <2>b, IdleTypes, SyncType DEF FilingInv, NoRow, Row
  <2>3. row[g].state = "needs_reconciliation" /\ mergedInto[g] = NoGroup
    BY <1>3, <1>a, <1>1 DEF OwnsAttempt, FilingInv, LineageIsFinal
  <2>4. \A e \in Filers : ~Holds(e, g)
    BY <2>3 DEF FilingInv, FilerOwnsRow, Holds
  <2>5. /\ row' \in [Groups -> Row] /\ row'[g] = y
        /\ \A h \in Groups \ {g} : row'[h] = row[h]
    BY <1>1, <2>1, <2>2 DEF FilingInv, TypeOK
  <2>6. /\ syncs' \in [Syncs -> Sync] /\ syncs'[s].pc = "idle"
        /\ \A t \in Syncs \ {s} : syncs'[t] = syncs[t]
    BY <1>1, IdleAgain, MovedSync
  <2>7. TypeOK'
    BY <1>1, <2>5, <2>6 DEF FilingInv, TypeOK
  <2>8. Engaged' /\ Blank'
    BY <1>1, <2>6 DEF FilingInv, Engaged, Blank
  <2>9. LineageIsFinal'
    BY <1>1, <2>3, <2>5, LineageKept
  <2>10. FilerOwnsRow'
    <3> SUFFICES ASSUME NEW e \in Filers, filers[e].pc \in Holding
                 PROVE  /\ row'[filers[e].g].state = "pending"
                        /\ mergedInto'[filers[e].g] = NoGroup
                        /\ \A d \in Filers \ {e} : ~Holds(d, filers[e].g)'
      BY <1>1 DEF FilerOwnsRow
    <3>1. filers[e].g \in Groups /\ filers[e].g # g
      BY <2>4, EngagedFiler DEF Holding, Holds
    <3>2. /\ row[filers[e].g].state = "pending" /\ mergedInto[filers[e].g] = NoGroup
          /\ \A d \in Filers \ {e} : ~Holds(d, filers[e].g)
      BY DEF FilingInv, FilerOwnsRow
    <3> QED
      BY <1>1, <2>5, <3>1, <3>2 DEF Holds
  <2>11. SameMarks /\ FiledStays
    BY <1>1, <2>3, <2>5 DEF SameMarks, FiledStays
  <2>12. ASSUME NEW h \in Groups \ {g} PROVE PlacedAt(h)'
    <3>1. SameRow(h)
      BY <2>5 DEF SameRow
    <3>2. \A t \in Syncs : SyncNoNews(t)
      BY <2>6 DEF SyncNoNews
    <3> QED
      BY <1>1, <2>11, <3>1, <3>2, NoFilerNews, MarksKept, PlaceKept
  <2>13. PlacedAt(g)'
    <3> SUFFICES ASSUME ~FiledLate(g)
                 PROVE  /\ OneMarked(g)' /\ Linked(g)' /\ LinkedByTarget(g)'
                        /\ \A e \in Filers : FilerKnows(e, g)'
                        /\ \A t \in Syncs : SyncKnows(t, g)'
      BY <2>11, MarksKept DEF PlacedAt
    <3>1. /\ OneMarked(g) /\ SyncKnows(s, g)
          /\ MarkedIssues(g)' = MarkedIssues(g)
      BY <1>1, <2>11, MarksKept DEF FilingInv, Placed, PlacedAt
    <3>2. IF syncs[s].issue = 0 THEN MarkedIssues(g) = {} ELSE syncs[s].issue \in MarkedIssues(g)
      BY <1>3, <1>a, <1>1, <3>1 DEF SyncKnows
    <3>3. OneMarked(g)'
      BY <3>1 DEF OneMarked
    <3>4. Linked(g)'
      BY <2>2, <2>5, <3>1, <3>2 DEF Linked
    <3>5. LinkedByTarget(g)'
      BY <1>1, <2>3 DEF LinkedByTarget
    <3>6. \A e \in Filers : FilerKnows(e, g)'
      BY <1>1, <2>4 DEF FilerKnows, Holds
    <3>7. \A t \in Syncs : SyncKnows(t, g)'
      BY <2>2, <2>5 DEF SyncKnows, OwnsAttempt
    <3> QED
      BY <3>3, <3>4, <3>5, <3>6, <3>7
  <2> QED
    BY <2>7, <2>8, <2>9, <2>10, <2>12, <2>13 DEF FilingInv, Placed
<1> QED
  BY <1>2, <1>3

-----------------------------------------------------------------------------
LEMMA FilingStart == Init => FilingInv
<1> SUFFICES ASSUME Init PROVE FilingInv
  OBVIOUS
<1>1. Cardinality(Groups) \in 0 .. MaxReports
  BY FS_CardinalityType
<1>2. TypeOK
  BY <1>1, IdleTypes DEF Init, TypeOK
<1>3. Engaged /\ FilerOwnsRow /\ LineageIsFinal /\ Blank
  BY DEF Init, Engaged, FilerOwnsRow, LineageIsFinal, Blank, IdleFiler, IdleSync, Holding, NoIssue
<1>4. ASSUME NEW g \in Groups PROVE PlacedAt(g)
  <2>1. MarkedIssues(g) = {}
    BY DEF Init, MarkedIssues, NoIssue
  <2>2. \A f \in Filers : FilerKnows(f, g)
    BY DEF Init, FilerKnows, Holds, Holding, IdleFiler
  <2>3. \A s \in Syncs : SyncKnows(s, g)
    BY DEF Init, SyncKnows, IdleSync
  <2> QED
    BY <2>1, <2>2, <2>3 DEF PlacedAt, OneMarked, Linked, LinkedByTarget
<1> QED
  BY <1>2, <1>3, <1>4 DEF FilingInv, Placed

LEMMA FilingStep == FilingInv /\ [Next]_vars => FilingInv'
<1> SUFFICES ASSUME FilingInv, [Next]_vars PROVE FilingInv'
  OBVIOUS
<1>1. ASSUME NEW f \in Filers, FilerStep(f) PROVE FilingInv'
  BY <1>1, ClaimKeeps, QuarantineKeeps, RefuseKeeps, CreatesKeeps, RefusedKeeps, UnclearKeeps,
     CompleteKeeps, ReleaseKeeps, MarkKeeps DEF FilerStep
<1>2. ASSUME NEW s \in Syncs, SyncStep(s) PROVE FilingInv'
  BY <1>2, ListKeeps, InconclusiveKeeps, SettleKeeps, BumpKeeps, CommentKeeps,
     CommentFailsKeeps, RevertKeeps DEF SyncStep
<1>3. CASE UNCHANGED vars
  <2>1. UNCHANGED <<row, mergedInto, home, born, issues, created, late, filers, syncs>>
    BY <1>3 DEF vars
  <2>2. TypeOK' /\ Engaged' /\ Blank'
    BY <2>1 DEF FilingInv, TypeOK, Engaged, Blank
  <2>3. Quiet
    BY <2>1, NoFilerNews DEF Quiet, SameMarks, SameRow, SyncNoNews
  <2> QED
    BY <2>1, <2>2, <2>3, HomeKept, QuietKeeps DEF FilingInv
<1> QED
  BY <1>1, <1>2, <1>3, SubmitKeeps, PurgeKeeps, MergeKeeps, BeginKeeps, FilerDiesKeeps,
     LateKeeps, ClaimAttemptKeeps, ReadContextKeeps, SyncDiesKeeps DEF Next

(* The inductive invariant of create_github_issue and its reconciliation: a   *)
(* live filer or synchronisation has its row to itself, a row nobody works   *)
(* on says where its issue is, and a merged group never comes back.          *)
THEOREM FilingInvariant == Spec => []FilingInv
BY FilingStart, FilingStep, PTL DEF Spec

LEMMA PlacedIsAccounted == FilingInv => IssuesAreAccounted
<1> SUFFICES ASSUME FilingInv PROVE IssuesAreAccounted
  OBVIOUS
<1>1. OneIssuePerGroup
  BY DEF FilingInv, Placed, PlacedAt, OneMarked, OneIssuePerGroup
<1>2. IssueIsHeld
  <2> SUFFICES ASSUME NEW n \in Numbers, issues[n].marker \in Groups, ~FiledLate(issues[n].marker)
               PROVE  \/ \E g \in Groups : row[g].state = "filed" /\ row[g].issue = n
                      \/ row[issues[n].marker].state \in Unsettled
    BY DEF IssueIsHeld
  <2>a. PICK g \in Groups : g = issues[n].marker
    OBVIOUS
  <2>1. n \in MarkedIssues(g)
    BY <2>a DEF MarkedIssues
  <2>2. OneMarked(g) /\ Linked(g) /\ LinkedByTarget(g)
    BY <2>a DEF FilingInv, Placed, PlacedAt
  <2>3. \A m \in MarkedIssues(g) : m = n
    BY <2>1, <2>2 DEF OneMarked
  <2>4. mergedInto[g] \in Groups \cup {NoGroup}
    BY DEF FilingInv, TypeOK
  <2> QED
    BY <2>a, <2>1, <2>2, <2>3, <2>4 DEF Linked, LinkedByTarget
<1> QED
  BY <1>1, <1>2 DEF FilingInv, IssuesAreAccounted

(* However filings, synchronisations, merges and purges interleave, and       *)
(* whatever dies, GitHub holds one issue of a group at most, it is linked or  *)
(* the row keeps everyone from filing again, a live filer has its row to      *)
(* itself, and a merged group has nothing left; what GitHub creates after its *)
(* caller gave up is excepted.                                               *)
THEOREM IssuesAccounted == Spec => []IssuesAreAccounted
BY FilingInvariant, PlacedIsAccounted, PTL

-----------------------------------------------------------------------------
(* What a group's issue has announced.                                       *)

(* Issues GitHub created while their filer was waiting.                       *)
InTime(g) == {n \in MarkedIssues(g) : ~issues[n].late}

LateIsRebased == \A n \in Numbers : issues[n].late => issues[n].rebased

AllBorn == \A r \in Reports : home[r] # NoGroup => r <= born

(* Nobody names an issue that is still to be created.                        *)
Known ==
    /\ \A g \in Groups : row[g].issue <= created
    /\ \A f \in Filers : filers[f].issue <= created
    /\ \A s \in Syncs : syncs[s].issue <= created

(* The first reports of g.                                                   *)
FirstOf(body, g) ==
    /\ body \subseteq ReportsOf(g)
    /\ \A q \in ReportsOf(g) \ body, r \in body : r < q

(* An issue whose filing is not settled announced its body, which its row    *)
(* counts.                                                                   *)
CountsBody(g, n) ==
    /\ row[g].last = Cardinality(issues[n].body)
    /\ ~issues[n].rebased => issues[n].told = issues[n].body /\ FirstOf(issues[n].body, g)

NoneInTime(g) == mergedInto[g] = NoGroup /\ row[g].state = "none" => InTime(g) = {}

BodiesCounted(g) == row[g].state \in Unsettled => \A n \in InTime(g) : CountsBody(g, n)

FilerCounts(f, g) ==
    Holds(f, g) =>
        /\ filers[f].pc \in {"post", "release"} => InTime(g) = {}
        /\ filers[f].pc = "post" => row[g].last = Cardinality(filers[f].body)
        /\ filers[f].pc = "complete" =>
              filers[f].issue \in InTime(g) /\ filers[f].body = issues[filers[f].issue].body

AttemptCounts(s, g) ==
    syncs[s].pc \in {"list", "settle"} /\ syncs[s].g = g /\ OwnsAttempt(s) =>
        /\ syncs[s].from = row[g].last
        /\ syncs[s].pc = "settle" =>
              IF syncs[s].issue = 0 THEN InTime(g) = {} ELSE syncs[s].issue \in MarkedIssues(g)

UnsettledAt(g) ==
    /\ NoneInTime(g)
    /\ BodiesCounted(g)
    /\ \A f \in Filers : FilerCounts(f, g)
    /\ \A s \in Syncs : AttemptCounts(s, g)

(* A comment, on its way or to be taken back, has its numbers to itself.      *)
Claiming(s, g) == syncs[s].pc \in {"comment", "revert"} /\ syncs[s].g = g

Looking(s, g) == syncs[s].pc \in {"bump", "comment"} /\ syncs[s].g = g

Within(s, r, g) == syncs[s].from < NumberOf(r, g) /\ NumberOf(r, g) <= syncs[s].to

ToldBelow(g, i) == \A r \in issues[i].told : r \in ReportsOf(g) /\ NumberOf(r, g) <= row[g].last

Claims(s, g, i) ==
    Claiming(s, g) =>
        /\ syncs[s].to <= row[g].last
        /\ \A r \in issues[i].told : ~Within(s, r, g)

Apart(s, t, g) ==
    Claiming(s, g) /\ Claiming(t, g) =>
        syncs[s].to <= syncs[t].from \/ syncs[t].to <= syncs[s].from

WindowFits(s, g) ==
    Looking(s, g) => \A r \in syncs[s].window : r \in ReportsOf(g) /\ Within(s, r, g)

AnnouncedAt(g, i) ==
    /\ issues[i].marker = g
    /\ ToldBelow(g, i)
    /\ \A s \in Syncs : Claims(s, g, i) /\ WindowFits(s, g)
    /\ \A s, t \in Syncs : s # t => Apart(s, t, g)

FiledAt(g) ==
    row[g].state = "filed" =>
        /\ row[g].issue \in Numbers
        /\ issues[row[g].issue].rebased \/ AnnouncedAt(g, row[g].issue)

(* The issue of a comment is the group's, or was renumbered since.            *)
Commenting(s) ==
    syncs[s].pc \in {"bump", "comment", "revert"} =>
        /\ syncs[s].from < syncs[s].to
        /\ row[syncs[s].g].state = "filed" \/ mergedInto[syncs[s].g] # NoGroup
        /\ syncs[s].pc # "revert" =>
              /\ syncs[s].issue \in Numbers
              /\ \/ row[syncs[s].g].state = "filed" /\ row[syncs[s].g].issue = syncs[s].issue
                 \/ issues[syncs[s].issue].rebased

AnnounceInv ==
    /\ LateIsRebased /\ AllBorn /\ Known
    /\ \A g \in Groups : UnsettledAt(g) /\ FiledAt(g)
    /\ \A s \in Syncs : Commenting(s)

(* The numbers of reports.                                                   *)

LEMMA NumberType ==
  ASSUME NEW g, NEW r \in Reports
  PROVE  /\ NumberOf(r, g) \in Nat
         /\ Cardinality(ReportsOf(g)) \in Nat
         /\ NumberOf(r, g) <= Cardinality(ReportsOf(g))
<1>1. ReportsOf(g) \in SUBSET Reports /\ {q \in ReportsOf(g) : q <= r} \in SUBSET Reports
  BY DEF ReportsOf
<1>2. {q \in ReportsOf(g) : q <= r} \subseteq ReportsOf(g)
  OBVIOUS
<1> QED
  BY <1>1, <1>2, SomeReports, FS_Subset DEF NumberOf

LEMMA NumberInBody ==
  ASSUME NEW g, NEW body \in SUBSET Reports, FirstOf(body, g), NEW r \in body
  PROVE  NumberOf(r, g) <= Cardinality(body)
<1>1. ReportsOf(g) \subseteq Reports /\ r \in Reports
  BY DEF ReportsOf
<1>2. ASSUME NEW q \in ReportsOf(g), q <= r PROVE q \in body
  BY <1>1, <1>2 DEF FirstOf, Reports
<1>3. {q \in ReportsOf(g) : q <= r} \subseteq body
  BY <1>2
<1> QED
  BY <1>3, SomeReports, FS_Subset DEF NumberOf

(* The reports there were keep their numbers.                                *)
ReportsKept(g) ==
    /\ ReportsOf(g) \subseteq ReportsOf(g)'
    /\ \A r \in ReportsOf(g) : NumberOf(r, g)' = NumberOf(r, g)

FirstKept(g) == \A body \in SUBSET Reports : FirstOf(body, g) => FirstOf(body, g)'

LEMMA SameReports ==
  ASSUME NEW g, ReportsOf(g)' = ReportsOf(g)
  PROVE  ReportsKept(g) /\ FirstKept(g)
BY DEF ReportsKept, FirstKept, NumberOf, FirstOf

LEMMA SubmitNumbers ==
  ASSUME FilingInv, AllBorn, NEW g \in Groups, SubmitReport(g), NEW h \in Groups
  PROVE  ReportsKept(h) /\ FirstKept(h)
<1>a. PICK t : t = LineageTarget(g)
  OBVIOUS
<1>1. /\ born \in Nat /\ home \in [Reports -> Groups \cup {NoGroup}]
      /\ home' = [home EXCEPT ![born + 1] = t]
  BY <1>a DEF SubmitReport, FilingInv, TypeOK
<1>2. \A r \in ReportsOf(h) : r \in Int /\ r <= born /\ r \in Reports /\ home[r] = h
  BY DEF ReportsOf, Reports, AllBorn
<1>3. ReportsOf(h) \subseteq ReportsOf(h)'
  <2> SUFFICES ASSUME NEW r \in ReportsOf(h) PROVE r \in ReportsOf(h)'
    OBVIOUS
  <2>1. r # born + 1
    BY <1>1, <1>2
  <2> QED
    BY <1>1, <1>2, <2>1 DEF ReportsOf
<1>4. \A q \in ReportsOf(h)' : q \in Int /\ (q \in ReportsOf(h) \/ q = born + 1)
  BY <1>1 DEF ReportsOf, Reports
<1>5. ASSUME NEW r \in ReportsOf(h) PROVE NumberOf(r, h)' = NumberOf(r, h)
  <2>1. {q \in ReportsOf(h)' : q <= r} = {q \in ReportsOf(h) : q <= r}
    <3>1. \A q \in ReportsOf(h)' : q <= r => q \in ReportsOf(h)
      BY <1>1, <1>2, <1>4
    <3> QED
      BY <1>3, <3>1
  <2> QED
    BY <2>1 DEF NumberOf
<1>6. ASSUME NEW body \in SUBSET Reports, FirstOf(body, h) PROVE FirstOf(body, h)'
  <2>1. body \subseteq ReportsOf(h)'
    BY <1>3, <1>6 DEF FirstOf
  <2>2. ASSUME NEW q \in ReportsOf(h)' \ body, NEW r \in body PROVE r < q
    <3>1. r \in ReportsOf(h)
      BY <1>6 DEF FirstOf
    <3>2. q \in ReportsOf(h) => r < q
      BY <1>6 DEF FirstOf
    <3> QED
      BY <1>1, <1>2, <1>4, <3>1, <3>2
  <2> QED
    BY <2>1, <2>2 DEF FirstOf
<1> QED
  BY <1>3, <1>5, <1>6 DEF ReportsKept, FirstKept

-----------------------------------------------------------------------------
(* Steps that leave a group's announcements as they are.                     *)

IssueKept(n) ==
    /\ issues'[n].marker = issues[n].marker
    /\ issues'[n].body = issues[n].body
    /\ issues'[n].late = issues[n].late
    /\ issues[n].rebased => issues'[n].rebased
    /\ issues'[n].rebased \/ issues'[n].told = issues[n].told

LEMMA InTimeKept ==
  ASSUME SameMarks, NEW g
  PROVE  InTime(g)' = InTime(g)
BY DEF SameMarks, InTime, MarkedIssues

FilerCalm(f, g) ==
    Holds(f, g)' =>
        /\ Holds(f, g)
        /\ \/ filers'[f] = filers[f]
           \/ filers'[f].pc = "mark"
           \/ filers[f].pc = "post" /\ filers'[f].pc = "release"

Unattempted(s, g) ==
    syncs'[s].pc \in {"list", "settle"} /\ syncs'[s].g = g => syncs'[s] = syncs[s]

SyncCalm(s, g) ==
    /\ Claiming(s, g)' =>
          Claiming(s, g) /\ syncs'[s].from = syncs[s].from /\ syncs'[s].to = syncs[s].to
    /\ Looking(s, g)' =>
          /\ Looking(s, g) /\ syncs'[s].from = syncs[s].from /\ syncs'[s].to = syncs[s].to
          /\ syncs'[s].window = syncs[s].window

LEMMA UnsettledKept ==
  ASSUME FilingInv, AnnounceInv, NEW g \in Groups,
         row'[g].state = row[g].state, row'[g].last = row[g].last, mergedInto'[g] = mergedInto[g],
         InTime(g)' = InTime(g), \A n \in InTime(g) : IssueKept(n),
         FirstKept(g) \/ \A n \in InTime(g) : issues'[n].rebased,
         \A f \in Filers : FilerCalm(f, g)
  PROVE  NoneInTime(g)' /\ BodiesCounted(g)' /\ \A f \in Filers : FilerCounts(f, g)'
<1>0. NoneInTime(g) /\ BodiesCounted(g) /\ \A f \in Filers : FilerCounts(f, g)
  BY DEF AnnounceInv, UnsettledAt
<1>1. NoneInTime(g)'
  BY <1>0 DEF NoneInTime
<1>2. BodiesCounted(g)'
  <2> SUFFICES ASSUME row[g].state \in Unsettled, NEW n \in InTime(g) PROVE CountsBody(g, n)'
    BY DEF BodiesCounted
  <2>1. CountsBody(g, n) /\ IssueKept(n)
    BY <1>0 DEF BodiesCounted
  <2>2. row'[g].last = Cardinality(issues'[n].body)
    BY <2>1 DEF CountsBody, IssueKept
  <2>3. ASSUME ~issues'[n].rebased
        PROVE  issues'[n].told = issues'[n].body /\ FirstOf(issues[n].body, g)'
    <3>1. issues[n].told = issues[n].body /\ FirstOf(issues[n].body, g)
      BY <2>1, <2>3 DEF CountsBody, IssueKept
    <3>2. issues'[n].told = issues'[n].body
      BY <2>1, <2>3, <3>1 DEF IssueKept
    <3>3. issues[n].body \in SUBSET Reports
      BY DEF InTime, MarkedIssues, FilingInv, TypeOK, Issue
    <3>b. PICK body \in SUBSET Reports : body = issues[n].body
      BY <3>3
    <3>4. FirstOf(body, g)
      BY <3>1, <3>b
    <3>5. FirstKept(g)
      BY <2>3
    <3>6. FirstOf(body, g)'
      BY <3>4, <3>5, <3>b DEF FirstKept
    <3>7. issues'[n].body = body
      BY <2>1, <3>b DEF IssueKept
    <3>8. FirstOf(issues[n].body, g)'
      BY <3>6, <3>7 DEF FirstOf
    <3> QED
      BY <3>2, <3>8
  <2> QED
    BY <2>2, <2>3 DEF CountsBody
<1>3. ASSUME NEW f \in Filers PROVE FilerCounts(f, g)'
  <2> SUFFICES ASSUME Holds(f, g)'
               PROVE  /\ filers'[f].pc \in {"post", "release"} => InTime(g) = {}
                      /\ filers'[f].pc = "post" => row[g].last = Cardinality(filers'[f].body)
                      /\ filers'[f].pc = "complete" =>
                            /\ filers'[f].issue \in InTime(g)
                            /\ filers'[f].body = issues'[filers'[f].issue].body
    BY DEF FilerCounts
  <2>1. Holds(f, g) /\ FilerCalm(f, g) /\ FilerCounts(f, g)
    BY <1>0 DEF FilerCalm
  <2>2. CASE filers'[f] = filers[f]
    BY <2>1, <2>2 DEF FilerCounts, IssueKept
  <2>3. CASE filers'[f] # filers[f]
    BY <2>1, <2>3 DEF FilerCounts, FilerCalm
  <2> QED
    BY <2>2, <2>3
<1> QED
  BY <1>1, <1>2, <1>3

LEMMA AttemptsKept ==
  ASSUME FilingInv, AnnounceInv, NEW g \in Groups,
         row'[g].state = row[g].state, row'[g].last = row[g].last, row'[g].attempt = row[g].attempt,
         InTime(g)' = InTime(g), MarkedIssues(g) \subseteq MarkedIssues(g)',
         \A s \in Syncs : Unattempted(s, g)
  PROVE  \A s \in Syncs : AttemptCounts(s, g)'
<1> SUFFICES ASSUME NEW s \in Syncs, syncs'[s].pc \in {"list", "settle"}, syncs'[s].g = g, OwnsAttempt(s)'
             PROVE  /\ syncs'[s].from = row[g].last
                    /\ syncs'[s].pc = "settle" =>
                          IF syncs'[s].issue = 0 THEN InTime(g) = {}
                          ELSE syncs'[s].issue \in MarkedIssues(g)
  BY DEF AttemptCounts
<1>1. syncs'[s] = syncs[s]
  BY DEF Unattempted
<1>2. OwnsAttempt(s)
  BY <1>1 DEF OwnsAttempt
<1>3. AttemptCounts(s, g)
  BY DEF AnnounceInv, UnsettledAt
<1> QED
  BY <1>1, <1>2, <1>3 DEF AttemptCounts

LEMMA StillUnsettled ==
  ASSUME FilingInv, AnnounceInv, NEW g \in Groups,
         row'[g].state = row[g].state, row'[g].last = row[g].last, row'[g].attempt = row[g].attempt,
         mergedInto'[g] = mergedInto[g],
         SameMarks, \A n \in InTime(g) : IssueKept(n),
         FirstKept(g) \/ \A n \in InTime(g) : issues'[n].rebased,
         \A f \in Filers : FilerCalm(f, g),
         \A s \in Syncs : Unattempted(s, g)
  PROVE  UnsettledAt(g)'
<1>1. InTime(g)' = InTime(g) /\ MarkedIssues(g)' = MarkedIssues(g)
  BY InTimeKept, MarksKept
<1> QED
  BY <1>1, UnsettledKept, AttemptsKept DEF UnsettledAt

LEMMA NobodyHolds ==
  ASSUME FilingInv, NEW g \in Groups, row[g].state # "pending", NEW f \in Filers
  PROVE  ~Holds(f, g)
BY DEF FilingInv, FilerOwnsRow, Holds

LEMMA SettledFiled ==
  ASSUME FilingInv', NEW g \in Groups, row'[g].state = "filed"
  PROVE  UnsettledAt(g)'
<1>1. \A f \in Filers : ~Holds(f, g)'
  BY DEF FilingInv, FilerOwnsRow, Holds
<1> QED
  BY <1>1 DEF UnsettledAt, NoneInTime, BodiesCounted, Unsettled, FilerCounts, AttemptCounts, OwnsAttempt

LEMMA SettledNone ==
  ASSUME FilingInv', NEW g \in Groups, row'[g].state = "none",
         mergedInto'[g] # NoGroup \/ InTime(g)' = {}
  PROVE  UnsettledAt(g)'
<1>1. \A f \in Filers : ~Holds(f, g)'
  BY DEF FilingInv, FilerOwnsRow, Holds
<1> QED
  BY <1>1 DEF UnsettledAt, NoneInTime, BodiesCounted, Unsettled, FilerCounts, AttemptCounts, OwnsAttempt

LEMMA StillAnnounced ==
  ASSUME NEW g \in Groups, NEW i \in Numbers, AnnouncedAt(g, i),
         row'[g].last = row[g].last, issues'[i].told = issues[i].told,
         issues'[i].marker = issues[i].marker, issues[i].told \subseteq Reports,
         ReportsKept(g), \A s \in Syncs : SyncCalm(s, g)
  PROVE  AnnouncedAt(g, i)'
<1>1. ToldBelow(g, i)'
  BY DEF AnnouncedAt, ToldBelow, ReportsKept
<1>2. \A r \in issues[i].told : r \in ReportsOf(g)
  BY DEF AnnouncedAt, ToldBelow
<1>3. ASSUME NEW s \in Syncs PROVE Claims(s, g, i)'
  <2> SUFFICES ASSUME Claiming(s, g)'
               PROVE  syncs'[s].to <= row[g].last /\ \A r \in issues[i].told : ~Within(s, r, g)'
    BY DEF Claims
  <2>1. Claims(s, g, i) /\ Claiming(s, g) /\ syncs'[s].from = syncs[s].from /\ syncs'[s].to = syncs[s].to
    BY DEF AnnouncedAt, SyncCalm
  <2> QED
    BY <1>2, <2>1 DEF Claims, Within, ReportsKept
<1>4. ASSUME NEW s \in Syncs PROVE WindowFits(s, g)'
  <2> SUFFICES ASSUME Looking(s, g)', NEW r \in syncs'[s].window
               PROVE  r \in ReportsOf(g)' /\ Within(s, r, g)'
    BY DEF WindowFits
  <2>1. /\ WindowFits(s, g) /\ Looking(s, g) /\ syncs'[s].window = syncs[s].window
        /\ syncs'[s].from = syncs[s].from /\ syncs'[s].to = syncs[s].to
    BY DEF AnnouncedAt, SyncCalm
  <2>2. r \in ReportsOf(g) /\ Within(s, r, g)
    BY <2>1 DEF WindowFits
  <2> QED
    BY <2>1, <2>2 DEF Within, ReportsKept
<1>5. ASSUME NEW s \in Syncs, NEW t \in Syncs, s # t PROVE Apart(s, t, g)'
  BY <1>5 DEF AnnouncedAt, Apart, SyncCalm
<1> QED
  BY <1>1, <1>3, <1>4, <1>5 DEF AnnouncedAt

LEMMA StillFiled ==
  ASSUME FilingInv, AnnounceInv, NEW g \in Groups,
         row'[g].state = "filed" => row'[g] = row[g],
         row'[g].state = "filed" => IssueKept(row[g].issue),
         ReportsKept(g) \/ (row'[g].state = "filed" => issues'[row[g].issue].rebased),
         \A s \in Syncs : SyncCalm(s, g)
  PROVE  FiledAt(g)'
<1> SUFFICES ASSUME row'[g].state = "filed"
             PROVE  row'[g].issue \in Numbers
                    /\ (issues'[row'[g].issue].rebased \/ AnnouncedAt(g, row[g].issue)')
  BY DEF FiledAt
<1>1. PICK i : i = row[g].issue
  OBVIOUS
<1>2. /\ row[g].state = "filed" /\ i \in Numbers /\ IssueKept(i)
      /\ issues[i].rebased \/ AnnouncedAt(g, i)
  BY <1>1 DEF AnnounceInv, FiledAt
<1>3. CASE issues'[i].rebased
  BY <1>1, <1>2, <1>3
<1>4. CASE ~issues'[i].rebased
  <2>1. AnnouncedAt(g, i) /\ issues'[i].told = issues[i].told /\ issues'[i].marker = issues[i].marker
    BY <1>2, <1>4 DEF IssueKept
  <2>2. ReportsKept(g)
    BY <1>1, <1>4
  <2>3. issues[i].told \subseteq Reports
    BY <1>2 DEF FilingInv, TypeOK, Issue
  <2>4. AnnouncedAt(g, i)'
    BY <1>2, <2>1, <2>2, <2>3, StillAnnounced
  <2> QED
    BY <1>1, <1>2, <2>4
<1> QED
  BY <1>3, <1>4

LinksKeep ==
    /\ \A n \in Numbers : issues[n].rebased /\ n <= created => issues'[n].rebased
    /\ \A g \in Groups :
         /\ mergedInto[g] # NoGroup => mergedInto'[g] # NoGroup
         /\ row[g].state = "filed" =>
              \/ row'[g].state = "filed" /\ row'[g].issue = row[g].issue
              \/ mergedInto'[g] # NoGroup /\ issues'[row[g].issue].rebased

StillCommenting(s) ==
    syncs'[s].pc \in {"bump", "comment", "revert"} =>
        /\ syncs[s].pc \in {"bump", "comment", "revert"}
        /\ syncs'[s].g = syncs[s].g /\ syncs'[s].from = syncs[s].from /\ syncs'[s].to = syncs[s].to
        /\ syncs'[s].pc # "revert" => syncs[s].pc # "revert" /\ syncs'[s].issue = syncs[s].issue

LEMMA CommentingKept ==
  ASSUME FilingInv, AnnounceInv, LinksKeep, NEW s \in Syncs, StillCommenting(s)
  PROVE  Commenting(s)'
<1> SUFFICES ASSUME syncs'[s].pc \in {"bump", "comment", "revert"}
             PROVE  Commenting(s)'
  BY DEF Commenting
<1>a. PICK g : g = syncs[s].g
  OBVIOUS
<1>b. PICK i : i = syncs[s].issue
  OBVIOUS
<1>1. /\ Commenting(s) /\ syncs[s].pc \in {"bump", "comment", "revert"}
      /\ syncs'[s].g = g /\ syncs'[s].from = syncs[s].from /\ syncs'[s].to = syncs[s].to
      /\ syncs'[s].pc # "revert" => syncs[s].pc # "revert" /\ syncs'[s].issue = i
  BY <1>a, <1>b DEF AnnounceInv, StillCommenting
<1>2. g \in Groups
  BY <1>1, <1>a DEF FilingInv, Engaged
<1>3. row'[g].state = "filed" \/ mergedInto'[g] # NoGroup
  BY <1>a, <1>1, <1>2 DEF Commenting, LinksKeep
<1>4. i <= created
  BY <1>b DEF AnnounceInv, Known
<1>5. ASSUME syncs'[s].pc # "revert"
      PROVE  /\ i \in Numbers
             /\ issues'[i].rebased \/ (row'[g].state = "filed" /\ row'[g].issue = i)
  <2>1. /\ i \in Numbers
        /\ issues[i].rebased \/ (row[g].state = "filed" /\ row[g].issue = i)
    BY <1>a, <1>b, <1>1, <1>5 DEF Commenting
  <2> QED
    BY <1>2, <1>4, <2>1 DEF LinksKeep
<1>6. syncs'[s].from < syncs'[s].to
  BY <1>1 DEF Commenting
<1> QED
  BY <1>1, <1>3, <1>5, <1>6 DEF Commenting

(* Nothing moves but filers and synchronisations, and what issues announce    *)
(* stands, or is renumbered.                                                 *)
LEMMA QuietAnnounces ==
  ASSUME FilingInv, AnnounceInv,
         UNCHANGED <<row, mergedInto, home, born, created>>,
         \A n \in Numbers : IssueKept(n),
         \A f \in Filers : filers'[f].issue <= created,
         \A s \in Syncs : syncs'[s].issue <= created,
         \A f \in Filers, g \in Groups : FilerCalm(f, g),
         \A s \in Syncs, g \in Groups : Unattempted(s, g) /\ SyncCalm(s, g),
         \A s \in Syncs : StillCommenting(s)
  PROVE  AnnounceInv'
<1>1. AllBorn' /\ Known'
  BY DEF AnnounceInv, AllBorn, Known
<1>2. SameMarks /\ LateIsRebased'
  BY DEF SameMarks, IssueKept, AnnounceInv, LateIsRebased
<1>3. ASSUME NEW g \in Groups PROVE UnsettledAt(g)' /\ FiledAt(g)'
  <2>1. ReportsKept(g) /\ FirstKept(g)
    BY SameReports DEF ReportsOf
  <2>2. \A n \in InTime(g) : IssueKept(n)
    BY DEF InTime, MarkedIssues
  <2>3. UnsettledAt(g)'
    BY <1>2, <2>1, <2>2, StillUnsettled
  <2>4. row[g].state = "filed" => IssueKept(row[g].issue)
    BY DEF AnnounceInv, FiledAt
  <2>5. FiledAt(g)'
    BY <2>1, <2>4, StillFiled
  <2> QED
    BY <2>3, <2>5
<1>4. LinksKeep
  BY DEF LinksKeep, IssueKept
<1>5. \A s \in Syncs : Commenting(s)'
  BY <1>4, CommentingKept
<1> QED
  BY <1>1, <1>2, <1>3, <1>5 DEF AnnounceInv

-----------------------------------------------------------------------------
(* Reports, groups and filers.                                               *)

LEMMA NobodyMoves ==
  /\ filers' = filers => \A f \in Filers, g \in Groups : FilerCalm(f, g)
  /\ syncs' = syncs =>
       /\ \A s \in Syncs, g \in Groups : Unattempted(s, g) /\ SyncCalm(s, g)
       /\ \A s \in Syncs : StillCommenting(s)
BY DEF FilerCalm, Holds, Unattempted, SyncCalm, Claiming, Looking, StillCommenting

LEMMA RenumberKeeps ==
  ASSUME FilingInv, AnnounceInv, NEW some, issues' = Renumber(some)
  PROVE  /\ \A n \in Numbers : IssueKept(n) /\ (n \in some => issues'[n].rebased)
         /\ LateIsRebased'
<1>1. ASSUME NEW n \in Numbers PROVE IssueKept(n) /\ (n \in some => issues'[n].rebased)
  <2>1. issues[n] \in Issue
    BY DEF FilingInv, TypeOK
  <2> QED
    BY <2>1 DEF Renumber, Issue, IssueKept
<1> QED
  BY <1>1 DEF IssueKept, LateIsRebased, AnnounceInv

LEMMA SubmitAnnounces ==
  ASSUME FilingInv, AnnounceInv, NEW g \in Groups, SubmitReport(g)
  PROVE  AnnounceInv'
<1>1. /\ born' = born + 1 /\ born \in Nat
      /\ UNCHANGED <<row, mergedInto, issues, created, late, filers, syncs>>
      /\ \A r \in Reports : home'[r] = home[r] \/ r = born'
  BY DEF SubmitReport, FilingInv, TypeOK
<1>2. LateIsRebased' /\ Known'
  BY <1>1 DEF AnnounceInv, LateIsRebased, Known
<1>3. AllBorn'
  BY <1>1 DEF AnnounceInv, AllBorn, Reports
<1>4. SameMarks /\ \A n : IssueKept(n)
  BY <1>1 DEF SameMarks, IssueKept
<1>5. /\ \A f \in Filers, h \in Groups : FilerCalm(f, h)
      /\ \A s \in Syncs, h \in Groups : Unattempted(s, h) /\ SyncCalm(s, h)
      /\ \A s \in Syncs : StillCommenting(s)
  BY <1>1, NobodyMoves
<1>6. ASSUME NEW h \in Groups PROVE UnsettledAt(h)' /\ FiledAt(h)'
  <2>1. ReportsKept(h) /\ FirstKept(h)
    BY SubmitNumbers DEF AnnounceInv
  <2>2. UnsettledAt(h)'
    BY <1>1, <1>4, <1>5, <2>1, StillUnsettled
  <2>3. FiledAt(h)'
    BY <1>1, <1>4, <1>5, <2>1, StillFiled
  <2> QED
    BY <2>2, <2>3
<1>7. LinksKeep
  BY <1>1 DEF LinksKeep
<1>8. \A s \in Syncs : Commenting(s)'
  BY <1>5, <1>7, CommentingKept
<1> QED
  BY <1>2, <1>3, <1>6, <1>8 DEF AnnounceInv

LEMMA PurgeAnnounces ==
  ASSUME FilingInv, AnnounceInv, NEW r \in Reports, PurgeReport(r)
  PROVE  AnnounceInv'
<1>a. PICK k : k = home[r]
  OBVIOUS
<1>b. PICK some : some = {row[k].issue} \cup MarkedIssues(k)
  OBVIOUS
<1>1. /\ home' = [home EXCEPT ![r] = NoGroup] /\ home \in [Reports -> Groups \cup {NoGroup}]
      /\ issues' = Renumber(some)
      /\ UNCHANGED <<row, mergedInto, born, created, late, filers, syncs>>
  BY <1>a, <1>b DEF PurgeReport, FilingInv, TypeOK
<1>2. /\ \A n \in Numbers : IssueKept(n) /\ (n \in some => issues'[n].rebased)
      /\ LateIsRebased' /\ SameMarks
  BY <1>1, RenumberKeeps, RenumberFacts
<1>3. AllBorn' /\ Known'
  BY <1>1 DEF AnnounceInv, AllBorn, Known
<1>4. /\ \A f \in Filers, h \in Groups : FilerCalm(f, h)
      /\ \A s \in Syncs, h \in Groups : Unattempted(s, h) /\ SyncCalm(s, h)
      /\ \A s \in Syncs : StillCommenting(s)
  BY <1>1, NobodyMoves
<1>5. ASSUME NEW h \in Groups PROVE UnsettledAt(h)' /\ FiledAt(h)'
  <2>1. h # k => ReportsKept(h) /\ FirstKept(h)
    <3>1. h # k => ReportsOf(h)' = ReportsOf(h)
      BY <1>1, <1>a DEF ReportsOf
    <3> QED
      BY <3>1, SameReports
  <2>2. h = k => \A n \in InTime(h) : issues'[n].rebased
    BY <1>2, <1>b DEF InTime, MarkedIssues
  <2>3. row[h].state = "filed" => row[h].issue \in Numbers
    BY DEF AnnounceInv, FiledAt
  <2>4. h = k /\ row[h].state = "filed" => issues'[row[h].issue].rebased
    BY <1>2, <1>b, <2>3
  <2>5. \A n \in InTime(h) : IssueKept(n)
    BY <1>2 DEF InTime, MarkedIssues
  <2>6. FirstKept(h) \/ \A n \in InTime(h) : issues'[n].rebased
    BY <2>1, <2>2
  <2>7. UnsettledAt(h)'
    BY <1>1, <1>2, <1>4, <2>5, <2>6, StillUnsettled
  <2>8. ReportsKept(h) \/ (row'[h].state = "filed" => issues'[row[h].issue].rebased)
    BY <1>1, <2>1, <2>4
  <2>9. row'[h].state = "filed" => row'[h] = row[h] /\ IssueKept(row[h].issue)
    BY <1>1, <1>2, <2>3
  <2>10. FiledAt(h)'
    BY <1>4, <2>8, <2>9, StillFiled
  <2> QED
    BY <2>7, <2>10
<1>6. LinksKeep
  BY <1>1, <1>2 DEF LinksKeep, IssueKept
<1>7. \A s \in Syncs : Commenting(s)'
  BY <1>4, <1>6, CommentingKept
<1> QED
  BY <1>2, <1>3, <1>5, <1>7 DEF AnnounceInv

LEMMA MergeAnnounces ==
  ASSUME FilingInv, AnnounceInv, FilingInv',
         NEW source \in Groups, NEW target \in Groups, Merge(source, target)
  PROVE  AnnounceInv'
<1>1. /\ source # target
      /\ mergedInto[source] = NoGroup /\ mergedInto[target] = NoGroup
      /\ row[source].state \notin Unsettled /\ row[target].state \notin Unsettled
      /\ ~(row[source].state = "filed" /\ row[target].state = "filed")
  BY DEF Merge, MayMerge
<1>2. /\ mergedInto' = [mergedInto EXCEPT ![source] = target]
      /\ mergedInto \in [Groups -> Groups \cup {NoGroup}]
      /\ home' = [r \in Reports |-> IF home[r] = source THEN target ELSE home[r]]
      /\ home \in [Reports -> Groups \cup {NoGroup}]
      /\ issues' = Renumber({row[source].issue, row[target].issue})
      /\ UNCHANGED <<born, created, late, filers, syncs>>
  BY DEF Merge, FilingInv, TypeOK
<1>a. PICK moved : moved = [row[source] EXCEPT !.last = 0]
  OBVIOUS
<1>3. row' = IF row[source].state = "filed"
             THEN [row EXCEPT ![target] = moved, ![source] = NoRow]
             ELSE row
  BY <1>a DEF Merge
<1>4. moved \in Row /\ moved.state = row[source].state /\ moved.issue = row[source].issue
  BY <1>a, RowType DEF FilingInv, Row
<1>5. /\ \A g \in Groups \ {source, target} : row'[g] = row[g]
      /\ row[source].state = "filed" => row'[target] = moved /\ row'[source] = NoRow
      /\ row[source].state # "filed" => row'[target] = row[target] /\ row'[source] = row[source]
  BY <1>1, <1>3 DEF FilingInv, TypeOK
<1>6. /\ \A n \in Numbers : IssueKept(n)
      /\ row[source].issue \in Numbers => issues'[row[source].issue].rebased
      /\ row[target].issue \in Numbers => issues'[row[target].issue].rebased
      /\ LateIsRebased' /\ SameMarks
  BY <1>2, RenumberKeeps, RenumberFacts
<1>7. AllBorn'
  BY <1>2 DEF AnnounceInv, AllBorn
<1>8. /\ row[source].state \in {"none", "filed"} /\ row[target].state \in {"none", "filed"}
      /\ NoRow.state = "none" /\ NoRow.issue = 0 /\ created \in Nat
  BY <1>1, RowType DEF FilingInv, TypeOK, NoRow, Unsettled
<1>9. Known'
  <2>1. ASSUME NEW g \in Groups PROVE row'[g].issue <= created
    <3>1. row[g].issue <= created /\ row[source].issue <= created
      BY DEF AnnounceInv, Known
    <3> QED
      BY <1>4, <1>5, <1>8, <3>1
  <2> QED
    BY <1>2, <2>1 DEF AnnounceInv, Known
<1>10. /\ \A f \in Filers, h \in Groups : FilerCalm(f, h)
       /\ \A s \in Syncs, h \in Groups : Unattempted(s, h) /\ SyncCalm(s, h)
       /\ \A s \in Syncs : StillCommenting(s)
  BY <1>2, NobodyMoves
<1>11. ASSUME NEW h \in Groups \ {source, target} PROVE UnsettledAt(h)' /\ FiledAt(h)'
  <2>1. ReportsOf(h)' = ReportsOf(h)
    BY <1>2 DEF ReportsOf
  <2>2. ReportsKept(h) /\ FirstKept(h)
    BY <2>1, SameReports
  <2>3. \A n \in InTime(h) : IssueKept(n)
    BY <1>6 DEF InTime, MarkedIssues
  <2>4. row'[h] = row[h] /\ mergedInto'[h] = mergedInto[h]
    BY <1>2, <1>5
  <2>5. UnsettledAt(h)'
    BY <1>6, <1>10, <2>2, <2>3, <2>4, StillUnsettled
  <2>6. row[h].state = "filed" => IssueKept(row[h].issue)
    BY <1>6 DEF AnnounceInv, FiledAt
  <2>7. FiledAt(h)'
    BY <1>10, <2>2, <2>4, <2>6, StillFiled
  <2> QED
    BY <2>5, <2>7
<1>12. /\ row[source].state = "filed" => row[source].issue \in Numbers
       /\ row[target].state = "filed" => row[target].issue \in Numbers
  BY DEF AnnounceInv, FiledAt
<1>13. UnsettledAt(source)' /\ FiledAt(source)'
  <2>1. row'[source].state = "none" /\ mergedInto'[source] # NoGroup
    BY <1>1, <1>2, <1>5, <1>8
  <2> QED
    BY <2>1, SettledNone DEF FiledAt
<1>14. UnsettledAt(target)' /\ FiledAt(target)'
  <2>1. CASE row[source].state = "none" /\ row[target].state = "none"
    <3>1. row'[target].state = "none" /\ InTime(target) = {} /\ InTime(target)' = InTime(target)
      BY <1>1, <1>5, <1>6, <2>1, InTimeKept DEF AnnounceInv, UnsettledAt, NoneInTime
    <3> QED
      BY <3>1, SettledNone DEF FiledAt
  <2>2. CASE row[source].state = "filed" \/ row[target].state = "filed"
    <3>1. /\ row'[target].state = "filed" /\ row'[target].issue \in Numbers
          /\ issues'[row'[target].issue].rebased
      BY <1>4, <1>5, <1>6, <1>8, <1>12, <2>2
    <3> QED
      BY <3>1, SettledFiled DEF FiledAt
  <2> QED
    BY <1>8, <2>1, <2>2
<1>15. LinksKeep
  <2>1. \A n \in Numbers : issues[n].rebased => issues'[n].rebased
    BY <1>6 DEF IssueKept
  <2>2. ASSUME NEW g \in Groups
        PROVE  /\ mergedInto[g] # NoGroup => mergedInto'[g] # NoGroup
               /\ row[g].state = "filed" =>
                    \/ row'[g].state = "filed" /\ row'[g].issue = row[g].issue
                    \/ mergedInto'[g] # NoGroup /\ issues'[row[g].issue].rebased
    <3>1. CASE g = source
      BY <1>1, <1>2, <1>6, <1>12, <3>1
    <3>2. CASE g = target
      BY <1>1, <1>2, <1>5, <3>2
    <3>3. CASE g \notin {source, target}
      BY <1>2, <1>5, <3>3
    <3> QED
      BY <3>1, <3>2, <3>3
  <2> QED
    BY <2>1, <2>2 DEF LinksKeep
<1>16. \A s \in Syncs : Commenting(s)'
  BY <1>10, <1>15, CommentingKept
<1> QED
  BY <1>6, <1>7, <1>9, <1>11, <1>13, <1>14, <1>16 DEF AnnounceInv

-----------------------------------------------------------------------------
(* The row of one group moves, and its issues stand.                         *)
LEMMA OneRowMoves ==
  ASSUME FilingInv, AnnounceInv, NEW g \in Groups,
         row[g].state = "filed" => row'[g].state = "filed" /\ row'[g].issue = row[g].issue,
         \A h \in Groups \ {g} : row'[h] = row[h], row'[g].issue <= created,
         UNCHANGED <<mergedInto, home, born, issues, created>>,
         \A f \in Filers : filers'[f].issue <= created,
         \A s \in Syncs : syncs'[s].issue <= created,
         \A f \in Filers, h \in Groups \ {g} : FilerCalm(f, h),
         \A s \in Syncs, h \in Groups \ {g} : Unattempted(s, h) /\ SyncCalm(s, h),
         \A s \in Syncs : StillCommenting(s) \/ Commenting(s)',
         UnsettledAt(g)', FiledAt(g)'
  PROVE  AnnounceInv'
<1>1. LateIsRebased' /\ AllBorn'
  BY DEF AnnounceInv, LateIsRebased, AllBorn
<1>2. Known'
  BY DEF AnnounceInv, Known
<1>3. SameMarks /\ \A n : IssueKept(n)
  BY DEF SameMarks, IssueKept
<1>4. ASSUME NEW h \in Groups \ {g} PROVE UnsettledAt(h)' /\ FiledAt(h)'
  <2>1. ReportsKept(h) /\ FirstKept(h)
    BY SameReports DEF ReportsOf
  <2>2. UnsettledAt(h)'
    BY <1>3, <2>1, StillUnsettled
  <2>3. FiledAt(h)'
    BY <1>3, <2>1, StillFiled
  <2> QED
    BY <2>2, <2>3
<1>5. LinksKeep
  BY DEF LinksKeep
<1>6. \A s \in Syncs : Commenting(s)'
  BY <1>5, CommentingKept
<1> QED
  BY <1>1, <1>2, <1>4, <1>6 DEF AnnounceInv

LEMMA FilerStops ==
  ASSUME FilingInv, AnnounceInv, NEW f \in Filers, filers' = [filers EXCEPT ![f] = IdleFiler],
         created' = created
  PROVE  /\ \A e \in Filers : filers'[e].issue <= created
         /\ \A e \in Filers, h \in Groups : FilerCalm(e, h)
         /\ \A h \in Groups : ~Holds(f, h)'
<1>1. filers'[f] = IdleFiler /\ \A e \in Filers \ {f} : filers'[e] = filers[e]
  BY DEF FilingInv, TypeOK
<1>2. IdleFiler.issue = 0 /\ IdleFiler.pc = "idle" /\ created \in Nat
  BY DEF IdleFiler, FilingInv, TypeOK
<1>3. ASSUME NEW e \in Filers PROVE filers'[e].issue <= created
  <2>1. filers[e].issue <= created
    BY DEF AnnounceInv, Known
  <2> QED
    BY <1>1, <1>2, <2>1
<1>4. \A h \in Groups : ~Holds(f, h)'
  BY <1>1, <1>2 DEF Holds, Holding
<1>5. \A e \in Filers, h \in Groups : FilerCalm(e, h)
  BY <1>1, <1>4 DEF FilerCalm, Holds
<1> QED
  BY <1>3, <1>4, <1>5

(* A filer moves on, or stops, and no issue is created.                      *)
LEMMA FilerAnnounces ==
  ASSUME FilingInv, AnnounceInv, NEW f \in Filers, NEW x \in Filer,
         filers' = [filers EXCEPT ![f] = x], x.issue <= created,
         \/ x.pc \in {"idle", "claim"}
         \/ filers[f].pc \in Holding /\ x.g = filers[f].g /\ x.pc = "mark"
         \/ filers[f].pc = "post" /\ x.g = filers[f].g /\ x.pc = "release",
         UNCHANGED <<row, mergedInto, home, born, issues, created, syncs>>
  PROVE  AnnounceInv'
<1>1. filers'[f] = x /\ \A e \in Filers \ {f} : filers'[e] = filers[e]
  BY MovedFiler
<1>2. /\ \A e \in Filers : filers'[e].issue <= created
      /\ \A s \in Syncs : syncs'[s].issue <= created
  BY <1>1 DEF AnnounceInv, Known
<1>3. \A e \in Filers, h \in Groups : FilerCalm(e, h)
  BY <1>1 DEF FilerCalm, Holds, Holding
<1>4. \A n \in Numbers : IssueKept(n)
  BY DEF IssueKept
<1> QED
  BY <1>2, <1>3, <1>4, NobodyMoves, QuietAnnounces

LEMMA BeginAnnounces ==
  ASSUME FilingInv, AnnounceInv, NEW f \in Filers, NEW g \in Groups, BeginFiling(f, g)
  PROVE  AnnounceInv'
<1>a. PICK x : x = [pc |-> "claim", g |-> g, body |-> ReportsOf(g), issue |-> 0]
  OBVIOUS
<1>1. ReportsOf(g) \in SUBSET Reports /\ 0 \in 0 .. MaxIssues
  BY DEF ReportsOf
<1>2. x \in Filer /\ x.issue = 0 /\ x.pc = "claim" /\ created \in Nat
  BY <1>a, <1>1 DEF Filer, FilingInv, TypeOK
<1>3. /\ filers' = [filers EXCEPT ![f] = x]
      /\ UNCHANGED <<row, mergedInto, home, born, issues, created, late, syncs>>
  BY <1>a DEF BeginFiling
<1>4. x.issue <= created
  BY <1>2
<1> QED
  BY <1>2, <1>3, <1>4, FilerAnnounces

LEMMA IdleFacts ==
  ASSUME FilingInv
  PROVE  IdleFiler \in Filer /\ IdleFiler.pc = "idle" /\ IdleFiler.issue <= created
BY IdleTypes DEF IdleFiler, FilingInv, TypeOK

LEMMA RefuseAnnounces ==
  ASSUME FilingInv, AnnounceInv, NEW f \in Filers, RefuseClaim(f)
  PROVE  AnnounceInv'
<1>1. /\ filers' = [filers EXCEPT ![f] = IdleFiler]
      /\ UNCHANGED <<row, mergedInto, home, born, issues, created, late, syncs>>
  BY DEF RefuseClaim
<1> QED
  BY <1>1, IdleFacts, FilerAnnounces

LEMMA RefusedAnnounces ==
  ASSUME FilingInv, AnnounceInv, NEW f \in Filers, PostRefused(f)
  PROVE  AnnounceInv'
<1>a. PICK x : x = [filers[f] EXCEPT !.pc = "release", !.body = {}]
  OBVIOUS
<1>1. /\ x \in Filer /\ x.pc = "release" /\ x.g = filers[f].g /\ x.issue = filers[f].issue
      /\ filers' = [filers EXCEPT ![f] = x]
  BY <1>a, FilerType DEF FilingInv, Filer, PostRefused, MoveFiler, TypeOK
<1>2. filers[f].issue <= created
  BY DEF AnnounceInv, Known
<1> QED
  BY <1>1, <1>2, FilerAnnounces DEF PostRefused, Holding

LEMMA ClaimAnnounces ==
  ASSUME FilingInv, AnnounceInv, FilingInv', NEW f \in Filers, Claim(f)
  PROVE  AnnounceInv'
<1>a. PICK g : g = filers[f].g
  OBVIOUS
<1>b. PICK body : body = filers[f].body
  OBVIOUS
<1>c. PICK x : x = [filers[f] EXCEPT !.pc = "post"]
  OBVIOUS
<1>d. PICK pending : pending = [NoRow EXCEPT !.state = "pending", !.last = Cardinality(body)]
  OBVIOUS
<1>1. /\ filers[f].pc = "claim" /\ mergedInto[g] = NoGroup /\ row[g].state = "none"
      /\ row' = [row EXCEPT ![g] = pending]
      /\ filers' = [filers EXCEPT ![f] = x]
      /\ UNCHANGED <<mergedInto, home, born, issues, created, late, syncs>>
  BY <1>a, <1>b, <1>c, <1>d DEF Claim, Claimable
<1>2. g \in Groups /\ created \in Nat
  BY <1>a, <1>1, EngagedFiler DEF FilingInv, TypeOK
<1>3. pending.state = "pending" /\ pending.issue = 0 /\ pending.last = Cardinality(body)
      /\ pending.attempt = NoSync
  BY <1>d DEF NoRow
<1>4. row'[g] = pending /\ \A h \in Groups \ {g} : row'[h] = row[h]
  BY <1>1, <1>2 DEF FilingInv, TypeOK
<1>5. x \in Filer /\ x.pc = "post" /\ x.g = g /\ x.body = body /\ x.issue = filers[f].issue
  BY <1>a, <1>b, <1>c, FilerType DEF FilingInv, Filer
<1>6. filers'[f] = x /\ \A e \in Filers \ {f} : filers'[e] = filers[e]
  BY <1>1, <1>5, MovedFiler
<1>7. /\ \A e \in Filers : filers'[e].issue <= created
      /\ \A s \in Syncs : syncs'[s].issue <= created
  BY <1>1, <1>5, <1>6 DEF AnnounceInv, Known
<1>8. \A e \in Filers, h \in Groups \ {g} : FilerCalm(e, h)
  BY <1>5, <1>6 DEF FilerCalm, Holds, Holding
<1>9. InTime(g) = {} /\ InTime(g)' = InTime(g)
  BY <1>1, <1>2 DEF AnnounceInv, UnsettledAt, NoneInTime, InTime, MarkedIssues
<1>10. UnsettledAt(g)'
  <2>1. NoneInTime(g)' /\ BodiesCounted(g)'
    BY <1>9 DEF NoneInTime, BodiesCounted
  <2>2. \A e \in Filers : FilerCounts(e, g)'
    <3>1. \A e \in Filers \ {f} : ~Holds(e, g)'
      BY <1>1, <1>2, <1>6, NobodyHolds DEF Holds
    <3> QED
      BY <1>3, <1>4, <1>5, <1>6, <1>9, <3>1 DEF FilerCounts
  <2>3. \A s \in Syncs : AttemptCounts(s, g)'
    BY <1>3, <1>4 DEF AttemptCounts, OwnsAttempt
  <2> QED
    BY <2>1, <2>2, <2>3 DEF UnsettledAt
<1>11. FiledAt(g)'
  BY <1>3, <1>4 DEF FiledAt
<1>12. row'[g].issue <= created
  BY <1>2, <1>3, <1>4
<1> QED
  BY <1>1, <1>2, <1>4, <1>7, <1>8, <1>10, <1>11, <1>12, NobodyMoves, OneRowMoves

(* A pending row is put aside.                                               *)
LEMMA AsideAnnounces ==
  ASSUME FilingInv, AnnounceInv, FilingInv', NEW f \in Filers, NEW g \in Groups,
         row[g].state = "pending",
         row'[g].state = "needs_reconciliation", row'[g].last = row[g].last,
         row'[g].issue = row[g].issue, row'[g].attempt = NoSync,
         \A h \in Groups \ {g} : row'[h] = row[h],
         filers' = [filers EXCEPT ![f] = IdleFiler],
         UNCHANGED <<mergedInto, home, born, issues, created, late, syncs>>
  PROVE  AnnounceInv'
<1>1. /\ \A e \in Filers : filers'[e].issue <= created
      /\ \A e \in Filers, h \in Groups : FilerCalm(e, h)
  BY FilerStops
<1>2. UnsettledAt(g)'
  <2>1. NoneInTime(g)'
    BY DEF NoneInTime
  <2>2. BodiesCounted(g)'
    <3>1. \A n \in InTime(g) : CountsBody(g, n)
      BY DEF AnnounceInv, UnsettledAt, BodiesCounted, Unsettled
    <3>2. InTime(g)' = InTime(g)
      BY DEF InTime, MarkedIssues
    <3>3. \A n \in InTime(g) : CountsBody(g, n)'
      BY <3>1 DEF CountsBody, FirstOf, ReportsOf
    <3> QED
      BY <3>2, <3>3 DEF BodiesCounted
  <2>3. \A e \in Filers : FilerCounts(e, g)'
    <3>1. \A e \in Filers : ~Holds(e, g)'
      BY DEF FilingInv, FilerOwnsRow, Holds
    <3> QED
      BY <3>1 DEF FilerCounts
  <2>4. \A s \in Syncs : AttemptCounts(s, g)'
    BY DEF AttemptCounts, OwnsAttempt
  <2> QED
    BY <2>1, <2>2, <2>3, <2>4 DEF UnsettledAt
<1>3. FiledAt(g)'
  BY DEF FiledAt
<1>4. row'[g].issue <= created /\ \A s \in Syncs : syncs'[s].issue <= created
  BY DEF AnnounceInv, Known
<1> QED
  BY <1>1, <1>2, <1>3, <1>4, NobodyMoves, OneRowMoves

LEMMA QuarantineAnnounces ==
  ASSUME FilingInv, AnnounceInv, FilingInv', NEW f \in Filers, Quarantine(f)
  PROVE  AnnounceInv'
<1>a. PICK g : g = filers[f].g
  OBVIOUS
<1>1. /\ g \in Groups /\ row[g].state = "pending"
      /\ filers' = [filers EXCEPT ![f] = IdleFiler]
      /\ UNCHANGED <<mergedInto, home, born, issues, created, late, syncs>>
  BY <1>a, EngagedFiler DEF Quarantine, Stale
<1>2. row' = [row EXCEPT ![g].state = "needs_reconciliation", ![g].attempt = NoSync]
  BY <1>a DEF Quarantine
<1>3. /\ row'[g].state = "needs_reconciliation" /\ row'[g].last = row[g].last
      /\ row'[g].issue = row[g].issue /\ row'[g].attempt = NoSync
      /\ \A h \in Groups \ {g} : row'[h] = row[h]
  BY <1>1, <1>2, RowType DEF FilingInv, TypeOK, Row
<1> QED
  BY <1>1, <1>3, AsideAnnounces

LEMMA MarkAnnounces ==
  ASSUME FilingInv, AnnounceInv, FilingInv', NEW f \in Filers, MarkForReconciliation(f)
  PROVE  AnnounceInv'
<1>a. PICK g : g = filers[f].g
  OBVIOUS
<1>1. filers[f].pc \in Holding
  BY DEF MarkForReconciliation, Holding
<1>2. g \in Groups /\ row[g].state = "pending"
  BY <1>a, <1>1, HolderFacts
<1>3. /\ row' = [row EXCEPT ![g].state = "needs_reconciliation", ![g].attempt = NoSync]
      /\ filers' = [filers EXCEPT ![f] = IdleFiler]
      /\ UNCHANGED <<mergedInto, home, born, issues, created, late, syncs>>
  BY <1>a, <1>2 DEF MarkForReconciliation
<1>4. /\ row'[g].state = "needs_reconciliation" /\ row'[g].last = row[g].last
      /\ row'[g].issue = row[g].issue /\ row'[g].attempt = NoSync
      /\ \A h \in Groups \ {g} : row'[h] = row[h]
  BY <1>2, <1>3, RowType DEF FilingInv, TypeOK, Row
<1> QED
  BY <1>2, <1>3, <1>4, AsideAnnounces

LEMMA ReleaseAnnounces ==
  ASSUME FilingInv, AnnounceInv, FilingInv', NEW f \in Filers, ReleaseClaim(f)
  PROVE  AnnounceInv'
<1>a. PICK g : g = filers[f].g
  OBVIOUS
<1>1. filers[f].pc = "release" /\ filers[f].pc \in Holding
  BY DEF ReleaseClaim, Holding
<1>2. g \in Groups /\ row[g].state = "pending"
  BY <1>a, <1>1, HolderFacts
<1>3. /\ row' = [row EXCEPT ![g] = NoRow]
      /\ filers' = [filers EXCEPT ![f] = IdleFiler]
      /\ UNCHANGED <<mergedInto, home, born, issues, created, late, syncs>>
  BY <1>a, <1>2 DEF ReleaseClaim
<1>4. row'[g] = NoRow /\ \A h \in Groups \ {g} : row'[h] = row[h]
  BY <1>2, <1>3 DEF FilingInv, TypeOK
<1>5. NoRow.state = "none" /\ NoRow.issue = 0 /\ created \in Nat
  BY DEF NoRow, FilingInv, TypeOK
<1>6. InTime(g)' = {}
  <2>1. Holds(f, g) /\ FilerCounts(f, g)
    BY <1>1, <1>2, <1>a DEF Holds, AnnounceInv, UnsettledAt
  <2>2. InTime(g) = {}
    BY <1>1, <2>1 DEF FilerCounts
  <2> QED
    BY <1>3, <2>2 DEF InTime, MarkedIssues
<1>7. UnsettledAt(g)' /\ FiledAt(g)'
  BY <1>2, <1>4, <1>5, <1>6, SettledNone DEF FiledAt
<1>8. /\ \A e \in Filers : filers'[e].issue <= created
      /\ \A e \in Filers, h \in Groups : FilerCalm(e, h)
  BY <1>3, FilerStops
<1>9. row'[g].issue <= created /\ \A s \in Syncs : syncs'[s].issue <= created
  BY <1>3, <1>4, <1>5 DEF AnnounceInv, Known
<1> QED
  BY <1>2, <1>3, <1>4, <1>7, <1>8, <1>9, NobodyMoves, OneRowMoves

-----------------------------------------------------------------------------
(* Issues are created, and filings completed.                                *)

OnlyNew(new) == \A n \in Numbers : n # new => issues'[n] = issues[n]

LEMMA CreationFacts ==
  ASSUME FilingInv, AnnounceInv, NEW g \in Groups, NEW body \in SUBSET Reports,
         NEW isLate \in BOOLEAN, Create(g, body, isLate), NEW new, new = created + 1
  PROVE  /\ new \in Numbers /\ created' = new /\ created \in Nat
         /\ issues[new].marker = NoGroup
         /\ issues'[new].marker = g /\ (issues'[new].late <=> isLate)
         /\ issues'[new].body = body /\ issues'[new].told = body
         /\ isLate => issues'[new].rebased
         /\ ~issues'[new].rebased => ~Renumbered(g, body)
         /\ OnlyNew(new)
         /\ LateIsRebased'
<1>a. PICK again : again = (isLate \/ Renumbered(g, body))
  OBVIOUS
<1>b. PICK x : x = [marker |-> g, body |-> body, told |-> body, rebased |-> again,
                    late |-> isLate]
  OBVIOUS
<1>1. created < MaxIssues /\ created' = created + 1 /\ issues' = [issues EXCEPT ![new] = x]
  BY <1>a, <1>b DEF Create
<1>2. created \in Nat /\ new \in Numbers /\ issues \in [Numbers -> Issue] /\ created' = new
  BY <1>1 DEF FilingInv, TypeOK, Numbers
<1>3. issues[new].marker = NoGroup
  BY <1>2 DEF FilingInv, Blank
<1>4. issues'[new] = x /\ \A n \in Numbers : n # new => issues'[n] = issues[n]
  BY <1>1, <1>2
<1>5. /\ x.marker = g /\ x.late = isLate /\ x.body = body /\ x.told = body
      /\ x.rebased = again
  BY <1>b
<1>6. LateIsRebased'
  <2> SUFFICES ASSUME NEW n \in Numbers, issues'[n].late PROVE issues'[n].rebased
    BY DEF LateIsRebased
  <2>1. CASE n = new
    BY <1>4, <1>5, <1>a, <2>1
  <2>2. CASE n # new
    BY <1>4, <2>2 DEF AnnounceInv, LateIsRebased
  <2> QED
    BY <2>1, <2>2
<1>7. (isLate => issues'[new].rebased) /\ (~issues'[new].rebased => ~Renumbered(g, body))
  BY <1>4, <1>5, <1>a
<1> QED
  BY <1>2, <1>3, <1>4, <1>5, <1>6, <1>7 DEF OnlyNew

LEMMA CreationElsewhere ==
  ASSUME FilingInv, AnnounceInv, NEW new, new = created + 1,
         \A n \in Numbers : n # new => issues'[n] = issues[n], issues[new].marker = NoGroup,
         UNCHANGED <<row, mergedInto, home, syncs>>, NEW h \in Groups
  PROVE  /\ FiledAt(h)'
         /\ InTime(h)' = InTime(h) /\ (\A f \in Filers : FilerCalm(f, h)) => UnsettledAt(h)'
<1>1. ReportsKept(h) /\ FirstKept(h)
  BY SameReports DEF ReportsOf
<1>2. \A n \in Numbers : n # new => IssueKept(n)
  BY DEF IssueKept
<1>3. \A s \in Syncs : Unattempted(s, h) /\ SyncCalm(s, h)
  BY NobodyMoves
<1>4. row[h].state = "filed" => IssueKept(row[h].issue)
  <2>1. row[h].state = "filed" => row[h].issue \in Numbers /\ row[h].issue <= created
    BY DEF AnnounceInv, FiledAt, Known
  <2>2. row[h].issue <= created => row[h].issue # new
    BY RowType DEF FilingInv, TypeOK
  <2> QED
    BY <1>2, <2>1, <2>2
<1>5. FiledAt(h)'
  BY <1>1, <1>3, <1>4, StillFiled
<1>6. MarkedIssues(h) \subseteq MarkedIssues(h)' /\ new \notin MarkedIssues(h)
  BY DEF MarkedIssues
<1>7. \A n \in InTime(h) : IssueKept(n)
  BY <1>2, <1>6 DEF InTime, MarkedIssues
<1>8. ASSUME InTime(h)' = InTime(h), \A f \in Filers : FilerCalm(f, h) PROVE UnsettledAt(h)'
  BY <1>1, <1>3, <1>6, <1>7, <1>8, UnsettledKept, AttemptsKept DEF UnsettledAt
<1> QED
  BY <1>5, <1>8

LEMMA CreationCommenting ==
  ASSUME FilingInv, AnnounceInv, NEW new, new = created + 1,
         \A n \in Numbers : n # new => issues'[n] = issues[n],
         UNCHANGED <<row, mergedInto, syncs>>, NEW s \in Syncs
  PROVE  Commenting(s)'
<1>1. \A n \in Numbers : n <= created => n # new
  BY DEF FilingInv, TypeOK, Numbers
<1>2. LinksKeep
  BY <1>1 DEF LinksKeep
<1> QED
  BY <1>2, NobodyMoves, CommentingKept

(* GitHub creates the issue a filer asked for; the filer knows or not.        *)
LEMMA CreationAnnounces ==
  ASSUME FilingInv, AnnounceInv, FilingInv', NEW f \in Filers, filers[f].pc = "post",
         Create(filers[f].g, filers[f].body, FALSE),
         NEW y \in Filer, filers' = [filers EXCEPT ![f] = y],
         \/ y.pc = "idle" /\ y.issue = 0
         \/ y.pc = "mark" /\ y.issue = filers[f].issue
         \/ y.pc = "complete" /\ y.issue = created + 1 /\ y.body = filers[f].body,
         y.pc = "idle" \/ y.g = filers[f].g,
         UNCHANGED <<row, mergedInto, home, born, syncs>>
  PROVE  AnnounceInv'
<1>a. PICK g \in Groups : g = filers[f].g
  BY EngagedFiler
<1>b. PICK body \in SUBSET Reports : body = filers[f].body
  BY FilerType DEF FilingInv
<1>c. PICK new : new = created + 1
  OBVIOUS
<1>1. /\ Holds(f, g) /\ row[g].state = "pending"
      /\ \A e \in Filers \ {f} : ~Holds(e, g)
  BY <1>a, HolderFacts DEF Holds, Holding
<1>d. Create(g, body, FALSE)
  BY <1>a, <1>b
<1>2. /\ new \in Numbers /\ created' = new /\ created \in Nat
      /\ issues[new].marker = NoGroup
      /\ issues'[new].marker = g /\ ~issues'[new].late
      /\ issues'[new].body = body /\ issues'[new].told = body
      /\ ~issues'[new].rebased => ~Renumbered(g, body)
      /\ \A n \in Numbers : n # new => issues'[n] = issues[n]
      /\ LateIsRebased'
  <2>1. /\ new \in Numbers /\ created' = new /\ created \in Nat
        /\ issues[new].marker = NoGroup
        /\ issues'[new].marker = g
        /\ issues'[new].body = body /\ issues'[new].told = body
        /\ OnlyNew(new) /\ LateIsRebased'
    BY <1>c, <1>d, CreationFacts
  <2>3. ~issues'[new].late
    <3>1. PICK again : again = (FALSE \/ Renumbered(g, body))
      OBVIOUS
    <3>2. PICK x : x = [marker |-> g, body |-> body, told |-> body, rebased |-> again,
                        late |-> FALSE]
      OBVIOUS
    <3>3. issues' = [issues EXCEPT ![new] = x]
      BY <1>c, <1>d, <3>1, <3>2 DEF Create
    <3>4. new \in DOMAIN issues
      BY <2>1 DEF FilingInv, TypeOK
    <3> QED
      BY <3>2, <3>3, <3>4
  <2>2. ASSUME ~issues'[new].rebased PROVE ~Renumbered(g, body)
    BY <1>c, <1>d, <2>2, CreationFacts
  <2> QED
    BY <2>1, <2>2, <2>3 DEF OnlyNew
<1>3. filers'[f] = y /\ \A e \in Filers \ {f} : filers'[e] = filers[e]
  BY MovedFiler
<1>4. AllBorn'
  BY DEF AnnounceInv, AllBorn
<1>5. Known'
  <2>1. ASSUME NEW h \in Groups PROVE row[h].issue <= new
    <3>1. row[h].issue \in 0 .. MaxIssues /\ row[h].issue <= created
      BY RowType DEF FilingInv, AnnounceInv, Known
    <3> QED
      BY <1>2, <1>c, <3>1
  <2>2. ASSUME NEW s \in Syncs PROVE syncs[s].issue <= new
    <3>1. syncs[s].issue \in 0 .. MaxIssues /\ syncs[s].issue <= created
      BY SyncType DEF FilingInv, AnnounceInv, Known
    <3> QED
      BY <1>2, <1>c, <3>1
  <2>3. ASSUME NEW e \in Filers PROVE filers'[e].issue <= new
    <3>1. filers[e].issue \in 0 .. MaxIssues /\ filers[e].issue <= created
      BY FilerType DEF FilingInv, AnnounceInv, Known
    <3>2. filers'[e].issue \in {0, new, filers[e].issue}
      BY <1>3, <1>c
    <3> QED
      BY <1>2, <1>c, <3>1, <3>2
  <2> QED
    BY <1>2, <2>1, <2>2, <2>3 DEF Known
<1>6. InTime(g) = {} /\ InTime(g)' = {new} /\ row[g].last = Cardinality(body)
  <2>1. InTime(g) = {} /\ row[g].last = Cardinality(body)
    BY <1>1, <1>b DEF AnnounceInv, UnsettledAt, FilerCounts
  <2>2. InTime(g)' = InTime(g) \cup {new}
    BY <1>1, <1>2 DEF InTime, MarkedIssues
  <2> QED
    BY <2>1, <2>2
<1>7. ASSUME NEW h \in Groups \ {g} PROVE UnsettledAt(h)' /\ FiledAt(h)'
  <2>1. InTime(h)' = InTime(h)
    BY <1>2 DEF InTime, MarkedIssues
  <2>2. \A e \in Filers : FilerCalm(e, h)
    BY <1>3, <1>a DEF FilerCalm, Holds, Holding
  <2> QED
    BY <1>2, <1>c, <2>1, <2>2, CreationElsewhere
<1>8. FiledAt(g)'
  BY <1>1 DEF FiledAt
<1>9. UnsettledAt(g)'
  <2>1. NoneInTime(g)'
    BY <1>1 DEF NoneInTime
  <2>2. BodiesCounted(g)'
    <3>1. ASSUME ~issues'[new].rebased PROVE FirstOf(body, g)'
      <4>1. ~Renumbered(g, body) /\ ReportsOf(g)' = ReportsOf(g)
        BY <1>2, <3>1 DEF ReportsOf
      <4>2. body \subseteq ReportsOf(g) /\ ReportsOf(g) \subseteq Reports
        BY <4>1 DEF Renumbered, ReportsOf
      <4>3. ASSUME NEW q \in ReportsOf(g) \ body, NEW r \in body PROVE r < q
        <5>1. ~(q < r) /\ q # r /\ q \in Int /\ r \in Int
          BY <4>1, <4>2 DEF Renumbered, Reports
        <5> QED
          BY <5>1
      <4> QED
        BY <4>1, <4>2, <4>3 DEF FirstOf
    <3>2. ~issues'[new].rebased => FirstOf(issues[new].body, g)'
      BY <1>2, <3>1 DEF FirstOf
    <3>3. CountsBody(g, new)'
      BY <1>2, <1>6, <3>2 DEF CountsBody
    <3> QED
      BY <1>6, <3>3 DEF BodiesCounted
  <2>3. \A e \in Filers : FilerCounts(e, g)'
    <3>1. \A e \in Filers \ {f} : ~Holds(e, g)'
      BY <1>1, <1>3 DEF Holds
    <3>2. FilerCounts(f, g)'
      BY <1>2, <1>3, <1>6, <1>b, <1>c DEF FilerCounts, Holds, Holding
    <3> QED
      BY <3>1, <3>2 DEF FilerCounts
  <2>4. \A s \in Syncs : AttemptCounts(s, g)'
    BY <1>1 DEF AttemptCounts, OwnsAttempt
  <2> QED
    BY <2>1, <2>2, <2>3, <2>4 DEF UnsettledAt
<1>10. \A s \in Syncs : Commenting(s)'
  BY <1>2, <1>c, CreationCommenting
<1> QED
  BY <1>2, <1>4, <1>5, <1>7, <1>8, <1>9, <1>10 DEF AnnounceInv

LEMMA CreatesAnnounces ==
  ASSUME FilingInv, AnnounceInv, FilingInv', NEW f \in Filers, PostCreates(f)
  PROVE  AnnounceInv'
<1>a. PICK y : y = [filers[f] EXCEPT !.pc = "complete", !.issue = created + 1]
  OBVIOUS
<1>1. /\ filers[f].pc = "post" /\ Create(filers[f].g, filers[f].body, FALSE)
      /\ UNCHANGED <<row, mergedInto, home, born, late, syncs>>
  BY DEF PostCreates
<1>2. created + 1 \in 0 .. MaxIssues
  BY <1>1 DEF Create, FilingInv, TypeOK
<1>3. /\ y \in Filer /\ y.pc = "complete" /\ y.g = filers[f].g /\ y.issue = created + 1
      /\ y.body = filers[f].body
  BY <1>a, <1>2, FilerType DEF FilingInv, Filer
<1>4. filers' = [filers EXCEPT ![f] = y]
  BY <1>a DEF PostCreates, FilingInv, TypeOK
<1> QED
  BY <1>1, <1>3, <1>4, CreationAnnounces

LEMMA UnclearAnnounces ==
  ASSUME FilingInv, AnnounceInv, FilingInv', NEW f \in Filers, PostUnclear(f)
  PROVE  AnnounceInv'
<1>a. PICK y : y = [filers[f] EXCEPT !.pc = "mark", !.body = {}]
  OBVIOUS
<1>1. /\ filers[f].pc = "post" /\ filers[f].pc \in Holding
      /\ UNCHANGED <<row, mergedInto, home, born, syncs>>
  BY DEF PostUnclear, Holding
<1>2. y \in Filer /\ y.pc = "mark" /\ y.g = filers[f].g /\ y.issue = filers[f].issue
  BY <1>a, FilerType DEF FilingInv, Filer
<1>3. filers' = [filers EXCEPT ![f] = y]
  BY <1>a DEF PostUnclear, MoveFiler, FilingInv, TypeOK
<1>4. CASE Create(filers[f].g, filers[f].body, FALSE)
  BY <1>1, <1>2, <1>3, <1>4, CreationAnnounces
<1>5. CASE UNCHANGED <<issues, created>>
  <2>1. filers[f].issue <= created
    BY DEF AnnounceInv, Known
  <2> QED
    BY <1>1, <1>2, <1>3, <1>5, <2>1, FilerAnnounces
<1> QED
  BY <1>4, <1>5 DEF PostUnclear

LEMMA FilerDiesAnnounces ==
  ASSUME FilingInv, AnnounceInv, FilingInv', NEW f \in Filers, FilerDies(f)
  PROVE  AnnounceInv'
<1>1. /\ filers' = [filers EXCEPT ![f] = IdleFiler]
      /\ UNCHANGED <<row, mergedInto, home, born, syncs>>
  BY DEF FilerDies
<1>2. IdleFiler \in Filer /\ IdleFiler.pc = "idle" /\ IdleFiler.issue = 0
  BY IdleTypes DEF IdleFiler
<1>3. CASE filers[f].pc = "post" /\ Create(filers[f].g, filers[f].body, FALSE)
  BY <1>1, <1>2, <1>3, CreationAnnounces
<1>4. CASE UNCHANGED <<issues, created>>
  BY <1>1, <1>4, IdleFacts, FilerAnnounces
<1> QED
  BY <1>3, <1>4 DEF FilerDies

LEMMA LateAnnounces ==
  ASSUME FilingInv, AnnounceInv, NEW request \in late, ExecuteLate(request)
  PROVE  AnnounceInv'
<1>a. PICK g \in Groups : g = request.g
  BY DEF FilingInv, TypeOK
<1>b. PICK body \in SUBSET Reports : body = request.body
  BY DEF FilingInv, TypeOK
<1>c. PICK new : new = created + 1
  OBVIOUS
<1>2. Create(g, body, TRUE) /\ UNCHANGED <<row, mergedInto, home, born, filers, syncs>>
  BY <1>a, <1>b DEF ExecuteLate
<1>3. /\ new \in Numbers /\ created' = new /\ created \in Nat
      /\ issues[new].marker = NoGroup
      /\ issues'[new].marker = g /\ issues'[new].late
      /\ \A n \in Numbers : n # new => issues'[n] = issues[n]
      /\ LateIsRebased'
  <2>1. /\ new \in Numbers /\ created' = new /\ created \in Nat
        /\ issues[new].marker = NoGroup
        /\ issues'[new].marker = g /\ issues'[new].late
        /\ OnlyNew(new) /\ LateIsRebased'
    BY <1>c, <1>2, CreationFacts
  <2> QED
    BY <2>1 DEF OnlyNew
<1>4. AllBorn'
  BY <1>2 DEF AnnounceInv, AllBorn
<1>5. Known'
  <2>1. \A n \in Int : n <= created => n <= new
    BY <1>3, <1>c
  <2>2. /\ \A h \in Groups : row[h].issue \in Int
        /\ \A e \in Filers : filers[e].issue \in Int
        /\ \A s \in Syncs : syncs[s].issue \in Int
    BY RowType, FilerType, SyncType DEF FilingInv
  <2> QED
    BY <1>2, <1>3, <2>1, <2>2 DEF AnnounceInv, Known
<1>6. ASSUME NEW h \in Groups PROVE UnsettledAt(h)' /\ FiledAt(h)'
  <2>1. InTime(h)' = InTime(h)
    <3>1. \A n \in Numbers : n \in InTime(h)' <=> n \in InTime(h)
      BY <1>3 DEF InTime, MarkedIssues
    <3> QED
      BY <3>1 DEF InTime, MarkedIssues
  <2>2. \A e \in Filers : FilerCalm(e, h)
    BY <1>2, NobodyMoves
  <2> QED
    BY <1>2, <1>3, <1>c, <2>1, <2>2, CreationElsewhere
<1>7. \A s \in Syncs : Commenting(s)'
  BY <1>2, <1>3, <1>c, CreationCommenting
<1> QED
  BY <1>3, <1>4, <1>5, <1>6, <1>7 DEF AnnounceInv

(* A row becomes filed, its count that of the body of the issue it links.     *)
LEMMA NewlyFiled ==
  ASSUME FilingInv, AnnounceInv, NEW g \in Groups, row[g].state \in Unsettled,
         mergedInto[g] = NoGroup,
         NEW n \in MarkedIssues(g), row'[g].state = "filed", row'[g].issue = n,
         row'[g].last = row[g].last, UNCHANGED <<issues, home>>,
         \A s \in Syncs : syncs'[s].pc = "idle" \/ syncs'[s] = syncs[s]
  PROVE  FiledAt(g)'
<1>1. n \in Numbers /\ issues[n].marker = g
  BY DEF MarkedIssues
<1>2. CASE issues[n].rebased
  BY <1>1, <1>2 DEF FiledAt
<1>3. CASE ~issues[n].rebased
  <2>1. n \in InTime(g)
    BY <1>1, <1>3 DEF AnnounceInv, LateIsRebased, InTime
  <2>a. PICK body : body = issues[n].body
    OBVIOUS
  <2>2. row[g].last = Cardinality(body) /\ issues[n].told = body /\ FirstOf(body, g)
    BY <1>3, <2>1, <2>a DEF AnnounceInv, UnsettledAt, BodiesCounted, CountsBody
  <2>3. body \in SUBSET Reports
    BY <1>1, <2>a DEF FilingInv, TypeOK, Issue
  <2>4. \A r \in body : r \in ReportsOf(g) /\ NumberOf(r, g) <= Cardinality(body)
    BY <2>2, <2>3, NumberInBody DEF FirstOf
  <2>5. ReportsOf(g)' = ReportsOf(g)
    BY DEF ReportsOf
  <2>6. ToldBelow(g, n)'
    BY <2>2, <2>4, <2>5 DEF ToldBelow, NumberOf
  <2>7. ASSUME NEW s \in Syncs PROVE ~Claiming(s, g)' /\ ~Looking(s, g)'
    <3>1. ~Claiming(s, g) /\ ~Looking(s, g)
      BY DEF AnnounceInv, Commenting, Claiming, Looking, Unsettled
    <3> QED
      BY <3>1 DEF Claiming, Looking
  <2>8. AnnouncedAt(g, n)'
    BY <1>1, <2>6, <2>7 DEF AnnouncedAt, Claims, WindowFits, Apart
  <2> QED
    BY <1>1, <2>8 DEF FiledAt
<1> QED
  BY <1>2, <1>3

LEMMA CompleteAnnounces ==
  ASSUME FilingInv, AnnounceInv, FilingInv', NEW f \in Filers, CompleteFiling(f)
  PROVE  /\ AnnounceInv'
         /\ row'[filers[f].g].last = Cardinality(issues[row'[filers[f].g].issue].body)
         /\ \A h \in Groups : h # filers[f].g => row'[h] = row[h]
<1>a. PICK g : g = filers[f].g
  OBVIOUS
<1>b. PICK x : x = [state |-> "filed", last |-> Cardinality(filers[f].body),
                    issue |-> filers[f].issue, attempt |-> NoSync]
  OBVIOUS
<1>c. PICK n : n = filers[f].issue
  OBVIOUS
<1>1. filers[f].pc = "complete" /\ filers[f].pc \in Holding
  BY DEF CompleteFiling, Holding
<1>2. g \in Groups /\ row[g].state = "pending" /\ mergedInto[g] = NoGroup /\ Holds(f, g)
  BY <1>a, <1>1, HolderFacts DEF Holds
<1>3. /\ row' = [row EXCEPT ![g] = x]
      /\ filers' = [filers EXCEPT ![f] = IdleFiler]
      /\ UNCHANGED <<mergedInto, home, born, issues, created, late, syncs>>
  BY <1>a, <1>b, <1>2 DEF CompleteFiling
<1>4. row'[g] = x /\ \A h \in Groups \ {g} : row'[h] = row[h]
  BY <1>2, <1>3 DEF FilingInv, TypeOK
<1>5. n \in InTime(g) /\ filers[f].body = issues[n].body
  BY <1>1, <1>2, <1>c DEF AnnounceInv, UnsettledAt, FilerCounts
<1>6. row[g].last = Cardinality(issues[n].body)
  BY <1>2, <1>5 DEF AnnounceInv, UnsettledAt, BodiesCounted, CountsBody, Unsettled
<1>7. x.state = "filed" /\ x.issue = n /\ x.last = Cardinality(issues[n].body)
  BY <1>b, <1>c, <1>5
<1>8. n \in MarkedIssues(g) /\ n <= created
  BY <1>c, <1>5 DEF InTime, AnnounceInv, Known
<1>9. FiledAt(g)'
  BY <1>2, <1>3, <1>4, <1>6, <1>7, <1>8, NewlyFiled DEF Unsettled
<1>10. UnsettledAt(g)'
  BY <1>2, <1>4, <1>7, SettledFiled
<1>11. /\ \A e \in Filers : filers'[e].issue <= created
       /\ \A e \in Filers, h \in Groups : FilerCalm(e, h)
  BY <1>3, FilerStops
<1>12. row'[g].issue <= created /\ \A s \in Syncs : syncs'[s].issue <= created
  BY <1>3, <1>4, <1>7, <1>8 DEF AnnounceInv, Known
<1>13. AnnounceInv'
  BY <1>2, <1>3, <1>4, <1>9, <1>10, <1>11, <1>12, NobodyMoves, OneRowMoves
<1> QED
  BY <1>13, <1>a, <1>4, <1>7

-----------------------------------------------------------------------------
(* Synchronisations.                                                         *)

(* A synchronisation stops, gives up, or goes on to take its count back.      *)
LEMMA SyncRecedes ==
  ASSUME FilingInv, AnnounceInv, NEW s \in Syncs, NEW x \in Sync,
         syncs' = [syncs EXCEPT ![s] = x], x.issue = 0, created' = created,
         \/ x.pc = "idle"
         \/ /\ x.pc = "revert" /\ syncs[s].pc = "comment"
            /\ x.g = syncs[s].g /\ x.from = syncs[s].from /\ x.to = syncs[s].to
  PROVE  /\ syncs'[s] = x /\ \A t \in Syncs \ {s} : syncs'[t] = syncs[t]
         /\ \A t \in Syncs : syncs'[t].issue <= created
         /\ \A t \in Syncs, h \in Groups : Unattempted(t, h) /\ SyncCalm(t, h)
         /\ \A t \in Syncs : StillCommenting(t)
<1>1. syncs'[s] = x /\ \A t \in Syncs \ {s} : syncs'[t] = syncs[t]
  BY MovedSync
<1>2. ASSUME NEW t \in Syncs PROVE syncs'[t].issue <= created
  <2>1. syncs[t].issue <= created /\ created \in Nat
    BY DEF AnnounceInv, Known, FilingInv, TypeOK
  <2> QED
    BY <1>1, <2>1
<1>3. ASSUME NEW t \in Syncs, NEW h \in Groups PROVE Unattempted(t, h) /\ SyncCalm(t, h)
  BY <1>1 DEF Unattempted, SyncCalm, Claiming, Looking
<1>4. \A t \in Syncs : StillCommenting(t)
  BY <1>1 DEF StillCommenting
<1> QED
  BY <1>1, <1>2, <1>3, <1>4

LEMMA IdleSyncFacts == IdleSync \in Sync /\ IdleSync.pc = "idle" /\ IdleSync.issue = 0
BY IdleTypes DEF IdleSync

LEMMA RecessionAnnounces ==
  ASSUME FilingInv, AnnounceInv, NEW s \in Syncs, NEW x \in Sync,
         syncs' = [syncs EXCEPT ![s] = x], x.issue = 0,
         \/ x.pc = "idle"
         \/ /\ x.pc = "revert" /\ syncs[s].pc = "comment"
            /\ x.g = syncs[s].g /\ x.from = syncs[s].from /\ x.to = syncs[s].to,
         \A n \in Numbers : IssueKept(n),
         UNCHANGED <<row, mergedInto, home, born, created, filers>>
  PROVE  AnnounceInv'
<1>1. /\ \A t \in Syncs : syncs'[t].issue <= created
      /\ \A t \in Syncs, h \in Groups : Unattempted(t, h) /\ SyncCalm(t, h)
      /\ \A t \in Syncs : StillCommenting(t)
  BY SyncRecedes
<1>2. \A f \in Filers : filers'[f].issue <= created
  BY DEF AnnounceInv, Known
<1> QED
  BY <1>1, <1>2, NobodyMoves, QuietAnnounces

LEMMA InconclusiveAnnounces ==
  ASSUME FilingInv, AnnounceInv, NEW s \in Syncs, ListInconclusive(s)
  PROVE  AnnounceInv'
<1>1. /\ syncs' = [syncs EXCEPT ![s] = IdleSync]
      /\ UNCHANGED <<row, mergedInto, home, born, issues, created, late, filers>>
  BY DEF ListInconclusive
<1>2. \A n \in Numbers : IssueKept(n)
  BY <1>1 DEF IssueKept
<1> QED
  BY <1>1, <1>2, IdleSyncFacts, RecessionAnnounces

(* The row of one group or the synchronisation that is about it moves.        *)
LEMMA OneSyncMoves ==
  ASSUME FilingInv, AnnounceInv, NEW g \in Groups, NEW s \in Syncs, NEW x \in Sync,
         row[g].state = "filed" => row'[g].state = "filed" /\ row'[g].issue = row[g].issue,
         \A h \in Groups \ {g} : row'[h] = row[h], row'[g].issue <= created,
         UNCHANGED <<mergedInto, home, born, issues, created, filers>>,
         syncs' = [syncs EXCEPT ![s] = x], x.issue <= created, x.pc = "idle" \/ x.g = g,
         StillCommenting(s) \/ Commenting(s)', UnsettledAt(g)', FiledAt(g)'
  PROVE  AnnounceInv'
<1>1. syncs'[s] = x /\ \A t \in Syncs \ {s} : syncs'[t] = syncs[t]
  BY MovedSync
<1>2. \A t \in Syncs : syncs'[t].issue <= created
  BY <1>1 DEF AnnounceInv, Known
<1>3. ASSUME NEW t \in Syncs, NEW h \in Groups \ {g} PROVE Unattempted(t, h) /\ SyncCalm(t, h)
  BY <1>1 DEF Unattempted, SyncCalm, Claiming, Looking
<1>4. \A t \in Syncs : StillCommenting(t) \/ Commenting(t)'
  BY <1>1 DEF StillCommenting
<1>5. \A f \in Filers : filers'[f].issue <= created
  BY DEF AnnounceInv, Known
<1> QED
  BY <1>2, <1>3, <1>4, <1>5, NobodyMoves, OneRowMoves

LEMMA ClaimAttemptAnnounces ==
  ASSUME FilingInv, AnnounceInv, NEW s \in Syncs, NEW g \in Groups, ClaimAttempt(s, g)
  PROVE  AnnounceInv'
<1>a. PICK x : x = [IdleSync EXCEPT !.pc = "list", !.g = g, !.from = row[g].last]
  OBVIOUS
<1>1. /\ row[g].state = "needs_reconciliation"
      /\ row' = [row EXCEPT ![g].attempt = s]
      /\ syncs' = [syncs EXCEPT ![s] = x]
      /\ UNCHANGED <<mergedInto, home, born, issues, created, late, filers>>
  BY <1>a DEF ClaimAttempt
<1>2. x \in Sync /\ x.pc = "list" /\ x.g = g /\ x.from = row[g].last /\ x.issue = 0
  <2>1. x = [pc |-> "list", g |-> g, issue |-> 0, from |-> row[g].last, to |-> 0, window |-> {}]
    BY <1>a DEF IdleSync
  <2>2. 0 \in 0 .. MaxIssues /\ {} \in SUBSET Reports
    OBVIOUS
  <2> QED
    BY <2>1, <2>2, RowType DEF FilingInv, Sync
<1>3. syncs'[s] = x /\ \A t \in Syncs \ {s} : syncs'[t] = syncs[t]
  BY <1>1, <1>2, MovedSync
<1>4. /\ row'[g].state = row[g].state /\ row'[g].last = row[g].last
      /\ row'[g].issue = row[g].issue /\ row'[g].attempt = s
      /\ \A h \in Groups \ {g} : row'[h] = row[h]
  BY <1>1, RowType DEF FilingInv, TypeOK, Row
<1>5. UnsettledAt(g)'
  <2>1. SameMarks /\ \A n : IssueKept(n)
    BY <1>1 DEF SameMarks, IssueKept
  <2>2. InTime(g)' = InTime(g)
    BY <2>1, InTimeKept
  <2>3. FirstKept(g)
    BY <1>1, SameReports DEF ReportsOf
  <2>4. \A f \in Filers : FilerCalm(f, g)
    BY <1>1, NobodyMoves
  <2>5. NoneInTime(g)' /\ BodiesCounted(g)' /\ \A f \in Filers : FilerCounts(f, g)'
    BY <1>1, <1>4, <2>1, <2>2, <2>3, <2>4, UnsettledKept
  <2>6. ASSUME NEW t \in Syncs PROVE AttemptCounts(t, g)'
    <3>1. CASE t = s
      BY <1>2, <1>3, <1>4, <3>1 DEF AttemptCounts
    <3>2. CASE t # s
      BY <1>4, <3>2 DEF AttemptCounts, OwnsAttempt
    <3> QED
      BY <3>1, <3>2
  <2> QED
    BY <2>5, <2>6 DEF UnsettledAt
<1>6. FiledAt(g)'
  BY <1>1, <1>4 DEF FiledAt
<1>7. StillCommenting(s)
  BY <1>2, <1>3 DEF StillCommenting
<1>8. row'[g].issue <= created /\ x.issue <= created
  BY <1>2, <1>4 DEF AnnounceInv, Known, FilingInv, TypeOK
<1> QED
  BY <1>1, <1>2, <1>4, <1>5, <1>6, <1>7, <1>8, OneSyncMoves

LEMMA ListAnnounces ==
  ASSUME FilingInv, AnnounceInv, NEW s \in Syncs, ListComplete(s)
  PROVE  AnnounceInv'
<1>a. PICK g \in Groups : g = syncs[s].g
  BY EngagedSync DEF ListComplete
<1>1. PICK n \in MarkedIssues(g) \cup {0} :
          /\ n = 0 <=> MarkedIssues(g) = {}
          /\ syncs' = [syncs EXCEPT ![s].pc = "settle", ![s].issue = n]
  BY <1>a DEF ListComplete
<1>b. PICK x : x = [syncs[s] EXCEPT !.pc = "settle", !.issue = n]
  OBVIOUS
<1>2. UNCHANGED <<row, mergedInto, home, born, issues, created, late, filers>> /\ syncs[s].pc = "list"
  BY DEF ListComplete
<1>3. n \in 0 .. MaxIssues /\ n <= created
  <2>1. created \in Nat
    BY DEF FilingInv, TypeOK
  <2> QED
    BY <2>1 DEF MarkedIssues, Numbers, FilingInv, Blank
<1>4. x \in Sync /\ x.pc = "settle" /\ x.g = g /\ x.issue = n /\ x.from = syncs[s].from
  BY <1>a, <1>b, <1>3, SyncType DEF FilingInv, Sync
<1>5. syncs' = [syncs EXCEPT ![s] = x]
  BY <1>1, <1>b DEF FilingInv, TypeOK
<1>6. syncs'[s] = x /\ \A t \in Syncs \ {s} : syncs'[t] = syncs[t]
  BY <1>4, <1>5, MovedSync
<1>7. SameMarks /\ \A m : IssueKept(m)
  BY <1>2 DEF SameMarks, IssueKept
<1>8. ReportsKept(g) /\ FirstKept(g) /\ InTime(g)' = InTime(g) /\ MarkedIssues(g)' = MarkedIssues(g)
  BY <1>2, <1>7, SameReports, InTimeKept, MarksKept DEF ReportsOf
<1>9. UnsettledAt(g)'
  <2>1. NoneInTime(g)' /\ BodiesCounted(g)' /\ \A f \in Filers : FilerCounts(f, g)'
    BY <1>2, <1>7, <1>8, NobodyMoves, UnsettledKept
  <2>2. ASSUME NEW t \in Syncs PROVE AttemptCounts(t, g)'
    <3>1. AttemptCounts(t, g)
      BY DEF AnnounceInv, UnsettledAt
    <3>2. CASE t = s
      <4> SUFFICES ASSUME OwnsAttempt(s)'
                   PROVE  x.from = row[g].last
                          /\ IF n = 0 THEN InTime(g) = {} ELSE n \in MarkedIssues(g)
        BY <1>2, <1>4, <1>6, <1>8, <3>2 DEF AttemptCounts
      <4>1. OwnsAttempt(s)
        BY <1>2, <1>4, <1>6, <1>a DEF OwnsAttempt
      <4>2. x.from = row[g].last
        BY <1>2, <1>4, <1>a, <3>1, <3>2, <4>1 DEF AttemptCounts
      <4>3. n = 0 => InTime(g) = {}
        BY <1>1 DEF InTime
      <4> QED
        BY <1>1, <4>2, <4>3
    <3>3. CASE t # s
      BY <1>2, <1>6, <1>8, <3>1, <3>3 DEF AttemptCounts, OwnsAttempt
    <3> QED
      BY <3>2, <3>3
  <2> QED
    BY <2>1, <2>2 DEF UnsettledAt
<1>10. FiledAt(g)'
  <2>1. \A t \in Syncs : SyncCalm(t, g)
    BY <1>4, <1>6 DEF SyncCalm, Claiming, Looking
  <2> QED
    BY <1>2, <1>7, <1>8, <2>1, StillFiled
<1>11. StillCommenting(s)
  BY <1>4, <1>6 DEF StillCommenting
<1>12. row'[g].issue <= created
  BY <1>2 DEF AnnounceInv, Known
<1> QED
  BY <1>2, <1>3, <1>4, <1>5, <1>9, <1>10, <1>11, <1>12, OneSyncMoves

LEMMA SettleAnnounces ==
  ASSUME FilingInv, AnnounceInv, FilingInv', NEW s \in Syncs, Settle(s)
  PROVE  /\ AnnounceInv'
         /\ \A h \in Groups : h # syncs[s].g => row'[h] = row[h]
         /\ row[syncs[s].g].state \in Unsettled /\ row'[syncs[s].g].state = "filed" =>
              row'[syncs[s].g].last = row[syncs[s].g].last
              /\ row'[syncs[s].g].issue \in MarkedIssues(syncs[s].g)
<1>a. PICK g \in Groups : g = syncs[s].g
  BY EngagedSync DEF Settle
<1>1. /\ syncs[s].pc = "settle"
      /\ syncs' = [syncs EXCEPT ![s] = IdleSync]
      /\ UNCHANGED <<mergedInto, home, born, issues, created, late, filers>>
  BY DEF Settle
<1>2. CASE ~OwnsAttempt(s)
  <2>1. row' = row
    BY <1>2 DEF Settle
  <2>2. \A n \in Numbers : IssueKept(n)
    BY <1>1 DEF IssueKept
  <2>3. AnnounceInv'
    BY <1>1, <2>1, <2>2, IdleSyncFacts, RecessionAnnounces
  <2> QED
    BY <2>1, <2>3 DEF Unsettled
<1>3. CASE OwnsAttempt(s)
  <2>a. PICK n : n = syncs[s].issue
    OBVIOUS
  <2>b. PICK y : y = [state |-> "filed", last |-> syncs[s].from, issue |-> n, attempt |-> NoSync]
    OBVIOUS
  <2>1. /\ row[g].state = "needs_reconciliation" /\ mergedInto[g] = NoGroup
        /\ syncs[s].from = row[g].last
        /\ IF n = 0 THEN InTime(g) = {} ELSE n \in MarkedIssues(g)
    <3>1. row[g].state = "needs_reconciliation"
      BY <1>3, <1>a DEF OwnsAttempt
    <3>2. mergedInto[g] = NoGroup
      BY <3>1 DEF FilingInv, LineageIsFinal
    <3>3. AttemptCounts(s, g)
      BY DEF AnnounceInv, UnsettledAt
    <3> QED
      BY <1>1, <1>3, <1>a, <2>a, <3>1, <3>2, <3>3 DEF AttemptCounts
  <2>2. StillCommenting(s) /\ \A t \in Syncs : syncs'[t].pc = "idle" \/ syncs'[t] = syncs[t]
    BY <1>1, IdleSyncFacts, MovedSync DEF StillCommenting
  <2>3. n <= created /\ created \in Nat
    BY <2>a DEF AnnounceInv, Known, FilingInv, TypeOK
  <2>4. CASE n = 0
    <3>1. row' = [row EXCEPT ![g] = NoRow]
      BY <1>3, <1>a, <2>a, <2>4 DEF Settle
    <3>2. /\ row'[g] = NoRow /\ \A h \in Groups \ {g} : row'[h] = row[h]
          /\ NoRow.state = "none" /\ NoRow.issue = 0
      BY <3>1 DEF FilingInv, TypeOK, NoRow
    <3>3. InTime(g)' = {}
      BY <1>1, <2>1, <2>4 DEF InTime, MarkedIssues
    <3>4. UnsettledAt(g)' /\ FiledAt(g)'
      BY <3>2, <3>3, SettledNone DEF FiledAt
    <3>5. row[g].state # "filed" /\ row'[g].issue <= created /\ IdleSync.issue <= created
      BY <2>1, <2>3, <3>2, IdleSyncFacts
    <3>6. AnnounceInv'
      BY <1>1, <2>2, <3>2, <3>4, <3>5, IdleSyncFacts, OneSyncMoves
    <3> QED
      BY <1>a, <3>2, <3>6
  <2>5. CASE n # 0
    <3>1. row' = [row EXCEPT ![g] = y]
      BY <1>3, <1>a, <2>a, <2>b, <2>5 DEF Settle, Adopt, AdoptedBaseline
    <3>2. /\ row'[g] = y /\ \A h \in Groups \ {g} : row'[h] = row[h]
          /\ y.state = "filed" /\ y.issue = n /\ y.last = row[g].last
      BY <2>1, <2>b, <3>1 DEF FilingInv, TypeOK
    <3>3. UnsettledAt(g)' /\ FiledAt(g)'
      BY <1>1, <2>1, <2>2, <2>5, <3>2, SettledFiled, NewlyFiled DEF Unsettled
    <3>4. row[g].state # "filed" /\ row'[g].issue <= created /\ IdleSync.issue <= created
      BY <2>1, <2>3, <3>2, IdleSyncFacts
    <3>5. AnnounceInv'
      BY <1>1, <2>2, <3>2, <3>3, <3>4, IdleSyncFacts, OneSyncMoves
    <3> QED
      BY <1>a, <2>1, <2>5, <3>2, <3>5
  <2> QED
    BY <2>4, <2>5
<1> QED
  BY <1>2, <1>3

-----------------------------------------------------------------------------
(* Comments.                                                                 *)

LEMMA CommentTypes ==
  ASSUME FilingInv, NEW g \in Groups
  PROVE  /\ \A s \in Syncs : syncs[s].from \in Nat /\ syncs[s].to \in Nat /\ syncs[s].window \subseteq Reports
         /\ row[g].last \in Nat
         /\ \A r \in Reports : NumberOf(r, g) \in Nat
         /\ ReportsOf(g) \subseteq Reports
BY SyncType, RowType, NumberType DEF FilingInv, ReportsOf

LEMMA ReadContextAnnounces ==
  ASSUME FilingInv, AnnounceInv, FilingInv', NEW s \in Syncs, NEW g \in Groups, ReadContext(s, g)
  PROVE  AnnounceInv'
<1>a. PICK x : x = [pc |-> "bump", g |-> g, issue |-> row[g].issue, from |-> row[g].last,
                    to |-> Cardinality(ReportsOf(g)), window |-> NewReports(g)]
  OBVIOUS
<1>1. /\ row[g].state = "filed" /\ row[g].last < Cardinality(ReportsOf(g))
      /\ syncs' = [syncs EXCEPT ![s] = x]
      /\ UNCHANGED <<row, mergedInto, home, born, issues, created, late, filers>>
  <2>1. Cardinality(ReportsOf(g)) > row[g].last
    BY DEF ReadContext, NewEvidence
  <2>2. Cardinality(ReportsOf(g)) \in Nat /\ row[g].last \in Nat
    BY SomeReports, RowType DEF ReportsOf, FilingInv
  <2> QED
    BY <1>a, <2>1, <2>2 DEF ReadContext
<1>2. x \in Sync
  <2>1. ReportsOf(g) \in SUBSET Reports /\ NewReports(g) \in SUBSET Reports
    BY DEF ReportsOf, NewReports
  <2>2. Cardinality(ReportsOf(g)) \in Nat
    BY <2>1, SomeReports
  <2> QED
    BY <1>a, <2>1, <2>2, RowType DEF FilingInv, Sync
<1>3. /\ x.pc = "bump" /\ x.g = g /\ x.issue = row[g].issue /\ x.from = row[g].last
      /\ x.to = Cardinality(ReportsOf(g)) /\ x.window = NewReports(g)
  BY <1>a
<1>4. syncs'[s] = x /\ \A t \in Syncs \ {s} : syncs'[t] = syncs[t]
  BY <1>1, <1>2, MovedSync
<1>b. PICK i : i = row[g].issue
  OBVIOUS
<1>5. i \in Numbers /\ (issues[i].rebased \/ AnnouncedAt(g, i)) /\ i <= created
  BY <1>1, <1>b DEF AnnounceInv, FiledAt, Known
<1>6. UnsettledAt(g)'
  BY <1>1, SettledFiled
<1>7. FiledAt(g)'
  <2>1. CASE issues[i].rebased
    BY <1>1, <1>b, <1>5, <2>1 DEF FiledAt
  <2>2. CASE AnnouncedAt(g, i)
    <3>1. ToldBelow(g, i)'
      BY <1>1, <2>2 DEF AnnouncedAt, ToldBelow, NumberOf, ReportsOf
    <3>2. ASSUME NEW t \in Syncs PROVE Claiming(t, g)' => Claiming(t, g) /\ syncs'[t] = syncs[t]
      BY <1>3, <1>4 DEF Claiming
    <3>3. ASSUME NEW t \in Syncs PROVE Claims(t, g, i)'
      BY <1>1, <2>2, <3>2 DEF AnnouncedAt, Claims, Within, NumberOf, ReportsOf
    <3>4. ASSUME NEW t \in Syncs, NEW u \in Syncs, t # u PROVE Apart(t, u, g)'
      BY <2>2, <3>2, <3>4 DEF AnnouncedAt, Apart
    <3>5. ASSUME NEW t \in Syncs PROVE WindowFits(t, g)'
      <4>1. CASE t = s
        <5> SUFFICES ASSUME NEW r \in NewReports(g) PROVE r \in ReportsOf(g)' /\ Within(s, r, g)'
          BY <1>3, <1>4, <4>1 DEF WindowFits
        <5>1. r \in ReportsOf(g) /\ r \in Reports /\ row[g].last < NumberOf(r, g)
          <6>1. r \in ReportsOf(g) /\ r \in Reports /\ NumberOf(r, g) > row[g].last
            BY DEF NewReports, ReportsOf
          <6> QED
            BY <6>1, CommentTypes
        <5>2. NumberOf(r, g) <= Cardinality(ReportsOf(g))
          BY <5>1, NumberType
        <5>3. ReportsOf(g)' = ReportsOf(g) /\ NumberOf(r, g)' = NumberOf(r, g)
          BY <1>1 DEF ReportsOf, NumberOf
        <5> QED
          BY <1>3, <1>4, <5>1, <5>2, <5>3 DEF Within
      <4>2. CASE t # s
        BY <1>1, <1>4, <2>2, <4>2 DEF AnnouncedAt, WindowFits, Looking, Within, NumberOf, ReportsOf
      <4> QED
        BY <4>1, <4>2
    <3>6. AnnouncedAt(g, i)'
      BY <1>1, <2>2, <3>1, <3>3, <3>4, <3>5 DEF AnnouncedAt
    <3> QED
      BY <1>1, <1>b, <1>5, <3>6 DEF FiledAt
  <2> QED
    BY <1>5, <2>1, <2>2
<1>8. Commenting(s)'
  BY <1>1, <1>3, <1>4, <1>b, <1>5 DEF Commenting
<1> QED
  BY <1>1, <1>2, <1>3, <1>5, <1>b, <1>6, <1>7, <1>8, OneSyncMoves

LEMMA BumpAnnounces ==
  ASSUME FilingInv, AnnounceInv, FilingInv', NEW s \in Syncs, Bump(s)
  PROVE  AnnounceInv'
<1>a. PICK g \in Groups : g = syncs[s].g
  BY EngagedSync DEF Bump
<1>1. syncs[s].pc = "bump" /\ UNCHANGED <<mergedInto, home, born, issues, created, late, filers>>
  BY DEF Bump
<1>2. CASE ~CountIs(g, syncs[s].from)
  <2>1. row' = row /\ syncs' = [syncs EXCEPT ![s] = IdleSync]
    BY <1>2, <1>a DEF Bump
  <2>2. \A n \in Numbers : IssueKept(n)
    BY <1>1 DEF IssueKept
  <2> QED
    BY <1>1, <2>1, <2>2, IdleSyncFacts, RecessionAnnounces
<1>3. CASE CountIs(g, syncs[s].from)
  <2>a. PICK x : x = [syncs[s] EXCEPT !.pc = "comment"]
    OBVIOUS
  <2>b. PICK i : i = row[g].issue
    OBVIOUS
  <2>1. /\ row' = [row EXCEPT ![g].last = syncs[s].to] /\ syncs' = [syncs EXCEPT ![s] = x]
        /\ row[g].state = "filed" /\ row[g].last = syncs[s].from
    BY <1>3, <1>a, <2>a DEF Bump, CountIs, FilingInv, TypeOK
  <2>2. /\ x \in Sync /\ x.pc = "comment" /\ x.g = g /\ x.issue = syncs[s].issue
        /\ x.from = syncs[s].from /\ x.to = syncs[s].to /\ x.window = syncs[s].window
    BY <1>a, <2>a, SyncType DEF FilingInv, Sync
  <2>3. syncs'[s] = x /\ \A t \in Syncs \ {s} : syncs'[t] = syncs[t]
    BY <2>1, <2>2, MovedSync
  <2>4. /\ row'[g].state = "filed" /\ row'[g].issue = i /\ row'[g].last = syncs[s].to
        /\ \A h \in Groups \ {g} : row'[h] = row[h]
    BY <2>1, <2>b, RowType DEF FilingInv, TypeOK, Row
  <2>5. i \in Numbers /\ (issues[i].rebased \/ AnnouncedAt(g, i)) /\ i <= created
    BY <2>1, <2>b DEF AnnounceInv, FiledAt, Known
  <2>6. syncs[s].from < syncs[s].to
    BY <1>1 DEF AnnounceInv, Commenting
  <2>7. FiledAt(g)'
    <3>1. CASE issues[i].rebased
      BY <1>1, <2>4, <2>5, <3>1 DEF FiledAt
    <3>2. CASE AnnouncedAt(g, i)
      <4>0. /\ syncs[s].from \in Nat /\ syncs[s].to \in Nat
            /\ \A r \in issues[i].told : /\ r \in ReportsOf(g) /\ NumberOf(r, g) \in Nat
                                         /\ NumberOf(r, g) <= syncs[s].from
        BY <2>1, <3>2, CommentTypes DEF AnnouncedAt, ToldBelow
      <4>1. ReportsOf(g)' = ReportsOf(g) /\ \A r : NumberOf(r, g)' = NumberOf(r, g)
        BY <1>1 DEF ReportsOf, NumberOf
      <4>2. ToldBelow(g, i)'
        BY <1>1, <2>4, <2>6, <4>0, <4>1 DEF ToldBelow
      <4>3. ASSUME NEW t \in Syncs, t # s, Claiming(t, g)'
            PROVE  /\ Claiming(t, g) /\ syncs'[t] = syncs[t]
                   /\ syncs[t].to <= syncs[s].from /\ syncs[t].to \in Nat
        BY <2>1, <2>3, <3>2, <4>3, CommentTypes DEF AnnouncedAt, Claims, Claiming
      <4>4. ASSUME NEW t \in Syncs PROVE Claims(t, g, i)'
        <5>1. CASE t = s
          BY <1>1, <2>2, <2>3, <2>4, <4>0, <4>1, <5>1 DEF Claims, Within
        <5>2. CASE t # s
          <6> SUFFICES ASSUME Claiming(t, g)'
                       PROVE  syncs'[t].to <= row'[g].last /\ \A r \in issues[i].told : ~Within(t, r, g)'
            BY <1>1 DEF Claims
          <6>1. Claims(t, g, i) /\ Claiming(t, g) /\ syncs'[t] = syncs[t]
            BY <3>2, <4>3, <5>2 DEF AnnouncedAt
          <6>2. syncs'[t].to <= row'[g].last
            BY <2>4, <2>6, <4>0, <4>3, <5>2
          <6> QED
            BY <4>1, <6>1, <6>2 DEF Claims, Within
        <5> QED
          BY <5>1, <5>2
      <4>5. ASSUME NEW t \in Syncs, NEW u \in Syncs, t # u PROVE Apart(t, u, g)'
        <5>1. CASE t = s
          BY <2>2, <2>3, <4>3, <4>5, <5>1 DEF Apart
        <5>2. CASE u = s
          BY <2>2, <2>3, <4>3, <4>5, <5>2 DEF Apart
        <5>3. CASE t # s /\ u # s
          BY <3>2, <4>3, <4>5, <5>3 DEF AnnouncedAt, Apart
        <5> QED
          BY <5>1, <5>2, <5>3
      <4>6. ASSUME NEW t \in Syncs PROVE WindowFits(t, g)'
        BY <1>1, <1>a, <2>2, <2>3, <3>2, <4>1 DEF AnnouncedAt, WindowFits, Looking, Within
      <4>7. AnnouncedAt(g, i)'
        BY <1>1, <3>2, <4>2, <4>4, <4>5, <4>6 DEF AnnouncedAt
      <4> QED
        BY <1>1, <2>4, <2>5, <4>7 DEF FiledAt
    <3> QED
      BY <2>5, <3>1, <3>2
  <2>8. UnsettledAt(g)'
    BY <2>4, SettledFiled
  <2>9. StillCommenting(s) /\ x.issue <= created
    BY <1>1, <1>a, <2>2, <2>3 DEF StillCommenting, AnnounceInv, Known
  <2> QED
    BY <1>1, <2>1, <2>2, <2>4, <2>5, <2>b, <2>7, <2>8, <2>9, OneSyncMoves
<1> QED
  BY <1>2, <1>3

LEMMA RevertAnnounces ==
  ASSUME FilingInv, AnnounceInv, FilingInv', NEW s \in Syncs, RevertCount(s)
  PROVE  AnnounceInv'
<1>a. PICK g \in Groups : g = syncs[s].g
  BY EngagedSync DEF RevertCount
<1>1. /\ syncs[s].pc = "revert" /\ syncs' = [syncs EXCEPT ![s] = IdleSync]
      /\ UNCHANGED <<mergedInto, home, born, issues, created, late, filers>>
  BY DEF RevertCount
<1>2. CASE ~CountIs(g, syncs[s].to)
  <2>1. row' = row
    BY <1>2, <1>a DEF RevertCount
  <2>2. \A n \in Numbers : IssueKept(n)
    BY <1>1 DEF IssueKept
  <2> QED
    BY <1>1, <2>1, <2>2, IdleSyncFacts, RecessionAnnounces
<1>3. CASE CountIs(g, syncs[s].to)
  <2>b. PICK i : i = row[g].issue
    OBVIOUS
  <2>1. /\ row' = [row EXCEPT ![g].last = syncs[s].from]
        /\ row[g].state = "filed" /\ row[g].last = syncs[s].to
    BY <1>3, <1>a DEF RevertCount, CountIs
  <2>2. syncs'[s] = IdleSync /\ \A t \in Syncs \ {s} : syncs'[t] = syncs[t]
    BY <1>1, IdleSyncFacts, MovedSync
  <2>3. /\ row'[g].state = "filed" /\ row'[g].issue = i /\ row'[g].last = syncs[s].from
        /\ \A h \in Groups \ {g} : row'[h] = row[h]
    BY <2>1, <2>b, RowType DEF FilingInv, TypeOK, Row
  <2>4. i \in Numbers /\ (issues[i].rebased \/ AnnouncedAt(g, i)) /\ i <= created
    BY <2>1, <2>b DEF AnnounceInv, FiledAt, Known
  <2>5. FiledAt(g)'
    <3>1. CASE issues[i].rebased
      BY <1>1, <2>3, <2>4, <3>1 DEF FiledAt
    <3>2. CASE AnnouncedAt(g, i)
      <4>0. Claiming(s, g) /\ \A t \in Syncs : ~(t = s) /\ Claiming(t, g)' => Claiming(t, g) /\ syncs'[t] = syncs[t]
        BY <1>1, <1>a, <2>2 DEF Claiming
      <4>1. ReportsOf(g)' = ReportsOf(g) /\ \A r : NumberOf(r, g)' = NumberOf(r, g)
        BY <1>1 DEF ReportsOf, NumberOf
      <4>2. ToldBelow(g, i)'
        <5> SUFFICES ASSUME NEW r \in issues[i].told PROVE r \in ReportsOf(g) /\ NumberOf(r, g) <= syncs[s].from
          BY <1>1, <2>3, <4>1 DEF ToldBelow
        <5>1. r \in ReportsOf(g) /\ NumberOf(r, g) <= syncs[s].to /\ ~Within(s, r, g)
          BY <2>1, <3>2, <4>0 DEF AnnouncedAt, ToldBelow, Claims
        <5>2. NumberOf(r, g) \in Nat /\ syncs[s].from \in Nat
          BY <5>1, CommentTypes
        <5> QED
          BY <5>1, <5>2 DEF Within
      <4>3. ASSUME NEW t \in Syncs PROVE Claims(t, g, i)'
        <5> SUFFICES ASSUME Claiming(t, g)'
                     PROVE  syncs'[t].to <= syncs[s].from /\ \A r \in issues[i].told : ~Within(t, r, g)'
          BY <1>1, <2>3 DEF Claims
        <5>1. t # s
          BY <2>2, IdleSyncFacts DEF Claiming
        <5>2. Claiming(t, g) /\ syncs'[t] = syncs[t] /\ Claims(t, g, i) /\ Apart(s, t, g)
          BY <3>2, <4>0, <5>1 DEF AnnouncedAt
        <5>3. syncs[t].to <= syncs[s].from
          <6>1. syncs[t].from < syncs[t].to /\ syncs[t].to <= syncs[s].to
            BY <2>1, <5>2 DEF Claims, Claiming, AnnounceInv, Commenting
          <6>2. syncs[s].to <= syncs[t].from \/ syncs[t].to <= syncs[s].from
            BY <4>0, <5>2 DEF Apart
          <6>3. syncs[t].from \in Nat /\ syncs[t].to \in Nat /\ syncs[s].from \in Nat /\ syncs[s].to \in Nat
            BY CommentTypes
          <6> QED
            BY <6>1, <6>2, <6>3
        <5> QED
          BY <4>1, <5>2, <5>3 DEF Claims, Within
      <4>4. ASSUME NEW t \in Syncs, NEW u \in Syncs, t # u PROVE Apart(t, u, g)'
        <5>1. ~Claiming(s, g)'
          BY <2>2, IdleSyncFacts DEF Claiming
        <5> QED
          BY <3>2, <4>0, <4>4, <5>1 DEF AnnouncedAt, Apart
      <4>5. ASSUME NEW t \in Syncs PROVE WindowFits(t, g)'
        <5>1. ~Looking(s, g)'
          BY <2>2, IdleSyncFacts DEF Looking
        <5> QED
          BY <1>1, <2>2, <3>2, <4>1, <5>1 DEF AnnouncedAt, WindowFits, Looking, Within
      <4>6. AnnouncedAt(g, i)'
        BY <1>1, <3>2, <4>2, <4>3, <4>4, <4>5 DEF AnnouncedAt
      <4> QED
        BY <1>1, <2>3, <2>4, <4>6 DEF FiledAt
    <3> QED
      BY <2>4, <3>1, <3>2
  <2>6. UnsettledAt(g)'
    BY <2>3, SettledFiled
  <2>7. StillCommenting(s) /\ IdleSync.issue <= created
    BY <2>2, IdleSyncFacts DEF StillCommenting, FilingInv, TypeOK
  <2> QED
    BY <1>1, <2>1, <2>3, <2>4, <2>b, <2>5, <2>6, <2>7, IdleSyncFacts, OneSyncMoves
<1> QED
  BY <1>2, <1>3

-----------------------------------------------------------------------------
(* A comment reaches GitHub.                                                 *)

LEMMA AnnounceChanges ==
  ASSUME FilingInv, AnnounceInv, NEW s \in Syncs, NEW unclear \in BOOLEAN, Announce(s, unclear),
         NEW k \in Numbers, k = syncs[s].issue
  PROVE  /\ \A n \in Numbers : n # k => IssueKept(n)
         /\ issues'[k].marker = issues[k].marker /\ issues'[k].body = issues[k].body
         /\ issues'[k].late = issues[k].late
         /\ issues'[k].told = issues[k].told \cup syncs[s].window
         /\ issues[k].rebased => issues'[k].rebased
         /\ unclear => issues'[k].rebased
<1>b. PICK w : w = syncs[s].window
  OBVIOUS
<1>c. PICK again : again = (issues[k].rebased \/ unclear)
  OBVIOUS
<1>d. PICK x : x = [issues[k] EXCEPT !.told = issues[k].told \cup w, !.rebased = again]
  OBVIOUS
<1>1. issues' = [issues EXCEPT ![k].told = @ \cup w, ![k].rebased = @ \/ unclear]
  BY <1>b DEF Announce
<1>2. issues \in [Numbers -> Issue] /\ issues[k] \in Issue
  BY DEF FilingInv, TypeOK
<1>3. issues' = [issues EXCEPT ![k] = x]
  BY <1>1, <1>2, <1>c, <1>d DEF Issue
<1>4. /\ x.marker = issues[k].marker /\ x.body = issues[k].body /\ x.late = issues[k].late
      /\ x.told = issues[k].told \cup w /\ x.rebased = again
  BY <1>2, <1>d DEF Issue
<1>5. issues'[k] = x /\ \A n \in Numbers : n # k => issues'[n] = issues[n]
  BY <1>2, <1>3
<1>6. \A n \in Numbers : n # k => IssueKept(n)
  BY <1>5 DEF IssueKept
<1> QED
  BY <1>4, <1>5, <1>6, <1>b, <1>c

LEMMA UnclearComment ==
  ASSUME FilingInv, AnnounceInv, NEW s \in Syncs, syncs[s].pc = "comment", Announce(s, TRUE)
  PROVE  \A n \in Numbers : IssueKept(n)
<1>a. PICK k \in Numbers : k = syncs[s].issue
  BY DEF AnnounceInv, Commenting
<1>1. \A n \in Numbers : n # k => IssueKept(n)
  BY <1>a, AnnounceChanges
<1>2. /\ issues'[k].marker = issues[k].marker /\ issues'[k].body = issues[k].body
      /\ issues'[k].late = issues[k].late
  BY <1>a, AnnounceChanges
<1>3. issues'[k].rebased
  BY <1>a, AnnounceChanges
<1> QED
  BY <1>1, <1>2, <1>3 DEF IssueKept

LEMMA CommentFailsAnnounces ==
  ASSUME FilingInv, AnnounceInv, NEW s \in Syncs, CommentFails(s)
  PROVE  AnnounceInv'
<1>a. PICK x : x = [syncs[s] EXCEPT !.pc = "revert", !.issue = 0, !.window = {}]
  OBVIOUS
<1>1. /\ syncs[s].pc = "comment" /\ syncs' = [syncs EXCEPT ![s] = x]
      /\ UNCHANGED <<row, mergedInto, home, born, created, late, filers>>
  BY <1>a DEF CommentFails, FilingInv, TypeOK
<1>2. /\ x \in Sync /\ x.pc = "revert" /\ x.g = syncs[s].g /\ x.issue = 0
      /\ x.from = syncs[s].from /\ x.to = syncs[s].to
  <2>1. x = [pc |-> "revert", g |-> syncs[s].g, issue |-> 0, from |-> syncs[s].from,
             to |-> syncs[s].to, window |-> {}]
    BY <1>a, SyncType DEF FilingInv, Sync
  <2>2. 0 \in 0 .. MaxIssues /\ {} \in SUBSET Reports
    OBVIOUS
  <2> QED
    BY <2>1, <2>2, SyncType DEF FilingInv, Sync
<1>3. \A n \in Numbers : IssueKept(n)
  <2>1. issues' = issues => \A n \in Numbers : IssueKept(n)
    BY DEF IssueKept
  <2> QED
    BY <1>1, <2>1, UnclearComment DEF CommentFails
<1> QED
  BY <1>1, <1>2, <1>3, RecessionAnnounces

LEMMA SyncDiesAnnounces ==
  ASSUME FilingInv, AnnounceInv, NEW s \in Syncs, SyncDies(s)
  PROVE  AnnounceInv'
<1>1. /\ syncs' = [syncs EXCEPT ![s] = IdleSync]
      /\ UNCHANGED <<row, mergedInto, home, born, created, late, filers>>
  BY DEF SyncDies
<1>2. \A n \in Numbers : IssueKept(n)
  <2>1. issues' = issues => \A n \in Numbers : IssueKept(n)
    BY DEF IssueKept
  <2> QED
    BY <2>1, UnclearComment DEF SyncDies
<1> QED
  BY <1>1, <1>2, IdleSyncFacts, RecessionAnnounces

LEMMA CommentAnnounces ==
  ASSUME FilingInv, AnnounceInv, FilingInv', NEW s \in Syncs, PostComment(s)
  PROVE  AnnounceInv'
<1>a. PICK k \in Numbers : k = syncs[s].issue
  BY DEF AnnounceInv, Commenting, PostComment
<1>b. PICK g \in Groups : g = syncs[s].g
  BY EngagedSync DEF PostComment
<1>c. PICK w : w = syncs[s].window
  OBVIOUS
<1>1. /\ syncs[s].pc = "comment" /\ Announce(s, FALSE) /\ syncs' = [syncs EXCEPT ![s] = IdleSync]
      /\ UNCHANGED <<row, mergedInto, home, born, created, late, filers>>
  BY DEF PostComment
<1>2. \A n \in Numbers : n # k => IssueKept(n)
  BY <1>a, <1>1, AnnounceChanges
<1>3. /\ issues'[k].marker = issues[k].marker /\ issues'[k].body = issues[k].body
      /\ issues'[k].late = issues[k].late
      /\ issues'[k].told = issues[k].told \cup w
      /\ issues[k].rebased => issues'[k].rebased
  BY <1>a, <1>c, <1>1, AnnounceChanges
<1>4. issues'[k].rebased => IssueKept(k)
  BY <1>3 DEF IssueKept
<1>5. SameMarks /\ LateIsRebased'
  <2>1. ASSUME NEW n \in Numbers
        PROVE  /\ issues'[n].marker = issues[n].marker /\ issues'[n].late = issues[n].late
               /\ issues[n].rebased => issues'[n].rebased
    BY <1>2, <1>3 DEF IssueKept
  <2> QED
    BY <2>1 DEF SameMarks, LateIsRebased, AnnounceInv
<1>6. AllBorn'
  BY <1>1 DEF AnnounceInv, AllBorn
<1>7. /\ syncs'[s] = IdleSync /\ \A t \in Syncs \ {s} : syncs'[t] = syncs[t]
      /\ \A t \in Syncs : syncs'[t].issue <= created
      /\ \A t \in Syncs, h \in Groups : Unattempted(t, h) /\ SyncCalm(t, h)
      /\ \A t \in Syncs : StillCommenting(t)
  BY <1>1, IdleSyncFacts, SyncRecedes
<1>8. Known'
  BY <1>1, <1>7 DEF AnnounceInv, Known
<1>9. ~issues'[k].rebased => /\ row[g].state = "filed" /\ row[g].issue = k
                             /\ AnnouncedAt(g, k)
  BY <1>1, <1>3, <1>a, <1>b DEF AnnounceInv, Commenting, FiledAt
<1>10. ASSUME NEW h \in Groups PROVE UnsettledAt(h)' /\ FiledAt(h)'
  <2>1. ReportsKept(h) /\ FirstKept(h)
    BY <1>1, SameReports DEF ReportsOf
  <2>2. UnsettledAt(h)'
    <3>1. CASE row[h].state = "filed"
      BY <1>1, <3>1, SettledFiled
    <3>2. CASE row[h].state # "filed"
      <4>1. ASSUME NEW n \in InTime(h) PROVE IssueKept(n)
        <5>1. n \in Numbers /\ issues[n].marker = h
          BY DEF InTime, MarkedIssues
        <5>2. n = k => issues'[k].rebased
          BY <1>9, <3>2, <5>1 DEF AnnouncedAt
        <5> QED
          BY <1>2, <1>4, <5>1, <5>2
      <4>2. \A f \in Filers : FilerCalm(f, h)
        BY <1>1, NobodyMoves
      <4> QED
        BY <1>1, <1>5, <1>7, <2>1, <4>1, <4>2, StillUnsettled
    <3> QED
      BY <3>1, <3>2
  <2>3. CASE row[h].state # "filed"
    BY <1>1, <2>2, <2>3 DEF FiledAt
  <2>4. CASE row[h].state = "filed" /\ (row[h].issue # k \/ issues'[k].rebased)
    <3>1. row[h].issue \in Numbers
      BY <2>4 DEF AnnounceInv, FiledAt
    <3>2. IssueKept(row[h].issue)
      BY <1>2, <1>4, <2>4, <3>1
    <3>3. FiledAt(h)'
      BY <1>1, <1>7, <2>1, <3>2, StillFiled
    <3> QED
      BY <2>2, <3>3
  <2>5. CASE row[h].state = "filed" /\ row[h].issue = k /\ ~issues'[k].rebased
    <3>1. h = g /\ AnnouncedAt(g, k)
      <4>1. AnnouncedAt(h, k)
        BY <1>3, <2>5 DEF AnnounceInv, FiledAt
      <4> QED
        BY <1>9, <2>5, <4>1 DEF AnnouncedAt
    <3>2. ReportsOf(g)' = ReportsOf(g) /\ \A r : NumberOf(r, g)' = NumberOf(r, g)
      BY <1>1 DEF ReportsOf, NumberOf
    <3>3. Claiming(s, g) /\ Looking(s, g)
      BY <1>1, <1>b DEF Claiming, Looking
    <3>4. ~Claiming(s, g)' /\ ~Looking(s, g)'
      BY <1>7, IdleSyncFacts DEF Claiming, Looking
    <3>5. \A r \in w : r \in ReportsOf(g) /\ Within(s, r, g)
      BY <1>c, <3>1, <3>3 DEF AnnouncedAt, WindowFits
    <3>6. syncs[s].to <= row[g].last
      BY <3>1, <3>3 DEF AnnouncedAt, Claims
    <3>7. ToldBelow(g, k)'
      <4>1. ASSUME NEW r \in w PROVE NumberOf(r, g) <= row[g].last
        <5>1. NumberOf(r, g) <= syncs[s].to /\ NumberOf(r, g) \in Nat
          BY <3>5, CommentTypes DEF Within
        <5> QED
          BY <3>6, <5>1, CommentTypes
      <4> QED
        BY <1>1, <1>3, <3>1, <3>2, <3>5, <4>1 DEF AnnouncedAt, ToldBelow
    <3>8. ASSUME NEW t \in Syncs PROVE Claims(t, g, k)'
      <4> SUFFICES ASSUME Claiming(t, g)'
                   PROVE  syncs'[t].to <= row[g].last /\ \A r \in issues[k].told \cup w : ~Within(t, r, g)'
        BY <1>1, <1>3 DEF Claims
      <4>1. t # s /\ Claiming(t, g) /\ syncs'[t] = syncs[t] /\ Claims(t, g, k) /\ Apart(s, t, g)
        BY <1>7, <3>1, <3>4 DEF AnnouncedAt, Claiming
      <4>2. ASSUME NEW r \in w PROVE ~Within(t, r, g)
        <5>1. syncs[s].from < NumberOf(r, g) /\ NumberOf(r, g) <= syncs[s].to /\ NumberOf(r, g) \in Nat
          BY <3>5, CommentTypes DEF Within
        <5>2. syncs[s].to <= syncs[t].from \/ syncs[t].to <= syncs[s].from
          BY <3>3, <4>1 DEF Apart
        <5>3. /\ syncs[t].from \in Nat /\ syncs[t].to \in Nat
              /\ syncs[s].from \in Nat /\ syncs[s].to \in Nat
          BY CommentTypes
        <5> QED
          BY <5>1, <5>2, <5>3 DEF Within
      <4> QED
        BY <3>2, <4>1, <4>2 DEF Claims, Within
    <3>9. ASSUME NEW t \in Syncs, NEW u \in Syncs, t # u PROVE Apart(t, u, g)'
      <4>1. t = s \/ u = s => Apart(t, u, g)'
        BY <3>4 DEF Apart
      <4>2. t # s /\ u # s => Apart(t, u, g)'
        BY <1>7, <3>1, <3>9 DEF AnnouncedAt, Apart, Claiming
      <4> QED
        BY <4>1, <4>2
    <3>10. ASSUME NEW t \in Syncs PROVE WindowFits(t, g)'
      <4>1. t = s => WindowFits(t, g)'
        BY <3>4 DEF WindowFits
      <4>2. t # s => WindowFits(t, g)'
        BY <1>7, <3>1, <3>2 DEF AnnouncedAt, WindowFits, Looking, Within
      <4> QED
        BY <4>1, <4>2
    <3>11. AnnouncedAt(g, k)'
      BY <1>3, <3>1, <3>7, <3>8, <3>9, <3>10 DEF AnnouncedAt
    <3>12. FiledAt(h)'
      BY <1>1, <2>5, <3>1, <3>11 DEF FiledAt
    <3> QED
      BY <2>2, <3>12
  <2> QED
    BY <2>3, <2>4, <2>5
<1>11. LinksKeep
  <2>1. \A n \in Numbers : issues[n].rebased => issues'[n].rebased
    BY <1>2, <1>3 DEF IssueKept
  <2> QED
    BY <1>1, <2>1 DEF LinksKeep
<1>12. \A t \in Syncs : Commenting(t)'
  BY <1>7, <1>11, CommentingKept
<1> QED
  BY <1>5, <1>6, <1>8, <1>10, <1>12 DEF AnnounceInv

-----------------------------------------------------------------------------
LEMMA AnnounceStart == Init => AnnounceInv
<1> SUFFICES ASSUME Init PROVE AnnounceInv
  OBVIOUS
<1>1. Cardinality(Groups) \in Nat
  BY FS_CardinalityType
<1>2. LateIsRebased /\ Known
  BY <1>1 DEF Init, LateIsRebased, Known, NoIssue, NoRow, IdleFiler, IdleSync
<1>3. AllBorn
  BY <1>1 DEF Init, AllBorn, Reports
<1>4. ASSUME NEW g \in Groups PROVE UnsettledAt(g) /\ FiledAt(g)
  <2>1. MarkedIssues(g) = {} /\ row[g].state = "none"
    BY DEF Init, MarkedIssues, NoIssue, NoRow
  <2>2. InTime(g) = {}
    BY <2>1 DEF InTime
  <2>3. \A f \in Filers : FilerCounts(f, g)
    BY DEF Init, FilerCounts, Holds, Holding, IdleFiler
  <2>4. \A s \in Syncs : AttemptCounts(s, g)
    BY DEF Init, AttemptCounts, IdleSync
  <2> QED
    BY <2>1, <2>2, <2>3, <2>4 DEF UnsettledAt, NoneInTime, BodiesCounted, FiledAt
<1>5. \A s \in Syncs : Commenting(s)
  BY DEF Init, Commenting, IdleSync
<1> QED
  BY <1>2, <1>3, <1>4, <1>5 DEF AnnounceInv

LEMMA AnnounceStep == FilingInv /\ AnnounceInv /\ [Next]_vars => AnnounceInv'
<1> SUFFICES ASSUME FilingInv, AnnounceInv, [Next]_vars PROVE AnnounceInv'
  OBVIOUS
<1>0. FilingInv'
  BY FilingStep
<1>1. ASSUME NEW f \in Filers, FilerStep(f) PROVE AnnounceInv'
  BY <1>0, <1>1, ClaimAnnounces, QuarantineAnnounces, RefuseAnnounces, CreatesAnnounces,
     RefusedAnnounces, UnclearAnnounces, CompleteAnnounces, ReleaseAnnounces, MarkAnnounces
     DEF FilerStep
<1>2. ASSUME NEW s \in Syncs, SyncStep(s) PROVE AnnounceInv'
  BY <1>0, <1>2, ListAnnounces, InconclusiveAnnounces, SettleAnnounces, BumpAnnounces,
     CommentAnnounces, CommentFailsAnnounces, RevertAnnounces DEF SyncStep
<1>3. CASE UNCHANGED vars
  <2>1. UNCHANGED <<row, mergedInto, home, born, issues, created, late, filers, syncs>>
    BY <1>3 DEF vars
  <2>2. \A n \in Numbers : IssueKept(n)
    BY <2>1 DEF IssueKept
  <2>3. /\ \A f \in Filers : filers'[f].issue <= created
        /\ \A s \in Syncs : syncs'[s].issue <= created
    BY <2>1 DEF AnnounceInv, Known
  <2> QED
    BY <2>1, <2>2, <2>3, NobodyMoves, QuietAnnounces
<1> QED
  BY <1>0, <1>1, <1>2, <1>3, SubmitAnnounces, PurgeAnnounces, MergeAnnounces, BeginAnnounces,
     FilerDiesAnnounces, LateAnnounces, ClaimAttemptAnnounces, ReadContextAnnounces,
     SyncDiesAnnounces DEF Next

(* What every comment relies on: an issue whose reports were not renumbered   *)
(* has told of none above the watermark, and every comment under way, or to  *)
(* be taken back, has a range of numbers to itself.                          *)
THEOREM AnnounceInvariant == Spec => []AnnounceInv
<1>1. Init => AnnounceInv
  BY AnnounceStart
<1>2. FilingInv /\ AnnounceInv /\ [Next]_vars => AnnounceInv'
  BY AnnounceStep
<1> QED
  BY <1>1, <1>2, FilingInvariant, PTL DEF Spec

LEMMA AnnouncesNews == FilingInv /\ AnnounceInv => CommentsAnnounceNews
<1> SUFFICES ASSUME FilingInv, AnnounceInv,
                    NEW s \in Syncs, syncs[s].pc = "comment", ~issues[syncs[s].issue].rebased
             PROVE  /\ syncs[s].window \cap issues[syncs[s].issue].told = {}
                    /\ \A t \in Syncs \ {s} :
                         syncs[t].pc = "comment" /\ syncs[t].issue = syncs[s].issue =>
                            syncs[t].window \cap syncs[s].window = {}
  BY DEF CommentsAnnounceNews
<1>a. PICK g \in Groups : g = syncs[s].g
  BY EngagedSync
<1>b. PICK i : i = syncs[s].issue
  OBVIOUS
<1>1. AnnouncedAt(g, i)
  BY <1>a, <1>b DEF AnnounceInv, Commenting, FiledAt
<1>2. \A r \in syncs[s].window : r \in ReportsOf(g) /\ Within(s, r, g)
  BY <1>a, <1>1 DEF AnnouncedAt, WindowFits, Looking
<1>3. \A r \in issues[i].told : ~Within(s, r, g)
  BY <1>a, <1>1 DEF AnnouncedAt, Claims, Claiming
<1>4. ASSUME NEW t \in Syncs \ {s}, syncs[t].pc = "comment", syncs[t].issue = i
      PROVE  syncs[t].window \cap syncs[s].window = {}
  <2>a. PICK h \in Groups : h = syncs[t].g
    BY <1>4, EngagedSync
  <2>1. AnnouncedAt(h, i)
    BY <1>b, <1>4, <2>a DEF AnnounceInv, Commenting, FiledAt
  <2>2. h = g
    BY <1>1, <2>1 DEF AnnouncedAt
  <2>3. Apart(s, t, g) /\ Claiming(s, g) /\ Claiming(t, g)
    BY <1>a, <1>1, <1>4, <2>a, <2>2 DEF AnnouncedAt, Claiming
  <2>4. \A r \in syncs[t].window : r \in ReportsOf(g) /\ Within(t, r, g)
    BY <1>1, <1>4, <2>a, <2>2 DEF AnnouncedAt, WindowFits, Looking
  <2>5. ASSUME NEW r \in syncs[t].window \cap syncs[s].window PROVE FALSE
    <3>1. /\ syncs[s].from < NumberOf(r, g) /\ NumberOf(r, g) <= syncs[s].to
          /\ syncs[t].from < NumberOf(r, g) /\ NumberOf(r, g) <= syncs[t].to
      BY <1>2, <2>4 DEF Within
    <3>2. /\ syncs[s].from \in Nat /\ syncs[s].to \in Nat
          /\ syncs[t].from \in Nat /\ syncs[t].to \in Nat /\ NumberOf(r, g) \in Nat
      BY <1>2, CommentTypes
    <3> QED
      BY <2>3, <3>1, <3>2 DEF Apart
  <2> QED
    BY <2>5
<1> QED
  BY <1>2, <1>3, <1>4, <1>b

(* A row becomes filed by the completion of a filing or by an adoption.       *)
LEMMA CountsFromBodyStep == FilingInv /\ AnnounceInv /\ [Next]_vars => CountsFromBody
<1> SUFFICES ASSUME FilingInv, AnnounceInv, [Next]_vars, NEW g \in Groups,
                    row[g].state \in Unsettled, row'[g].state = "filed", ~FiledLate(g)
             PROVE  row'[g].last = Cardinality(issues[row'[g].issue].body)
  BY DEF CountsFromBody
<1>0. FilingInv' /\ row[g].state # "filed"
  BY FilingStep DEF Unsettled
<1>1. ASSUME NEW f \in Filers, CompleteFiling(f)
      PROVE  row'[g].last = Cardinality(issues[row'[g].issue].body)
  BY <1>0, <1>1, CompleteAnnounces
<1>2. ASSUME NEW s \in Syncs, Settle(s)
      PROVE  row'[g].last = Cardinality(issues[row'[g].issue].body)
  <2>1. syncs[s].g = g
    BY <1>0, <1>2, SettleAnnounces
  <2>2. row'[g].last = row[g].last /\ row'[g].issue \in MarkedIssues(g)
    BY <1>0, <1>2, <2>1, SettleAnnounces
  <2>3. row'[g].issue \in InTime(g)
    BY <2>2 DEF InTime, FiledLate
  <2> QED
    BY <2>2, <2>3 DEF AnnounceInv, UnsettledAt, BodiesCounted, CountsBody
<1>3. \/ \E f \in Filers : CompleteFiling(f)
      \/ \E s \in Syncs : Settle(s)
  <2>1. row[g] # row'[g] /\ row'[g].state = "filed"
    BY <1>0
  <2>2. ASSUME NEW f \in Filers, Claim(f) PROVE FALSE
    <3>1. row'[g].state = row[g].state \/ row'[g].state = "pending"
      BY <2>2 DEF Claim, FilingInv, TypeOK, NoRow
    <3> QED
      BY <1>0, <3>1
  <2>3. ASSUME NEW f \in Filers, Quarantine(f) \/ MarkForReconciliation(f) \/ ReleaseClaim(f) PROVE FALSE
    <3>1. row'[g].state \in {row[g].state, "needs_reconciliation", "none"}
      BY <2>3, RowType DEF Quarantine, MarkForReconciliation, ReleaseClaim, FilingInv, TypeOK, NoRow, Row
    <3> QED
      BY <1>0, <3>1
  <2>4. ASSUME NEW s \in Syncs, NEW h \in Groups, ClaimAttempt(s, h) PROVE FALSE
    <3>1. row'[g].state = row[g].state
      BY <2>4, RowType DEF ClaimAttempt, FilingInv, TypeOK, Row
    <3> QED
      BY <1>0, <3>1
  <2>5. ASSUME NEW s \in Syncs, Bump(s) \/ RevertCount(s) PROVE FALSE
    <3>1. row'[g].state = row[g].state
      BY <2>5, RowType DEF Bump, RevertCount, FilingInv, TypeOK, Row
    <3> QED
      BY <1>0, <3>1
  <2>6. ASSUME NEW source \in Groups, NEW target \in Groups, Merge(source, target) PROVE FALSE
    <3>1. g \notin {source, target}
      BY <2>6 DEF Merge, MayMerge
    <3>2. row'[g] = row[g]
      BY <2>6, <3>1 DEF Merge, FilingInv, TypeOK
    <3> QED
      BY <2>1, <3>2
  <2>7. row' # row
    BY <2>1
  <2>8. ~UNCHANGED vars
    BY <2>7 DEF vars
  <2>9. \/ \E f \in Filers : FilerStep(f)
        \/ \E s \in Syncs : SyncStep(s)
    BY <2>4, <2>6, <2>7, <2>8
       DEF Next, SubmitReport, PurgeReport, BeginFiling, FilerDies, ExecuteLate, ReadContext, SyncDies
  <2>10. ASSUME NEW f \in Filers, FilerStep(f) PROVE CompleteFiling(f)
    BY <2>2, <2>3, <2>7, <2>10 DEF FilerStep, RefuseClaim, PostCreates, PostRefused, PostUnclear
  <2>11. ASSUME NEW s \in Syncs, SyncStep(s) PROVE Settle(s)
    BY <2>5, <2>7, <2>11 DEF SyncStep, ListComplete, ListInconclusive, PostComment, CommentFails
  <2> QED
    BY <2>9, <2>10, <2>11
<1> QED
  BY <1>1, <1>2, <1>3

(* Whatever files, adopts, merges, purges, fails or dies in between, a group   *)
(* starts counting from the reports its issue's body was rendered from, and  *)
(* no comment announces a report its issue has announced or another comment  *)
(* on its way announces: each report is told of once.                        *)
THEOREM ReportsAnnouncedOnce == Spec => AnnouncedOnce
<1>1. FilingInv /\ AnnounceInv /\ [Next]_vars => [CountsFromBody]_vars
  BY CountsFromBodyStep
<1>2. FilingInv /\ AnnounceInv => CommentsAnnounceNews
  BY AnnouncesNews
<1>3. Spec => []CommentsAnnounceNews
  BY <1>2, FilingInvariant, AnnounceInvariant, PTL
<1>4. Spec => [][CountsFromBody]_vars
  BY <1>1, FilingInvariant, AnnounceInvariant, PTL DEF Spec
<1> QED
  BY <1>3, <1>4 DEF AnnouncedOnce, BaselineIsBody

=============================================================================
