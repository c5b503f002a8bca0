------------------------ MODULE DataDestinationProofs ------------------------
(***************************************************************************)
(* What holds of DataDestination for every set of rows and drains, every    *)
(* batch size, cap, interval and pair of time-outs in the right order.       *)
(***************************************************************************)
EXTENDS DataDestination, FiniteSetTheorems, TLAPS

USE ConstantsAssumption

-----------------------------------------------------------------------------
(* Keys.                                                                     *)

LEMMA KeyOrder ==
  /\ \A k \in Key : KeyLeq(k, k) /\ KeyLeq(Epoch, k)
  /\ \A k, l \in Key : KeyLeq(k, l) \/ KeyLeq(l, k)
  /\ \A k, l, m \in Key : KeyLeq(k, l) /\ KeyLeq(l, m) => KeyLeq(k, m)
  /\ \A k \in Key : KeyLeq(k, Epoch) => k.at = 0
BY DEF Key, KeyLeq, Epoch

LEMMA KeyType ==
  ASSUME TypeOK, NEW r \in Rows
  PROVE  KeyOf(r) \in Key /\ source[r].at \in Nat /\ source[r].ver \in Nat
BY DEF TypeOK, Row, Rows, KeyOf, Key

LEMMA StreamPartition ==
  ASSUME NEW r \in Rows, NEW s \in Streams
  PROVE  r \in StreamRows(s) <=> StreamOf(r) = s
BY DEF Rows, Streams, StreamRows, StreamOf

LEMMA StreamOfType == \A r \in Rows : StreamOf(r) \in Streams
BY DEF StreamOf, Streams

LEMMA RowsFinite == IsFiniteSet(Rows)
BY FS_Union DEF Rows

LEMMA DueType == ASSUME NEW s \in Streams PROVE Due(s) \subseteq Rows
BY DEF Due, StreamRows, Rows, Streams

(* A page holds every row up to any of its rows.                             *)
LEMMA PageDownwardClosed ==
  ASSUME TypeOK, NEW rows \in SUBSET Rows, NEW limit \in Int,
         NEW r \in Page(rows, limit), NEW q \in rows, KeyLeq(KeyOf(q), KeyOf(r))
  PROVE  q \in Page(rows, limit)
<1> DEFINE Upto(x) == {p \in rows : KeyLeq(KeyOf(p), KeyOf(x))}
<1>1. r \in rows /\ Cardinality(Upto(r)) <= limit
  BY DEF Page
<1>2. Upto(q) \subseteq Upto(r)
  <2> SUFFICES ASSUME NEW p \in rows, KeyLeq(KeyOf(p), KeyOf(q))
               PROVE  KeyLeq(KeyOf(p), KeyOf(r))
    OBVIOUS
  <2> QED
    BY <1>1, KeyType, KeyOrder
<1>3. IsFiniteSet(Upto(r)) /\ IsFiniteSet(Upto(q))
  BY RowsFinite, FS_Subset
<1>4. /\ Cardinality(Upto(q)) <= Cardinality(Upto(r))
      /\ Cardinality(Upto(q)) \in Nat /\ Cardinality(Upto(r)) \in Nat
  BY <1>2, <1>3, FS_Subset, FS_CardinalityType
<1>5. Cardinality(Upto(q)) <= limit
  BY <1>1, <1>4
<1> QED
  BY <1>5 DEF Page

-----------------------------------------------------------------------------
(* Types.                                                                    *)

LEMMA DrainType ==
  ASSUME TypeOK, NEW d \in Drains
  PROVE  /\ drains[d] \in Drain
         /\ drains[d].stream \in Streams
         /\ drains[d].total \in Nat
         /\ drains[d].batch \in [Rows -> Nat]
         /\ drains[d].last \in Key
         /\ drains[d].interval \in Nat
         /\ drains[d].ok \in BOOLEAN
<1>1. drains[d] \in Drain
  BY DEF TypeOK
<1> QED
  BY <1>1 DEF Drain

(* One drain goes on and the others stay.                                    *)
LEMMA DrainsType ==
  ASSUME TypeOK, NEW d \in Drains, NEW drain \in Drain,
         drains' = [drains EXCEPT ![d] = drain]
  PROVE  drains' \in [Drains -> Drain]
BY DEF TypeOK

LEMMA WrittenType ==
  ASSUME TypeOK, NEW t \in Nat, NEW rows \in SUBSET Rows
  PROVE  Written(t, rows) \in [Rows -> Row]
<1>1. ASSUME NEW r \in Rows
      PROVE  [at |-> t, ver |-> source[r].ver + 1,
              overtaken |-> KeyLeq([at |-> t, row |-> r], fetched[StreamOf(r)])] \in Row
  BY KeyType DEF Row, KeyLeq
<1> QED
  BY <1>1 DEF Written, TypeOK

LEMMA UpsertedType ==
  ASSUME TypeOK, NEW batch \in [Rows -> Nat]
  PROVE  Upserted(batch) \in [Rows -> Nat]
BY DEF Upserted, BatchRows, TypeOK

LEMMA IdleDrainType == IdleDrain \in Drain
BY DEF IdleDrain, Drain, NoBatch, Epoch, Key, Streams

LEMMA EndStreamType ==
  ASSUME NEW drain \in Drain
  PROVE  EndStream(drain) \in Drain
BY DEF EndStream, Drain, NoBatch, Streams

LEMMA FailRunType ==
  ASSUME TypeOK, NEW d \in Drains, FailRun(d)
  PROVE  drains' \in [Drains -> Drain]
<1> DEFINE drain == [drains[d] EXCEPT !.pc = "finish", !.batch = NoBatch, !.ok = FALSE]
<1>1. drain \in Drain
  BY DrainType DEF Drain, NoBatch
<1>2. drains' = [drains EXCEPT ![d] = drain]
  BY DEF FailRun
<1> QED
  BY <1>1, <1>2, DrainsType

LEMMA AdvancedType ==
  ASSUME TypeOK, NEW d \in Drains
  PROVE  Advanced(d) \in [Streams -> Key]
BY DrainType DEF TypeOK, Advanced

LEMMA CutOffType ==
  ASSUME TypeOK, NEW d \in Drains, CutOff(d)
  PROVE  copy' \in [Rows -> Nat] /\ cursor' \in [Streams -> Key]
BY UpsertedType, AdvancedType, DrainType DEF TypeOK, CutOff

LEMMA TypeInvariant == TypeOK /\ [Next]_vars => TypeOK'
<1> SUFFICES ASSUME TypeOK, [Next]_vars PROVE TypeOK'
  OBVIOUS
<1> USE DEF sourceVars, exportVars, claimVars
<1>1. ASSUME NEW rows \in SUBSET Rows \ {{}}, WriteAtOnce(rows) PROVE TypeOK'
  <2>1. stamps' \in 0 .. MaxStamp /\ writing \subseteq 1 .. stamps'
    BY <1>1 DEF WriteAtOnce, TypeOK
  <2>2. source' \in [Rows -> Row]
    <3>1. stamps + 1 \in Nat
      BY DEF TypeOK
    <3> QED
      BY <1>1, <3>1, WrittenType DEF WriteAtOnce
  <2> QED
    BY <1>1, <2>1, <2>2 DEF WriteAtOnce, TypeOK
<1>2. ASSUME NEW rows \in SUBSET Rows \ {{}}, NEW t \in writing, CommitWrite(t, rows)
      PROVE  TypeOK'
  <2>1. source' \in [Rows -> Row]
    <3>1. t \in Nat
      BY DEF TypeOK
    <3> QED
      BY <1>2, <3>1, WrittenType DEF CommitWrite
  <2> QED
    BY <1>2, <2>1 DEF CommitWrite, TypeOK
<1>3. CASE BeginWrite
  BY <1>3 DEF BeginWrite, TypeOK
<1>4. ASSUME NEW r \in Rows, PurgeRow(r) PROVE TypeOK'
  BY <1>4 DEF PurgeRow, TypeOK, Row
<1>5. ASSUME NEW enabled \in BOOLEAN, SetEnabled(enabled) PROVE TypeOK'
  BY <1>5 DEF SetEnabled, TypeOK
<1>6. ASSUME NEW interval \in Intervals, Retune(interval) PROVE TypeOK'
  BY <1>6 DEF Retune, TypeOK
<1>7. CASE DeleteDestination
  BY <1>7 DEF DeleteDestination, TypeOK, Epoch, Key
<1>8. ASSUME NEW d \in Drains, NEW pc \in {"claim", "claim_now"}, Poll(d, pc) PROVE TypeOK'
  <2>1. claim' \in Drains \cup {NoDrain}
    BY <1>8 DEF Poll, ReleaseStaleClaims, TypeOK
  <2>2. runs' \in [Drains -> [status : {"none", "running", "succeeded", "failed"},
                              age : 0 .. StaleAge]]
    BY <1>8 DEF Poll, ReleaseStaleClaims, TypeOK
  <2>3. drains' \in [Drains -> Drain]
    <3>1. [drains[d] EXCEPT !.pc = pc] \in Drain
      BY DrainType DEF Drain
    <3> QED
      BY <1>8, <3>1, DrainsType DEF Poll
  <2> QED
    BY <1>8, <2>1, <2>2, <2>3 DEF Poll, TypeOK
<1>9. ASSUME NEW d \in Drains, ClaimDue(d) \/ ClaimNow(d) PROVE TypeOK'
  <2>1. CASE StartRun(d)
    <3>1. [IdleDrain EXCEPT !.pc = "fetch", !.interval = config.interval] \in Drain
      BY IdleDrainType DEF Drain, TypeOK
    <3>2. drains' \in [Drains -> Drain]
      BY <2>1, <3>1, DrainsType DEF StartRun
    <3>3. runs' \in [Drains -> [status : {"none", "running", "succeeded", "failed"},
                                age : 0 .. StaleAge]]
      BY <2>1 DEF StartRun, TypeOK
    <3> QED
      BY <1>9, <2>1, <3>2, <3>3 DEF ClaimDue, ClaimNow, StartRun, TypeOK
  <2>2. CASE NoClaim(d)
    <3>1. drains' \in [Drains -> Drain]
      BY <2>2, IdleDrainType, DrainsType DEF NoClaim
    <3> QED
      BY <1>9, <2>2, <3>1 DEF ClaimDue, ClaimNow, NoClaim, TypeOK
  <2> QED
    BY <1>9, <2>1, <2>2 DEF ClaimDue, ClaimNow
<1>10. ASSUME NEW d \in Drains, Fetch(d) PROVE TypeOK'
  <2> DEFINE s == drains[d].stream
             page == Page(Due(s), Limit(d))
  <2>1. CASE Remaining(d) <= 0
    <3>1. [drains[d] EXCEPT !.pc = "finish", !.ok = TRUE] \in Drain
      BY DrainType DEF Drain
    <3>2. drains' \in [Drains -> Drain]
      BY <1>10, <2>1, <3>1, DrainsType DEF Fetch
    <3> QED
      BY <1>10, <2>1, <3>2 DEF Fetch, TypeOK
  <2>2. CASE ~(Remaining(d) <= 0) /\ page = {}
    <3>1. EndStream(drains[d]) \in Drain
      BY DrainType, EndStreamType
    <3>2. /\ drains' = [drains EXCEPT ![d] = EndStream(drains[d])]
          /\ UNCHANGED <<sourceVars, cursor, copy, claimVars, fetched>>
      BY <1>10, <2>2 DEF Fetch
    <3> QED
      BY <3>1, <3>2 DEF TypeOK
  <2>3. CASE ~(Remaining(d) <= 0) /\ page # {}
    <3>1. PICK r \in page :
            /\ drains' = [drains EXCEPT ![d] =
                    [@ EXCEPT !.pc = "deliver", !.last = KeyOf(r), !.batch = Versions(page)]]
            /\ fetched' = IF KeyLeq(fetched[s], KeyOf(r))
                          THEN [fetched EXCEPT ![s] = KeyOf(r)] ELSE fetched
      BY <1>10, <2>3, Zenon DEF Fetch
    <3>2. r \in Rows
      BY DrainType, DueType DEF Page
    <3>3. KeyOf(r) \in Key /\ Versions(page) \in [Rows -> Nat]
      BY <3>2, KeyType DEF Versions
    <3>4. [drains[d] EXCEPT !.pc = "deliver", !.last = KeyOf(r), !.batch = Versions(page)]
            \in Drain
      BY <3>3, DrainType DEF Drain
    <3>7. drains' \in [Drains -> Drain]
      BY <3>1, <3>4, DrainsType
    <3>5. fetched' \in [Streams -> Key]
      BY <3>1, <3>3 DEF TypeOK
    <3>6. UNCHANGED <<sourceVars, cursor, copy, claimVars>>
      BY <1>10 DEF Fetch
    <3> QED
      BY <3>5, <3>6, <3>7 DEF TypeOK
  <2> QED
    BY <2>1, <2>2, <2>3
<1>11. ASSUME NEW d \in Drains, Deliver(d) PROVE TypeOK'
  <2>1. copy' \in [Rows -> Nat]
    BY <1>11, DrainType, UpsertedType DEF Deliver
  <2> QED
    <3>1. [drains[d] EXCEPT !.pc = "advance"] \in Drain
      BY DrainType DEF Drain
    <3>2. drains' \in [Drains -> Drain]
      BY <1>11, <3>1, DrainsType DEF Deliver
    <3> QED
      BY <1>11, <2>1, <3>2 DEF Deliver, TypeOK
<1>12. ASSUME NEW d \in Drains, ExportFails(d) PROVE TypeOK'
  BY <1>12, CutOffType, FailRunType DEF ExportFails, TypeOK
<1>13. ASSUME NEW d \in Drains, Advance(d) PROVE TypeOK'
  <2> DEFINE size == Cardinality(BatchRows(drains[d].batch))
             counted == [drains[d] EXCEPT !.pc = "fetch", !.total = @ + size,
                                          !.batch = NoBatch]
  <2>1. CASE ~config.exists
    BY <1>13, <2>1, FailRunType DEF Advance, TypeOK
  <2>2. CASE config.exists
    <3>1. size \in Nat
      BY RowsFinite, FS_Subset, FS_CardinalityType DEF BatchRows
    <3>2. counted \in Drain
      <4> HIDE DEF size
      <4>1. drains[d].total + size \in Nat
        BY <3>1, DrainType
      <4> QED
        BY <4>1, DrainType DEF Drain, NoBatch
    <3>3. EndStream(counted) \in Drain
      BY <3>2, EndStreamType
    <3>4. drains' = [drains EXCEPT ![d] =
                        IF size < BatchSize THEN EndStream(counted) ELSE counted]
      BY <1>13, <2>2, Zenon DEF Advance
    <3>5. drains' \in [Drains -> Drain]
      <4> HIDE DEF counted
      <4> QED
        BY <3>2, <3>3, <3>4 DEF TypeOK
    <3>6. cursor' \in [Streams -> Key]
      BY <1>13, <2>2, AdvancedType DEF Advance
    <3> QED
      BY <1>13, <3>5, <3>6 DEF Advance, TypeOK
  <2> QED
    BY <2>1, <2>2
<1>14. ASSUME NEW d \in Drains, TimeOut(d) PROVE TypeOK'
  BY <1>14, CutOffType, FailRunType DEF TimeOut, TypeOK
<1>15. ASSUME NEW d \in Drains, FinishRun(d) PROVE TypeOK'
  <2>1. runs' \in [Drains -> [status : {"none", "running", "succeeded", "failed"},
                              age : 0 .. StaleAge]]
    BY <1>15 DEF FinishRun, TypeOK
  <2>2. claim' \in Drains \cup {NoDrain} /\ dueIn' \in Nat
    BY <1>15, DrainType DEF FinishRun, TypeOK
  <2> QED
    BY <1>15, <2>1, <2>2, IdleDrainType DEF FinishRun, TypeOK
<1>16. ASSUME NEW d \in Drains, Die(d) PROVE TypeOK'
  BY <1>16, CutOffType, IdleDrainType DEF Die, TypeOK
<1>17. CASE Tick
  <2>1. runs' \in [Drains -> [status : {"none", "running", "succeeded", "failed"},
                              age : 0 .. StaleAge]]
    BY <1>17 DEF Tick, TypeOK
  <2> QED
    BY <1>17, <2>1 DEF Tick, TypeOK
<1>18. CASE UNCHANGED vars
  BY <1>18 DEF vars, TypeOK
<1> QED
  BY <1>1, <1>2, <1>3, <1>4, <1>5, <1>6, <1>7, <1>8, <1>9, <1>10, <1>11, <1>12,
     <1>13, <1>14, <1>15, <1>16, <1>17, <1>18
  DEF Next, DrainStep

LEMMA TypeInit == Init => TypeOK
<1> SUFFICES ASSUME Init PROVE TypeOK
  OBVIOUS
<1>1. source \in [Rows -> Row] /\ copy \in [Rows -> Nat]
  BY DEF Init, Row, NoRow
<1>2. cursor \in [Streams -> Key] /\ fetched \in [Streams -> Key]
  BY DEF Init, Key, Epoch
<1>3. stamps \in 0 .. MaxStamp /\ writing \subseteq 1 .. stamps
  BY DEF Init
<1>4. /\ config \in [exists : BOOLEAN, enabled : BOOLEAN, interval : Intervals]
      /\ dueIn \in Nat /\ claim \in Drains \cup {NoDrain}
  BY DEF Init
<1>5. runs \in [Drains -> [status : {"none", "running", "succeeded", "failed"},
                          age : 0 .. StaleAge]]
  BY DEF Init
<1>6. drains \in [Drains -> Drain]
  BY IdleDrainType DEF Init
<1> QED
  BY <1>1, <1>2, <1>3, <1>4, <1>5, <1>6 DEF TypeOK

(* Every reachable state is well typed (the columns and CHECKs of migration  *)
(* 0041, and the locals of export_destination).                              *)
THEOREM TypeCorrect == Spec => []TypeOK
<1> QED
  BY TypeInit, TypeInvariant, PTL DEF Spec

-----------------------------------------------------------------------------
(* The claim.  ExporterHoldsClaim is not inductive: that the sweep never      *)
(* takes the claim of a drain that exports rests on the age of its run.      *)

ExporterIsYoung == \A d \in Drains : Exporting(d) => runs[d].age <= RunTimeout

SoleExporter == \A d, e \in Drains : Exporting(d) /\ Exporting(e) => d = e

LeaseInv ==
    ExporterHoldsClaim /\ RunningWhileClaimed /\ ExporterIsYoung /\ SoleExporter

(* A step that leaves the claim, the runs and the destination's existence      *)
(* alone, and starts no export.                                              *)
LEMMA LeaseKept ==
  ASSUME LeaseInv, UNCHANGED <<claim, runs>>, config'.exists => config.exists,
         \A d \in Drains : Exporting(d)' => Exporting(d)
  PROVE  LeaseInv'
BY DEF LeaseInv, ExporterHoldsClaim, RunningWhileClaimed, ExporterIsYoung, SoleExporter

(* A drain that ends its export, or goes on with it, and the others stay.     *)
LEMMA OneDrainExports ==
  ASSUME TypeOK, NEW d \in Drains, Exporting(d), NEW drain,
         drains' = [drains EXCEPT ![d] = drain]
  PROVE  \A e \in Drains : Exporting(e)' => Exporting(e)
BY DEF Exporting, TypeOK

LEMMA OneDrainStops ==
  ASSUME TypeOK, NEW d \in Drains, NEW drain,
         drain.pc \notin {"fetch", "deliver", "advance"},
         drains' = [drains EXCEPT ![d] = drain]
  PROVE  /\ \A e \in Drains : Exporting(e)' => Exporting(e)
         /\ \A e \in Drains :
                drains'[e].pc \in {"deliver", "advance"} => drains'[e] = drains[e]
BY DEF Exporting, TypeOK

LEMMA FailedDrain ==
  ASSUME TypeOK, NEW d \in Drains, FailRun(d)
  PROVE  /\ \A e \in Drains : Exporting(e)' => Exporting(e)
         /\ \A e \in Drains :
                drains'[e].pc \in {"deliver", "advance"} => drains'[e] = drains[e]
<1> DEFINE drain == [drains[d] EXCEPT !.pc = "finish", !.batch = NoBatch, !.ok = FALSE]
<1>1. drain.pc = "finish"
  BY DrainType DEF Drain
<1>2. drains' = [drains EXCEPT ![d] = drain]
  BY DEF FailRun
<1> HIDE DEF drain
<1> QED
  BY <1>1, <1>2, OneDrainStops

LEMMA IdleAgain ==
  ASSUME TypeOK, NEW d \in Drains, drains' = [drains EXCEPT ![d] = IdleDrain]
  PROVE  /\ \A e \in Drains : Exporting(e)' => Exporting(e)
         /\ \A e \in Drains :
                drains'[e].pc \in {"deliver", "advance"} => drains'[e] = drains[e]
<1>1. IdleDrain.pc = "idle"
  BY DEF IdleDrain
<1> QED
  BY <1>1, OneDrainStops

LEMMA SweepKeepsLease ==
  ASSUME TypeOK, LeaseInv, NEW d \in Drains, NEW pc \in {"claim", "claim_now"}, Poll(d, pc)
  PROVE  LeaseInv'
<1>1. \A e \in Drains : Exporting(e)' => Exporting(e)
  <2>1. [drains[d] EXCEPT !.pc = pc].pc = pc
    BY DrainType DEF Drain
  <2>2. drains' = [drains EXCEPT ![d] = [drains[d] EXCEPT !.pc = pc]]
    BY DEF Poll
  <2> QED
    BY <2>1, <2>2, OneDrainStops
<1>2. \A e \in Drains : Exporting(e) => ~Stale(e)
  BY TimesAssumption DEF LeaseInv, ExporterIsYoung, Stale, TypeOK
<1>3. /\ claim' = IF claim \in Drains /\ Stale(claim) THEN NoDrain ELSE claim
      /\ runs' = [e \in Drains |->
            IF runs[e].status = "running" /\ Stale(e)
            THEN [runs[e] EXCEPT !.status = "failed"] ELSE runs[e]]
      /\ config' = config
  BY DEF Poll, ReleaseStaleClaims
<1>4. ExporterHoldsClaim' /\ SoleExporter'
  BY <1>1, <1>2, <1>3 DEF LeaseInv, ExporterHoldsClaim, SoleExporter
<1>5. \A e \in Drains : /\ runs'[e].age = runs[e].age
                        /\ runs'[e].status = IF runs[e].status = "running" /\ Stale(e)
                                             THEN "failed" ELSE runs[e].status
  BY <1>3 DEF TypeOK
<1>6. RunningWhileClaimed'
  BY <1>3, <1>5 DEF LeaseInv, RunningWhileClaimed
<1>7. ExporterIsYoung'
  BY <1>1, <1>5 DEF LeaseInv, ExporterIsYoung
<1> QED
  BY <1>4, <1>6, <1>7 DEF LeaseInv

LEMMA ClaimKeepsLease ==
  ASSUME TypeOK, LeaseInv, NEW d \in Drains, ClaimDue(d) \/ ClaimNow(d)
  PROVE  LeaseInv'
<1>1. CASE NoClaim(d)
  BY <1>1, IdleAgain, LeaseKept DEF NoClaim, ClaimDue, ClaimNow
<1>2. CASE config.exists /\ claim = NoDrain /\ StartRun(d)
  <2>1. /\ claim' = d
        /\ runs' = [runs EXCEPT ![d] = [status |-> "running", age |-> 0]]
        /\ \A e \in Drains \ {d} : drains'[e] = drains[e]
    BY <1>2 DEF StartRun, TypeOK
  <2>2. \A e \in Drains : ~Exporting(e) /\ runs[e].status # "running"
    BY <1>2 DEF LeaseInv, ExporterHoldsClaim, RunningWhileClaimed
  <2>3. \A e \in Drains \ {d} : ~Exporting(e)'
    BY <2>1, <2>2 DEF Exporting
  <2>4. ExporterHoldsClaim' /\ SoleExporter'
    BY <2>1, <2>3 DEF ExporterHoldsClaim, SoleExporter
  <2>5. RunningWhileClaimed'
    BY <2>1, <2>2 DEF RunningWhileClaimed, TypeOK
  <2>6. ExporterIsYoung'
    BY <2>1, <2>3 DEF ExporterIsYoung, TypeOK
  <2> QED
    BY <2>4, <2>5, <2>6 DEF LeaseInv
<1> QED
  BY <1>1, <1>2 DEF ClaimDue, ClaimNow

LEMMA LeaseInvariant == TypeOK /\ LeaseInv /\ [Next]_vars => LeaseInv'
<1> SUFFICES ASSUME TypeOK, LeaseInv, [Next]_vars PROVE LeaseInv'
  OBVIOUS
<1> USE DEF sourceVars, exportVars, claimVars
<1>1. CASE UNCHANGED <<claim, runs, config, drains>>
  BY <1>1, LeaseKept DEF Exporting
<1>2. ASSUME NEW enabled \in BOOLEAN, SetEnabled(enabled) PROVE LeaseInv'
  BY <1>2, LeaseKept DEF SetEnabled, Exporting, TypeOK
<1>3. ASSUME NEW interval \in Intervals, Retune(interval) PROVE LeaseInv'
  BY <1>3, LeaseKept DEF Retune, Exporting, TypeOK
<1>4. CASE DeleteDestination
  <2>1. /\ ~config'.exists /\ claim' = NoDrain /\ drains' = drains
        /\ \A d \in Drains : runs'[d].status = "none" /\ runs'[d].age = runs[d].age
    BY <1>4 DEF DeleteDestination, TypeOK
  <2> QED
    BY <2>1 DEF LeaseInv, ExporterHoldsClaim, RunningWhileClaimed, ExporterIsYoung,
                SoleExporter, Exporting
<1>5. ASSUME NEW d \in Drains, NEW pc \in {"claim", "claim_now"}, Poll(d, pc) PROVE LeaseInv'
  BY <1>5, SweepKeepsLease
<1>6. ASSUME NEW d \in Drains, ClaimDue(d) \/ ClaimNow(d) PROVE LeaseInv'
  BY <1>6, ClaimKeepsLease
<1>7. ASSUME NEW d \in Drains, Fetch(d) \/ Deliver(d) \/ ExportFails(d) PROVE LeaseInv'
  <2>1. /\ Exporting(d) /\ UNCHANGED <<claim, runs, config>>
    BY <1>7 DEF Fetch, Deliver, ExportFails, Exporting
  <2>2. \E drain : drains' = [drains EXCEPT ![d] = drain]
    BY <1>7 DEF Fetch, Deliver, ExportFails, FailRun
  <2> QED
    BY <2>1, <2>2, OneDrainExports, LeaseKept
<1>8. ASSUME NEW d \in Drains, Advance(d) \/ TimeOut(d) PROVE LeaseInv'
  <2>1. /\ Exporting(d) /\ UNCHANGED <<claim, runs, config>>
    BY <1>8 DEF Advance, TimeOut, Exporting
  <2>2. \E drain : drains' = [drains EXCEPT ![d] = drain]
    BY <1>8 DEF Advance, TimeOut, FailRun
  <2> QED
    BY <2>1, <2>2, OneDrainExports, LeaseKept
<1>9. ASSUME NEW d \in Drains, FinishRun(d) PROVE LeaseInv'
  <2>1. \A e \in Drains : Exporting(e)' => Exporting(e) /\ e # d
    BY <1>9, IdleAgain DEF FinishRun, Exporting
  <2>2. /\ claim' = IF claim = d THEN NoDrain ELSE claim
        /\ config' = config
        /\ \A e \in Drains \ {d} : runs'[e] = runs[e]
        /\ runs'[d].status # "running"
    BY <1>9 DEF FinishRun, Owns, TypeOK
  <2> QED
    BY <2>1, <2>2 DEF LeaseInv, ExporterHoldsClaim, RunningWhileClaimed, ExporterIsYoung,
                      SoleExporter
<1>10. ASSUME NEW d \in Drains, Die(d) PROVE LeaseInv'
  BY <1>10, IdleAgain, LeaseKept DEF Die
<1>11. CASE Tick
  <2>1. /\ UNCHANGED <<claim, config, drains>>
        /\ \A d \in Drains : Exporting(d) => runs[d].age < RunTimeout
        /\ \A d \in Drains : /\ runs'[d].status = runs[d].status
                             /\ runs'[d].age \in {runs[d].age, runs[d].age + 1}
    BY <1>11 DEF Tick, RunsOnTime, TypeOK
  <2>2. ExporterIsYoung'
    BY <2>1 DEF ExporterIsYoung, Exporting, TypeOK
  <2> QED
    BY <2>1, <2>2 DEF LeaseInv, ExporterHoldsClaim, RunningWhileClaimed, SoleExporter,
                      Exporting
<1> QED
  BY <1>1, <1>2, <1>3, <1>4, <1>5, <1>6, <1>7, <1>8, <1>9, <1>10, <1>11
  DEF Next, DrainStep, WriteAtOnce, CommitWrite, BeginWrite, PurgeRow, vars

LEMMA LeaseHolds == Spec => [](TypeOK /\ LeaseInv)
<1>1. Init => TypeOK /\ LeaseInv
  BY TypeInit DEF Init, LeaseInv, ExporterHoldsClaim, RunningWhileClaimed, ExporterIsYoung,
     SoleExporter, Exporting, IdleDrain
<1> QED
  BY <1>1, TypeInvariant, LeaseInvariant, PTL DEF Spec

(* A drain that exports holds the claim, so that no two export at once       *)
(* (release_stale_claims, claim_data_destination_now,                         *)
(* drain_data_destination), for every pair of time-outs with                 *)
(* RunTimeout < StaleAge.                                                    *)
THEOREM ExporterHolds == Spec => []ExporterHoldsClaim
<1>1. LeaseInv => ExporterHoldsClaim
  BY DEF LeaseInv
<1> QED
  BY <1>1, LeaseHolds, PTL

(* A run is shown as running exactly while the claim is held for it           *)
(* (release_stale_claims, finish_data_destination_run).                      *)
THEOREM RunningIsClaimed == Spec => []RunningWhileClaimed
<1>1. LeaseInv => RunningWhileClaimed
  BY DEF LeaseInv
<1> QED
  BY <1>1, LeaseHolds, PTL

(* One run at a time exports, and it is the one that is shown.               *)
THEOREM ClaimExclusive == Spec => []ClaimIsExclusive
BY ExporterHolds, RunningIsClaimed, PTL DEF ClaimIsExclusive

-----------------------------------------------------------------------------
(* The delivery.  A batch in hand is at least as new as the copy and holds    *)
(* every row between the cursor and its last key that is not overtaken.      *)

InHand(d) == drains[d].pc \in {"deliver", "advance"}

RowsCounted == \A r \in Rows : (source[r].at # 0 => source[r].ver > 0) /\ copy[r] <= source[r].ver

CursorWasFetched == \A s \in Streams : KeyLeq(cursor[s], fetched[s])

LastWasFetched == \A d \in Drains : InHand(d) => KeyLeq(drains[d].last, fetched[drains[d].stream])

BatchBetween ==
    \A d \in Drains : InHand(d) =>
        \A r \in Rows : drains[d].batch[r] # 0 =>
            /\ copy[r] <= drains[d].batch[r] /\ drains[d].batch[r] <= source[r].ver
            /\ drains[d].pc = "advance" => copy[r] = drains[d].batch[r]

BatchComplete ==
    \A d \in Drains : InHand(d) /\ config.exists =>
        \A r \in Rows :
            /\ StreamOf(r) = drains[d].stream
            /\ source[r].at # 0 /\ ~source[r].overtaken
            /\ KeyLeq(KeyOf(r), drains[d].last)
            => KeyLeq(KeyOf(r), cursor[StreamOf(r)]) \/ drains[d].batch[r] = source[r].ver

DeliveryInv ==
    /\ RowsCounted /\ CursorWasFetched /\ LastWasFetched
    /\ BatchBetween /\ BatchComplete /\ SkippedOnlyIfOvertaken

(* What a batch in hand does to the copy.                                    *)
LEMMA UpsertEffect ==
  ASSUME TypeOK, BatchBetween, NEW d \in Drains, InHand(d), NEW r \in Rows
  PROVE  LET new == Upserted(drains[d].batch)[r]
         IN  /\ new = IF drains[d].batch[r] # 0 THEN drains[d].batch[r] ELSE copy[r]
             /\ copy[r] <= new
             /\ copy[r] <= source[r].ver => new <= source[r].ver
<1>1. drains[d].batch \in [Rows -> Nat]
  BY DrainType
<1>2. copy[r] \in Nat
  BY DEF TypeOK
<1> QED
  BY <1>1, <1>2 DEF Upserted, BatchRows, BatchBetween

(* A step that touches neither the rows nor the cursors, and whose drains     *)
(* hold no new batch.                                                        *)
LEMMA DeliveryKept ==
  ASSUME TypeOK, DeliveryInv,
         UNCHANGED <<source, cursor, fetched, copy>>, config'.exists => config.exists,
         \A d \in Drains :
            drains'[d].pc \in {"deliver", "advance"} => drains'[d] = drains[d]
  PROVE  DeliveryInv'
<1>1. \A d \in Drains : InHand(d)' => InHand(d) /\ drains'[d] = drains[d]
  BY DEF InHand
<1>2. \A r \in Rows : KeyOf(r)' = KeyOf(r)
  BY DEF KeyOf
<1>3. RowsCounted' /\ CursorWasFetched' /\ SkippedOnlyIfOvertaken'
  BY <1>2 DEF DeliveryInv, RowsCounted, CursorWasFetched, SkippedOnlyIfOvertaken
<1>4. LastWasFetched' /\ BatchBetween'
  BY <1>1 DEF DeliveryInv, LastWasFetched, BatchBetween
<1>5. BatchComplete'
  BY <1>1, <1>2 DEF DeliveryInv, BatchComplete
<1> QED
  BY <1>3, <1>4, <1>5 DEF DeliveryInv

(* The cursor moves past a batch that was delivered.                         *)
LEMMA CursorMoves ==
  ASSUME TypeOK, DeliveryInv, NEW d \in Drains, drains[d].pc = "advance", config.exists,
         cursor' = Advanced(d), UNCHANGED <<source, fetched, copy>>,
         \A e \in Drains : ~InHand(e)'
  PROVE  DeliveryInv'
<1> DEFINE s == drains[d].stream
<1>1. InHand(d) /\ s \in Streams
  BY DrainType DEF InHand
<1>2. LastWasFetched' /\ BatchBetween' /\ BatchComplete'
  BY DEF LastWasFetched, BatchBetween, BatchComplete
<1>3. RowsCounted' /\ CursorWasFetched'
  BY <1>1 DEF Advanced, DeliveryInv, RowsCounted, CursorWasFetched, LastWasFetched, TypeOK
<1>4. SkippedOnlyIfOvertaken'
  <2> SUFFICES ASSUME NEW r \in Rows, source[r].at # 0, ~source[r].overtaken,
                      KeyLeq(KeyOf(r), cursor'[StreamOf(r)])
               PROVE  copy[r] = source[r].ver
    BY DEF SkippedOnlyIfOvertaken, KeyOf
  <2>1. CASE StreamOf(r) # s \/ KeyLeq(KeyOf(r), cursor[StreamOf(r)])
    <3>1. KeyLeq(KeyOf(r), cursor[StreamOf(r)])
      BY <2>1, StreamOfType DEF Advanced, TypeOK
    <3> QED
      BY <3>1 DEF DeliveryInv, SkippedOnlyIfOvertaken
  <2>2. CASE StreamOf(r) = s /\ ~KeyLeq(KeyOf(r), cursor[StreamOf(r)])
    <3>1. KeyLeq(KeyOf(r), drains[d].last)
      BY <1>1, <2>2 DEF Advanced, TypeOK
    <3>2. drains[d].batch[r] = source[r].ver
      BY <1>1, <2>2, <3>1 DEF DeliveryInv, BatchComplete
    <3>3. source[r].ver # 0
      BY KeyType DEF DeliveryInv, RowsCounted
    <3> QED
      BY <1>1, <3>2, <3>3 DEF DeliveryInv, BatchBetween
  <2> QED
    BY <2>1, <2>2
<1> QED
  BY <1>2, <1>3, <1>4 DEF DeliveryInv

(* A batch is given up: it was taken or not, the cursor was moved or not.     *)
LEMMA GivenUp ==
  ASSUME TypeOK, SoleExporter, DeliveryInv, NEW d \in Drains, Exporting(d), CutOff(d),
         UNCHANGED <<source, fetched, config>>, ~InHand(d)',
         \A e \in Drains :
            drains'[e].pc \in {"deliver", "advance"} => drains'[e] = drains[e]
  PROVE  DeliveryInv'
<1>1. \A e \in Drains : ~InHand(e)'
  BY DEF InHand, SoleExporter, Exporting
<1>2. CASE UNCHANGED <<cursor, copy>>
  BY <1>2, DeliveryKept
<1>3. CASE drains[d].pc = "deliver" /\ copy' = Upserted(drains[d].batch) /\ UNCHANGED cursor
  <2>1. InHand(d)
    BY <1>3 DEF InHand
  <2>2. \A r \in Rows :
            /\ copy'[r] = IF drains[d].batch[r] # 0 THEN drains[d].batch[r] ELSE copy[r]
            /\ copy[r] <= copy'[r]
            /\ copy'[r] <= source[r].ver
    BY <1>3, <2>1, UpsertEffect DEF DeliveryInv, RowsCounted
  <2>3. \A r \in Rows : copy'[r] \in Nat /\ source[r].ver \in Nat
    BY <1>3, UpsertedType, DrainType, KeyType
  <2>4. \A r \in Rows : KeyOf(r)' = KeyOf(r)
    BY DEF KeyOf
  <2>5. RowsCounted' /\ CursorWasFetched'
    BY <1>3, <2>2 DEF DeliveryInv, RowsCounted, CursorWasFetched
  <2>6. SkippedOnlyIfOvertaken'
    BY <1>3, <2>2, <2>3, <2>4 DEF DeliveryInv, SkippedOnlyIfOvertaken
  <2>7. LastWasFetched' /\ BatchBetween' /\ BatchComplete'
    BY <1>1 DEF LastWasFetched, BatchBetween, BatchComplete
  <2> QED
    BY <2>5, <2>6, <2>7 DEF DeliveryInv
<1>4. CASE /\ drains[d].pc = "advance" /\ config.exists
           /\ cursor' = Advanced(d) /\ UNCHANGED copy
  BY <1>1, <1>4, CursorMoves
<1> QED
  BY <1>2, <1>3, <1>4 DEF CutOff

LEMMA WriteKeepsDelivery ==
  ASSUME TypeOK, DeliveryInv, NEW rows \in SUBSET Rows, NEW t \in Nat,
         source' = Written(t, rows), UNCHANGED <<cursor, fetched, copy, config, drains>>
  PROVE  DeliveryInv'
<1>1. \A r \in Rows \ rows : source'[r] = source[r]
  BY DEF Written
<1>2. \A r \in rows : /\ source'[r].at = t
                      /\ source'[r].ver = source[r].ver + 1
                      /\ source'[r].overtaken =
                            KeyLeq([at |-> t, row |-> r], fetched[StreamOf(r)])
  BY DEF Written
<1>3. \A r \in rows : KeyOf(r)' = [at |-> t, row |-> r] /\ KeyOf(r)' \in Key
  BY <1>2 DEF KeyOf, Key, Rows
<1>4. \A r \in Rows \ rows : KeyOf(r)' = KeyOf(r)
  BY <1>1 DEF KeyOf
<1>5. \A r \in Rows : copy[r] \in Nat /\ source[r].ver \in Nat
  BY KeyType DEF TypeOK
<1>6. RowsCounted'
  <2> SUFFICES ASSUME NEW r \in Rows
               PROVE  /\ source'[r].at # 0 => source'[r].ver > 0
                      /\ copy[r] <= source'[r].ver
    BY DEF RowsCounted
  <2>1. CASE r \in rows
    <3>1. source'[r].ver = source[r].ver + 1
      BY <2>1, <1>2
    <3>2. copy[r] <= source[r].ver /\ copy[r] \in Nat /\ source[r].ver \in Nat
      BY <1>5 DEF DeliveryInv, RowsCounted
    <3> QED
      BY <3>1, <3>2
  <2>2. CASE r \notin rows
    BY <2>2, <1>1 DEF DeliveryInv, RowsCounted
  <2> QED
    BY <2>1, <2>2
<1>7. \A s \in Streams : cursor[s] \in Key /\ fetched[s] \in Key
  BY DEF TypeOK
<1>8. CursorWasFetched' /\ LastWasFetched'
  BY DEF DeliveryInv, CursorWasFetched, LastWasFetched, InHand
<1>9. BatchBetween'
  <2> SUFFICES ASSUME NEW d \in Drains, InHand(d), NEW r \in Rows, drains[d].batch[r] # 0
               PROVE  /\ copy[r] <= drains[d].batch[r]
                      /\ drains[d].batch[r] <= source'[r].ver
                      /\ drains[d].pc = "advance" => copy[r] = drains[d].batch[r]
    BY DEF BatchBetween, InHand
  <2>1. drains[d].batch[r] \in Nat
    BY DrainType
  <2>2. source'[r].ver \in {source[r].ver, source[r].ver + 1}
    BY <1>1, <1>2
  <2> QED
    BY <2>1, <2>2, <1>5 DEF DeliveryInv, BatchBetween
<1>10. BatchComplete'
  <2> SUFFICES ASSUME NEW d \in Drains, InHand(d), config.exists, NEW r \in Rows,
                      StreamOf(r) = drains[d].stream,
                      source'[r].at # 0, ~source'[r].overtaken,
                      KeyLeq(KeyOf(r)', drains[d].last)
               PROVE  \/ KeyLeq(KeyOf(r)', cursor[StreamOf(r)])
                      \/ drains[d].batch[r] = source'[r].ver
    BY DEF BatchComplete, InHand
  <2>1. CASE r \in rows
    <3>1. KeyLeq(drains[d].last, fetched[StreamOf(r)])
      BY DEF DeliveryInv, LastWasFetched
    <3>2. KeyLeq(KeyOf(r)', fetched[StreamOf(r)])
      BY <2>1, <3>1, <1>3, <1>7, DrainType, StreamOfType, KeyOrder
    <3> QED
      BY <2>1, <3>2, <1>2, <1>3
  <2>2. CASE r \notin rows
    BY <2>2, <1>1, <1>4 DEF DeliveryInv, BatchComplete
  <2> QED
    BY <2>1, <2>2
<1>11. SkippedOnlyIfOvertaken'
  <2> SUFFICES ASSUME NEW r \in Rows, source'[r].at # 0, ~source'[r].overtaken,
                      KeyLeq(KeyOf(r)', cursor[StreamOf(r)])
               PROVE  copy[r] = source'[r].ver
    BY DEF SkippedOnlyIfOvertaken
  <2>1. CASE r \in rows
    <3>1. KeyLeq(cursor[StreamOf(r)], fetched[StreamOf(r)])
      BY StreamOfType DEF DeliveryInv, CursorWasFetched
    <3>2. KeyLeq(KeyOf(r)', fetched[StreamOf(r)])
      BY <2>1, <3>1, <1>3, <1>7, StreamOfType, KeyOrder
    <3> QED
      BY <2>1, <3>2, <1>2, <1>3
  <2>2. CASE r \notin rows
    BY <2>2, <1>1, <1>4 DEF DeliveryInv, SkippedOnlyIfOvertaken
  <2> QED
    BY <2>1, <2>2
<1> QED
  BY <1>6, <1>8, <1>9, <1>10, <1>11 DEF DeliveryInv

LEMMA PurgeKeepsDelivery ==
  ASSUME TypeOK, DeliveryInv, NEW r \in Rows, PurgeRow(r)
  PROVE  DeliveryInv'
<1> USE DEF exportVars, claimVars
<1>1. /\ UNCHANGED <<cursor, fetched, copy, config, drains>>
      /\ source'[r].at = 0 /\ source'[r].ver = source[r].ver
      /\ \A q \in Rows \ {r} : source'[q] = source[q] /\ KeyOf(q)' = KeyOf(q)
  BY DEF PurgeRow, TypeOK, KeyOf, Row
<1>2. RowsCounted' /\ CursorWasFetched' /\ LastWasFetched' /\ SkippedOnlyIfOvertaken'
  BY <1>1 DEF DeliveryInv, RowsCounted, CursorWasFetched, LastWasFetched, InHand,
              SkippedOnlyIfOvertaken
<1>3. BatchBetween' /\ BatchComplete'
  BY <1>1 DEF DeliveryInv, BatchBetween, BatchComplete, InHand
<1> QED
  BY <1>2, <1>3 DEF DeliveryInv

LEMMA FetchKeepsDelivery ==
  ASSUME TypeOK, SoleExporter, DeliveryInv, NEW d \in Drains, Fetch(d)
  PROVE  DeliveryInv'
<1> DEFINE s == drains[d].stream
           page == Page(Due(s), Limit(d))
<1> USE DEF sourceVars, claimVars
<1>1. CASE Remaining(d) <= 0
  <2> DEFINE drain == [drains[d] EXCEPT !.pc = "finish", !.ok = TRUE]
  <2>1. drain.pc = "finish"
    BY DrainType DEF Drain
  <2>2. /\ drains' = [drains EXCEPT ![d] = drain]
        /\ UNCHANGED <<source, cursor, fetched, copy, config>>
    BY <1>1 DEF Fetch
  <2> HIDE DEF drain
  <2> QED
    BY <2>1, <2>2, OneDrainStops, DeliveryKept
<1>2. CASE ~(Remaining(d) <= 0) /\ page = {}
  <2>1. /\ drains' = [drains EXCEPT ![d] = EndStream(drains[d])]
        /\ UNCHANGED <<source, cursor, fetched, copy, config>>
    BY <1>2 DEF Fetch
  <2>2. EndStream(drains[d]).pc \in {"fetch", "finish"}
    BY DrainType DEF EndStream, Drain
  <2>3. \A e \in Drains :
            drains'[e].pc \in {"deliver", "advance"} => drains'[e] = drains[e]
    BY <2>1, <2>2 DEF TypeOK
  <2> QED
    BY <2>1, <2>3, DeliveryKept
<1>3. CASE ~(Remaining(d) <= 0) /\ page # {}
  <2>1. PICK r \in page :
            /\ \A q \in page : KeyLeq(KeyOf(q), KeyOf(r))
            /\ drains' = [drains EXCEPT ![d] =
                    [@ EXCEPT !.pc = "deliver", !.last = KeyOf(r), !.batch = Versions(page)]]
            /\ fetched' = IF KeyLeq(fetched[s], KeyOf(r))
                          THEN [fetched EXCEPT ![s] = KeyOf(r)] ELSE fetched
    BY <1>3, Zenon DEF Fetch
  <2>2. UNCHANGED <<source, cursor, copy, config>>
    BY DEF Fetch
  <2>3. /\ r \in Rows /\ s \in Streams /\ page \subseteq Rows /\ page \subseteq Due(s)
        /\ KeyOf(r) \in Key
    BY DrainType, DueType, KeyType DEF Page
  <2>4. /\ drains'[d].pc = "deliver" /\ drains'[d].stream = s
        /\ drains'[d].last = KeyOf(r) /\ drains'[d].batch = Versions(page)
    <3> DEFINE drain == [drains[d] EXCEPT !.pc = "deliver", !.last = KeyOf(r),
                                          !.batch = Versions(page)]
    <3>1. drain.pc = "deliver" /\ drain.stream = s /\ drain.last = KeyOf(r)
      BY DrainType DEF Drain
    <3>2. drain.batch = Versions(page)
      BY DrainType DEF Drain
    <3>3. drains'[d] = drain
      BY <2>1 DEF TypeOK
    <3> HIDE DEF drain
    <3> QED
      BY <3>1, <3>2, <3>3
  <2>5. \A e \in Drains : InHand(e)' => e = d
    <3>1. \A e \in Drains \ {d} : drains'[e] = drains[e]
      BY <2>1 DEF TypeOK
    <3>2. Exporting(d)
      BY DEF Fetch, Exporting
    <3> QED
      BY <3>1, <3>2 DEF SoleExporter, Exporting, InHand
  <2>6. \A q \in Rows : KeyOf(q)' = KeyOf(q)
    BY <2>2 DEF KeyOf
  <2>7. /\ fetched'[s] \in Key /\ KeyLeq(KeyOf(r), fetched'[s])
        /\ \A x \in Streams : KeyLeq(fetched[x], fetched'[x])
    <3>1. \A x \in Streams : fetched[x] \in Key
      BY DEF TypeOK
    <3> QED
      BY <2>1, <2>3, <3>1, KeyOrder DEF TypeOK
  <2>8. RowsCounted' /\ SkippedOnlyIfOvertaken'
    BY <2>2, <2>6 DEF DeliveryInv, RowsCounted, SkippedOnlyIfOvertaken
  <2>9. CursorWasFetched'
    <3>1. \A x \in Streams : cursor[x] \in Key /\ fetched[x] \in Key /\ fetched'[x] \in Key
      BY <2>1, <2>3 DEF TypeOK
    <3> QED
      BY <2>2, <2>7, <3>1, KeyOrder DEF DeliveryInv, CursorWasFetched
  <2>10. LastWasFetched'
    BY <2>4, <2>5, <2>7 DEF LastWasFetched
  <2>11. BatchBetween'
    <3> SUFFICES ASSUME NEW q \in Rows, Versions(page)[q] # 0
                 PROVE  /\ copy[q] <= Versions(page)[q] /\ Versions(page)[q] <= source[q].ver
      BY <2>2, <2>4, <2>5 DEF BatchBetween
    <3>1. Versions(page)[q] = source[q].ver
      BY DEF Versions
    <3> QED
      BY <3>1, KeyType DEF DeliveryInv, RowsCounted
  <2>12. BatchComplete'
    <3> SUFFICES ASSUME NEW q \in Rows, StreamOf(q) = s,
                        source[q].at # 0, KeyLeq(KeyOf(q), KeyOf(r)),
                        ~KeyLeq(KeyOf(q), cursor[s])
                 PROVE  Versions(page)[q] = source[q].ver
      BY <2>2, <2>4, <2>5, <2>6 DEF BatchComplete
    <3>1. q \in Due(s)
      BY <2>3, StreamPartition DEF Due
    <3>2. Limit(d) \in Int
      BY DrainType DEF Limit, Remaining
    <3>3. q \in page
      BY <2>3, <3>1, <3>2, DueType, PageDownwardClosed
    <3> QED
      BY <3>3 DEF Versions
  <2> QED
    BY <2>8, <2>9, <2>10, <2>11, <2>12 DEF DeliveryInv
<1> QED
  BY <1>1, <1>2, <1>3

LEMMA DeliverKeepsDelivery ==
  ASSUME TypeOK, SoleExporter, DeliveryInv, NEW d \in Drains, Deliver(d)
  PROVE  DeliveryInv'
<1> USE DEF sourceVars, claimVars
<1>1. /\ drains[d].pc = "deliver" /\ copy' = Upserted(drains[d].batch)
      /\ UNCHANGED <<source, cursor, fetched, config>>
  BY DEF Deliver
<1>2. InHand(d) /\ Exporting(d)
  BY <1>1 DEF InHand, Exporting
<1>3. /\ drains'[d].pc = "advance" /\ drains'[d].stream = drains[d].stream
      /\ drains'[d].last = drains[d].last /\ drains'[d].batch = drains[d].batch
  <2> DEFINE drain == [drains[d] EXCEPT !.pc = "advance"]
  <2>1. /\ drain.pc = "advance" /\ drain.stream = drains[d].stream
        /\ drain.last = drains[d].last /\ drain.batch = drains[d].batch
    BY DrainType DEF Drain
  <2>2. drains'[d] = drain
    BY DEF Deliver, TypeOK
  <2> HIDE DEF drain
  <2> QED
    BY <2>1, <2>2
<1>4. \A e \in Drains : InHand(e)' => e = d
  <2>1. \A e \in Drains \ {d} : drains'[e] = drains[e]
    BY DEF Deliver, TypeOK
  <2> QED
    BY <1>2, <2>1 DEF SoleExporter, Exporting, InHand
<1>5. \A r \in Rows :
          /\ copy'[r] = IF drains[d].batch[r] # 0 THEN drains[d].batch[r] ELSE copy[r]
          /\ copy[r] <= copy'[r]
          /\ copy'[r] <= source[r].ver
  BY <1>1, <1>2, UpsertEffect DEF DeliveryInv, RowsCounted
<1>6. \A r \in Rows :
          copy[r] \in Nat /\ copy'[r] \in Nat /\ source[r].ver \in Nat
          /\ drains[d].batch[r] \in Nat
  BY <1>1, UpsertedType, DrainType, KeyType DEF TypeOK
<1>7. \A r \in Rows : KeyOf(r)' = KeyOf(r)
  BY <1>1 DEF KeyOf
<1>8. RowsCounted' /\ CursorWasFetched'
  BY <1>1, <1>5 DEF DeliveryInv, RowsCounted, CursorWasFetched
<1>9. SkippedOnlyIfOvertaken'
  BY <1>1, <1>5, <1>6, <1>7 DEF DeliveryInv, SkippedOnlyIfOvertaken
<1>10. LastWasFetched'
  BY <1>1, <1>2, <1>3, <1>4 DEF DeliveryInv, LastWasFetched
<1>11. BatchBetween'
  BY <1>1, <1>2, <1>3, <1>4, <1>5, <1>6 DEF DeliveryInv, BatchBetween
<1>12. BatchComplete'
  BY <1>1, <1>2, <1>3, <1>4, <1>7 DEF DeliveryInv, BatchComplete
<1> QED
  BY <1>8, <1>9, <1>10, <1>11, <1>12 DEF DeliveryInv

LEMMA AdvanceKeepsDelivery ==
  ASSUME TypeOK, SoleExporter, DeliveryInv, NEW d \in Drains, Advance(d)
  PROVE  DeliveryInv'
<1> USE DEF sourceVars, claimVars
<1>1. CASE ~config.exists
  <2>1. FailRun(d) /\ UNCHANGED <<source, cursor, fetched, copy, config>>
    BY <1>1 DEF Advance
  <2> QED
    BY <2>1, FailedDrain, DeliveryKept
<1>2. CASE config.exists
  <2> DEFINE size == Cardinality(BatchRows(drains[d].batch))
             counted == [drains[d] EXCEPT !.pc = "fetch", !.total = @ + size,
                                          !.batch = NoBatch]
  <2>1. /\ drains[d].pc = "advance"
        /\ cursor' = Advanced(d)
        /\ drains' = [drains EXCEPT ![d] =
                        IF size < BatchSize THEN EndStream(counted) ELSE counted]
        /\ UNCHANGED <<source, fetched, copy, config>>
    BY <1>2, Zenon DEF Advance
  <2>2. Exporting(d)
    BY <2>1 DEF Exporting
  <2>3. counted.pc = "fetch" /\ EndStream(counted).pc \in {"fetch", "finish"}
    <3> HIDE DEF size
    <3>1. counted.pc = "fetch"
      BY DrainType DEF Drain
    <3>2. \A x : x \in [pc : {"fetch"}, stream : Streams, total : Nat, batch : [Rows -> Nat],
                        last : Key, interval : Nat, ok : BOOLEAN]
                 => EndStream(x).pc \in {"fetch", "finish"}
      BY DEF EndStream
    <3>3. drains[d].total + size \in Nat
      BY DrainType, RowsFinite, FS_Subset, FS_CardinalityType DEF BatchRows, size
    <3>4. counted \in [pc : {"fetch"}, stream : Streams, total : Nat, batch : [Rows -> Nat],
                       last : Key, interval : Nat, ok : BOOLEAN]
      BY <3>3, DrainType DEF Drain, NoBatch
    <3> QED
      BY <3>1, <3>2, <3>4
  <2>4. \A e \in Drains : ~InHand(e)'
    <3>1. drains'[d].pc \in {"fetch", "finish"}
      <4> HIDE DEF counted, size
      <4> QED
        BY <2>1, <2>3 DEF TypeOK
    <3>2. \A e \in Drains \ {d} : drains'[e] = drains[e]
      <4> HIDE DEF counted, size
      <4> QED
        BY <2>1 DEF TypeOK
    <3> QED
      BY <2>2, <3>1, <3>2 DEF SoleExporter, Exporting, InHand
  <2> QED
    BY <1>2, <2>1, <2>4, CursorMoves
<1> QED
  BY <1>1, <1>2

LEMMA DeliveryInvariant == TypeOK /\ LeaseInv /\ DeliveryInv /\ [Next]_vars => DeliveryInv'
<1> SUFFICES ASSUME TypeOK, LeaseInv, DeliveryInv, [Next]_vars PROVE DeliveryInv'
  OBVIOUS
<1> USE DEF sourceVars, exportVars, claimVars
<1>1. ASSUME NEW rows \in SUBSET Rows \ {{}}, WriteAtOnce(rows) PROVE DeliveryInv'
  BY <1>1, WriteKeepsDelivery DEF WriteAtOnce, TypeOK
<1>2. ASSUME NEW rows \in SUBSET Rows \ {{}}, NEW t \in writing, CommitWrite(t, rows)
      PROVE  DeliveryInv'
  <2>1. t \in Nat
    BY DEF TypeOK
  <2> QED
    BY <1>2, <2>1, WriteKeepsDelivery DEF CommitWrite
<1>3. CASE UNCHANGED <<source, cursor, fetched, copy, config, drains>>
  BY <1>3, DeliveryKept
<1>4. ASSUME NEW r \in Rows, PurgeRow(r) PROVE DeliveryInv'
  BY <1>4, PurgeKeepsDelivery
<1>5. ASSUME NEW enabled \in BOOLEAN, SetEnabled(enabled) PROVE DeliveryInv'
  BY <1>5, DeliveryKept DEF SetEnabled, TypeOK
<1>6. ASSUME NEW interval \in Intervals, Retune(interval) PROVE DeliveryInv'
  BY <1>6, DeliveryKept DEF Retune, TypeOK
<1>7. CASE DeleteDestination
  <2>1. /\ UNCHANGED <<source, fetched, copy, drains>> /\ ~config'.exists
        /\ \A s \in Streams : cursor'[s] = Epoch
    BY <1>7 DEF DeleteDestination, TypeOK
  <2>2. \A r \in Rows : KeyOf(r)' = KeyOf(r) /\ KeyOf(r) \in Key /\ KeyOf(r).at = source[r].at
    BY <2>1, KeyType DEF KeyOf
  <2>3. SkippedOnlyIfOvertaken'
    BY <2>1, <2>2, StreamOfType, KeyOrder DEF SkippedOnlyIfOvertaken
  <2>4. CursorWasFetched'
    BY <2>1, KeyOrder DEF CursorWasFetched, TypeOK
  <2>5. RowsCounted' /\ LastWasFetched' /\ BatchBetween' /\ BatchComplete'
    BY <2>1 DEF DeliveryInv, RowsCounted, LastWasFetched, BatchBetween, BatchComplete, InHand
  <2> QED
    BY <2>3, <2>4, <2>5 DEF DeliveryInv
<1>8. ASSUME NEW d \in Drains, NEW pc \in {"claim", "claim_now"}, Poll(d, pc)
      PROVE  DeliveryInv'
  <2>1. [drains[d] EXCEPT !.pc = pc].pc = pc
    BY DrainType DEF Drain
  <2>2. drains' = [drains EXCEPT ![d] = [drains[d] EXCEPT !.pc = pc]]
    BY <1>8 DEF Poll
  <2>3. \A e \in Drains :
            drains'[e].pc \in {"deliver", "advance"} => drains'[e] = drains[e]
    BY <2>1, <2>2, OneDrainStops
  <2> QED
    BY <1>8, <2>3, DeliveryKept DEF Poll
<1>9. ASSUME NEW d \in Drains, ClaimDue(d) \/ ClaimNow(d) PROVE DeliveryInv'
  <2>1. \A e \in Drains :
            drains'[e].pc \in {"deliver", "advance"} => drains'[e] = drains[e]
    <3>1. CASE NoClaim(d)
      BY <3>1, IdleAgain DEF NoClaim
    <3>2. CASE StartRun(d)
      <4>1. [IdleDrain EXCEPT !.pc = "fetch", !.interval = config.interval].pc = "fetch"
        BY DEF IdleDrain
      <4> QED
        BY <3>2, <4>1 DEF StartRun, TypeOK
    <3> QED
      BY <1>9, <3>1, <3>2 DEF ClaimDue, ClaimNow
  <2> QED
    BY <1>9, <2>1, DeliveryKept DEF ClaimDue, ClaimNow
<1>10. ASSUME NEW d \in Drains, Fetch(d) PROVE DeliveryInv'
  BY <1>10, FetchKeepsDelivery DEF LeaseInv
<1>11. ASSUME NEW d \in Drains, Deliver(d) PROVE DeliveryInv'
  BY <1>11, DeliverKeepsDelivery DEF LeaseInv
<1>12. ASSUME NEW d \in Drains, Advance(d) PROVE DeliveryInv'
  BY <1>12, AdvanceKeepsDelivery DEF LeaseInv
<1>13. ASSUME NEW d \in Drains, ExportFails(d) \/ TimeOut(d) PROVE DeliveryInv'
  <2>1. /\ Exporting(d) /\ CutOff(d) /\ FailRun(d) /\ UNCHANGED <<source, fetched, config>>
    BY <1>13 DEF ExportFails, TimeOut
  <2>2. ~InHand(d)'
    <3>1. [drains[d] EXCEPT !.pc = "finish", !.batch = NoBatch, !.ok = FALSE].pc = "finish"
      BY DrainType DEF Drain
    <3> QED
      BY <2>1, <3>1 DEF FailRun, InHand, TypeOK
  <2> QED
    BY <2>1, <2>2, FailedDrain, GivenUp DEF LeaseInv
<1>14. ASSUME NEW d \in Drains, FinishRun(d) PROVE DeliveryInv'
  BY <1>14, IdleAgain, DeliveryKept DEF FinishRun
<1>15. ASSUME NEW d \in Drains, Die(d) PROVE DeliveryInv'
  <2>1. ~InHand(d)'
    BY <1>15 DEF Die, InHand, IdleDrain, TypeOK
  <2>2. CASE Exporting(d)
    BY <1>15, <2>1, <2>2, IdleAgain, GivenUp DEF Die, LeaseInv
  <2>3. CASE ~Exporting(d)
    BY <1>15, <2>3, IdleAgain, DeliveryKept DEF Die, CutOff, Exporting
  <2> QED
    BY <2>2, <2>3
<1> QED
  BY <1>1, <1>2, <1>3, <1>4, <1>5, <1>6, <1>7, <1>8, <1>9, <1>10, <1>11, <1>12, <1>13,
     <1>14, <1>15
  DEF Next, DrainStep, BeginWrite, Tick, vars

LEMMA DeliveryHolds == Spec => [](TypeOK /\ LeaseInv /\ DeliveryInv)
<1>1. Init => DeliveryInv
  <2> SUFFICES ASSUME Init PROVE DeliveryInv
    OBVIOUS
  <2>1. \A d \in Drains : ~InHand(d)
    BY DEF Init, InHand, IdleDrain
  <2>2. RowsCounted /\ SkippedOnlyIfOvertaken
    BY DEF Init, NoRow, RowsCounted, SkippedOnlyIfOvertaken
  <2>3. CursorWasFetched
    BY DEF Init, CursorWasFetched, KeyLeq, Epoch
  <2> QED
    BY <2>1, <2>2, <2>3 DEF DeliveryInv, LastWasFetched, BatchBetween, BatchComplete
<1> QED
  BY <1>1, LeaseHolds, DeliveryInvariant, PTL DEF Spec

(* Whatever is written, fails, dies or is retried, a row behind the cursor     *)
(* was delivered as it is, or was committed behind what had been read        *)
(* (fetch_export_batch, advance_cursor).                                     *)
THEOREM NothingSkipped == Spec => []SkippedOnlyIfOvertaken
<1>1. DeliveryInv => SkippedOnlyIfOvertaken
  BY DEF DeliveryInv
<1> QED
  BY <1>1, DeliveryHolds, PTL

(* No step takes a row of the copy back to an older version (deliver_batch),   *)
(* which rests on ExporterHoldsClaim: a batch in hand is never old.           *)
THEOREM CopyAdvances == Spec => CopyNeverRegresses
<1>1. TypeOK /\ LeaseInv /\ DeliveryInv /\ [Next]_vars => [\A r \in Rows : copy'[r] >= copy[r]]_vars
  <2> SUFFICES ASSUME TypeOK, DeliveryInv, Next, NEW r \in Rows
               PROVE  copy'[r] >= copy[r]
    OBVIOUS
  <2> USE DEF sourceVars, exportVars, claimVars
  <2>1. copy[r] \in Nat
    BY DEF TypeOK
  <2>2. CASE copy' = copy
    BY <2>1, <2>2
  <2>3. ASSUME NEW d \in Drains, drains[d].pc = "deliver", copy' = Upserted(drains[d].batch)
        PROVE  copy'[r] >= copy[r]
    <3>1. copy'[r] \in Nat
      BY <2>3, UpsertedType, DrainType
    <3> QED
      BY <2>1, <2>3, <3>1, UpsertEffect DEF DeliveryInv, InHand
  <2>4. ASSUME NEW d \in Drains, Deliver(d) \/ ExportFails(d) \/ TimeOut(d) \/ Die(d)
        PROVE  copy'[r] >= copy[r]
    BY <2>2, <2>3, <2>4 DEF Deliver, ExportFails, TimeOut, Die, CutOff
  <2> QED
    BY <2>2, <2>4
    DEF Next, DrainStep, WriteAtOnce, CommitWrite, BeginWrite, PurgeRow, SetEnabled, Retune,
        DeleteDestination, Poll, ClaimDue, ClaimNow, Fetch, Advance, FinishRun, Tick
<1> QED
  BY <1>1, DeliveryHolds, PTL DEF Spec, CopyNeverRegresses

=============================================================================
