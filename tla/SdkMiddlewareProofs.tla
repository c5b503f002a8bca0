-------------------------- MODULE SdkMiddlewareProofs --------------------------
(***************************************************************************)
(* The Rust SDK, for any number of events, agents, pages, times and slots.   *)
(* Its telemetry queue counts every event it loses.  Of what its middleware  *)
(* serves: what an envelope says of a standing decision is recent and true,  *)
(* no shared cache keeps one, who opts in gets one, and the lookups keep to  *)
(* the slots.                                                                *)
(***************************************************************************)
EXTENDS SdkMiddleware, TelemetryPath, IdentityProofs, SequenceTheorems, FiniteSetTheorems, TLAPS

-----------------------------------------------------------------------------
(* The telemetry queue, whatever the network does.                           *)

(* What the worker and the channel hold, in the order it will be sent.        *)
Line == worker.batch \o (pending \o channel)

(* No event twice.                                                           *)
Distinct(s) == Cardinality(ElementsOf(s)) = Len(s)

(* An event is on its way, dropped or confirmed.                              *)
EventsFit ==
    /\ Line \in Seq(Telemetry) /\ Distinct(Line)
    /\ recorded = ElementsOf(Line) \cup dropped \cup confirmed
    /\ ElementsOf(Line) \cap (dropped \cup confirmed) = {}
    /\ dropped \cap confirmed = {}

CountsFit ==
    IF counts.claimed
    THEN /\ stopping /\ counts.outstanding = 0
         /\ Len(Line) + Cardinality(dropped) <= counts.overflow + counts.undelivered
    ELSE /\ counts.outstanding = Len(Line)
         /\ counts.overflow = Cardinality(dropped)
         /\ counts.undelivered = 0

(* The last flush comes after the channel was closed.                         *)
WorkerFits ==
    /\ worker.pc \in {"idle", "done"} => worker.batch = <<>>
    /\ worker.pc \in {"final", "done"} => channel = <<>> /\ stopping
    /\ late => stopping
    /\ verdict = "ok" => Line = <<>> /\ worker.pc = "done"

QueueInv == SdkTypeOK /\ EventsFit /\ CountsFit /\ WorkerFits

-----------------------------------------------------------------------------
(* Sequences.                                                                *)

LEMMA Elements ==
  ASSUME NEW s \in Seq(Telemetry)
  PROVE  /\ Len(s) \in Nat /\ ElementsOf(s) \subseteq Telemetry
         /\ IsFiniteSet(ElementsOf(s))
         /\ Cardinality(ElementsOf(s)) \in Nat /\ Cardinality(ElementsOf(s)) <= Len(s)
<1>1. /\ Len(s) \in Nat /\ s \in [1 .. Len(s) -> Telemetry]
  OBVIOUS
<1>2. IsFiniteSet(1 .. Len(s)) /\ Cardinality(1 .. Len(s)) = Len(s)
  BY <1>1, FS_Interval
<1>3. s \in Surjection(1 .. Len(s), ElementsOf(s))
  BY <1>1 DEF Surjection, ElementsOf
<1>4. IsFiniteSet(ElementsOf(s)) /\ Cardinality(ElementsOf(s)) <= Cardinality(1 .. Len(s))
  BY <1>2, <1>3, FS_Surjection
<1> QED
  BY <1>1, <1>2, <1>4, FS_CardinalityType DEF ElementsOf

LEMMA NoElements == ElementsOf(<<>>) = {}
BY DEF ElementsOf

LEMMA Joined ==
  ASSUME NEW s \in Seq(Telemetry), NEW t \in Seq(Telemetry)
  PROVE  /\ s \o t \in Seq(Telemetry) /\ Len(s \o t) = Len(s) + Len(t)
         /\ ElementsOf(s \o t) = ElementsOf(s) \cup ElementsOf(t)
<1>1. /\ s \o t \in Seq(Telemetry) /\ Len(s \o t) = Len(s) + Len(t)
      /\ \A k \in 1 .. Len(s) + Len(t) :
            (s \o t)[k] = IF k <= Len(s) THEN s[k] ELSE t[k - Len(s)]
      /\ Len(s) \in Nat /\ Len(t) \in Nat
  BY ConcatProperties
<1>2. ElementsOf(s \o t) \subseteq ElementsOf(s) \cup ElementsOf(t)
  <2> SUFFICES ASSUME NEW k \in 1 .. Len(s \o t)
               PROVE  (s \o t)[k] \in ElementsOf(s) \cup ElementsOf(t)
    BY DEF ElementsOf
  <2>1. CASE k <= Len(s)
    BY <1>1, <2>1 DEF ElementsOf
  <2>2. CASE ~(k <= Len(s))
    <3>1. k - Len(s) \in 1 .. Len(t) /\ (s \o t)[k] = t[k - Len(s)]
      BY <1>1, <2>2
    <3> QED
      BY <3>1 DEF ElementsOf
  <2> QED
    BY <2>1, <2>2
<1>3. ElementsOf(s) \subseteq ElementsOf(s \o t)
  <2> SUFFICES ASSUME NEW k \in 1 .. Len(s) PROVE s[k] \in ElementsOf(s \o t)
    BY DEF ElementsOf
  <2>1. k \in 1 .. Len(s \o t) /\ (s \o t)[k] = s[k]
    BY <1>1
  <2> QED
    BY <2>1 DEF ElementsOf
<1>4. ElementsOf(t) \subseteq ElementsOf(s \o t)
  <2> SUFFICES ASSUME NEW k \in 1 .. Len(t) PROVE t[k] \in ElementsOf(s \o t)
    BY DEF ElementsOf
  <2>1. k + Len(s) \in 1 .. Len(s \o t) /\ (s \o t)[k + Len(s)] = t[k]
    BY <1>1
  <2> QED
    BY <2>1 DEF ElementsOf
<1> QED
  BY <1>1, <1>2, <1>3, <1>4

LEMMA Cut ==
  ASSUME NEW s \in Seq(Telemetry), NEW n \in 0 .. Len(s)
  PROVE  /\ SubSeq(s, 1, n) \in Seq(Telemetry) /\ SubSeq(s, n + 1, Len(s)) \in Seq(Telemetry)
         /\ SubSeq(s, 1, n) \o SubSeq(s, n + 1, Len(s)) = s
         /\ Len(SubSeq(s, 1, n)) = n /\ Len(SubSeq(s, n + 1, Len(s))) = Len(s) - n
<1>1. /\ Len(s) \in Nat /\ n \in Nat /\ n <= Len(s)
      /\ \A k \in 1 .. Len(s) : s[k] \in Telemetry
  OBVIOUS
<1>2. /\ SubSeq(s, 1, n) \in Seq(Telemetry)
      /\ Len(SubSeq(s, 1, n)) = IF 1 <= n THEN n - 1 + 1 ELSE 0
  <2>1. \A k \in 1 .. n : s[k] \in Telemetry
    BY <1>1
  <2> QED
    BY <1>1, <2>1, SubSeqProperties
<1>3. /\ SubSeq(s, n + 1, Len(s)) \in Seq(Telemetry)
      /\ Len(SubSeq(s, n + 1, Len(s))) =
            IF n + 1 <= Len(s) THEN Len(s) - (n + 1) + 1 ELSE 0
  <2>1. \A k \in n + 1 .. Len(s) : s[k] \in Telemetry
    BY <1>1
  <2> QED
    BY <1>1, <2>1, SubSeqProperties
<1>4. SubSeq(s, 1, n) \o SubSeq(s, n + 1, Len(s)) = SubSeq(s, 1, Len(s))
  <2>1. /\ 1 \in 1 .. Len(s) + 1 /\ n \in 1 - 1 .. Len(s) /\ Len(s) \in n .. Len(s)
    BY <1>1
  <2> QED
    BY <2>1, ConcatAdjacentSubSeq
<1>5. SubSeq(s, 1, Len(s)) = s
  BY SubSeqFull
<1>6. Len(SubSeq(s, 1, n)) = n /\ Len(SubSeq(s, n + 1, Len(s))) = Len(s) - n
  BY <1>1, <1>2, <1>3
<1> QED
  BY <1>2, <1>3, <1>4, <1>5, <1>6

LEMMA Associative ==
  ASSUME NEW s \in Seq(Telemetry), NEW t \in Seq(Telemetry), NEW u \in Seq(Telemetry)
  PROVE  (s \o t) \o u = s \o (t \o u)
BY ConcatAssociative

(* The parts of a sequence without repetition.                               *)
LEMMA Parted ==
  ASSUME NEW s \in Seq(Telemetry), NEW t \in Seq(Telemetry), Distinct(s \o t)
  PROVE  Distinct(s) /\ Distinct(t) /\ ElementsOf(s) \cap ElementsOf(t) = {}
<1> DEFINE both == ElementsOf(s) \cap ElementsOf(t)
<1>1. /\ Len(s) \in Nat /\ Len(t) \in Nat
      /\ IsFiniteSet(ElementsOf(s)) /\ IsFiniteSet(ElementsOf(t))
      /\ Cardinality(ElementsOf(s)) \in Nat /\ Cardinality(ElementsOf(s)) <= Len(s)
      /\ Cardinality(ElementsOf(t)) \in Nat /\ Cardinality(ElementsOf(t)) <= Len(t)
  BY Elements
<1>2. IsFiniteSet(both) /\ Cardinality(both) \in Nat
  BY <1>1, FS_Intersection, FS_CardinalityType
<1>3. Cardinality(ElementsOf(s) \cup ElementsOf(t)) =
        Cardinality(ElementsOf(s)) + Cardinality(ElementsOf(t)) - Cardinality(both)
  BY <1>1, FS_Union
<1>4. Cardinality(ElementsOf(s) \cup ElementsOf(t)) = Len(s) + Len(t)
  BY Joined DEF Distinct
<1>5. /\ Cardinality(both) = 0
      /\ Cardinality(ElementsOf(s)) = Len(s) /\ Cardinality(ElementsOf(t)) = Len(t)
  BY <1>1, <1>2, <1>3, <1>4
<1> QED
  BY <1>2, <1>5, FS_EmptySet DEF Distinct

-----------------------------------------------------------------------------
(* What a step does to the line and the counters.                            *)

LEMMA LineTypes ==
  ASSUME QueueInv
  PROVE  /\ counts = [outstanding |-> counts.outstanding, overflow |-> counts.overflow,
                      undelivered |-> counts.undelivered, claimed |-> counts.claimed]
         /\ counts.outstanding \in Nat /\ counts.overflow \in Nat /\ counts.undelivered \in Nat
         /\ counts.claimed \in BOOLEAN
         /\ IsFiniteSet(dropped) /\ Cardinality(dropped) \in Nat
         /\ Line \in Seq(Telemetry) /\ Len(Line) \in Nat
         /\ channel \in Seq(Telemetry) /\ pending \in Seq(Telemetry)
         /\ worker.batch \in Seq(Telemetry)
         /\ pending \o channel \in Seq(Telemetry)
<1>1. counts \in [outstanding : Nat, overflow : Nat, undelivered : Nat, claimed : BOOLEAN]
  BY DEF QueueInv, SdkTypeOK
<1>2. IsFiniteSet(dropped)
  BY QueueAssumption, FS_Subset DEF QueueInv, SdkTypeOK
<1>3. /\ channel \in Seq(Telemetry) /\ pending \in Seq(Telemetry)
      /\ worker.batch \in Seq(Telemetry)
  BY DEF QueueInv, SdkTypeOK
<1>4. Line \in Seq(Telemetry)
  BY DEF QueueInv, EventsFit
<1> QED
  BY <1>1, <1>2, <1>3, <1>4, Joined, Elements, FS_CardinalityType

(* Moved, lost with their number counted, or nothing at all.                  *)
LEMMA Keeping ==
  ASSUME QueueInv, Line' = Line, UNCHANGED <<recorded, dropped, confirmed>>,
         counts' = counts \/ (counts' = Claimed(counts) /\ stopping'),
         stopping => stopping'
  PROVE  /\ EventsFit' /\ CountsFit'
         /\ recorded' \subseteq Telemetry /\ dropped' \subseteq Telemetry
         /\ confirmed' \subseteq Telemetry
         /\ counts' \in [outstanding : Nat, overflow : Nat, undelivered : Nat,
                         claimed : BOOLEAN]
<1>1. EventsFit'
  BY DEF QueueInv, EventsFit, Distinct
<1>2. CountsFit'
        /\ counts' \in [outstanding : Nat, overflow : Nat, undelivered : Nat, claimed : BOOLEAN]
  <2>1. CASE counts' = counts
    BY <2>1, LineTypes DEF QueueInv, CountsFit, SdkTypeOK
  <2>2. CASE counts' = Claimed(counts) /\ stopping' /\ ~counts.claimed
    <3>1. counts' = [outstanding |-> 0, overflow |-> counts.overflow,
                     undelivered |-> counts.undelivered + counts.outstanding, claimed |-> TRUE]
      BY <2>2, LineTypes DEF Claimed
    <3>2. CountsFit'
      BY <2>2, <3>1, LineTypes DEF QueueInv, CountsFit
    <3> QED
      BY <3>1, <3>2, LineTypes
  <2>3. CASE counts' = Claimed(counts) /\ counts.claimed
    BY <2>1, <2>3 DEF Claimed
  <2> QED
    BY <2>1, <2>2, <2>3
<1> QED
  BY <1>1, <1>2 DEF QueueInv, SdkTypeOK

(* Events pushed out of the queue.                                           *)
LEMMA Dropping ==
  ASSUME QueueInv, NEW lost \in Seq(Telemetry), Line' \in Seq(Telemetry), Line = lost \o Line',
         UNCHANGED <<recorded, confirmed, stopping>>,
         dropped' = dropped \cup ElementsOf(lost), counts' = Overflowed(counts, Len(lost))
  PROVE  /\ EventsFit' /\ CountsFit'
         /\ recorded' \subseteq Telemetry /\ dropped' \subseteq Telemetry
         /\ confirmed' \subseteq Telemetry
         /\ counts' \in [outstanding : Nat, overflow : Nat, undelivered : Nat,
                         claimed : BOOLEAN]
<1> DEFINE rest == Line'
<1>1. rest \in Seq(Telemetry) /\ Line = lost \o rest
  OBVIOUS
<1> HIDE DEF rest
<1>2. /\ ElementsOf(Line) = ElementsOf(lost) \cup ElementsOf(rest)
      /\ Len(Line) = Len(lost) + Len(rest) /\ Len(lost) \in Nat /\ Len(rest) \in Nat
      /\ ElementsOf(lost) \cap ElementsOf(rest) = {}
      /\ Distinct(lost) /\ Distinct(rest)
  BY <1>1, Joined, Parted, Elements DEF QueueInv, EventsFit
<1>3. Cardinality(dropped') = Cardinality(dropped) + Len(lost)
  <2>1. IsFiniteSet(ElementsOf(lost)) /\ Cardinality(ElementsOf(lost)) = Len(lost)
    BY <1>2, Elements DEF Distinct
  <2>2. dropped \cap ElementsOf(lost) = {} /\ Cardinality({}) = 0
    BY <1>2, FS_EmptySet DEF QueueInv, EventsFit
  <2>3. Cardinality(dropped \cup ElementsOf(lost)) =
          Cardinality(dropped) + Cardinality(ElementsOf(lost))
            - Cardinality(dropped \cap ElementsOf(lost))
    BY <2>1, LineTypes, FS_Union
  <2>4. Cardinality(dropped \cap ElementsOf(lost)) = 0
    BY <2>2, Zenon
  <2> QED
    BY <2>1, <2>3, <2>4, <1>2, LineTypes
<1>4. EventsFit'
  <2>1. /\ recorded' = ElementsOf(rest) \cup dropped' \cup confirmed'
        /\ ElementsOf(rest) \cap (dropped' \cup confirmed') = {}
        /\ dropped' \cap confirmed' = {}
    BY <1>2 DEF QueueInv, EventsFit
  <2> QED
    BY <1>1, <1>2, <2>1 DEF EventsFit, Distinct, rest
<1>5. counts' = [outstanding |-> AtLeast(counts.outstanding - Len(lost), 0),
                 overflow |-> counts.overflow + Len(lost),
                 undelivered |-> counts.undelivered, claimed |-> counts.claimed]
  BY LineTypes DEF Overflowed
<1>6. AtLeast(counts.outstanding - Len(lost), 0) =
        IF counts.claimed THEN 0 ELSE Len(rest)
  BY <1>2, LineTypes DEF AtLeast, QueueInv, CountsFit
<1>7. CountsFit'
  <2>1. IF counts'.claimed
        THEN /\ stopping' /\ counts'.outstanding = 0
             /\ Len(rest) + Cardinality(dropped') <= counts'.overflow + counts'.undelivered
        ELSE /\ counts'.outstanding = Len(rest)
             /\ counts'.overflow = Cardinality(dropped')
             /\ counts'.undelivered = 0
    <3>1. /\ counts'.overflow = counts.overflow + Len(lost)
          /\ counts'.undelivered = counts.undelivered /\ counts'.claimed = counts.claimed
          /\ counts'.outstanding = IF counts.claimed THEN 0 ELSE Len(rest)
      BY <1>5, <1>6
    <3>2. CASE counts.claimed
      BY <1>2, <1>3, <3>1, <3>2, LineTypes DEF QueueInv, CountsFit
    <3>3. CASE ~counts.claimed
      BY <1>2, <1>3, <3>1, <3>3, LineTypes DEF QueueInv, CountsFit
    <3> QED
      BY <3>2, <3>3
  <2> QED
    BY <2>1 DEF CountsFit, rest
<1>8. counts' \in [outstanding : Nat, overflow : Nat, undelivered : Nat, claimed : BOOLEAN]
  BY <1>2, <1>5, <1>6, LineTypes
<1> QED
  BY <1>1, <1>4, <1>7, <1>8, Elements DEF QueueInv, SdkTypeOK

(* A batch that was delivered.                                               *)
LEMMA Confirming ==
  ASSUME QueueInv, Line' \in Seq(Telemetry), Line = worker.batch \o Line',
         UNCHANGED <<recorded, dropped, stopping>>,
         confirmed' = confirmed \cup ElementsOf(worker.batch),
         counts' = Delivered(counts, Len(worker.batch))
  PROVE  /\ EventsFit' /\ CountsFit'
         /\ recorded' \subseteq Telemetry /\ dropped' \subseteq Telemetry
         /\ confirmed' \subseteq Telemetry
         /\ counts' \in [outstanding : Nat, overflow : Nat, undelivered : Nat,
                         claimed : BOOLEAN]
<1> DEFINE rest == Line'
           batch == worker.batch
<1>1. rest \in Seq(Telemetry) /\ Line = batch \o rest /\ batch \in Seq(Telemetry)
  BY LineTypes
<1>2. /\ confirmed' = confirmed \cup ElementsOf(batch)
      /\ counts' = Delivered(counts, Len(batch))
  OBVIOUS
<1> HIDE DEF rest, batch
<1>3. /\ ElementsOf(Line) = ElementsOf(batch) \cup ElementsOf(rest)
      /\ Len(Line) = Len(batch) + Len(rest) /\ Len(batch) \in Nat /\ Len(rest) \in Nat
      /\ ElementsOf(batch) \cap ElementsOf(rest) = {}
      /\ Distinct(batch) /\ Distinct(rest)
  BY <1>1, Joined, Parted, Elements DEF QueueInv, EventsFit
<1>4. EventsFit'
  <2>1. /\ recorded' = ElementsOf(rest) \cup dropped' \cup confirmed'
        /\ ElementsOf(rest) \cap (dropped' \cup confirmed') = {}
        /\ dropped' \cap confirmed' = {}
    BY <1>2, <1>3 DEF QueueInv, EventsFit
  <2> QED
    BY <1>1, <1>3, <2>1 DEF EventsFit, Distinct, rest
<1>5. CountsFit'
        /\ counts' \in [outstanding : Nat, overflow : Nat, undelivered : Nat, claimed : BOOLEAN]
  <2>1. CASE counts.claimed
    <3>1. counts' = counts
      BY <1>2, <2>1 DEF Delivered
    <3>2. /\ stopping' /\ counts'.outstanding = 0
          /\ Len(rest) + Cardinality(dropped') <= counts'.overflow + counts'.undelivered
      BY <1>3, <2>1, <3>1, LineTypes DEF QueueInv, CountsFit
    <3> QED
      BY <2>1, <3>1, <3>2 DEF CountsFit, rest, QueueInv, SdkTypeOK
  <2>2. CASE ~counts.claimed
    <3>1. counts' = [outstanding |-> AtLeast(counts.outstanding - Len(batch), 0),
                     overflow |-> counts.overflow,
                     undelivered |-> counts.undelivered, claimed |-> FALSE]
      BY <1>2, <2>2, LineTypes DEF Delivered
    <3>2. AtLeast(counts.outstanding - Len(batch), 0) = Len(rest)
      BY <1>3, <2>2, LineTypes DEF AtLeast, QueueInv, CountsFit
    <3>3. /\ counts'.outstanding = Len(rest)
          /\ counts'.overflow = Cardinality(dropped')
          /\ counts'.undelivered = 0
      BY <1>3, <2>2, <3>1, <3>2, LineTypes DEF QueueInv, CountsFit
    <3> QED
      BY <1>3, <3>1, <3>2, <3>3, LineTypes DEF CountsFit, rest
  <2> QED
    BY <2>1, <2>2
<1> QED
  BY <1>1, <1>2, <1>4, <1>5, Elements DEF QueueInv, SdkTypeOK

-----------------------------------------------------------------------------
LEMMA QueueBegins == SdkInit => QueueInv
<1> SUFFICES ASSUME SdkInit PROVE QueueInv
  OBVIOUS
<1>1. <<>> \in Seq(Telemetry) /\ Len(<<>>) = 0
  OBVIOUS
<1>2. Line = <<>>
  BY <1>1, ConcatEmptySeq DEF SdkInit, Line, Idle
<1>3. Cardinality({}) = 0
  BY FS_EmptySet
<1>4. SdkTypeOK
  <2>1. Len(channel) <= MaxQueue /\ 0 \in 0 .. MaxAttempts - 1
    BY <1>1, QueueAssumption DEF SdkInit
  <2>2. worker \in [pc : {"idle", "sending", "final", "done"}, batch : Seq(Telemetry),
                    attempt : 0 .. MaxAttempts - 1]
    BY <1>1, <2>1 DEF SdkInit, Idle
  <2>3. counts \in [outstanding : Nat, overflow : Nat, undelivered : Nat, claimed : BOOLEAN]
    BY DEF SdkInit
  <2> QED
    BY <1>1, <2>1, <2>2, <2>3 DEF SdkInit, SdkTypeOK, Verdicts
<1>5. EventsFit
  BY <1>1, <1>2, <1>3, NoElements DEF SdkInit, EventsFit, Distinct
<1>6. CountsFit /\ WorkerFits
  BY <1>1, <1>2, <1>3 DEF SdkInit, CountsFit, WorkerFits, Idle
<1> QED
  BY <1>4, <1>5, <1>6 DEF QueueInv

LEMMA RecordKeeps == ASSUME QueueInv, NEW e \in Telemetry, Record(e) PROVE QueueInv'
<1>1. /\ UNCHANGED <<pending, worker, heard, confirmed, stopping, late, verdict>>
      /\ ~stopping /\ e \notin recorded /\ recorded' = recorded \cup {e}
  BY DEF Record, shutdownVars
<1>2. ~counts.claimed /\ ~late /\ worker.pc \in {"idle", "sending"} /\ verdict # "ok"
  BY <1>1 DEF QueueInv, CountsFit, WorkerFits, SdkTypeOK
<1>3. WorkerFits'
  BY <1>1, <1>2 DEF WorkerFits, QueueInv
<1>4. CASE Len(channel) < MaxQueue
  <2>1. /\ channel' = Append(channel, e) /\ dropped' = dropped
        /\ counts' = [counts EXCEPT !.outstanding = @ + 1]
    BY <1>4 DEF Record
  <2>2. counts' = [outstanding |-> counts.outstanding + 1, overflow |-> counts.overflow,
                   undelivered |-> counts.undelivered, claimed |-> counts.claimed]
    BY <2>1, LineTypes
  <2>3. <<e>> \in Seq(Telemetry) /\ channel' = channel \o <<e>>
    BY <2>1, LineTypes, AppendIsConcat
  <2>4. Line' = Line \o <<e>>
    <3> DEFINE one == <<e>>
    <3>1. one \in Seq(Telemetry) /\ channel' = channel \o one
      BY <2>3
    <3> HIDE DEF one
    <3>2. (pending \o channel) \o one = pending \o (channel \o one)
      BY <3>1, LineTypes, Associative
    <3>3. (worker.batch \o (pending \o channel)) \o one
            = worker.batch \o ((pending \o channel) \o one)
      BY <3>1, LineTypes, Associative
    <3>4. Line' = Line \o one
      BY <1>1, <3>1, <3>2, <3>3 DEF Line
    <3> QED
      BY <3>4 DEF one
  <2>5. ElementsOf(<<e>>) = {e} /\ Len(<<e>>) = 1
    BY DEF ElementsOf
  <2>6. /\ Line' \in Seq(Telemetry) /\ Len(Line') = Len(Line) + 1
        /\ ElementsOf(Line') = ElementsOf(Line) \cup {e}
    <3>1. /\ Line \o <<e>> \in Seq(Telemetry)
          /\ Len(Line \o <<e>>) = Len(Line) + Len(<<e>>)
          /\ ElementsOf(Line \o <<e>>) = ElementsOf(Line) \cup ElementsOf(<<e>>)
      BY <2>3, LineTypes, Joined
    <3> QED
      BY <2>4, <2>5, <3>1
  <2>7. e \notin ElementsOf(Line) /\ e \notin dropped /\ e \notin confirmed
    BY <1>1 DEF QueueInv, EventsFit
  <2>8. Cardinality(ElementsOf(Line) \cup {e}) = Len(Line) + 1
    BY <2>7, LineTypes, Elements, FS_AddElement DEF QueueInv, EventsFit, Distinct
  <2>9. EventsFit'
    <3>1. Cardinality(ElementsOf(Line')) = Len(Line')
      BY <2>6, <2>8
    <3>2. /\ recorded' = ElementsOf(Line') \cup dropped' \cup confirmed'
          /\ ElementsOf(Line') \cap (dropped' \cup confirmed') = {}
          /\ dropped' \cap confirmed' = {}
      BY <1>1, <2>1, <2>6, <2>7 DEF QueueInv, EventsFit
    <3> QED
      BY <2>6, <3>1, <3>2 DEF EventsFit, Distinct
  <2>10. CountsFit'
    BY <1>1, <1>2, <2>1, <2>2, <2>6, LineTypes DEF QueueInv, CountsFit
  <2>11. SdkTypeOK'
    <3>1. channel' \in Seq(Telemetry) /\ Len(channel') <= MaxQueue
      BY <1>4, <2>1, LineTypes, QueueAssumption
    <3>2. counts' \in [outstanding : Nat, overflow : Nat, undelivered : Nat, claimed : BOOLEAN]
      BY <2>2, LineTypes
    <3> QED
      BY <1>1, <2>1, <3>1, <3>2 DEF SdkTypeOK, QueueInv
  <2> QED
    BY <1>3, <2>9, <2>10, <2>11 DEF QueueInv
<1>5. CASE ~(Len(channel) < MaxQueue)
  <2>1. /\ channel' = channel /\ dropped' = dropped \cup {e}
        /\ counts' = [counts EXCEPT !.overflow = @ + 1]
    BY <1>5 DEF Record
  <2>2. counts' = [outstanding |-> counts.outstanding, overflow |-> counts.overflow + 1,
                   undelivered |-> counts.undelivered, claimed |-> counts.claimed]
    BY <2>1, LineTypes
  <2>3. Line' = Line
    BY <1>1, <2>1 DEF Line
  <2>4. e \notin ElementsOf(Line) /\ e \notin dropped /\ e \notin confirmed
    BY <1>1 DEF QueueInv, EventsFit
  <2>5. Cardinality(dropped') = Cardinality(dropped) + 1
    BY <2>1, <2>4, LineTypes, FS_AddElement
  <2>6. EventsFit'
    BY <1>1, <2>1, <2>3, <2>4 DEF QueueInv, EventsFit, Distinct
  <2>7. CountsFit'
    BY <1>1, <1>2, <2>2, <2>3, <2>5, LineTypes DEF QueueInv, CountsFit
  <2>8. SdkTypeOK'
    <3>1. counts' \in [outstanding : Nat, overflow : Nat, undelivered : Nat, claimed : BOOLEAN]
      BY <2>2, LineTypes
    <3> QED
      BY <1>1, <2>1, <3>1 DEF SdkTypeOK, QueueInv
  <2> QED
    BY <1>3, <2>6, <2>7, <2>8 DEF QueueInv
<1> QED
  BY <1>4, <1>5

LEMMA ShutdownKeeps ==
  ASSUME QueueInv, Shutdown \/ DeadlinePasses \/ ShutdownTimesOut
  PROVE  QueueInv'
<1>1. UNCHANGED <<recorded, channel, pending, worker, heard, dropped, confirmed>>
  BY DEF Shutdown, DeadlinePasses, ShutdownTimesOut
<1>2. /\ stopping' \in BOOLEAN /\ late' \in BOOLEAN /\ verdict' \in Verdicts
      /\ stopping => stopping'
      /\ late' => stopping'
      /\ verdict' = "ok" => verdict = "ok"
      /\ counts' = counts \/ (counts' = Claimed(counts) /\ stopping')
  BY DEF Shutdown, DeadlinePasses, ShutdownTimesOut, Verdicts, QueueInv, SdkTypeOK, WorkerFits
<1>3. Line' = Line
  BY <1>1 DEF Line
<1>4. EventsFit' /\ CountsFit'
        /\ counts' \in [outstanding : Nat, overflow : Nat, undelivered : Nat, claimed : BOOLEAN]
  BY <1>1, <1>2, <1>3, Keeping
<1>5. WorkerFits'
  BY <1>1, <1>2, <1>3 DEF WorkerFits, QueueInv
<1>6. SdkTypeOK'
  BY <1>1, <1>2, <1>4 DEF SdkTypeOK, QueueInv
<1> QED
  BY <1>4, <1>5, <1>6 DEF QueueInv

(* The queue after a push, and what the push drops.                           *)
LEMMA Pushes ==
  ASSUME NEW queue \in Seq(Telemetry), NEW events \in Seq(Telemetry)
  PROVE  /\ Pushed(queue, events) \in Seq(Telemetry)
         /\ PushedOut(queue, events) \in Seq(Telemetry)
         /\ PushedOut(queue, events) \o Pushed(queue, events) = queue \o events
<1> DEFINE all == queue \o events
           over == AtLeast(Len(all) - MaxQueue, 0)
<1>1. all \in Seq(Telemetry) /\ Len(all) \in Nat
  BY Joined, Elements
<1>2. over \in 0 .. Len(all)
  BY <1>1, QueueAssumption DEF AtLeast
<1>3. /\ Pushed(queue, events) = SubSeq(all, over + 1, Len(all))
      /\ PushedOut(queue, events) = SubSeq(all, 1, over)
  BY DEF Pushed, PushedOut
<1> HIDE DEF all, over
<1>4. /\ SubSeq(all, 1, over) \in Seq(Telemetry)
      /\ SubSeq(all, over + 1, Len(all)) \in Seq(Telemetry)
      /\ SubSeq(all, 1, over) \o SubSeq(all, over + 1, Len(all)) = all
  BY <1>1, <1>2, Cut
<1> QED
  BY <1>3, <1>4 DEF all

LEMMA Halves ==
  ASSUME NEW queue \in Seq(Telemetry)
  PROVE  /\ Batch(queue) \in Seq(Telemetry) /\ Behind(queue) \in Seq(Telemetry)
         /\ Batch(queue) \o Behind(queue) = queue
<1> DEFINE size == Smaller(Len(queue), BatchSize)
<1>1. size \in 0 .. Len(queue)
  BY Elements, QueueAssumption DEF Smaller
<1>2. Batch(queue) = SubSeq(queue, 1, size) /\ Behind(queue) = SubSeq(queue, size + 1, Len(queue))
  BY DEF Batch, Behind
<1> HIDE DEF size
<1> QED
  BY <1>1, <1>2, Cut

(* A batch taken off a queue, and one that goes back, leave the line alone.   *)
LEMMA FlushLines ==
  ASSUME NEW queue \in Seq(Telemetry), NEW rest \in Seq(Telemetry)
  PROVE  Batch(queue) \o (Behind(queue) \o rest) = queue \o rest
<1> DEFINE front == Batch(queue)
           back == Behind(queue)
<1>1. front \in Seq(Telemetry) /\ back \in Seq(Telemetry) /\ front \o back = queue
  BY Halves
<1> HIDE DEF front, back
<1>2. (front \o back) \o rest = front \o (back \o rest)
  BY <1>1, Associative
<1> QED
  BY <1>1, <1>2 DEF front, back

LEMMA EmptyIsUnit ==
  ASSUME NEW s \in Seq(Telemetry)
  PROVE  <<>> \o s = s /\ s \o <<>> = s
BY ConcatEmptySeq

LEMMA Attempts == 0 \in 0 .. MaxAttempts - 1
BY QueueAssumption

LEMMA TakeKeeps == ASSUME QueueInv, Take PROVE QueueInv'
<1> DEFINE first == <<Head(channel)>>
           after == Tail(channel)
           lost == PushedOut(pending, first)
           queue == Pushed(pending, first)
<1>1. /\ UNCHANGED <<recorded, heard, confirmed, stopping, late, verdict>>
      /\ worker.pc = "idle" /\ channel # <<>> /\ channel' = after
      /\ dropped' = dropped \cup ElementsOf(lost) /\ counts' = Overflowed(counts, Len(lost))
      /\ IF Len(queue) >= BatchSize THEN Flush("sending", queue)
         ELSE pending' = queue /\ UNCHANGED worker
  BY DEF Take, Push, shutdownVars
<1>2. /\ first \in Seq(Telemetry) /\ after \in Seq(Telemetry) /\ channel = first \o after
      /\ Len(after) <= Len(channel)
  BY <1>1, LineTypes, HeadTailProperties
<1>3. worker.batch = <<>>
  BY <1>1 DEF QueueInv, WorkerFits
<1> HIDE DEF first, after
<1>4. /\ lost \in Seq(Telemetry) /\ queue \in Seq(Telemetry)
      /\ lost \o queue = pending \o first
  BY <1>2, LineTypes, Pushes
<1> HIDE DEF lost, queue
<1>5. Line = lost \o (queue \o after)
  <2>1. Line = pending \o (first \o after)
    <3>1. Line = <<>> \o (pending \o channel)
      BY <1>3 DEF Line
    <3> QED
      BY <1>2, <3>1, LineTypes, EmptyIsUnit
  <2>2. (pending \o first) \o after = pending \o (first \o after)
    <3>1. first \in Seq(Telemetry) /\ after \in Seq(Telemetry) /\ pending \in Seq(Telemetry)
      BY <1>2, LineTypes
    <3> QED
      BY ONLY <3>1, Associative
  <2>3. (lost \o queue) \o after = lost \o (queue \o after)
    BY <1>2, <1>4, Associative
  <2> QED
    BY <1>4, <2>1, <2>2, <2>3
<1>6. /\ pending' \in Seq(Telemetry) /\ Line' = queue \o after
      /\ worker' \in [pc : {"idle", "sending"}, batch : Seq(Telemetry),
                      attempt : 0 .. MaxAttempts - 1]
      /\ worker'.pc = "idle" => worker'.batch = <<>>
  <2>1. CASE Len(queue) >= BatchSize
    <3>1. /\ pending' = Behind(queue)
          /\ worker' = [pc |-> "sending", batch |-> Batch(queue), attempt |-> 0]
      BY <1>1, <2>1 DEF Flush
    <3>2. Line' = Batch(queue) \o (Behind(queue) \o after)
      BY <1>1, <3>1 DEF Line
    <3> QED
      BY <1>2, <1>4, <3>1, <3>2, FlushLines, Halves, Attempts
  <2>2. CASE ~(Len(queue) >= BatchSize)
    <3>1. pending' = queue /\ worker' = worker
      BY <1>1, <2>2
    <3>2. Line' = <<>> \o (queue \o after)
      BY <1>1, <1>3, <3>1 DEF Line
    <3>3. queue \o after \in Seq(Telemetry)
      BY <1>2, <1>4, Joined
    <3>4. Line' = queue \o after
      BY <3>2, <3>3, EmptyIsUnit
    <3> QED
      BY <1>1, <1>3, <1>4, <3>1, <3>4 DEF QueueInv, SdkTypeOK
  <2> QED
    BY <2>1, <2>2
<1>7. Line = lost \o Line' /\ Line' \in Seq(Telemetry)
  BY <1>2, <1>4, <1>5, <1>6, Joined
<1>8. /\ EventsFit' /\ CountsFit' /\ dropped' \subseteq Telemetry
      /\ counts' \in [outstanding : Nat, overflow : Nat, undelivered : Nat, claimed : BOOLEAN]
  BY <1>1, <1>4, <1>7, Dropping
<1>9. WorkerFits'
  BY <1>1, <1>6 DEF QueueInv, WorkerFits
<1>10. SdkTypeOK'
  <2>1. channel' \in Seq(Telemetry) /\ Len(channel') <= MaxQueue
    BY <1>1, <1>2, LineTypes, Elements, QueueAssumption DEF QueueInv, SdkTypeOK
  <2> QED
    BY <1>1, <1>6, <1>8, <2>1 DEF QueueInv, SdkTypeOK
<1> QED
  BY <1>8, <1>9, <1>10 DEF QueueInv

LEMMA TickKeeps == ASSUME QueueInv, Tick PROVE QueueInv'
<1>1. /\ UNCHANGED <<recorded, channel, heard, counts, dropped, confirmed, stopping, late, verdict>>
      /\ worker.pc = "idle"
      /\ pending' = Behind(pending)
      /\ worker' = [pc |-> "sending", batch |-> Batch(pending), attempt |-> 0]
  BY DEF Tick, Flush, shutdownVars
<1>2. worker.batch = <<>>
  BY <1>1 DEF QueueInv, WorkerFits
<1>3. Line' = Line
  <2>1. Line' = Batch(pending) \o (Behind(pending) \o channel)
    BY <1>1 DEF Line
  <2>2. Line = pending \o channel
    BY <1>2, LineTypes, EmptyIsUnit DEF Line
  <2> QED
    BY <2>1, <2>2, LineTypes, FlushLines
<1>4. EventsFit' /\ CountsFit'
  BY <1>1, <1>3, Keeping
<1>5. WorkerFits'
  BY <1>1 DEF WorkerFits, QueueInv
<1>6. SdkTypeOK'
  <2>1. pending' \in Seq(Telemetry)
    BY <1>1, LineTypes, Halves
  <2>2. worker' \in [pc : {"idle", "sending", "final", "done"}, batch : Seq(Telemetry),
                     attempt : 0 .. MaxAttempts - 1]
    BY <1>1, LineTypes, Halves, Attempts
  <2> QED
    BY <1>1, <2>1, <2>2 DEF SdkTypeOK, QueueInv
<1> QED
  BY <1>4, <1>5, <1>6 DEF QueueInv

LEMMA BeginShutdownKeeps == ASSUME QueueInv, BeginShutdown PROVE QueueInv'
<1> DEFINE lost == PushedOut(pending, channel)
           queue == Pushed(pending, channel)
<1>1. /\ UNCHANGED <<recorded, stopping, heard, late, confirmed>>
      /\ worker.pc = "idle" /\ stopping /\ channel' = <<>>
      /\ dropped' = dropped \cup ElementsOf(lost) /\ counts' = Overflowed(counts, Len(lost))
      /\ IF queue = <<>> THEN pending' = <<>> /\ Finish("ok")
         ELSE Flush("final", queue) /\ UNCHANGED verdict
  BY DEF BeginShutdown, Push
<1>2. worker.batch = <<>> /\ verdict # "ok"
  BY <1>1 DEF QueueInv, WorkerFits
<1>3. /\ lost \in Seq(Telemetry) /\ queue \in Seq(Telemetry)
      /\ lost \o queue = pending \o channel
  BY LineTypes, Pushes
<1> HIDE DEF lost, queue
<1>4. Line = lost \o queue
  BY <1>2, <1>3, LineTypes, EmptyIsUnit DEF Line
<1>5. <<>> \in Seq(Telemetry) /\ <<>> \o <<>> = <<>>
  BY EmptyIsUnit
<1>6. /\ pending' \in Seq(Telemetry) /\ Line' = queue /\ verdict' \in Verdicts
      /\ worker' \in [pc : {"final", "done"}, batch : Seq(Telemetry),
                      attempt : 0 .. MaxAttempts - 1]
      /\ worker'.pc = "done" => worker'.batch = <<>>
      /\ verdict' = "ok" => Line' = <<>> /\ worker'.pc = "done"
  <2>1. CASE queue = <<>>
    <3>1. pending' = <<>> /\ worker' = Done /\ verdict' \in {"ok", verdict}
      BY <1>1, <2>1 DEF Finish
    <3>2. Line' = <<>> \o (<<>> \o <<>>)
      BY <1>1, <3>1 DEF Line, Done
    <3> QED
      BY <1>5, <2>1, <3>1, <3>2, Attempts DEF Done, QueueInv, SdkTypeOK, Verdicts
  <2>2. CASE queue # <<>>
    <3>1. /\ pending' = Behind(queue) /\ verdict' = verdict
          /\ worker' = [pc |-> "final", batch |-> Batch(queue), attempt |-> 0]
      BY <1>1, <2>2 DEF Flush
    <3>2. Line' = Batch(queue) \o (Behind(queue) \o <<>>)
      BY <1>1, <3>1 DEF Line
    <3>3. Line' = queue
      BY <1>3, <3>2, Halves, EmptyIsUnit
    <3> QED
      BY <1>2, <1>3, <3>1, <3>3, Halves, Attempts DEF QueueInv, SdkTypeOK
  <2> QED
    BY <2>1, <2>2
<1>7. Line = lost \o Line' /\ Line' \in Seq(Telemetry)
  BY <1>3, <1>4, <1>6
<1>8. /\ EventsFit' /\ CountsFit' /\ dropped' \subseteq Telemetry
      /\ counts' \in [outstanding : Nat, overflow : Nat, undelivered : Nat, claimed : BOOLEAN]
  BY <1>1, <1>3, <1>7, Dropping
<1>9. WorkerFits'
  BY <1>1, <1>6 DEF QueueInv, WorkerFits
<1>10. SdkTypeOK'
  <2>1. channel' \in Seq(Telemetry) /\ Len(channel') <= MaxQueue
    BY <1>1, QueueAssumption
  <2> QED
    BY <1>1, <1>6, <1>8, <2>1 DEF QueueInv, SdkTypeOK
<1> QED
  BY <1>8, <1>9, <1>10 DEF QueueInv

(* The batch goes back to the front.                                         *)
LEMMA GiveUpKeeps ==
  ASSUME QueueInv, GiveUp, InFlight,
         UNCHANGED <<recorded, channel, stopping, late, dropped, confirmed>>,
         heard' \in BOOLEAN
  PROVE  QueueInv'
<1>1. pending' = worker.batch \o pending /\ worker.pc \in {"sending", "final"}
  BY DEF GiveUp, InFlight
<1>2. \/ /\ worker.pc = "final" /\ worker' = Done
         /\ verdict' \in {"failed", verdict} /\ counts' = Claimed(counts)
      \/ /\ worker.pc = "sending" /\ worker' = Idle /\ UNCHANGED <<verdict, counts>>
  BY <1>1 DEF GiveUp, Finish
<1>3. worker'.batch = <<>> /\ verdict # "ok"
  BY <1>1, <1>2 DEF Done, Idle, QueueInv, WorkerFits
<1>4. Line' = Line
  <2> DEFINE batch == worker.batch
  <2>1. /\ batch \in Seq(Telemetry) /\ pending' = batch \o pending /\ channel' = channel
        /\ Line = batch \o (pending \o channel)
    BY <1>1, LineTypes DEF Line
  <2> HIDE DEF batch
  <2>2. Line' = <<>> \o ((batch \o pending) \o channel)
    BY <1>3, <2>1 DEF Line
  <2>3. (batch \o pending) \o channel = batch \o (pending \o channel)
    BY <2>1, LineTypes, Associative
  <2> QED
    BY <2>1, <2>2, <2>3, LineTypes, EmptyIsUnit
<1>5. counts' = counts \/ (counts' = Claimed(counts) /\ stopping')
  BY <1>2 DEF QueueInv, WorkerFits
<1>6. EventsFit' /\ CountsFit'
        /\ counts' \in [outstanding : Nat, overflow : Nat, undelivered : Nat, claimed : BOOLEAN]
  BY <1>4, <1>5, Keeping
<1>7. WorkerFits'
  BY <1>2, <1>3 DEF Done, Idle, QueueInv, WorkerFits
<1>8. SdkTypeOK'
  <2>1. pending' \in Seq(Telemetry)
    BY <1>1, LineTypes, Joined
  <2>2. worker' \in [pc : {"idle", "sending", "final", "done"}, batch : Seq(Telemetry),
                     attempt : 0 .. MaxAttempts - 1]
    <3>1. <<>> \in Seq(Telemetry)
      OBVIOUS
    <3>2. worker' = Done \/ worker' = Idle
      BY <1>2
    <3>3. CASE worker' = Done
      BY <3>1, <3>3, Attempts DEF Done
    <3>4. CASE worker' = Idle
      BY <3>1, <3>4, Attempts DEF Idle
    <3> QED
      BY <3>2, <3>3, <3>4
  <2> QED
    BY <1>2, <1>6, <2>1, <2>2 DEF QueueInv, SdkTypeOK, Verdicts
<1> QED
  BY <1>6, <1>7, <1>8 DEF QueueInv

LEMMA SucceedKeeps ==
  ASSUME QueueInv, Succeed, InFlight,
         UNCHANGED <<recorded, channel, stopping, heard, late, dropped>>
  PROVE  QueueInv'
<1> DEFINE rest == pending \o channel
<1>1. /\ worker.pc \in {"sending", "final"}
      /\ confirmed' = confirmed \cup ElementsOf(worker.batch)
      /\ counts' = Delivered(counts, Len(worker.batch))
  BY DEF Succeed, InFlight
<1>2. verdict # "ok" /\ (worker.pc = "final" => channel = <<>> /\ stopping)
  BY <1>1 DEF QueueInv, WorkerFits
<1>3. rest \in Seq(Telemetry) /\ Line = worker.batch \o rest
  BY LineTypes DEF Line
<1>4. /\ pending' \in Seq(Telemetry) /\ Line' = rest /\ verdict' \in Verdicts
      /\ worker' \in [pc : {"idle", "final", "done"}, batch : Seq(Telemetry),
                      attempt : 0 .. MaxAttempts - 1]
      /\ worker'.pc \in {"idle", "done"} => worker'.batch = <<>>
      /\ worker'.pc \in {"final", "done"} => worker.pc = "final"
      /\ verdict' = "ok" => rest = <<>> /\ worker'.pc = "done"
  <2>1. CASE worker.pc = "sending"
    <3>1. worker' = Idle /\ pending' = pending /\ verdict' = verdict
      BY <2>1 DEF Succeed
    <3>2. Line' = <<>> \o rest
      BY <3>1 DEF Line, Idle
    <3> QED
      BY <1>2, <1>3, <3>1, <3>2, LineTypes, EmptyIsUnit, Attempts DEF Idle, QueueInv, SdkTypeOK
  <2>2. CASE worker.pc = "final" /\ pending = <<>>
    <3>1. worker' = Done /\ pending' = pending /\ verdict' \in {"ok", verdict}
      BY <2>2 DEF Succeed, Finish
    <3>2. rest = <<>> \o <<>> /\ Line' = <<>> \o rest
      BY <1>2, <2>2, <3>1 DEF Line, Done
    <3>3. rest = <<>>
      BY <3>2, EmptyIsUnit
    <3> QED
      BY <1>2, <1>3, <2>2, <3>1, <3>2, <3>3, LineTypes, EmptyIsUnit, Attempts
      DEF Done, QueueInv, SdkTypeOK, Verdicts
  <2>3. CASE worker.pc = "final" /\ pending # <<>>
    <3>1. /\ pending' = Behind(pending) /\ verdict' = verdict
          /\ worker' = [pc |-> "final", batch |-> Batch(pending), attempt |-> 0]
      BY <2>3 DEF Succeed, Flush
    <3>2. Line' = Batch(pending) \o (Behind(pending) \o channel)
      BY <3>1 DEF Line
    <3>3. Line' = rest
      BY <3>2, LineTypes, FlushLines
    <3> QED
      BY <1>2, <2>3, <3>1, <3>3, LineTypes, Halves, Attempts DEF QueueInv, SdkTypeOK
  <2> QED
    BY <1>1, <2>1, <2>2, <2>3
<1>5. Line' \in Seq(Telemetry) /\ Line = worker.batch \o Line'
  BY <1>3, <1>4
<1>6. /\ EventsFit' /\ CountsFit' /\ confirmed' \subseteq Telemetry
      /\ counts' \in [outstanding : Nat, overflow : Nat, undelivered : Nat, claimed : BOOLEAN]
  BY <1>1, <1>5, Confirming
<1>7. WorkerFits'
  BY <1>2, <1>4 DEF QueueInv, WorkerFits
<1>8. SdkTypeOK'
  BY <1>4, <1>6 DEF QueueInv, SdkTypeOK
<1> QED
  BY <1>6, <1>7, <1>8 DEF QueueInv

LEMMA RetryKeeps ==
  ASSUME QueueInv, Retry, InFlight, worker.attempt + 1 < MaxAttempts,
         UNCHANGED <<recorded, channel, stopping, heard, late, dropped, confirmed>>
  PROVE  QueueInv'
<1>1. /\ pending' = pending /\ verdict' = verdict /\ counts' = counts
      /\ worker' = [pc |-> worker.pc, batch |-> worker.batch, attempt |-> worker.attempt + 1]
  BY DEF Retry, QueueInv, SdkTypeOK
<1>2. Line' = Line
  BY <1>1 DEF Line
<1>3. EventsFit' /\ CountsFit'
  BY <1>1, <1>2, Keeping
<1>4. WorkerFits'
  BY <1>1, <1>2 DEF QueueInv, WorkerFits
<1>5. SdkTypeOK'
  <2>1. worker' \in [pc : {"idle", "sending", "final", "done"}, batch : Seq(Telemetry),
                     attempt : 0 .. MaxAttempts - 1]
    BY <1>1, QueueAssumption DEF QueueInv, SdkTypeOK
  <2> QED
    BY <1>1, <2>1 DEF QueueInv, SdkTypeOK
<1> QED
  BY <1>3, <1>4, <1>5 DEF QueueInv

LEMMA AnswerKeeps ==
  ASSUME QueueInv, NEW outcome, Answer(outcome)
  PROVE  QueueInv'
<1>1. InFlight /\ UNCHANGED <<recorded, channel, stopping, heard, late, dropped>>
  BY DEF Answer, Listening
<1>2. heard' \in BOOLEAN
  BY <1>1 DEF QueueInv, SdkTypeOK
<1>3. \/ Succeed
      \/ UNCHANGED confirmed /\ worker.attempt + 1 < MaxAttempts /\ Retry
      \/ UNCHANGED confirmed /\ GiveUp
  BY DEF Answer
<1> QED
  BY <1>1, <1>2, <1>3, SucceedKeeps, RetryKeeps, GiveUpKeeps

LEMMA StopWaitingKeeps ==
  ASSUME QueueInv, Abandon \/ FlushTimesOut
  PROVE  QueueInv'
<1>1. /\ GiveUp /\ InFlight
      /\ UNCHANGED <<recorded, channel, stopping, late, dropped, confirmed>>
      /\ heard' \in BOOLEAN
  BY DEF Abandon, FlushTimesOut, InFlight, QueueInv, SdkTypeOK
<1> QED
  BY <1>1, GiveUpKeeps

LEMMA QueueSteps == QueueInv /\ [SdkNext]_sdkVars => QueueInv'
<1> SUFFICES ASSUME QueueInv, [SdkNext]_sdkVars PROVE QueueInv'
  OBVIOUS
<1>1. CASE \E e \in Telemetry : Record(e)
  BY <1>1, RecordKeeps
<1>2. CASE Shutdown \/ DeadlinePasses \/ ShutdownTimesOut
  BY <1>2, ShutdownKeeps
<1>3. CASE Take
  BY <1>3, TakeKeeps
<1>4. CASE Tick
  BY <1>4, TickKeeps
<1>5. CASE BeginShutdown
  BY <1>5, BeginShutdownKeeps
<1>6. CASE Abandon \/ FlushTimesOut
  BY <1>6, StopWaitingKeeps
<1>7. CASE \E outcome \in Outcomes : Answer(outcome)
  BY <1>7, AnswerKeeps
<1>8. CASE UNCHANGED sdkVars
  <2>1. /\ UNCHANGED <<recorded, channel, pending, worker, stopping, heard, late, verdict>>
        /\ UNCHANGED <<counts, dropped, confirmed>>
    BY <1>8 DEF sdkVars
  <2> QED
    BY <2>1 DEF QueueInv, SdkTypeOK, EventsFit, CountsFit, WorkerFits, Line, Distinct
<1> QED
  BY <1>1, <1>2, <1>3, <1>4, <1>5, <1>6, <1>7, <1>8 DEF SdkNext, SdkStep

-----------------------------------------------------------------------------
LEMMA PathSteps == QueueInv /\ [Next]_vars => QueueInv'
<1> SUFFICES ASSUME QueueInv, [Next]_vars PROVE QueueInv'
  OBVIOUS
<1>1. [SdkNext]_sdkVars
  <2>1. CASE SdkStep
    BY <2>1 DEF SdkNext
  <2>2. CASE Deliver
    BY <2>2 DEF Deliver, Answered, AnswerLost, Unstored, AttemptTimesOut, StopWaiting, SdkNext,
                Outcomes, Receipt
  <2>3. CASE \E batch \in wire : Arrive(batch)
    BY <2>3 DEF Arrive
  <2>4. CASE UNCHANGED vars
    BY <2>4 DEF vars
  <2> QED
    BY <2>1, <2>2, <2>3, <2>4 DEF Next
<1> QED
  BY <1>1, QueueSteps

(* What the events come to: nothing is recorded, neither confirmed nor        *)
(* counted.                                                                  *)
LEMMA QueueCounts == QueueInv => NothingLostSilently
<1> SUFFICES ASSUME QueueInv PROVE NothingLostSilently
  OBVIOUS
<1>1. Held = ElementsOf(Line)
  <2>1. ElementsOf(pending \o channel) = ElementsOf(pending) \cup ElementsOf(channel)
    BY LineTypes, Joined
  <2>2. ElementsOf(Line) = ElementsOf(worker.batch) \cup ElementsOf(pending \o channel)
    BY LineTypes, Joined DEF Line
  <2> QED
    BY <2>1, <2>2 DEF Held
<1>2. /\ Cardinality(ElementsOf(Line)) = Len(Line) /\ IsFiniteSet(ElementsOf(Line))
      /\ ElementsOf(Line) \cap dropped = {}
      /\ recorded \ confirmed = ElementsOf(Line) \cup dropped
  BY LineTypes, Elements DEF QueueInv, EventsFit, Distinct
<1>3. Cardinality(recorded \ confirmed) = Len(Line) + Cardinality(dropped)
  <2>1. Cardinality(ElementsOf(Line) \cap dropped) = 0
    BY <1>2, FS_EmptySet, Zenon
  <2>2. Cardinality(ElementsOf(Line) \cup dropped) =
          Cardinality(ElementsOf(Line)) + Cardinality(dropped)
            - Cardinality(ElementsOf(Line) \cap dropped)
    BY <1>2, LineTypes, FS_Union
  <2>3. Cardinality(recorded \ confirmed) = Cardinality(ElementsOf(Line) \cup dropped)
    BY <1>2
  <2> QED
    BY ONLY <1>2, <2>1, <2>2, <2>3, LineTypes, QueueInv
<1>4. LossIsCounted
  BY <1>1, <1>2, <1>3, LineTypes DEF QueueInv, CountsFit, LossIsCounted
<1>5. OkMeansFlushed
  <2> SUFFICES ASSUME verdict = "ok" PROVE recorded = confirmed \cup dropped
    BY DEF OkMeansFlushed
  <2>1. ElementsOf(Line) = {}
    BY NoElements DEF QueueInv, WorkerFits
  <2> QED
    BY <2>1 DEF QueueInv, EventsFit
<1> QED
  BY <1>4, <1>5 DEF NothingLostSilently

(* Every event recorded is confirmed, counted as lost or on its way, and a    *)
(* shutdown that says ok left none behind, for any queue, batch, number of   *)
(* attempts and time of the shutdown.                                        *)
THEOREM LossesAreCounted == Spec => []NothingLostSilently
<1>1. Init => QueueInv
  BY QueueBegins DEF Init
<1> QED
  BY <1>1, QueueCounts, PathSteps, PTL DEF Spec

-----------------------------------------------------------------------------
(* The rows, whatever arrives, and however often or late.                    *)

(* What a confirmed event leaves in the rows.                                *)
ConfirmedLasts(r, events) ==
    \A e \in events : /\ Lasting(r, e)
                      /\ e.session # NoSession => r.filed[e.id] # NoKey

RowsInv ==
    /\ rows \in Rows
    /\ wire \subseteq Seq(Telemetry)
    /\ Filed(rows)
    /\ LateOnly(rows, Telemetry)
    /\ ConfirmedLasts(rows, confirmed)

PathInv == QueueInv /\ RowsInv

LEMMA TelemetryAreEvents ==
  ASSUME NEW batch \in Seq(Telemetry)
  PROVE  batch \in Seq(Event) /\ Telemetry \in SUBSET Event
BY PathAssumption

LEMMA PathBegins == Init => PathInv
<1> SUFFICES ASSUME Init PROVE PathInv
  OBVIOUS
<1>1. QueueInv /\ confirmed = {}
  BY QueueBegins DEF Init, SdkInit
<1>2. /\ rows.into \in [Visitors -> KnownCustomers \cup {NoOne}]
      /\ rows.parent \in [Users -> Accounts \cup {NoOne}]
      /\ rows.stored \in SUBSET Interactions /\ rows.sessions \in SUBSET Session
      /\ rows.owner \in [Interactions -> Owners]
      /\ rows.filed \in [Interactions -> Session \cup {NoKey}]
      /\ rows = [into |-> rows.into, parent |-> rows.parent, stored |-> rows.stored,
                 owner |-> rows.owner, filed |-> rows.filed, sessions |-> rows.sessions]
  BY DEF Init, NoRows, Owners
<1>3. rows \in Rows
  <2>1. PICK r : r = rows
    OBVIOUS
  <2>2. [into |-> r.into, parent |-> r.parent, stored |-> r.stored, owner |-> r.owner,
         filed |-> r.filed, sessions |-> r.sessions] \in Rows
    BY <1>2, <2>1, RowsAre
  <2> QED
    BY <1>2, <2>1, <2>2, Zenon
<1>4. \A i \in Interactions : rows.filed[i] = NoKey /\ rows.owner[i] = NoOne
  BY DEF Init, NoRows
<1>5. Filed(rows) /\ LateOnly(rows, Telemetry)
  BY <1>4, Names DEF Filed, LateOnly
<1> QED
  BY <1>1, <1>3, <1>5 DEF PathInv, RowsInv, ConfirmedLasts, Init

(* The rows of a confirmed event only resolve.                               *)
LEMMA ConfirmedStays ==
  ASSUME NEW r \in Rows, NEW s \in Rows, Resolves(r, s), NEW events \in SUBSET Event,
         ConfirmedLasts(r, events)
  PROVE  ConfirmedLasts(s, events)
<1> SUFFICES ASSUME NEW e \in events
             PROVE  Lasting(s, e) /\ (e.session # NoSession => s.filed[e.id] # NoKey)
  BY DEF ConfirmedLasts
<1>1. e \in Event /\ e.id \in Interactions
  BY EventType
<1>2. Lasting(r, e) /\ (e.session # NoSession => r.filed[e.id] # NoKey)
  BY DEF ConfirmedLasts
<1>3. Lasting(s, e)
  BY <1>1, <1>2, LastingOn
<1>4. e.session # NoSession => s.filed[e.id] # NoKey
  BY <1>1, <1>2 DEF Resolves
<1> QED
  BY <1>3, <1>4

(* What a step does to the rows and to what is confirmed.                     *)
LEMMA PathMoves ==
  ASSUME QueueInv, RowsInv, [Next]_vars
  PROVE  /\ wire' \subseteq wire \cup {worker.batch}
         /\ \/ rows' = rows /\ confirmed' = confirmed
            \/ \E batch \in wire \cup {worker.batch} :
                  /\ rows' = Ingest(rows, batch).rows
                  /\ \/ confirmed' = confirmed
                     \/ /\ Ingest(rows, batch).dropped = 0
                        /\ confirmed' = confirmed \cup ElementsOf(batch)
<1>1. CASE SdkStep /\ UNCHANGED <<rows, wire>>
  <2>1. confirmed' = confirmed
    BY <1>1 DEF SdkStep, Record, Shutdown, DeadlinePasses, ShutdownTimesOut, Take, Tick,
                BeginShutdown
  <2> QED
    BY <1>1, <2>1
<1>2. CASE Answered
  <2>1. PICK result : result = Ingest(rows, worker.batch)
    OBVIOUS
  <2>2. rows' = result.rows /\ wire' = wire /\ Answer(Receipt(result))
    BY <1>2, <2>1 DEF Answered
  <2>3. CASE result.dropped = 0
    <3>1. \/ confirmed' = confirmed
          \/ confirmed' = confirmed \cup ElementsOf(worker.batch)
      BY <2>2 DEF Answer, Succeed
    <3> QED
      BY <2>1, <2>2, <2>3, <3>1
  <2>4. CASE result.dropped # 0
    <3>1. Receipt(result) = "terminal"
      BY <2>4 DEF Receipt
    <3>2. confirmed' = confirmed
      BY <2>2, <3>1 DEF Answer
    <3> QED
      BY <2>1, <2>2, <3>2
  <2> QED
    BY <2>3, <2>4
<1>3. CASE AnswerLost
  BY <1>3 DEF AnswerLost, Answer
<1>4. CASE Unstored
  BY <1>4 DEF Unstored, Answer
<1>5. CASE AttemptTimesOut
  BY <1>5 DEF AttemptTimesOut, Answer, Delay
<1>6. CASE StopWaiting
  BY <1>6 DEF StopWaiting, Delay, Abandon, FlushTimesOut
<1>7. CASE \E batch \in wire : Arrive(batch)
  BY <1>7 DEF Arrive, sdkVars
<1>8. CASE UNCHANGED vars
  BY <1>8 DEF vars, sdkVars
<1> QED
  BY <1>1, <1>2, <1>3, <1>4, <1>5, <1>6, <1>7, <1>8 DEF Next, Deliver

LEMMA RowsStep ==
  ASSUME QueueInv, RowsInv, [Next]_vars
  PROVE  RowsInv' /\ Resolves(rows, rows')
<1>1. /\ wire' \subseteq wire \cup {worker.batch}
      /\ \/ rows' = rows /\ confirmed' = confirmed
         \/ \E batch \in wire \cup {worker.batch} :
               /\ rows' = Ingest(rows, batch).rows
               /\ \/ confirmed' = confirmed
                  \/ /\ Ingest(rows, batch).dropped = 0
                     /\ confirmed' = confirmed \cup ElementsOf(batch)
  BY PathMoves
<1>2. /\ worker.batch \in Seq(Telemetry) /\ wire \subseteq Seq(Telemetry)
      /\ rows \in Rows /\ confirmed \in SUBSET Event
  BY PathAssumption DEF QueueInv, SdkTypeOK, RowsInv
<1>3. wire' \subseteq Seq(Telemetry)
  BY <1>1, <1>2
<1>4. CASE rows' = rows /\ confirmed' = confirmed
  BY <1>2, <1>3, <1>4, ResolvesAlone DEF RowsInv, Filed, LateOnly, ConfirmedLasts
<1>5. ASSUME NEW batch \in wire \cup {worker.batch},
             rows' = Ingest(rows, batch).rows,
             \/ confirmed' = confirmed
             \/ /\ Ingest(rows, batch).dropped = 0
                /\ confirmed' = confirmed \cup ElementsOf(batch)
      PROVE  RowsInv' /\ Resolves(rows, rows')
  <2>1. batch \in Seq(Telemetry)
    BY <1>2
  <2>2. batch \in Seq(Event) /\ Telemetry \in SUBSET Event
    BY <2>1, TelemetryAreEvents
  <2>3. PICK x : x = Ingest(rows, batch).rows
    OBVIOUS
  <2>4. Filed(rows) /\ LateOnly(rows, Telemetry) /\ ConfirmedLasts(rows, confirmed)
    BY DEF RowsInv
  <2>5. x \in Rows /\ Resolves(rows, x) /\ Filed(x)
    BY <1>2, <2>2, <2>3, <2>4, IngestKeeps
  <2>6. LateOnly(x, Telemetry)
    BY <1>2, <2>1, <2>2, <2>3, <2>4, IngestKeeps
  <2>7. ConfirmedLasts(x, confirmed)
    BY <1>2, <2>4, <2>5, ConfirmedStays
  <2>8. ASSUME Ingest(rows, batch).dropped = 0 PROVE ConfirmedLasts(x, ElementsOf(batch))
    <3> SUFFICES ASSUME NEW e \in ElementsOf(batch)
                 PROVE  Lasting(x, e) /\ (e.session # NoSession => x.filed[e.id] # NoKey)
      BY DEF ConfirmedLasts
    <3>1. PICK n \in DOMAIN batch : e = batch[n]
      BY <2>1 DEF ElementsOf
    <3> QED
      BY <1>2, <2>2, <2>3, <2>4, <2>8, <3>1, FullIngest
  <2>9. ConfirmedLasts(x, confirmed')
    BY <1>5, <2>7, <2>8 DEF ConfirmedLasts
  <2>10. rows' = x
    BY <1>5, <2>3
  <2> QED
    BY <1>3, <2>5, <2>6, <2>9, <2>10 DEF RowsInv, Filed, LateOnly, ConfirmedLasts
<1> QED
  BY <1>1, <1>4, <1>5

LEMMA PathKeeps == PathInv /\ [Next]_vars => PathInv' /\ Resolves(rows, rows')
BY PathSteps, RowsStep DEF PathInv

LEMMA ResolvingSteps ==
  ASSUME PathInv, PathInv', Resolves(rows, rows')
  PROVE  /\ \A i \in Interactions :
               rows'.owner[i] # rows.owner[i] =>
                  \/ rows.owner[i] = NoOne
                  \/ rows.owner[i] \in Visitors /\ rows'.owner[i] = rows'.into[rows.owner[i]]
         /\ \A v \in Visitors : rows.into[v] # NoOne => rows'.into[v] = rows.into[v]
         /\ \A u \in Users : rows.parent[u] # NoOne => rows'.parent[u] = rows.parent[u]
<1>1. rows \in Rows
  BY DEF PathInv, RowsInv
<1>2. ASSUME NEW i \in Interactions, rows'.owner[i] # rows.owner[i], rows.owner[i] # NoOne
      PROVE  rows.owner[i] \in Visitors /\ rows'.owner[i] = rows'.into[rows.owner[i]]
  <2>1. rows.owner[i] \in KnownCustomers \cup Visitors
    BY <1>1, <1>2, RowsType, Names
  <2>2. OwnerResolves(rows, rows', i)
    BY DEF Resolves
  <2>3. rows.owner[i] \in Visitors
    BY <1>2, <2>1, <2>2 DEF OwnerResolves
  <2>4. rows'.owner[i] = Canonical(rows', rows.owner[i])
    BY <1>2, <2>2, <2>3 DEF OwnerResolves
  <2> QED
    BY <1>2, <2>3, <2>4 DEF Canonical
<1> QED
  BY <1>2 DEF Resolves

LEMMA PathSays ==
  ASSUME PathInv
  PROVE  /\ TypeOK
         /\ ConfirmedIsStored /\ SessionFollowsCustomer /\ MergeLeavesOnlyLateClaims
         /\ RedeliveryIsHarmless /\ OneByOne
<1>1. /\ rows \in Rows /\ wire \subseteq Seq(Telemetry) /\ Filed(rows)
      /\ LateOnly(rows, Telemetry) /\ ConfirmedLasts(rows, confirmed)
  BY DEF PathInv, RowsInv
<1>2. TypeOK
  BY <1>1, RowsType DEF TypeOK, PathInv, QueueInv
<1>3. ConfirmedIsStored
  BY <1>1 DEF ConfirmedIsStored, ConfirmedLasts, Lasting
<1>4. SessionFollowsCustomer /\ MergeLeavesOnlyLateClaims
  BY <1>1 DEF SessionFollowsCustomer, Filed, MergeLeavesOnlyLateClaims, LateOnly
<1>5. RedeliveryIsHarmless
  <2>1. ASSUME NEW batch \in Batches, Ingest(rows, batch).dropped = 0
        PROVE  Ingest(Ingest(rows, batch).rows, batch).rows = Ingest(rows, batch).rows
    <3>1. batch \in Seq(Telemetry)
      <4>1. CASE batch \in {<<e>> : e \in Telemetry}
        <5>1. PICK e \in Telemetry : batch = <<e>>
          BY <4>1
        <5> QED
          BY <5>1
      <4>2. CASE batch \notin {<<e>> : e \in Telemetry}
        <5>1. PICK e \in Telemetry, f \in Telemetry : batch = <<e, f>>
          BY <4>2 DEF Batches
        <5> QED
          BY <5>1
      <4> QED
        BY <4>1, <4>2
    <3>2. batch \in Seq(Event)
      BY <3>1, TelemetryAreEvents
    <3> QED
      BY <1>1, <2>1, <3>2, IngestAgain
  <2> QED
    BY <2>1, Zenon DEF RedeliveryIsHarmless
<1>6. OneByOne
  BY <1>1, IngestSingle, PathAssumption DEF OneByOne
<1> QED
  BY <1>2, <1>3, <1>4, <1>5, <1>6

(* The queue of the SDK, the rows and the requests on their way are typed.     *)
THEOREM PathTyped == Spec => []TypeOK
<1>1. PathInv /\ [Next]_vars => PathInv'
  BY PathKeeps
<1>2. PathInv => TypeOK
  BY PathSays
<1> QED
  BY <1>1, <1>2, PathBegins, PTL DEF Spec

(* For any references, events and batches, whatever the network loses,        *)
(* repeats and delays: what was confirmed is in the rows, with the customer    *)
(* its references name and in that customer's session, a merge leaves nothing *)
(* but late claims, a batch that was accepted in full changes nothing when it  *)
(* comes again, and no step but a merge or a claim gives an owner another one. *)
THEOREM IdentityIsKept == Spec => IdentityHolds
<1> DEFINE Facts == /\ ConfirmedIsStored /\ SessionFollowsCustomer
                    /\ MergeLeavesOnlyLateClaims /\ RedeliveryIsHarmless /\ OneByOne
           Resolving ==
             /\ \A i \in Interactions :
                   rows'.owner[i] # rows.owner[i] =>
                      \/ rows.owner[i] = NoOne
                      \/ rows.owner[i] \in Visitors /\ rows'.owner[i] = rows'.into[rows.owner[i]]
             /\ \A v \in Visitors : rows.into[v] # NoOne => rows'.into[v] = rows.into[v]
             /\ \A u \in Users : rows.parent[u] # NoOne => rows'.parent[u] = rows.parent[u]
<1>1. PathInv /\ [Next]_vars => PathInv'
  BY PathKeeps
<1>2. PathInv /\ [Next]_vars => [Resolving]_vars
  BY PathKeeps, ResolvingSteps
<1>3. PathInv => Facts
  BY PathSays
<1> QED
  BY <1>1, <1>2, <1>3, PathBegins, PTL DEF Spec, IdentityHolds, OwnersOnlyResolve

-----------------------------------------------------------------------------
(* The middleware.                                                           *)

USE MiddlewareAssumption, NoneAssumption

LEMMA Bounds == /\ Ttl \in Nat /\ Timeout \in Nat /\ Slots \in Nat
                /\ LastTick \in Nat /\ MaxChanges \in Nat
OBVIOUS

LEMMA NoneIsNone == None \notin Envelope /\ None # "ask_once"
BY DEF FeedbackModes

(* A change of a subject carries the time it was made.                       *)
HistoryInv ==
    \A c \in Clients :
        /\ Len(history[c]) <= MaxChanges
        /\ \A i \in 1 .. Len(history[c]) : history[c][i].at <= tick

(* What was found is a revision of the subject, and was the last one until    *)
(* less than a grace before the given time.                                  *)
TrueUntil(c, found, until, grace) ==
    /\ found.revision <= Len(history[c])
    /\ found.state = history[c][found.revision].state
    /\ found.revision < Len(history[c]) =>
          until <= history[c][found.revision + 1].at + grace

KnownInv ==
    \A c \in Clients : known[c] # None =>
        /\ known[c].until <= tick + Ttl
        /\ TrueUntil(c, known[c].found, known[c].until, Timeout + Ttl)

RunningInv ==
    \A c \in Clients : running[c] # None =>
        /\ running[c].deadline <= tick + Timeout
        /\ running[c].found # None =>
              TrueUntil(c, running[c].found, running[c].deadline, Timeout)

(* What is kept of an answer does not hide the envelope of who opts in.      *)
StoredInv ==
    \A entry \in shared :
        options.cache = "request" /\ Enabled =>
            /\ entry.answer.vary = ~entry.answer.page.encoded
            /\ entry.optIn => ~Instrumentable(entry.answer.page, "GET")
            /\ entry.answer.invites =>
                  /\ entry.answer.page.whole /\ ~entry.answer.page.encoded
                  /\ entry.answer.page.kind # "text"

MiddlewareInv ==
    /\ MiddlewareTypeOK
    /\ HistoryInv /\ KnownInv /\ RunningInv
    /\ NoSharedHandle /\ StoredInv
    /\ SlotsHold

-----------------------------------------------------------------------------
(* What is answered.                                                         *)

LEMMA ConsentType ==
  ASSUME MiddlewareTypeOK, NEW c \in Clients
  PROVE  /\ CachedConsent(c).state \in {"approved", "declined", "unknown"}
         /\ CachedConsent(c).revision \in 0 .. MaxChanges
<1>1. CASE options.feedback = "ask_once" /\ c \notin Anonymous /\ Fresh(c)
  <2>1. CachedConsent(c) = known[c].found
    BY <1>1 DEF CachedConsent
  <2>2. known[c] \in Cached
    BY <1>1 DEF Fresh, MiddlewareTypeOK
  <2> QED
    BY <2>1, <2>2 DEF Cached, Snapshot
<1>2. CASE ~(options.feedback = "ask_once" /\ c \notin Anonymous /\ Fresh(c))
  BY <1>2 DEF CachedConsent
<1> QED
  BY <1>1, <1>2

LEMMA PreparedType ==
  ASSUME MiddlewareTypeOK, NEW c \in Clients
  PROVE  Prepared(c) \in Envelope
<1> DEFINE effective == IF options.feedback = "ask_once" /\ c \in Anonymous THEN "ask_always"
                        ELSE options.feedback
<1>1. options.feedback \in FeedbackModes /\ effective \in FeedbackModes
  BY DEF MiddlewareTypeOK, FeedbackModes
<1>2. \A state \in {"feedback_disabled", "consent_required", "feedback_ready"},
         mode \in FeedbackModes, configured \in FeedbackModes \cup {None},
         manages \in {"approved", "declined", None}, revision \in 0 .. MaxChanges :
           Told(state, mode, configured, manages, revision) \in Envelope
  BY DEF Told, Envelope
<1>3. CachedConsent(c).revision \in 0 .. MaxChanges /\ 0 \in 0 .. MaxChanges
  BY ConsentType
<1>4. {"ask_once", "never_ask"} \subseteq FeedbackModes
  BY DEF FeedbackModes
<1> HIDE DEF effective
<1>5. Prepared(c) \in
        {Told("feedback_disabled", "ask_once", "ask_once", "declined", CachedConsent(c).revision),
         Told("consent_required", effective, options.feedback, None, 0),
         Told("feedback_ready", "never_ask",
              IF options.feedback = "never_ask" THEN None ELSE options.feedback,
              IF options.feedback = "ask_once" THEN "approved" ELSE None,
              CachedConsent(c).revision)}
  BY DEF Prepared, effective
<1> QED
  BY <1>1, <1>2, <1>3, <1>4, <1>5

(* What AgentFeedbackService::call makes of an answer of the product.        *)
LEMMA AnswerFacts ==
  ASSUME MiddlewareTypeOK,
         NEW c \in Clients, NEW page \in Pages, NEW method \in Methods, NEW optIn \in BOOLEAN,
         NEW answer, answer = ResponseTo(c, page, method, optIn)
  PROVE  /\ answer \in Response
         /\ answer.page = page
         /\ answer.envelope # None => answer.policy = "private"
         /\ options.cache = "request" /\ Enabled =>
              /\ answer.vary = ~page.encoded
              /\ optIn /\ Instrumentable(page, method) => answer.envelope # None
              /\ answer.invites => page.whole /\ ~page.encoded /\ page.kind # "text"
<1>1. Plain(page) \in Response /\ Plain(page).page = page /\ Plain(page).envelope = None
      /\ ~Plain(page).invites
  BY DEF Plain, Response
<1>2. PICK plain : plain = Plain(page)
  OBVIOUS
<1>3. PICK envelope \in Envelope : envelope = Prepared(c)
  BY PreparedType
<1>4. Instrumentable(page, method) =>
        Instrumented(c, page, method) =
          [page |-> page, envelope |-> envelope, vary |-> FALSE, policy |-> "private",
           invites |-> FALSE]
  BY <1>3 DEF Instrumented, MadePrivate, WithEnvelope, Plain
<1>5. ~Instrumentable(page, method) => Instrumented(c, page, method) = Plain(page)
  BY DEF Instrumented
<1>6. PICK told : told = Instrumented(c, page, method)
  OBVIOUS
<1>7. /\ told \in Response /\ told.page = page /\ ~told.invites
      /\ told.envelope # None => told.policy = "private"
      /\ Instrumentable(page, method) => told.envelope # None
  <2>1. CASE Instrumentable(page, method)
    <3>1. envelope # None
      OBVIOUS
    <3>2. told = [page |-> page, envelope |-> envelope, vary |-> FALSE, policy |-> "private",
                  invites |-> FALSE]
      BY <2>1, <1>4, <1>6
    <3>3. told \in Response
      BY <3>2 DEF Response
    <3> QED
      BY ONLY <3>1, <3>2, <3>3
  <2>2. CASE ~Instrumentable(page, method)
    BY <2>2, <1>5, <1>6, <1>1
  <2> QED
    BY <2>1, <2>2
<1>8. CASE ~Enabled
  BY <1>8, <1>1 DEF ResponseTo
<1>9. CASE Enabled /\ options.cache = "request" /\ ~optIn
  <2>1. answer = [page |-> page, envelope |-> None, vary |-> ~page.encoded,
                  policy |-> page.policy,
                  invites |-> page.whole /\ ~page.encoded /\ page.kind # "text"]
    BY <1>9 DEF ResponseTo, Invited, Varied, Plain
  <2> QED
    BY <2>1, <1>9 DEF Response
<1>10. CASE Enabled /\ options.cache = "request" /\ optIn
  <2>1. answer = [told EXCEPT !.vary = ~told.page.encoded]
    BY <1>10, <1>6 DEF ResponseTo, Varied
  <2>2. answer = [page |-> told.page, envelope |-> told.envelope, vary |-> ~page.encoded,
                  policy |-> told.policy, invites |-> told.invites]
    BY <2>1, <1>7 DEF Response
  <2>3. (~page.encoded) \in BOOLEAN
    OBVIOUS
  <2>4. answer \in Response
    BY <2>2, <2>3, <1>7 DEF Response
  <2> QED
    BY <2>2, <2>4, <1>7, <1>10
<1>11. CASE Enabled /\ options.cache # "request"
  <2>1. answer = told
    BY <1>11, <1>6 DEF ResponseTo
  <2> QED
    BY <2>1, <1>7, <1>11
<1> QED
  BY <1>8, <1>9, <1>10, <1>11

-----------------------------------------------------------------------------
(* The invariant says what is promised.                                      *)

(* A decision that an envelope states comes from the cache, while fresh.     *)
LEMMA StatesKnown ==
  ASSUME MiddlewareTypeOK, KnownInv, NEW c \in Clients, CachedConsent(c).revision > 0
  PROVE  /\ options.feedback = "ask_once" /\ c \notin Anonymous
         /\ known[c] # None /\ CachedConsent(c) = known[c].found
         /\ known[c].found \in Snapshot /\ known[c].until \in Nat /\ tick < known[c].until
         /\ TrueUntil(c, known[c].found, known[c].until, Timeout + Ttl)
<1>1. options.feedback = "ask_once" /\ c \notin Anonymous /\ Fresh(c)
  BY DEF CachedConsent
<1>2. known[c] \in Cached /\ known[c] # None /\ tick < known[c].until
  BY <1>1 DEF Fresh, MiddlewareTypeOK
<1>3. CachedConsent(c) = known[c].found
  BY <1>1 DEF CachedConsent
<1> QED
  BY <1>1, <1>2, <1>3 DEF KnownInv, Cached

(* The type of an entry of a sequence.                                       *)
LEMMA AtType ==
  ASSUME NEW S, NEW s \in Seq(S), NEW i \in 1 .. Len(s)
  PROVE  s[i] \in S
OBVIOUS

(* So is that of an entry that is appended.                                  *)
LEMMA AppendType ==
  ASSUME NEW S, NEW s \in Seq(S), NEW x \in S
  PROVE  Append(s, x) \in Seq(S)
OBVIOUS

(* The time of a change.                                                     *)
LEMMA ChangedAt ==
  ASSUME MiddlewareTypeOK, NEW c \in Clients, NEW i \in 1 .. Len(history[c])
  PROVE  history[c][i].at \in 0 .. LastTick
<1>1. history[c] \in Seq([state : {"approved", "declined"}, at : 0 .. LastTick])
  BY DEF MiddlewareTypeOK
<1>2. history[c][i] \in [state : {"approved", "declined"}, at : 0 .. LastTick]
  BY ONLY <1>1, AtType, i \in 1 .. Len(history[c])
<1> QED
  BY <1>2

LEMMA Recent ==
  ASSUME MiddlewareTypeOK, HistoryInv, KnownInv
  PROVE  ConsentIsRecent
<1> SUFFICES ASSUME NEW c \in Clients, Prepared(c).revision > 0
             PROVE  /\ history[c][Prepared(c).revision].state = Prepared(c).manages
                    /\ Prepared(c).revision < Len(history[c]) =>
                          tick < history[c][Prepared(c).revision + 1].at + Timeout + Ttl
  BY DEF ConsentIsRecent
<1>1. CachedConsent(c).revision > 0 /\ Prepared(c).revision = CachedConsent(c).revision
  BY DEF Prepared, Told
<1>2. /\ options.feedback = "ask_once" /\ c \notin Anonymous
      /\ CachedConsent(c) = known[c].found
      /\ known[c].found \in Snapshot /\ known[c].until \in Nat /\ tick < known[c].until
      /\ TrueUntil(c, known[c].found, known[c].until, Timeout + Ttl)
  BY <1>1, StatesKnown
<1>3. known[c].found.revision \in 1 .. MaxChanges /\ known[c].found.state \in {"approved", "declined"}
  BY <1>2 DEF Snapshot
<1>4. Prepared(c).manages = known[c].found.state
  BY <1>2, <1>3 DEF Prepared, Told
<1>5. ASSUME known[c].found.revision < Len(history[c])
      PROVE  tick < history[c][known[c].found.revision + 1].at + Timeout + Ttl
  <2>1. /\ history[c] \in Seq([state : {"approved", "declined"}, at : 0 .. LastTick])
        /\ tick \in Nat /\ Len(history[c]) \in Nat
    <3>1. history[c] \in Seq([state : {"approved", "declined"}, at : 0 .. LastTick])
      BY DEF MiddlewareTypeOK
    <3>2. tick \in 0 .. LastTick
      BY DEF MiddlewareTypeOK
    <3> QED
      BY <3>1, <3>2, Bounds
  <2>2. known[c].found.revision + 1 \in 1 .. Len(history[c])
    BY <2>1, <1>3, <1>5, Bounds
  <2>3. history[c][known[c].found.revision + 1].at \in Nat
    <3>1. history[c][known[c].found.revision + 1] \in [state : {"approved", "declined"}, at : 0 .. LastTick]
      BY <2>1, <2>2, AtType
    <3> QED
      BY <3>1, Bounds
  <2> DEFINE next == history[c][known[c].found.revision + 1].at
  <2>4. known[c].until <= next + (Timeout + Ttl)
    BY ONLY <1>2, <1>5 DEF TrueUntil
  <2>5. /\ tick < known[c].until /\ tick \in Nat /\ known[c].until \in Nat /\ next \in Nat
        /\ Timeout \in Nat /\ Ttl \in Nat
    BY <2>1, <2>3, <1>2, Bounds
  <2> HIDE DEF next
  <2>6. tick < next + Timeout + Ttl
    BY ONLY <2>4, <2>5
  <2> QED
    BY ONLY <2>6 DEF next
<1> QED
  BY <1>1, <1>2, <1>4, <1>5 DEF TrueUntil

LEMMA ToldFacts ==
  ASSUME NEW state, NEW mode, NEW configured, NEW manages, NEW revision,
         NEW e, e = Told(state, mode, configured, manages, revision)
  PROVE  /\ e.state = state /\ e.mode = mode /\ e.configured = configured
         /\ (e.asks <=> state = "consent_required") /\ (e.submits <=> state = "feedback_ready")
         /\ e.manages = manages /\ e.revision = revision
BY Zenon DEF Told

LEMMA ReadAsTold ==
  ASSUME NEW mode, NEW configured, NEW revision
  PROVE  /\ LET e == Told("feedback_disabled", "ask_once", "ask_once", "declined", revision)
            IN  Understood(e) /\ Action(e) = "skip"
         /\ configured # "ask_once" =>
              LET e == Told("feedback_ready", "never_ask", configured, None, revision)
              IN  Understood(e) /\ Action(e) = "submit"
         /\ LET e == Told("feedback_ready", "never_ask", "ask_once", "approved", revision)
            IN  Understood(e) /\ Action(e) = "submit"
         /\ \/ mode = "ask_once" /\ configured = "ask_once"
            \/ mode = "ask_always" /\ configured \in {"ask_always", "ask_once"}
            => LET e == Told("consent_required", mode, configured, None, revision)
               IN  Understood(e) /\ Action(e) = "ask"
<1>1. ASSUME NEW e, e = Told("feedback_disabled", "ask_once", "ask_once", "declined", revision)
      PROVE  Understood(e) /\ Action(e) = "skip"
  <2>1. /\ e.state = "feedback_disabled" /\ e.mode = "ask_once" /\ e.configured = "ask_once"
        /\ ~e.asks /\ ~e.submits /\ e.manages = "declined"
    BY <1>1, ToldFacts
  <2>2. Understood(e)
    BY <2>1 DEF Understood
  <2> QED
    BY <2>1, <2>2 DEF Action
<1>2. ASSUME configured # "ask_once",
             NEW e, e = Told("feedback_ready", "never_ask", configured, None, revision)
      PROVE  Understood(e) /\ Action(e) = "submit"
  <2>1. /\ e.state = "feedback_ready" /\ e.mode = "never_ask" /\ e.configured = configured
        /\ ~e.asks /\ e.submits /\ e.manages = None
    BY <1>2, ToldFacts
  <2>2. Understood(e)
    BY <2>1, <1>2 DEF Understood
  <2> QED
    BY <2>1, <2>2 DEF Action
<1>3. ASSUME NEW e, e = Told("feedback_ready", "never_ask", "ask_once", "approved", revision)
      PROVE  Understood(e) /\ Action(e) = "submit"
  <2>1. /\ e.state = "feedback_ready" /\ e.mode = "never_ask" /\ e.configured = "ask_once"
        /\ ~e.asks /\ e.submits /\ e.manages = "approved"
    BY <1>3, ToldFacts
  <2>2. Understood(e)
    BY <2>1 DEF Understood
  <2> QED
    BY <2>1, <2>2 DEF Action
<1>4. ASSUME \/ mode = "ask_once" /\ configured = "ask_once"
             \/ mode = "ask_always" /\ configured \in {"ask_always", "ask_once"},
             NEW e, e = Told("consent_required", mode, configured, None, revision)
      PROVE  Understood(e) /\ Action(e) = "ask"
  <2>1. /\ e.state = "consent_required" /\ e.mode = mode /\ e.configured = configured
        /\ e.asks /\ ~e.submits
    BY <1>4, ToldFacts
  <2>2. Understood(e)
    BY <2>1, <1>4 DEF Understood
  <2> QED
    BY <2>1, <2>2 DEF Action
<1> QED
  BY <1>1, <1>2, <1>3, <1>4

LEMMA Understandable ==
  ASSUME MiddlewareTypeOK, KnownInv
  PROVE  EnvelopesAreUnderstood
<1> SUFFICES ASSUME Enabled, NEW c \in Clients
             PROVE  /\ Understood(Prepared(c))
                    /\ Action(Prepared(c)) = "submit" =>
                         \/ options.feedback = "never_ask"
                         \/ /\ options.feedback = "ask_once"
                            /\ history[c][Prepared(c).revision].state = "approved"
                    /\ Action(Prepared(c)) = "ask" =>
                         options.feedback \in {"ask_once", "ask_always"}
  BY DEF EnvelopesAreUnderstood
<1>0. options.feedback \in {"never_ask", "ask_once", "ask_always"}
  BY DEF MiddlewareTypeOK, FeedbackModes, Enabled
<1>1. CASE options.feedback = "never_ask"
  <2>1. Prepared(c) = Told("feedback_ready", "never_ask", None, None, 0)
    BY <1>1 DEF Prepared, CachedConsent
  <2> QED
    BY <1>1, <2>1, ReadAsTold, NoneIsNone
<1>2. CASE options.feedback = "ask_always" \/ (options.feedback = "ask_once" /\ c \in Anonymous)
  <2>1. Prepared(c) = Told("consent_required", "ask_always", options.feedback, None, 0)
    BY <1>2 DEF Prepared, CachedConsent
  <2> QED
    BY <1>2, <2>1, ReadAsTold
<1>3. CASE options.feedback = "ask_once" /\ c \notin Anonymous /\ ~Fresh(c)
  <2>1. Prepared(c) = Told("consent_required", "ask_once", "ask_once", None, 0)
    BY <1>3 DEF Prepared, CachedConsent
  <2> QED
    BY <1>3, <2>1, ReadAsTold
<1>4. CASE options.feedback = "ask_once" /\ c \notin Anonymous /\ Fresh(c)
  <2>1. known[c] \in Cached /\ known[c] # None
    BY <1>4 DEF Fresh, MiddlewareTypeOK
  <2>2. known[c].found.revision > 0 /\ known[c].found.state \in {"approved", "declined"}
    BY <2>1 DEF Cached, Snapshot
  <2>3. CachedConsent(c) = known[c].found
    BY <1>4 DEF CachedConsent
  <2>4. known[c].found.state = history[c][known[c].found.revision].state
    BY <2>1 DEF KnownInv, TrueUntil
  <2>5. CASE known[c].found.state = "declined"
    <3>1. Prepared(c) = Told("feedback_disabled", "ask_once", "ask_once", "declined",
                             known[c].found.revision)
      BY <1>4, <2>3, <2>5 DEF Prepared
    <3> QED
      BY <3>1, ReadAsTold
  <2>6. CASE known[c].found.state = "approved"
    <3>1. Prepared(c) = Told("feedback_ready", "never_ask", "ask_once", "approved",
                             known[c].found.revision)
      BY <1>4, <2>3, <2>6 DEF Prepared
    <3>2. Prepared(c).revision = known[c].found.revision
      BY <3>1, ToldFacts
    <3>3. Understood(Prepared(c)) /\ Action(Prepared(c)) = "submit"
      BY <3>1, ReadAsTold
    <3> QED
      BY <3>2, <3>3, <1>4, <2>4, <2>6
  <2> QED
    BY <2>2, <2>5, <2>6
<1> QED
  BY <1>0, <1>1, <1>2, <1>3, <1>4

LEMMA Heard ==
  ASSUME MiddlewareTypeOK, NoSharedHandle, StoredInv
  PROVE  OptInIsHeard
<1> SUFFICES ASSUME options.cache = "request", Enabled,
                    NEW c \in Clients, NEW page \in Pages, page.kind # "enveloped",
                    NEW method \in Methods, NEW optIn \in BOOLEAN,
                    NEW answer \in Answers(c, page, method, optIn)
             PROVE  /\ optIn /\ Instrumentable(page, method) => answer.envelope # None
                    /\ answer.invites => Instrumentable(page, "GET")
  BY DEF OptInIsHeard
<1>1. Instrumentable(page, "GET") = (page.whole /\ ~page.encoded /\ page.kind # "text")
  BY DEF Instrumentable
<1>2. Instrumentable(page, method) => Instrumentable(page, "GET")
  BY DEF Instrumentable
<1>3. CASE answer = ResponseTo(c, page, method, optIn)
  BY <1>3, <1>1, AnswerFacts
<1>4. CASE \E entry \in shared : Matches(entry, page, optIn) /\ answer = entry.answer
  <2>1. PICK entry \in shared : Matches(entry, page, optIn) /\ answer = entry.answer
    BY <1>4
  <2>2. entry.answer.page = page /\ (entry.answer.vary => entry.optIn = optIn)
    BY <2>1 DEF Matches
  <2>3. /\ entry.answer.vary = ~entry.answer.page.encoded
        /\ entry.optIn => ~Instrumentable(entry.answer.page, "GET")
        /\ entry.answer.invites =>
              /\ entry.answer.page.whole /\ ~entry.answer.page.encoded
              /\ entry.answer.page.kind # "text"
    BY DEF StoredInv
  <2>4. ~(optIn /\ Instrumentable(page, method))
    BY <1>1, <1>2, <2>2, <2>3
  <2>5. answer.invites => Instrumentable(page, "GET")
    BY <1>1, <2>1, <2>2, <2>3
  <2> QED
    BY <2>4, <2>5
<1> QED
  BY <1>3, <1>4 DEF Answers

-----------------------------------------------------------------------------
(* Slots.                                                                    *)

LEMMA TasksFinite ==
  /\ IsFiniteSet(Clients \X (1 .. Slots))
  /\ IsFiniteSet(Tasks) /\ Cardinality(Tasks) \in Nat
  /\ Tasks \subseteq Clients \X (1 .. Slots)
<1>1. IsFiniteSet(1 .. Slots)
  BY Bounds, FS_Interval
<1>2. IsFiniteSet(Clients \X (1 .. Slots))
  BY <1>1, FS_Product
<1>3. Tasks \subseteq Clients \X (1 .. Slots)
  BY DEF Tasks
<1> QED
  BY <1>2, <1>3, FS_Subset, FS_CardinalityType

LEMMA LookupsType ==
  ASSUME MiddlewareTypeOK, NEW c \in Clients
  PROVE  LookupsOf(c) \in Nat
BY Bounds DEF LookupsOf, MiddlewareTypeOK

LEMMA LookupsTypeNext ==
  ASSUME MiddlewareTypeOK', NEW c \in Clients
  PROVE  LookupsOf(c)' \in Nat
BY Bounds DEF LookupsOf, MiddlewareTypeOK

LEMMA NoMoreTasks ==
  ASSUME MiddlewareTypeOK, MiddlewareTypeOK', SlotsHold, \A c \in Clients : LookupsOf(c)' <= LookupsOf(c)
  PROVE  SlotsHold'
<1>1. Tasks' \subseteq Tasks
  <2> SUFFICES ASSUME NEW c \in Clients, NEW n \in 1 .. Slots, n <= LookupsOf(c)'
               PROVE  n <= LookupsOf(c)
    BY DEF Tasks
  <2> QED
    BY LookupsType, LookupsTypeNext, Bounds
<1>2. Cardinality(Tasks') \in Nat /\ Cardinality(Tasks') <= Cardinality(Tasks)
  BY <1>1, TasksFinite, FS_Subset, FS_CardinalityType
<1>3. Busy' <= Slots
  BY <1>2, TasksFinite, Bounds DEF SlotsHold, Busy
<1>4. \A c \in Clients : LookupsOf(c)' <= Slots
  BY LookupsType, LookupsTypeNext, Bounds DEF SlotsHold
<1> QED
  BY <1>3, <1>4 DEF SlotsHold

(* A slot that is free is free for any client.                               *)
LEMMA RoomForOne ==
  ASSUME MiddlewareTypeOK, SlotsHold, Busy < Slots, NEW c \in Clients
  PROVE  LookupsOf(c) < Slots
<1> SUFFICES ASSUME LookupsOf(c) = Slots PROVE FALSE
  BY LookupsType, Bounds DEF SlotsHold
<1>1. {c} \X (1 .. Slots) \subseteq Tasks
  BY Bounds DEF Tasks
<1>2. IsFiniteSet(1 .. Slots) /\ Cardinality(1 .. Slots) = Slots
  BY Bounds, FS_Interval
<1>3. IsFiniteSet({c}) /\ Cardinality({c}) = 1
  BY FS_Singleton
<1>4. Cardinality({c} \X (1 .. Slots)) = Slots
  <2>1. Cardinality({c} \X (1 .. Slots)) = Cardinality({c}) * Cardinality(1 .. Slots)
    BY ONLY <1>2, <1>3, FS_Product, Zenon
  <2>2. Cardinality({c} \X (1 .. Slots)) = 1 * Slots
    BY ONLY <1>2, <1>3, <2>1, Zenon
  <2> QED
    BY <2>2, Bounds
<1>5. Cardinality({c} \X (1 .. Slots)) <= Cardinality(Tasks)
  BY <1>1, TasksFinite, FS_Subset
<1> QED
  BY <1>4, <1>5, TasksFinite, Bounds DEF Busy

LEMMA OneMoreTask ==
  ASSUME MiddlewareTypeOK, MiddlewareTypeOK', SlotsHold, Busy < Slots,
         NEW c \in Clients, LookupsOf(c)' = LookupsOf(c) + 1,
         \A d \in Clients \ {c} : LookupsOf(d)' = LookupsOf(d)
  PROVE  SlotsHold'
<1>1. Tasks' \subseteq Tasks \cup {<<c, LookupsOf(c) + 1>>}
  <2> SUFFICES ASSUME NEW d \in Clients, NEW n \in 1 .. Slots, n <= LookupsOf(d)',
                      <<d, n>> # <<c, LookupsOf(c) + 1>>
               PROVE  n <= LookupsOf(d)
    BY DEF Tasks
  <2> QED
    BY LookupsType, LookupsTypeNext, Bounds
<1>2. /\ IsFiniteSet(Tasks \cup {<<c, LookupsOf(c) + 1>>})
      /\ Cardinality(Tasks \cup {<<c, LookupsOf(c) + 1>>}) <= Cardinality(Tasks) + 1
  <2>1. /\ IsFiniteSet(Tasks \cup {<<c, LookupsOf(c) + 1>>})
        /\ Cardinality(Tasks \cup {<<c, LookupsOf(c) + 1>>}) =
             IF <<c, LookupsOf(c) + 1>> \in Tasks THEN Cardinality(Tasks) ELSE Cardinality(Tasks) + 1
    BY TasksFinite, FS_AddElement
  <2> QED
    BY <2>1, TasksFinite
<1>3. /\ Cardinality(Tasks') \in Nat
      /\ Cardinality(Tasks') <= Cardinality(Tasks \cup {<<c, LookupsOf(c) + 1>>})
  BY <1>1, <1>2, FS_Subset, FS_CardinalityType
<1>4. Cardinality(Tasks \cup {<<c, LookupsOf(c) + 1>>}) \in Nat
  BY <1>2, FS_CardinalityType
<1>5. Busy' <= Slots
  BY <1>2, <1>3, <1>4, TasksFinite, Bounds DEF Busy
<1>6. \A d \in Clients : LookupsOf(d)' <= Slots
  BY LookupsType, LookupsTypeNext, RoomForOne, Bounds DEF SlotsHold
<1> QED
  BY <1>5, <1>6 DEF SlotsHold

-----------------------------------------------------------------------------
(* The invariant holds at first and is kept.                                 *)

LEMMA InitInv == MiddlewareInit => MiddlewareInv
<1> SUFFICES ASSUME MiddlewareInit PROVE MiddlewareInv
  OBVIOUS
<1>1. MiddlewareTypeOK
  BY Bounds DEF MiddlewareInit, MiddlewareTypeOK
<1>2. HistoryInv
  BY Bounds DEF MiddlewareInit, HistoryInv
<1>3. KnownInv /\ RunningInv /\ NoSharedHandle /\ StoredInv
  BY DEF MiddlewareInit, KnownInv, RunningInv, NoSharedHandle, StoredInv
<1>4. SlotsHold
  <2>1. \A c \in Clients : LookupsOf(c) = 0
    BY DEF MiddlewareInit, LookupsOf
  <2>2. Tasks = {}
    BY <2>1, Bounds DEF Tasks
  <2>3. Busy = 0
    BY <2>2, FS_EmptySet DEF Busy
  <2> QED
    BY <2>1, <2>3, Bounds DEF SlotsHold
<1> QED
  BY <1>1, <1>2, <1>3, <1>4 DEF MiddlewareInv

(* What is known of a subject that does not change stays true.               *)
LEMMA StillTrue ==
  ASSUME NEW c \in Clients, NEW found, NEW until, NEW grace,
         UNCHANGED history, TrueUntil(c, found, until, grace)
  PROVE  TrueUntil(c, found, until, grace)'
BY DEF TrueUntil

LEMMA KeepsSubjects ==
  ASSUME HistoryInv, KnownInv, RunningInv, UNCHANGED <<history, known, running, tick>>
  PROVE  HistoryInv' /\ KnownInv' /\ RunningInv'
<1>1. HistoryInv'
  BY DEF HistoryInv
<1>2. KnownInv'
  BY DEF KnownInv, TrueUntil
<1>3. RunningInv'
  BY DEF RunningInv, TrueUntil
<1> QED
  BY <1>1, <1>2, <1>3

LEMMA KeepsStored ==
  ASSUME NoSharedHandle, StoredInv, UNCHANGED <<options, shared>>
  PROVE  NoSharedHandle' /\ StoredInv'
<1>1. NoSharedHandle'
  BY DEF NoSharedHandle
<1>2. StoredInv'
  BY DEF StoredInv, Enabled, Instrumentable
<1> QED
  BY <1>1, <1>2

LEMMA RespondInv ==
  ASSUME MiddlewareInv, NEW c \in Clients, NEW page \in Pages, NEW method \in Methods,
         NEW optIn \in BOOLEAN, Respond(c, page, method, optIn)
  PROVE  MiddlewareInv'
<1> USE DEF MiddlewareInv
<1>1. PICK answer : answer = ResponseTo(c, page, method, optIn)
  OBVIOUS
<1>2. /\ answer \in Response /\ answer.page = page
      /\ answer.envelope # None => answer.policy = "private"
      /\ options.cache = "request" /\ Enabled =>
           /\ answer.vary = ~page.encoded
           /\ optIn /\ Instrumentable(page, method) => answer.envelope # None
           /\ answer.invites => page.whole /\ ~page.encoded /\ page.kind # "text"
  BY <1>1, AnswerFacts
<1>3. /\ shared' \in Kept(answer, method, optIn)
      /\ waiting' = IF answer.envelope # None THEN Warmed(c) ELSE waiting
      /\ UNCHANGED <<options, history, known, running, tick>>
  BY <1>1 DEF Respond
<1>4. \A entry \in shared' :
        \/ entry \in shared
        \/ /\ method # "HEAD" /\ answer.policy # "private"
           /\ entry = [answer |-> answer, optIn |-> optIn]
  BY <1>3 DEF Kept
<1>5. HistoryInv' /\ KnownInv' /\ RunningInv'
  BY <1>3, KeepsSubjects
<1>6. NoSharedHandle'
  BY <1>2, <1>4 DEF NoSharedHandle
<1>7. StoredInv'
  <2> SUFFICES ASSUME NEW entry \in shared', options.cache = "request", Enabled
               PROVE  /\ entry.answer.vary = ~entry.answer.page.encoded
                      /\ entry.optIn => ~Instrumentable(entry.answer.page, "GET")
                      /\ entry.answer.invites =>
                            /\ entry.answer.page.whole /\ ~entry.answer.page.encoded
                            /\ entry.answer.page.kind # "text"
    BY <1>3 DEF StoredInv, Enabled, Instrumentable
  <2>1. CASE entry \in shared
    BY <2>1 DEF StoredInv
  <2>2. CASE /\ method # "HEAD" /\ answer.policy # "private"
             /\ entry = [answer |-> answer, optIn |-> optIn]
    <3>1. method = "GET"
      BY <2>2 DEF Methods
    <3>2. entry.answer = answer /\ entry.optIn = optIn
      BY <2>2
    <3> QED
      BY <3>1, <3>2, <2>2, <1>2
  <2> QED
    BY <1>4, <2>1, <2>2
<1>8. CASE waiting' = waiting
  <2>1. shared' \subseteq Stored
    BY <1>2, <1>4 DEF Stored, MiddlewareTypeOK
  <2>2. MiddlewareTypeOK'
    BY <1>3, <1>8, <2>1 DEF MiddlewareTypeOK
  <2>3. SlotsHold'
    BY <1>3, <1>8, <2>2, NoMoreTasks, LookupsType DEF LookupsOf
  <2> QED
    BY <1>5, <1>6, <1>7, <2>2, <2>3
<1>9. CASE Busy < Slots /\ waiting' = [waiting EXCEPT ![c] = @ + 1]
  <2>1. shared' \subseteq Stored
    BY <1>2, <1>4 DEF Stored, MiddlewareTypeOK
  <2>2. waiting' \in [Clients -> 0 .. Slots]
    <3>1. waiting[c] + 1 \in 0 .. Slots
      <4>1. LookupsOf(c) < Slots /\ LookupsOf(c) \in Nat
        BY <1>9, RoomForOne, LookupsType
      <4>2. waiting[c] \in 0 .. Slots /\ waiting[c] <= LookupsOf(c)
        BY Bounds DEF LookupsOf, MiddlewareTypeOK
      <4> QED
        BY ONLY <4>1, <4>2, Bounds
    <3> QED
      BY <3>1, <1>9 DEF MiddlewareTypeOK
  <2>3. MiddlewareTypeOK'
    BY <1>3, <2>1, <2>2 DEF MiddlewareTypeOK
  <2>4. LookupsOf(c)' = LookupsOf(c) + 1 /\ \A d \in Clients \ {c} : LookupsOf(d)' = LookupsOf(d)
    <3>1. waiting[c] \in Nat /\ waiting'[c] = waiting[c] + 1
      BY <1>9, Bounds DEF MiddlewareTypeOK
    <3>2. \A d \in Clients \ {c} : waiting'[d] = waiting[d]
      BY <1>9 DEF MiddlewareTypeOK
    <3> QED
      BY <3>1, <3>2, <1>3 DEF LookupsOf
  <2>5. SlotsHold'
    BY <2>3, <2>4, <1>9, OneMoreTask
  <2> QED
    BY <1>5, <1>6, <1>7, <2>3, <2>5
<1> QED
  BY <1>3, <1>8, <1>9 DEF Warmed

(* The lookup of one client takes a step: the others' are as they were.      *)
LEMMA LookupSteps ==
  ASSUME MiddlewareInv, NEW c \in Clients,
         NEW look \in Lookup \cup {None}, running' = [running EXCEPT ![c] = look],
         UNCHANGED <<options, history, known, shared, tick>>,
         look # None => /\ look.deadline <= tick + Timeout
                        /\ look.found # None => TrueUntil(c, look.found, look.deadline, Timeout)
  PROVE  /\ HistoryInv' /\ KnownInv' /\ RunningInv' /\ NoSharedHandle' /\ StoredInv'
         /\ running' \in [Clients -> Lookup \cup {None}]
<1>1. running' \in [Clients -> Lookup \cup {None}]
  BY DEF MiddlewareInv, MiddlewareTypeOK
<1>2. HistoryInv' /\ KnownInv'
  BY DEF MiddlewareInv, HistoryInv, KnownInv, TrueUntil
<1>3. NoSharedHandle' /\ StoredInv'
  BY KeepsStored DEF MiddlewareInv
<1>4. RunningInv'
  <2> SUFFICES ASSUME NEW d \in Clients, running'[d] # None
               PROVE  /\ running'[d].deadline <= tick + Timeout
                      /\ running'[d].found # None =>
                            TrueUntil(d, running'[d].found, running'[d].deadline, Timeout)
    BY DEF RunningInv, TrueUntil
  <2>1. CASE d = c
    BY <2>1 DEF MiddlewareInv, MiddlewareTypeOK
  <2>2. CASE d # c
    <3>1. running'[d] = running[d]
      BY <2>2 DEF MiddlewareInv, MiddlewareTypeOK
    <3> QED
      BY <3>1 DEF MiddlewareInv, RunningInv
  <2> QED
    BY <2>1, <2>2
<1> QED
  BY <1>1, <1>2, <1>3, <1>4

LEMMA FindTwinInv ==
  ASSUME MiddlewareInv, NEW c \in Clients, FindTwin(c)
  PROVE  MiddlewareInv'
<1>1. /\ waiting[c] \in 1 .. Slots /\ waiting' = [waiting EXCEPT ![c] = waiting[c] - 1]
      /\ UNCHANGED <<options, history, known, shared, tick>>
  BY Bounds DEF FindTwin, MiddlewareInv, MiddlewareTypeOK
<1>2. PICK look : look = IF running[c] # None THEN running[c]
                         ELSE [step |-> "check", deadline |-> 0, found |-> None]
  OBVIOUS
<1>3. running' = [running EXCEPT ![c] = look]
  BY <1>2 DEF FindTwin, MiddlewareInv, MiddlewareTypeOK
<1>4. look \in Lookup \cup {None}
  <2>1. [step |-> "check", deadline |-> 0, found |-> None] \in Lookup
    BY DEF Lookup
  <2> QED
    BY <1>2, <2>1 DEF MiddlewareInv, MiddlewareTypeOK
<1>5. look # None => /\ look.deadline <= tick + Timeout
                     /\ look.found # None => TrueUntil(c, look.found, look.deadline, Timeout)
  <2>1. CASE running[c] # None
    BY <2>1, <1>2 DEF MiddlewareInv, RunningInv
  <2>2. CASE running[c] = None
    <3>1. tick \in Nat
      BY Bounds DEF MiddlewareInv, MiddlewareTypeOK
    <3> QED
      BY <2>2, <3>1, <1>2, Bounds
  <2> QED
    BY <2>1, <2>2
<1>6. /\ HistoryInv' /\ KnownInv' /\ RunningInv' /\ NoSharedHandle' /\ StoredInv'
      /\ running' \in [Clients -> Lookup \cup {None}]
  BY <1>1, <1>3, <1>4, <1>5, LookupSteps
<1>7. waiting' \in [Clients -> 0 .. Slots]
  BY <1>1, Bounds DEF MiddlewareInv, MiddlewareTypeOK
<1>8. MiddlewareTypeOK'
  BY <1>1, <1>6, <1>7 DEF MiddlewareInv, MiddlewareTypeOK
<1>9. \A d \in Clients : LookupsOf(d)' <= LookupsOf(d)
  <2> TAKE d \in Clients
  <2>1. CASE d = c
    <3>1. waiting'[c] = waiting[c] - 1 /\ (running[c] # None => running'[c] = running[c])
      BY <1>1, <1>2, <1>3 DEF MiddlewareInv, MiddlewareTypeOK
    <3> QED
      BY <3>1, <2>1, <1>1, Bounds DEF LookupsOf
  <2>2. CASE d # c
    <3>1. waiting'[d] = waiting[d] /\ running'[d] = running[d]
      BY <2>2, <1>1, <1>3 DEF MiddlewareInv, MiddlewareTypeOK
    <3>2. LookupsOf(d)' = LookupsOf(d)
      BY <3>1 DEF LookupsOf
    <3> QED
      BY <3>2, LookupsType DEF MiddlewareInv
  <2> QED
    BY <2>1, <2>2
<1> QED
  BY <1>6, <1>8, <1>9, NoMoreTasks DEF MiddlewareInv

(* The step of a lookup that is under way.                                   *)
LEMMA UnderWay ==
  ASSUME MiddlewareInv, NEW c \in Clients, running[c] # None,
         NEW look \in Lookup \cup {None}, running' = [running EXCEPT ![c] = look],
         UNCHANGED <<options, history, known, waiting, shared, tick>>,
         look # None => /\ look.deadline <= tick + Timeout
                        /\ look.found # None => TrueUntil(c, look.found, look.deadline, Timeout)
  PROVE  MiddlewareInv'
<1>1. /\ HistoryInv' /\ KnownInv' /\ RunningInv' /\ NoSharedHandle' /\ StoredInv'
      /\ running' \in [Clients -> Lookup \cup {None}]
  BY LookupSteps
<1>2. MiddlewareTypeOK'
  BY <1>1 DEF MiddlewareInv, MiddlewareTypeOK
<1>3. \A d \in Clients : LookupsOf(d)' <= LookupsOf(d)
  <2> TAKE d \in Clients
  <2>1. waiting'[d] = waiting[d] /\ waiting[d] \in Nat
    BY Bounds DEF MiddlewareInv, MiddlewareTypeOK
  <2>2. running[d] = None => running'[d] = None
    BY DEF MiddlewareInv, MiddlewareTypeOK
  <2> QED
    BY <2>1, <2>2 DEF LookupsOf
<1> QED
  BY <1>1, <1>2, <1>3, NoMoreTasks DEF MiddlewareInv

LEMMA CheckCacheInv ==
  ASSUME MiddlewareInv, NEW c \in Clients, CheckCache(c)
  PROVE  MiddlewareInv'
<1>1. PICK look : look = IF Fresh(c) THEN None
                         ELSE [step |-> "asked", deadline |-> tick + Timeout, found |-> None]
  OBVIOUS
<1>2. tick \in Nat
  BY Bounds DEF MiddlewareInv, MiddlewareTypeOK
<1>3. look \in Lookup \cup {None}
  BY <1>1, <1>2, Bounds DEF Lookup
<1>4. look # None => look.deadline <= tick + Timeout /\ look.found = None
  BY <1>1, <1>2, Bounds
<1> QED
  BY <1>1, <1>3, <1>4, UnderWay DEF CheckCache

LEMMA ServerReadsInv ==
  ASSUME MiddlewareInv, NEW c \in Clients, ServerReads(c)
  PROVE  MiddlewareInv'
<1>1. PICK found : found = IF history[c] = <<>> THEN None
                           ELSE [state |-> history[c][Len(history[c])].state,
                                 revision |-> Len(history[c])]
  OBVIOUS
<1>2. PICK look : look = [running[c] EXCEPT !.step = "read", !.found = found]
  OBVIOUS
<1>3. running[c] \in Lookup /\ running[c] # None
  BY DEF ServerReads, MiddlewareInv, MiddlewareTypeOK
<1>4. look = [step |-> "read", deadline |-> running[c].deadline, found |-> found]
  BY <1>2, <1>3 DEF Lookup
<1>5. /\ history[c] \in Seq([state : {"approved", "declined"}, at : 0 .. LastTick])
      /\ Len(history[c]) \in Nat /\ Len(history[c]) <= MaxChanges
  <2>1. history[c] \in Seq([state : {"approved", "declined"}, at : 0 .. LastTick])
    BY DEF MiddlewareInv, MiddlewareTypeOK
  <2> QED
    BY <2>1 DEF MiddlewareInv, HistoryInv
<1>6. found \in Snapshot \cup {None}
  <2>1. CASE history[c] = <<>>
    BY <2>1, <1>1
  <2>2. CASE history[c] # <<>>
    <3>1. Len(history[c]) \in 1 .. Len(history[c])
      BY <2>2, <1>5
    <3>2. history[c][Len(history[c])] \in [state : {"approved", "declined"}, at : 0 .. LastTick]
      BY <3>1, <1>5, AtType
    <3>3. Len(history[c]) \in 1 .. MaxChanges
      BY <3>1, <1>5, Bounds
    <3> QED
      BY <2>2, <1>1, <3>2, <3>3 DEF Snapshot
  <2> QED
    BY <2>1, <2>2
<1>7. look \in Lookup
  BY <1>3, <1>4, <1>6 DEF Lookup
<1>8. look.deadline <= tick + Timeout
  BY <1>3, <1>4 DEF MiddlewareInv, RunningInv
<1>9. look.found # None => TrueUntil(c, look.found, look.deadline, Timeout)
  BY <1>1, <1>4, <1>5 DEF TrueUntil
<1>10. running' = [running EXCEPT ![c] = look]
  BY <1>1, <1>2 DEF ServerReads, MiddlewareInv, MiddlewareTypeOK
<1> QED
  BY <1>3, <1>7, <1>8, <1>9, <1>10, UnderWay DEF ServerReads

LEMMA LookupFailsInv ==
  ASSUME MiddlewareInv, NEW c \in Clients, LookupFails(c)
  PROVE  MiddlewareInv'
BY UnderWay DEF LookupFails

LEMMA LookupArrivesInv ==
  ASSUME MiddlewareInv, NEW c \in Clients, LookupArrives(c)
  PROVE  MiddlewareInv'
<1>1. /\ running[c] \in Lookup /\ running[c] # None /\ tick <= running[c].deadline
      /\ running' = [running EXCEPT ![c] = None]
      /\ UNCHANGED <<options, history, waiting, shared, tick>>
  BY DEF LookupArrives, MiddlewareInv, MiddlewareTypeOK
<1>2. PICK entry : entry = IF running[c].found = None THEN known[c]
                           ELSE [found |-> running[c].found, until |-> tick + Ttl]
  OBVIOUS
<1>3. known' = [known EXCEPT ![c] = entry]
  BY <1>2 DEF LookupArrives, MiddlewareInv, MiddlewareTypeOK
<1>4. tick \in Nat /\ running[c].deadline \in Nat
  BY <1>1, Bounds DEF MiddlewareInv, MiddlewareTypeOK, Lookup
<1>5. entry \in Cached \cup {None}
  BY <1>1, <1>2, <1>4, Bounds DEF MiddlewareInv, MiddlewareTypeOK, Lookup, Cached
<1>6. known' \in [Clients -> Cached \cup {None}]
  BY <1>3, <1>5 DEF MiddlewareInv, MiddlewareTypeOK
<1>7. entry # None => /\ entry.until <= tick + Ttl
                      /\ TrueUntil(c, entry.found, entry.until, Timeout + Ttl)
  <2>1. CASE running[c].found = None
    BY <2>1, <1>2 DEF MiddlewareInv, KnownInv
  <2>2. CASE running[c].found # None
    <3>1. entry.found = running[c].found /\ entry.until = tick + Ttl
      BY <2>2, <1>2
    <3>2. TrueUntil(c, running[c].found, running[c].deadline, Timeout)
      BY <2>2, <1>1 DEF MiddlewareInv, RunningInv
    <3>3. running[c].found \in Snapshot
      BY <2>2, <1>1 DEF Lookup
    <3>4. ASSUME entry.found.revision < Len(history[c])
          PROVE  entry.until <= history[c][entry.found.revision + 1].at + (Timeout + Ttl)
      <4>1. /\ history[c] \in Seq([state : {"approved", "declined"}, at : 0 .. LastTick])
            /\ Len(history[c]) \in Nat
        <5>1. history[c] \in Seq([state : {"approved", "declined"}, at : 0 .. LastTick])
          BY DEF MiddlewareInv, MiddlewareTypeOK
        <5> QED
          BY <5>1
      <4>2. entry.found.revision + 1 \in 1 .. Len(history[c])
        BY <3>1, <3>3, <3>4, <4>1, Bounds DEF Snapshot
      <4>3. PICK at \in 0 .. LastTick : at = history[c][entry.found.revision + 1].at
        BY <4>2, ChangedAt DEF MiddlewareInv
      <4>4. running[c].deadline <= at + Timeout
        BY <3>1, <3>2, <3>4, <4>3 DEF TrueUntil
      <4> QED
        BY ONLY <1>1, <1>4, <3>1, <4>3, <4>4, Bounds
    <3> QED
      BY <3>1, <3>2, <3>4, <1>4, Bounds DEF TrueUntil
  <2> QED
    BY <2>1, <2>2
<1>8. KnownInv'
  <2> SUFFICES ASSUME NEW d \in Clients, known'[d] # None
               PROVE  /\ known'[d].until <= tick + Ttl
                      /\ TrueUntil(d, known'[d].found, known'[d].until, Timeout + Ttl)
    BY <1>1 DEF KnownInv, TrueUntil
  <2>1. CASE d = c
    BY <2>1, <1>3, <1>7 DEF MiddlewareInv, MiddlewareTypeOK
  <2>2. CASE d # c
    <3>1. known'[d] = known[d]
      BY <2>2, <1>3 DEF MiddlewareInv, MiddlewareTypeOK
    <3> QED
      BY <3>1 DEF MiddlewareInv, KnownInv
  <2> QED
    BY <2>1, <2>2
<1>9. HistoryInv' /\ RunningInv'
  BY <1>1 DEF MiddlewareInv, MiddlewareTypeOK, HistoryInv, RunningInv, TrueUntil
<1>10. NoSharedHandle' /\ StoredInv'
  BY <1>1, KeepsStored DEF MiddlewareInv
<1>11. MiddlewareTypeOK'
  BY <1>1, <1>6 DEF MiddlewareInv, MiddlewareTypeOK
<1>12. \A d \in Clients : LookupsOf(d)' <= LookupsOf(d)
  <2> TAKE d \in Clients
  <2>1. waiting'[d] = waiting[d] /\ waiting[d] \in Nat
    BY <1>1, Bounds DEF MiddlewareInv, MiddlewareTypeOK
  <2>2. running[d] = None => running'[d] = None
    BY <1>1 DEF MiddlewareInv, MiddlewareTypeOK
  <2> QED
    BY <2>1, <2>2 DEF LookupsOf
<1> QED
  BY <1>8, <1>9, <1>10, <1>11, <1>12, NoMoreTasks DEF MiddlewareInv

(* What was found before a change is the last revision until the change.     *)
LEMMA Superseded ==
  ASSUME NEW c \in Clients, NEW decision \in {"approved", "declined"},
         history[c] \in Seq([state : {"approved", "declined"}, at : 0 .. LastTick]),
         history'[c] = Append(history[c], [state |-> decision, at |-> tick]),
         NEW found \in Snapshot, NEW until \in Nat, NEW grace \in Nat,
         until <= tick + grace,
         TrueUntil(c, found, until, grace)
  PROVE  TrueUntil(c, found, until, grace)'
<1>1. /\ Len(history'[c]) = Len(history[c]) + 1 /\ Len(history[c]) \in Nat
      /\ \A i \in 1 .. Len(history[c]) : history'[c][i] = history[c][i]
      /\ history'[c][Len(history[c]) + 1].at = tick
  OBVIOUS
<1>2. found.revision \in 1 .. Len(history[c])
  BY <1>1, Bounds DEF TrueUntil, Snapshot
<1>3. found.revision <= Len(history'[c])
  BY <1>1, <1>2
<1>4. found.state = history'[c][found.revision].state
  BY <1>1, <1>2 DEF TrueUntil
<1>5. ASSUME found.revision < Len(history'[c])
      PROVE  until <= history'[c][found.revision + 1].at + grace
  <2>1. CASE found.revision = Len(history[c])
    BY <2>1, <1>1
  <2>2. CASE found.revision # Len(history[c])
    <3>1. found.revision < Len(history[c]) /\ found.revision + 1 \in 1 .. Len(history[c])
      BY ONLY <2>2, <1>1, <1>2, <1>5
    <3> QED
      BY <3>1, <1>1 DEF TrueUntil
  <2> QED
    BY <2>1, <2>2
<1> QED
  BY <1>3, <1>4, <1>5 DEF TrueUntil

LEMMA SubjectChangesInv ==
  ASSUME MiddlewareInv, NEW c \in Clients, NEW decision \in {"approved", "declined"},
         SubjectChanges(c, decision)
  PROVE  MiddlewareInv'
<1>1. /\ history' = [history EXCEPT ![c] = Append(history[c], [state |-> decision, at |-> tick])]
      /\ Len(history[c]) < MaxChanges
      /\ UNCHANGED <<options, known, waiting, running, shared, tick>>
  BY DEF SubjectChanges, MiddlewareInv, MiddlewareTypeOK
<1>2. tick \in 0 .. LastTick /\ tick \in Nat
  BY Bounds DEF MiddlewareInv, MiddlewareTypeOK
<1>3. \A d \in Clients :
        history[d] \in Seq([state : {"approved", "declined"}, at : 0 .. LastTick])
  BY DEF MiddlewareInv, MiddlewareTypeOK
<1>4. /\ history'[c] = Append(history[c], [state |-> decision, at |-> tick])
      /\ \A d \in Clients \ {c} : history'[d] = history[d]
  BY <1>1 DEF MiddlewareInv, MiddlewareTypeOK
<1>5. history' \in [Clients -> Seq([state : {"approved", "declined"}, at : 0 .. LastTick])]
  <2>1. [state |-> decision, at |-> tick] \in [state : {"approved", "declined"}, at : 0 .. LastTick]
    BY <1>2
  <2>2. history'[c] \in Seq([state : {"approved", "declined"}, at : 0 .. LastTick])
    <3>1. Append(history[c], [state |-> decision, at |-> tick])
            \in Seq([state : {"approved", "declined"}, at : 0 .. LastTick])
      BY ONLY <2>1, <1>3, AppendType, c \in Clients
    <3> QED
      BY ONLY <3>1, <1>4
  <2> QED
    BY <2>2, <1>1 DEF MiddlewareInv, MiddlewareTypeOK
<1>6. MiddlewareTypeOK'
  BY <1>1, <1>5 DEF MiddlewareInv, MiddlewareTypeOK
<1>7. HistoryInv'
  <2> SUFFICES ASSUME NEW d \in Clients
               PROVE  /\ Len(history'[d]) <= MaxChanges
                      /\ \A i \in 1 .. Len(history'[d]) : history'[d][i].at <= tick
    BY <1>1 DEF HistoryInv
  <2>1. CASE d = c
    <3>1. /\ Len(history'[c]) = Len(history[c]) + 1 /\ Len(history[c]) \in Nat
          /\ \A i \in 1 .. Len(history[c]) : history'[c][i] = history[c][i]
          /\ history'[c][Len(history[c]) + 1].at = tick
      BY <1>3, <1>4
    <3>2. Len(history'[c]) <= MaxChanges
      BY <3>1, <1>1, Bounds
    <3>3. ASSUME NEW i \in 1 .. Len(history'[c]) PROVE history'[c][i].at <= tick
      <4>1. CASE i = Len(history[c]) + 1
        BY <4>1, <3>1, <1>2
      <4>2. CASE i \in 1 .. Len(history[c])
        BY <4>2, <3>1 DEF MiddlewareInv, HistoryInv
      <4> QED
        BY <4>1, <4>2, <3>1
    <3> QED
      BY <2>1, <3>2, <3>3
  <2>2. CASE d # c
    BY <2>2, <1>4 DEF MiddlewareInv, HistoryInv
  <2> QED
    BY <2>1, <2>2
<1>8. KnownInv'
  <2> SUFFICES ASSUME NEW d \in Clients, known[d] # None
               PROVE  /\ known[d].until <= tick + Ttl
                      /\ TrueUntil(d, known[d].found, known[d].until, Timeout + Ttl)'
    BY <1>1 DEF KnownInv, TrueUntil
  <2>1. /\ known[d].until <= tick + Ttl
        /\ TrueUntil(d, known[d].found, known[d].until, Timeout + Ttl)
    BY DEF MiddlewareInv, KnownInv
  <2>2. known[d].found \in Snapshot /\ known[d].until \in Nat
    BY DEF MiddlewareInv, MiddlewareTypeOK, Cached
  <2>3. CASE d = c
    <3>1. PICK found, until : found = known[c].found /\ until = known[c].until
      OBVIOUS
    <3>2. Timeout + Ttl \in Nat /\ until <= tick + (Timeout + Ttl)
      BY <2>1, <2>2, <2>3, <3>1, <1>2, Bounds
    <3>3. TrueUntil(c, found, until, Timeout + Ttl)'
      BY <2>1, <2>2, <2>3, <3>1, <3>2, <1>3, <1>4, Superseded
    <3> QED
      BY <2>1, <2>3, <3>1, <3>3, <1>1 DEF TrueUntil
  <2>4. CASE d # c
    BY <2>1, <2>4, <1>1, <1>4 DEF TrueUntil
  <2> QED
    BY <2>3, <2>4
<1>9. RunningInv'
  <2> SUFFICES ASSUME NEW d \in Clients, running[d] # None
               PROVE  /\ running[d].deadline <= tick + Timeout
                      /\ running[d].found # None =>
                            TrueUntil(d, running[d].found, running[d].deadline, Timeout)'
    BY <1>1 DEF RunningInv, TrueUntil
  <2>1. /\ running[d].deadline <= tick + Timeout
        /\ running[d].found # None =>
              TrueUntil(d, running[d].found, running[d].deadline, Timeout)
    BY DEF MiddlewareInv, RunningInv
  <2>2. running[d].found \in Snapshot \cup {None} /\ running[d].deadline \in Nat
    BY DEF MiddlewareInv, MiddlewareTypeOK, Lookup
  <2>3. CASE d = c
    <3>1. PICK found, until : found = running[c].found /\ until = running[c].deadline
      OBVIOUS
    <3>2. ASSUME found # None PROVE TrueUntil(c, found, until, Timeout)'
      BY <2>1, <2>2, <2>3, <3>1, <3>2, <1>3, <1>4, Superseded, Bounds
    <3> QED
      BY <2>1, <2>3, <3>1, <3>2, <1>1 DEF TrueUntil
  <2>4. CASE d # c
    BY <2>1, <2>4, <1>1, <1>4 DEF TrueUntil
  <2> QED
    BY <2>3, <2>4
<1>10. NoSharedHandle' /\ StoredInv'
  BY <1>1, KeepsStored DEF MiddlewareInv
<1>11. \A d \in Clients : LookupsOf(d)' <= LookupsOf(d)
  <2>1. \A d \in Clients : LookupsOf(d)' = LookupsOf(d)
    BY <1>1 DEF LookupsOf
  <2> QED
    BY <2>1, LookupsType DEF MiddlewareInv
<1> QED
  BY <1>6, <1>7, <1>8, <1>9, <1>10, <1>11, NoMoreTasks DEF MiddlewareInv

LEMMA TickPassesInv ==
  ASSUME MiddlewareInv, TickPasses
  PROVE  MiddlewareInv'
<1>1. /\ tick' = tick + 1 /\ tick \in Nat /\ tick < LastTick
      /\ UNCHANGED <<options, history, known, waiting, running, shared>>
  BY Bounds DEF TickPasses, MiddlewareInv, MiddlewareTypeOK
<1>2. MiddlewareTypeOK'
  <2>1. tick' \in 0 .. LastTick
    BY ONLY <1>1, Bounds
  <2> QED
    BY <1>1, <2>1 DEF MiddlewareInv, MiddlewareTypeOK
<1>3. HistoryInv'
  <2> SUFFICES ASSUME NEW c \in Clients, NEW i \in 1 .. Len(history[c])
               PROVE  history[c][i].at <= tick + 1
    BY <1>1 DEF MiddlewareInv, HistoryInv
  <2>2. PICK at \in 0 .. LastTick : at = history[c][i].at
    BY ChangedAt DEF MiddlewareInv
  <2>3. at <= tick
    BY <2>2 DEF MiddlewareInv, HistoryInv
  <2> QED
    BY <2>2, <2>3, <1>1, Bounds
<1>4. KnownInv'
  <2> SUFFICES ASSUME NEW c \in Clients, known[c] # None
               PROVE  /\ known[c].until <= (tick + 1) + Ttl
                      /\ TrueUntil(c, known[c].found, known[c].until, Timeout + Ttl)
    BY <1>1 DEF KnownInv, TrueUntil
  <2>1. known[c].until \in Nat
    BY DEF MiddlewareInv, MiddlewareTypeOK, Cached
  <2>2. /\ known[c].until <= tick + Ttl
        /\ TrueUntil(c, known[c].found, known[c].until, Timeout + Ttl)
    BY DEF MiddlewareInv, KnownInv
  <2> QED
    BY <2>1, <2>2, <1>1, Bounds
<1>5. RunningInv'
  <2> SUFFICES ASSUME NEW c \in Clients, running[c] # None
               PROVE  /\ running[c].deadline <= (tick + 1) + Timeout
                      /\ running[c].found # None =>
                            TrueUntil(c, running[c].found, running[c].deadline, Timeout)
    BY <1>1 DEF RunningInv, TrueUntil
  <2>1. running[c].deadline \in Nat
    BY DEF MiddlewareInv, MiddlewareTypeOK, Lookup
  <2>2. /\ running[c].deadline <= tick + Timeout
        /\ running[c].found # None =>
              TrueUntil(c, running[c].found, running[c].deadline, Timeout)
    BY DEF MiddlewareInv, RunningInv
  <2> QED
    BY <2>1, <2>2, <1>1, Bounds
<1>6. NoSharedHandle' /\ StoredInv'
  BY <1>1, KeepsStored DEF MiddlewareInv
<1>7. \A d \in Clients : LookupsOf(d)' <= LookupsOf(d)
  <2>1. \A d \in Clients : LookupsOf(d)' = LookupsOf(d)
    BY <1>1 DEF LookupsOf
  <2> QED
    BY <2>1, LookupsType DEF MiddlewareInv
<1> QED
  BY <1>2, <1>3, <1>4, <1>5, <1>6, <1>7, NoMoreTasks DEF MiddlewareInv

LEMMA NextInv ==
  MiddlewareInv /\ [MiddlewareNext]_middlewareVars => MiddlewareInv'
<1> SUFFICES ASSUME MiddlewareInv, [MiddlewareNext]_middlewareVars PROVE MiddlewareInv'
  OBVIOUS
<1>1. CASE \E c \in Clients, page \in Pages, method \in Methods, optIn \in BOOLEAN :
             Respond(c, page, method, optIn)
  BY <1>1, RespondInv
<1>2. CASE \E c \in Clients : FindTwin(c)
  BY <1>2, FindTwinInv
<1>3. CASE \E c \in Clients : CheckCache(c)
  BY <1>3, CheckCacheInv
<1>4. CASE \E c \in Clients : ServerReads(c)
  BY <1>4, ServerReadsInv
<1>5. CASE \E c \in Clients : LookupArrives(c)
  BY <1>5, LookupArrivesInv
<1>6. CASE \E c \in Clients : LookupFails(c)
  BY <1>6, LookupFailsInv
<1>7. CASE \E c \in Clients, decision \in {"approved", "declined"} : SubjectChanges(c, decision)
  BY <1>7, SubjectChangesInv
<1>8. CASE TickPasses
  BY <1>8, TickPassesInv
<1>9. CASE UNCHANGED middlewareVars
  <2>1. UNCHANGED <<options, history, known, waiting, running, shared, tick>>
    BY <1>9 DEF middlewareVars
  <2>2. MiddlewareTypeOK'
    BY <2>1 DEF MiddlewareInv, MiddlewareTypeOK
  <2>3. HistoryInv' /\ KnownInv' /\ RunningInv'
    BY <2>1, KeepsSubjects DEF MiddlewareInv
  <2>4. NoSharedHandle' /\ StoredInv'
    BY <2>1, KeepsStored DEF MiddlewareInv
  <2>5. SlotsHold'
    BY <2>1 DEF MiddlewareInv, SlotsHold, Busy, Tasks, LookupsOf
  <2> QED
    BY <2>2, <2>3, <2>4, <2>5 DEF MiddlewareInv
<1> QED
  BY <1>1, <1>2, <1>3, <1>4, <1>5, <1>6, <1>7, <1>8, <1>9 DEF MiddlewareNext

-----------------------------------------------------------------------------
(* The Rust SDK's middleware (lib.rs, AgentFeedbackService::call): for any    *)
(* agents, pages, lifetimes and number of slots no shared cache ever holds an *)
(* envelope, who opts in is not answered from what was cached plain, an       *)
(* envelope states a decision the server held less than a timeout and a time  *)
(* to live ago, the agent's SDK accepts it and submits only where consent     *)
(* stands, and no more lookups run than there are slots.                      *)
THEOREM EnvelopesAreServed == MiddlewareSpec => []EnvelopesServe
<1>1. MiddlewareInv => EnvelopesServe
  BY Recent, Understandable, Heard DEF MiddlewareInv, EnvelopesServe
<1> QED
  BY <1>1, InitInv, NextInv, PTL DEF MiddlewareSpec

=============================================================================
