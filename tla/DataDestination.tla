--------------------------- MODULE DataDestination ---------------------------
(***************************************************************************)
(* One data destination: the pipe that exports interactions and feedback    *)
(* reports into a customer's own system.  Workers and manual requests claim  *)
(* it, read each stream past its cursor, deliver a batch, and advance the    *)
(* cursor; claims and runs left behind by a dead drain are swept.            *)
(*                                                                         *)
(* A drain (one claimed run) is a process whose steps are its transactions   *)
(* and its calls.  Wall-clock time is counted in ticks that only the         *)
(* schedule and the ages of runs see; the stamps of the exported rows are    *)
(* the numbers of the transactions that wrote them, in the order in which    *)
(* these began, because NOW() is the time at which a transaction begins.     *)
(***************************************************************************)
EXTENDS Integers, FiniteSets

CONSTANTS
    Interactions,   \* ids of interactions_v2 rows
    Reports,        \* ids of feedback_reports rows
    Drains,         \* slots for claimed runs; also the claim token and run id
    NoDrain,
    MaxStamp,       \* bound: transactions that write rows
    BatchSize,      \* EXPORT_BATCH_SIZE
    RunCap,         \* EXPORT_RUN_ROW_CAP
    RunTimeout,     \* EXPORT_RUN_TIMEOUT, in ticks
    StaleAge,       \* DESTINATION_STALE_CLAIM_AGE, in ticks
    Intervals,      \* sync_interval_seconds, in ticks
    RetryDelay,     \* FAILURE_RETRY_DELAY, in ticks
    Events          \* what may happen besides, a subset of EventKinds

EventKinds ==
    {"slow_commit",     \* a transaction commits after a later one has begun
     "call_fails",      \* a call of a drain is refused, or its answer is lost
     "dies",            \* a drain dies, or its outcome cannot be recorded
     "purge",           \* retention deletes rows
     "pause", "retune", "delete"}   \* an editor changes the destination

ASSUME ConstantsAssumption ==
    /\ Interactions \subseteq Nat /\ IsFiniteSet(Interactions)
    /\ Reports \subseteq Nat /\ IsFiniteSet(Reports)
    /\ Interactions \cap Reports = {}
    /\ NoDrain \notin Drains
    /\ MaxStamp \in Nat
    /\ BatchSize \in Nat \ {0} /\ RunCap \in Nat \ {0}
    /\ RunTimeout \in Nat /\ StaleAge \in Nat
    /\ Intervals \subseteq Nat /\ Intervals # {} /\ RetryDelay \in Nat
    /\ Events \subseteq EventKinds

(* "The stale-claim age must comfortably exceed" the whole-run ceiling.      *)
ASSUME TimesAssumption == RunTimeout < StaleAge

VARIABLES
    source,         \* the exported rows
    stamps,         \* transactions begun
    writing,        \* stamps of the transactions that have not committed
    cursor,         \* data_destination_cursors
    fetched,        \* history: the furthest key that was ever read, by stream
    copy,           \* the versions the customer's system holds, by row
    config,         \* the destination's row, without its schedule
    dueIn,          \* next_sync_at, in ticks from now
    claim,          \* claim_token
    runs,           \* data_destination_sync_runs
    drains

sourceVars == <<source, stamps, writing>>
exportVars == <<cursor, fetched, copy>>
claimVars == <<config, dueIn, claim, runs>>
vars == <<sourceVars, exportVars, claimVars, drains>>

Rows == Interactions \cup Reports
Streams == {"interactions", "feedback_reports"}
StreamRows(s) == IF s = "interactions" THEN Interactions ELSE Reports
StreamOf(r) == IF r \in Interactions THEN "interactions" ELSE "feedback_reports"

(* at: updated_at of an interaction, created_at of a report, 0 when there is *)
(* no row.  ver: how often it was written.  overtaken: history, it was        *)
(* committed behind a key that had been read already.                        *)
Row == [at : Nat, ver : Nat, overtaken : BOOLEAN]
NoRow == [at |-> 0, ver |-> 0, overtaken |-> FALSE]

(* (updated_at, id), compared as a pair.                                     *)
Key == [at : Nat, row : Nat]
Epoch == [at |-> 0, row |-> 0]
KeyLeq(k, l) == k.at < l.at \/ (k.at = l.at /\ k.row <= l.row)
KeyOf(r) == [at |-> source[r].at, row |-> r]

(* A batch: the versions of the rows of a page, 0 for the other rows.         *)
NoBatch == [r \in Rows |-> 0]
BatchRows(batch) == {r \in Rows : batch[r] # 0}

Drain ==
    [pc : {"idle", "claim", "claim_now", "fetch", "deliver", "advance", "finish"},
     stream : Streams, total : Nat, batch : [Rows -> Nat],
     last : Key, interval : Nat, ok : BOOLEAN]

IdleDrain ==
    [pc |-> "idle", stream |-> "interactions", total |-> 0, batch |-> NoBatch,
     last |-> Epoch, interval |-> 0, ok |-> FALSE]

TypeOK ==
    /\ source \in [Rows -> Row]
    /\ stamps \in 0 .. MaxStamp
    /\ writing \subseteq 1 .. stamps
    /\ cursor \in [Streams -> Key]
    /\ fetched \in [Streams -> Key]
    /\ copy \in [Rows -> Nat]
    /\ config \in [exists : BOOLEAN, enabled : BOOLEAN, interval : Intervals]
    /\ dueIn \in Nat
    /\ claim \in Drains \cup {NoDrain}
    /\ runs \in [Drains -> [status : {"none", "running", "succeeded", "failed"},
                            age : 0 .. StaleAge]]
    /\ drains \in [Drains -> Drain]

(* Init: the destination was just created, and is due.                       *)
Init ==
    /\ source = [r \in Rows |-> NoRow]
    /\ stamps = 0
    /\ writing = {}
    /\ cursor = [s \in Streams |-> Epoch]
    /\ fetched = [s \in Streams |-> Epoch]
    /\ copy = [r \in Rows |-> 0]
    /\ config \in [exists : {TRUE}, enabled : {TRUE}, interval : Intervals]
    /\ dueIn = 0
    /\ claim = NoDrain
    /\ runs = [d \in Drains |-> [status |-> "none", age |-> StaleAge]]
    /\ drains = [d \in Drains |-> IdleDrain]

-----------------------------------------------------------------------------
(* The exported tables.                                                      *)

(* Rows written by a transaction that began as number t.  Reports are only   *)
(* inserted.                                                                 *)
Writable(r) == r \in Reports => source[r].ver = 0

Written(t, rows) ==
    [r \in Rows |->
        IF r \in rows
        THEN [at |-> t, ver |-> source[r].ver + 1,
              overtaken |-> KeyLeq([at |-> t, row |-> r], fetched[StreamOf(r)])]
        ELSE source[r]]

WriteAtOnce(rows) ==
    /\ stamps < MaxStamp
    /\ \A r \in rows : Writable(r)
    /\ stamps' = stamps + 1
    /\ source' = Written(stamps + 1, rows)
    /\ UNCHANGED <<writing, exportVars, claimVars, drains>>

BeginWrite ==
    /\ "slow_commit" \in Events
    /\ stamps < MaxStamp
    /\ stamps' = stamps + 1
    /\ writing' = writing \cup {stamps + 1}
    /\ UNCHANGED <<source, exportVars, claimVars, drains>>

CommitWrite(t, rows) ==
    /\ t \in writing
    /\ \A r \in rows : Writable(r)
    /\ writing' = writing \ {t}
    /\ source' = Written(t, rows)
    /\ UNCHANGED <<stamps, exportVars, claimVars, drains>>

PurgeRow(r) ==
    /\ "purge" \in Events
    /\ source[r].at # 0
    /\ source' = [source EXCEPT ![r].at = 0]
    /\ UNCHANGED <<stamps, writing, exportVars, claimVars, drains>>

-----------------------------------------------------------------------------
(* The destination and its claims.                                           *)

SetEnabled(enabled) ==
    /\ "pause" \in Events
    /\ config.exists
    /\ config' = [config EXCEPT !.enabled = enabled]
    /\ dueIn' = IF enabled THEN 0 ELSE dueIn
    /\ UNCHANGED <<sourceVars, exportVars, claim, runs, drains>>

Retune(interval) ==
    /\ "retune" \in Events
    /\ config.exists
    /\ config' = [config EXCEPT !.interval = interval]
    /\ dueIn' = 0
    /\ UNCHANGED <<sourceVars, exportVars, claim, runs, drains>>

(* The rows of the cursors and runs go with the destination's.               *)
DeleteDestination ==
    /\ "delete" \in Events
    /\ config.exists
    /\ config' = [config EXCEPT !.exists = FALSE]
    /\ claim' = NoDrain
    /\ cursor' = [s \in Streams |-> Epoch]
    /\ runs' = [d \in Drains |-> [runs[d] EXCEPT !.status = "none"]]
    /\ UNCHANGED <<sourceVars, fetched, copy, dueIn, drains>>

(* A slot can be used again when nothing in the database names its old run.  *)
Free(d) == drains[d].pc = "idle" /\ claim # d /\ runs[d].status # "running"

Stale(d) == runs[d].age >= StaleAge

(* Mutant: a swept run gets a status of its own, which its CHECK refuses.    *)
SweepAbandons ==
    /\ claim' = IF claim \in Drains /\ Stale(claim) THEN NoDrain ELSE claim
    /\ runs' = [d \in Drains |->
            IF runs[d].status = "running" /\ Stale(d)
            THEN [runs[d] EXCEPT !.status = "abandoned"] ELSE runs[d]]

(* Mutant: the sweep corrects the runs and forgets the claim.                *)
SweepRuns ==
    /\ claim' = claim
    /\ runs' = [d \in Drains |->
            IF runs[d].status = "running" /\ Stale(d)
            THEN [runs[d] EXCEPT !.status = "failed"] ELSE runs[d]]

(* release_stale_claims: the transaction before every claim.                 *)
ReleaseStaleClaims ==
    /\ claim' = IF claim \in Drains /\ Stale(claim) THEN NoDrain ELSE claim
    /\ runs' = [d \in Drains |->
            IF runs[d].status = "running" /\ Stale(d)
            THEN [runs[d] EXCEPT !.status = "failed"] ELSE runs[d]]

(* A worker's poll, or an editor's "sync now".                               *)
Poll(d, pc) ==
    /\ Free(d)
    /\ ReleaseStaleClaims
    /\ drains' = [drains EXCEPT ![d] = [@ EXCEPT !.pc = pc]]
    /\ UNCHANGED <<sourceVars, exportVars, config, dueIn>>

StartRun(d) ==
    /\ claim' = d
    /\ runs' = [runs EXCEPT ![d] = [status |-> "running", age |-> 0]]
    /\ drains' = [drains EXCEPT ![d] =
            [IdleDrain EXCEPT !.pc = "fetch", !.interval = config.interval]]

NoClaim(d) ==
    /\ drains' = [drains EXCEPT ![d] = IdleDrain]
    /\ UNCHANGED <<claim, runs>>

ClaimDue(d) ==
    /\ drains[d].pc = "claim"
    /\ IF config.exists /\ config.enabled /\ claim = NoDrain /\ dueIn = 0
       THEN StartRun(d) ELSE NoClaim(d)
    /\ UNCHANGED <<sourceVars, exportVars, config, dueIn>>

(* Mutant: "sync now" does not look whether a run is going on.               *)
ClaimNowAnyway(d) ==
    /\ drains[d].pc = "claim_now"
    /\ IF config.exists THEN StartRun(d) ELSE NoClaim(d)
    /\ UNCHANGED <<sourceVars, exportVars, config, dueIn>>

(* A paused destination, or one that is not due, can be synchronised by hand. *)
ClaimNow(d) ==
    /\ drains[d].pc = "claim_now"
    /\ IF config.exists /\ claim = NoDrain THEN StartRun(d) ELSE NoClaim(d)
    /\ UNCHANGED <<sourceVars, exportVars, config, dueIn>>

-----------------------------------------------------------------------------
(* A drain.                                                                  *)

Exporting(d) == drains[d].pc \in {"fetch", "deliver", "advance"}

(* The stream is exhausted: the next one, or the end of the run.             *)
EndStream(drain) ==
    IF drain.stream = "interactions"
    THEN [drain EXCEPT !.pc = "fetch", !.stream = "feedback_reports", !.batch = NoBatch]
    ELSE [drain EXCEPT !.pc = "finish", !.batch = NoBatch, !.ok = TRUE]

(* The run ends, with an error.                                              *)
FailRun(d) ==
    drains' = [drains EXCEPT ![d] =
        [@ EXCEPT !.pc = "finish", !.batch = NoBatch, !.ok = FALSE]]

Remaining(d) == RunCap - drains[d].total

Limit(d) == IF Remaining(d) < BatchSize THEN Remaining(d) ELSE BatchSize

Due(s) == {r \in StreamRows(s) : source[r].at # 0 /\ ~KeyLeq(KeyOf(r), cursor[s])}

(* Mutant: the page is not cut in the order of the keys.                     *)
UnorderedPage(rows, limit) ==
    {r \in rows : Cardinality({q \in rows : q <= r}) <= limit}

(* ORDER BY (updated_at, id) LIMIT limit                                     *)
Page(rows, limit) ==
    {r \in rows : Cardinality({q \in rows : KeyLeq(KeyOf(q), KeyOf(r))}) <= limit}

Versions(page) == [r \in Rows |-> IF r \in page THEN source[r].ver ELSE 0]

(* The cursor and the page past it are read.                                 *)
Fetch(d) ==
    LET s == drains[d].stream
        page == Page(Due(s), Limit(d))
    IN  /\ drains[d].pc = "fetch"
        /\ IF Remaining(d) <= 0
           THEN /\ drains' = [drains EXCEPT ![d] = [@ EXCEPT !.pc = "finish", !.ok = TRUE]]
                /\ UNCHANGED fetched
           ELSE IF page = {}
           THEN /\ drains' = [drains EXCEPT ![d] = EndStream(drains[d])]
                /\ UNCHANGED fetched
           ELSE \E r \in page :
                /\ \A q \in page : KeyLeq(KeyOf(q), KeyOf(r))
                /\ drains' = [drains EXCEPT ![d] =
                        [@ EXCEPT !.pc = "deliver", !.last = KeyOf(r), !.batch = Versions(page)]]
                /\ fetched' = IF KeyLeq(fetched[s], KeyOf(r))
                              THEN [fetched EXCEPT ![s] = KeyOf(r)] ELSE fetched
        /\ UNCHANGED <<sourceVars, cursor, copy, claimVars>>

(* Upserts keyed by (stream, id).                                            *)
Upserted(batch) ==
    [r \in Rows |-> IF r \in BatchRows(batch) THEN batch[r] ELSE copy[r]]

Deliver(d) ==
    /\ drains[d].pc = "deliver"
    /\ copy' = Upserted(drains[d].batch)
    /\ drains' = [drains EXCEPT ![d] = [@ EXCEPT !.pc = "advance"]]
    /\ UNCHANGED <<sourceVars, cursor, fetched, claimVars>>

Advanced(d) == [cursor EXCEPT ![drains[d].stream] = drains[d].last]

(* A short page ends its stream.  The cursor of a deleted destination cannot *)
(* be written.                                                               *)
Advance(d) ==
    LET size == Cardinality(BatchRows(drains[d].batch))
        counted == [drains[d] EXCEPT !.pc = "fetch", !.total = @ + size, !.batch = NoBatch]
    IN  /\ drains[d].pc = "advance"
        /\ IF ~config.exists
           THEN FailRun(d) /\ UNCHANGED cursor
           ELSE /\ cursor' = Advanced(d)
                /\ drains' = [drains EXCEPT ![d] =
                        IF size < BatchSize THEN EndStream(counted) ELSE counted]
        /\ UNCHANGED <<sourceVars, fetched, copy, claimVars>>

(* A call that is given up took effect or not.                               *)
CutOff(d) ==
    \/ UNCHANGED <<cursor, copy>>
    \/ drains[d].pc = "deliver" /\ copy' = Upserted(drains[d].batch) /\ UNCHANGED cursor
    \/ drains[d].pc = "advance" /\ config.exists /\ cursor' = Advanced(d) /\ UNCHANGED copy

(* Any of the calls fails: the read, the delivery, the write of the cursor.   *)
ExportFails(d) ==
    /\ "call_fails" \in Events
    /\ Exporting(d)
    /\ CutOff(d)
    /\ FailRun(d)
    /\ UNCHANGED <<sourceVars, fetched, claimVars>>

TimeOut(d) ==
    /\ Exporting(d)
    /\ runs[d].age >= RunTimeout
    /\ CutOff(d)
    /\ FailRun(d)
    /\ UNCHANGED <<sourceVars, fetched, claimVars>>

(* WHERE id = destination AND claim_token = token                            *)
Owns(d) == claim = d

(* The interval is the one the claim returned.  The age of a run that is over *)
(* matters no more.                                                          *)
FinishRun(d) ==
    /\ drains[d].pc = "finish"
    /\ runs' = IF runs[d].status = "running"
               THEN [runs EXCEPT ![d] = [status |-> IF drains[d].ok THEN "succeeded" ELSE "failed",
                                        age |-> StaleAge]]
               ELSE runs
    /\ IF Owns(d)
       THEN /\ claim' = NoDrain
            /\ dueIn' = IF drains[d].ok THEN drains[d].interval ELSE RetryDelay
       ELSE UNCHANGED <<claim, dueIn>>
    /\ drains' = [drains EXCEPT ![d] = IdleDrain]
    /\ UNCHANGED <<sourceVars, exportVars, config>>

(* The process dies, or the outcome cannot be recorded.                      *)
Die(d) ==
    /\ "dies" \in Events
    /\ drains[d].pc \in {"fetch", "deliver", "advance", "finish"}
    /\ CutOff(d)
    /\ drains' = [drains EXCEPT ![d] = IdleDrain]
    /\ UNCHANGED <<sourceVars, fetched, claimVars>>

(* Mutant: a run is never cut off.                                           *)
RunsForever == TRUE

(* A drain is cut off before its run gets older than the timeout.            *)
RunsOnTime == \A d \in Drains : Exporting(d) => runs[d].age < RunTimeout

Tick ==
    /\ RunsOnTime
    /\ dueIn > 0 \/ \E d \in Drains : runs[d].age < StaleAge
    /\ dueIn' = IF dueIn > 0 THEN dueIn - 1 ELSE 0
    /\ runs' = [d \in Drains |->
            IF runs[d].age < StaleAge THEN [runs[d] EXCEPT !.age = @ + 1] ELSE runs[d]]
    /\ UNCHANGED <<sourceVars, exportVars, config, claim, drains>>

-----------------------------------------------------------------------------
DrainStep(d) ==
    \/ ClaimDue(d)
    \/ ClaimNow(d)
    \/ Fetch(d)
    \/ Deliver(d)
    \/ ExportFails(d)
    \/ Advance(d)
    \/ TimeOut(d)
    \/ FinishRun(d)

Next ==
    \/ \E rows \in SUBSET Rows \ {{}} :
        WriteAtOnce(rows) \/ \E t \in writing : CommitWrite(t, rows)
    \/ BeginWrite
    \/ \E r \in Rows : PurgeRow(r)
    \/ \E enabled \in BOOLEAN : SetEnabled(enabled)
    \/ \E interval \in Intervals : Retune(interval)
    \/ DeleteDestination
    \/ \E d \in Drains : Poll(d, "claim") \/ Poll(d, "claim_now")
    \/ \E d \in Drains : DrainStep(d) \/ Die(d)
    \/ Tick

Spec == Init /\ [][Next]_vars

(* Time passes, the worker polls again and again, and a drain goes on.  A     *)
(* customer's system that is reached again and again takes a batch now and   *)
(* then, and a drain does not always die or time out at the same point.      *)
Fairness ==
    /\ WF_vars(Tick)
    /\ WF_vars(\E d \in Drains : Poll(d, "claim"))
    /\ \A d \in Drains : /\ WF_vars(DrainStep(d))
                         /\ \A s \in Streams :
                                SF_vars(drains[d].stream = s /\ Fetch(d))
                         /\ SF_vars(Deliver(d))
                         /\ SF_vars(Advance(d))

FairSpec == Spec /\ Fairness

-----------------------------------------------------------------------------
(* Safety.                                                                   *)

(* While the destination exists, a drain that exports holds the claim, so     *)
(* that no two export at once, whoever claimed for them                      *)
(* (claim_data_destination_now: "a manual run can never double-export").     *)
ExporterHoldsClaim ==
    \A d \in Drains : Exporting(d) /\ config.exists => claim = d

(* A run is shown as running exactly while its claim is held: no run spins    *)
(* for ever on the dashboard, and no claim is held without a run             *)
(* (release_stale_claims, finish_data_destination_run).                      *)
RunningWhileClaimed ==
    \A d \in Drains : runs[d].status = "running" <=> claim = d

(* A row behind the cursor has been delivered as it is, unless it was         *)
(* committed behind a key that had been read before (advance_cursor).        *)
SkippedOnlyIfOvertaken ==
    \A r \in Rows :
        /\ source[r].at # 0 /\ ~source[r].overtaken
        /\ KeyLeq(KeyOf(r), cursor[StreamOf(r)])
        => copy[r] = source[r].ver

(* The customer's copy of a row never goes back to an older version, however  *)
(* often batches are delivered again (deliver_batch).                        *)
CopyNeverRegresses == [][\A r \in Rows : copy'[r] >= copy[r]]_vars

-----------------------------------------------------------------------------
(* Liveness, under Fairness.                                                 *)

Lagging(r) == source[r].at # 0 /\ ~source[r].overtaken /\ copy[r] # source[r].ver

(* A row that is not exported yet is, in the end, across failed deliveries,   *)
(* time-outs and drains that die.                                            *)
RowsArrive == \A r \in Rows : Lagging(r) ~> ~Lagging(r)

(* Nobody holds the destination for ever, dead or alive.                     *)
ClaimEnds == \A d \in Drains : claim = d ~> claim # d

(* One run at a time exports, and it is the one that is shown.               *)
ClaimIsExclusive == ExporterHoldsClaim /\ RunningWhileClaimed

(* The pipe goes on: claims end and rows arrive.                             *)
PipeProgresses == RowsArrive /\ ClaimEnds

-----------------------------------------------------------------------------
(* What the module comment of destinations.rs promises: "Delivery is          *)
(* at-least-once: the per-stream keyset cursor only advances after a batch is *)
(* durably delivered", so that whatever is behind a cursor was delivered.    *)
AtLeastOnce ==
    \A r \in Rows :
        source[r].at # 0 /\ KeyLeq(KeyOf(r), cursor[StreamOf(r)]) => copy[r] # 0

=============================================================================
