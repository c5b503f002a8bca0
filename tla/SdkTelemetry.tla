---------------------------- MODULE SdkTelemetry ----------------------------
(***************************************************************************)
(* The telemetry queue of the Rust SDK: responses record events without     *)
(* waiting, one worker batches and delivers them with bounded retries, and  *)
(* shutdown flushes what it can before its deadline.  Every event that is   *)
(* not delivered is to be counted, as an overflow or as undelivered.        *)
(*                                                                         *)
(* Record and the counters run under one mutex; the worker is one task.     *)
(* What the server makes of an attempt is the parameter of Answer.  The     *)
(* worker is taken to have its HTTP client: when building it fails there is *)
(* no worker and nothing is delivered or counted.                           *)
(***************************************************************************)
EXTENDS Integers, Sequences, FiniteSets

CONSTANTS
    Telemetry,      \* the events of one process
    MaxQueue,       \* max_queue_size, the capacity of the channel and of pending
    BatchSize,      \* events in a batch, 50
    MaxAttempts     \* max_telemetry_attempts

ASSUME QueueAssumption ==
    /\ IsFiniteSet(Telemetry)
    /\ MaxQueue \in Nat \ {0} /\ BatchSize \in Nat \ {0} /\ MaxAttempts \in Nat \ {0}

VARIABLES
    recorded,       \* history: events passed to record before shutdown
    channel,        \* the mpsc channel
    pending,        \* the worker's deque
    worker,         \* what the worker does: pc, the batch in flight, the attempt
    stopping,       \* stopping, with the shutdown signal and message sent with it
    heard,          \* the worker has seen the shutdown signal
    late,           \* the deadline of the shutdown has passed
    verdict,        \* what shutdown returned
    counts,         \* TelemetryDiagnosticState
    dropped,        \* history: events lost to an overflow
    confirmed       \* history: events of batches reported delivered

shutdownVars == <<stopping, late, verdict>>

sdkVars == <<recorded, channel, pending, worker, stopping, heard, late, verdict, counts,
             dropped, confirmed>>

Verdicts == {"none", "ok", "failed", "timed_out"}

SdkTypeOK ==
    /\ recorded \subseteq Telemetry
    /\ channel \in Seq(Telemetry) /\ Len(channel) <= MaxQueue
    /\ pending \in Seq(Telemetry)
    /\ worker \in [pc : {"idle", "sending", "final", "done"}, batch : Seq(Telemetry),
                   attempt : 0 .. MaxAttempts - 1]
    /\ stopping \in BOOLEAN /\ heard \in BOOLEAN /\ late \in BOOLEAN
    /\ verdict \in Verdicts
    /\ counts \in [outstanding : Nat, overflow : Nat, undelivered : Nat, claimed : BOOLEAN]
    /\ dropped \subseteq Telemetry
    /\ confirmed \subseteq Telemetry

Idle == [pc |-> "idle", batch |-> <<>>, attempt |-> 0]

Done == [pc |-> "done", batch |-> <<>>, attempt |-> 0]

SdkInit ==
    /\ recorded = {}
    /\ channel = <<>>
    /\ pending = <<>>
    /\ worker = Idle
    /\ stopping = FALSE
    /\ heard = FALSE
    /\ late = FALSE
    /\ verdict = "none"
    /\ counts = [outstanding |-> 0, overflow |-> 0, undelivered |-> 0, claimed |-> FALSE]
    /\ dropped = {}
    /\ confirmed = {}

-----------------------------------------------------------------------------
(* The counters.                                                             *)

ElementsOf(s) == {s[k] : k \in 1 .. Len(s)}

AtLeast(n, m) == IF n < m THEN m ELSE n

(* note_overflow, n times.                                                   *)
Overflowed(c, n) ==
    [c EXCEPT !.overflow = @ + n, !.outstanding = AtLeast(@ - n, 0)]

Delivered(c, n) ==
    IF c.claimed THEN c ELSE [c EXCEPT !.outstanding = AtLeast(@ - n, 0)]

(* claim_outstanding: what is outstanding when shutdown gives up is          *)
(* undelivered, once.                                                        *)
Claimed(c) ==
    IF c.claimed THEN c
    ELSE [c EXCEPT !.undelivered = @ + c.outstanding, !.outstanding = 0, !.claimed = TRUE]

-----------------------------------------------------------------------------
(* Responses.                                                                *)

(* Before shutdown, an event that finds the channel full is lost.            *)
Record(e) ==
    /\ e \notin recorded
    /\ ~stopping
    /\ recorded' = recorded \cup {e}
    /\ IF Len(channel) < MaxQueue
       THEN /\ channel' = Append(channel, e)
            /\ counts' = [counts EXCEPT !.outstanding = @ + 1]
            /\ UNCHANGED dropped
       ELSE /\ counts' = [counts EXCEPT !.overflow = @ + 1]
            /\ dropped' = dropped \cup {e}
            /\ UNCHANGED channel
    /\ UNCHANGED <<pending, worker, heard, confirmed, shutdownVars>>

(* The first call; later ones return AlreadyStarted and change nothing.      *)
Shutdown ==
    /\ ~stopping
    /\ stopping' = TRUE
    /\ UNCHANGED <<recorded, channel, pending, worker, heard, late, verdict, counts, dropped,
                   confirmed>>

DeadlinePasses ==
    /\ stopping /\ ~late
    /\ late' = TRUE
    /\ UNCHANGED <<recorded, channel, pending, worker, stopping, heard, verdict, counts, dropped,
                   confirmed>>

(* The caller gives up, the worker goes on.                                  *)
ShutdownTimesOut ==
    /\ late /\ verdict = "none"
    /\ verdict' = "timed_out"
    /\ counts' = Claimed(counts)
    /\ UNCHANGED <<recorded, channel, pending, worker, stopping, heard, late, dropped, confirmed>>

-----------------------------------------------------------------------------
(* The worker.                                                               *)

Smaller(n, m) == IF n < m THEN n ELSE m

(* The batch at the front of queue and what it leaves.                       *)
Batch(queue) == SubSeq(queue, 1, Smaller(Len(queue), BatchSize))

Behind(queue) == SubSeq(queue, Smaller(Len(queue), BatchSize) + 1, Len(queue))

(* Messages pushed onto pending push out the oldest at the limit.            *)
Pushed(queue, events) ==
    LET all == queue \o events
    IN  SubSeq(all, AtLeast(Len(all) - MaxQueue, 0) + 1, Len(all))

PushedOut(queue, events) ==
    LET all == queue \o events
    IN  SubSeq(all, 1, AtLeast(Len(all) - MaxQueue, 0))

Push(events) ==
    /\ dropped' = dropped \cup ElementsOf(PushedOut(pending, events))
    /\ counts' = Overflowed(counts, Len(PushedOut(pending, events)))

Flush(pc, queue) ==
    /\ pending' = Behind(queue)
    /\ worker' = [pc |-> pc, batch |-> Batch(queue), attempt |-> 0]

(* A full batch is flushed at once.                                          *)
Take ==
    /\ worker.pc = "idle"
    /\ channel # <<>>
    /\ channel' = Tail(channel)
    /\ Push(<<Head(channel)>>)
    /\ LET queue == Pushed(pending, <<Head(channel)>>)
       IN  IF Len(queue) >= BatchSize THEN Flush("sending", queue)
           ELSE pending' = queue /\ UNCHANGED worker
    /\ UNCHANGED <<recorded, heard, confirmed, shutdownVars>>

(* The flush interval, looked at after the channel and the shutdown message. *)
Tick ==
    /\ worker.pc = "idle"
    /\ channel = <<>> /\ ~stopping
    /\ pending # <<>>
    /\ Flush("sending", pending)
    /\ UNCHANGED <<recorded, channel, heard, counts, dropped, confirmed, shutdownVars>>

(* The answer to the shutdown call, lost when the caller gave up.            *)
Finish(result) ==
    /\ worker' = Done
    /\ verdict' = IF verdict = "none" THEN result ELSE verdict

(* Mutant: the channel is closed, and what is in it forgotten.                *)
BeginShutdownUndrained ==
    /\ worker.pc = "idle"
    /\ stopping
    /\ channel' = <<>>
    /\ IF pending = <<>> THEN pending' = <<>> /\ Finish("ok")
       ELSE Flush("final", pending) /\ UNCHANGED verdict
    /\ UNCHANGED <<recorded, stopping, heard, late, counts, dropped, confirmed>>

(* The shutdown message: the channel, which may have been filled after it    *)
(* was found empty, is closed and drained.                                   *)
BeginShutdown ==
    /\ worker.pc = "idle"
    /\ stopping
    /\ channel' = <<>>
    /\ Push(channel)
    /\ LET queue == Pushed(pending, channel)
       IN  IF queue = <<>> THEN pending' = <<>> /\ Finish("ok")
           ELSE Flush("final", queue) /\ UNCHANGED verdict
    /\ UNCHANGED <<recorded, stopping, heard, late, confirmed>>

-----------------------------------------------------------------------------
(* Delivery.                                                                 *)

InFlight == worker.pc \in {"sending", "final"}

(* The shutdown signal is seen before any answer.                            *)
Listening == InFlight /\ ~(worker.pc = "sending" /\ stopping /\ ~heard)

(* Mutant: the last flush starts again.                                      *)
GiveUpAndResume ==
    /\ pending' = worker.batch \o pending
    /\ worker' = Idle
    /\ UNCHANGED <<verdict, counts>>

(* A batch that is not delivered goes back to the front; the last flush ends *)
(* with the first one.                                                       *)
GiveUp ==
    /\ pending' = worker.batch \o pending
    /\ IF worker.pc = "final"
       THEN Finish("failed") /\ counts' = Claimed(counts)
       ELSE worker' = Idle /\ UNCHANGED <<verdict, counts>>

Succeed ==
    /\ confirmed' = confirmed \cup ElementsOf(worker.batch)
    /\ counts' = Delivered(counts, Len(worker.batch))
    /\ IF worker.pc = "sending" THEN worker' = Idle /\ UNCHANGED <<pending, verdict>>
       ELSE IF pending = <<>> THEN Finish("ok") /\ UNCHANGED pending
       ELSE Flush("final", pending) /\ UNCHANGED verdict

Retry ==
    /\ worker' = [worker EXCEPT !.attempt = @ + 1]
    /\ UNCHANGED <<pending, verdict, counts>>

(* Mutant: one attempt too many.                                             *)
AnswerOnceMore(outcome) ==
    /\ Listening
    /\ IF outcome = "delivered" THEN Succeed
       ELSE /\ IF outcome = "retryable" /\ worker.attempt < MaxAttempts
               THEN Retry ELSE GiveUp
            /\ UNCHANGED confirmed
    /\ UNCHANGED <<recorded, channel, stopping, heard, late, dropped>>

(* The outcome of an attempt: "delivered" is a receipt that accepts every    *)
(* event, "terminal" any other receipt or a refusal, "retryable" the rest.   *)
Answer(outcome) ==
    /\ Listening
    /\ IF outcome = "delivered" THEN Succeed
       ELSE /\ IF outcome = "retryable" /\ worker.attempt + 1 < MaxAttempts
               THEN Retry ELSE GiveUp
            /\ UNCHANGED confirmed
    /\ UNCHANGED <<recorded, channel, stopping, heard, late, dropped>>

(* The first flush that meets the shutdown signal is abandoned.              *)
Abandon ==
    /\ worker.pc = "sending" /\ stopping /\ ~heard
    /\ heard' = TRUE
    /\ GiveUp
    /\ UNCHANGED <<recorded, channel, stopping, late, dropped, confirmed>>

(* The deadline ends the last flush.                                         *)
FlushTimesOut ==
    /\ worker.pc = "final" /\ late
    /\ GiveUp
    /\ UNCHANGED <<recorded, channel, stopping, heard, late, dropped, confirmed>>

-----------------------------------------------------------------------------
Outcomes == {"delivered", "terminal", "retryable"}

(* What the process does by itself, without the network.                     *)
SdkStep ==
    \/ \E e \in Telemetry : Record(e)
    \/ Shutdown
    \/ DeadlinePasses
    \/ ShutdownTimesOut
    \/ Take
    \/ Tick
    \/ BeginShutdown

SdkNext == SdkStep \/ Abandon \/ FlushTimesOut \/ \E outcome \in Outcomes : Answer(outcome)

SdkSpec == SdkInit /\ [][SdkNext]_sdkVars

(* The worker is a task that is polled, an attempt ends within its timeout,  *)
(* and time passes.  The network need not deliver anything.                  *)
SdkFairness ==
    /\ WF_sdkVars(Take \/ Tick \/ BeginShutdown)
    /\ WF_sdkVars(Abandon \/ FlushTimesOut \/ \E outcome \in Outcomes : Answer(outcome))
    /\ WF_sdkVars(DeadlinePasses \/ ShutdownTimesOut)

-----------------------------------------------------------------------------
Held == ElementsOf(channel) \cup ElementsOf(pending) \cup ElementsOf(worker.batch)

(* No loss goes uncounted: the counters of the diagnostics add up to the     *)
(* events that were recorded and not confirmed, exactly until a shutdown     *)
(* gives up, and from then on to no less.                                    *)
LossIsCounted ==
    LET unconfirmed == Cardinality(recorded \ confirmed)
        counted == counts.outstanding + counts.overflow + counts.undelivered
    IN  IF counts.claimed THEN unconfirmed <= counted
        ELSE /\ unconfirmed = counted
             /\ counts.outstanding = Cardinality(Held)
             /\ counts.overflow = Cardinality(dropped)

(* Shutdown says ok only when nothing is left: every event recorded and not  *)
(* dropped at the limit was confirmed.                                       *)
OkMeansFlushed == verdict = "ok" => recorded = confirmed \cup dropped

(* A shutdown ends, whatever the network does: the caller has its answer and *)
(* the worker is gone.                                                       *)
ShutdownReturns == stopping ~> (verdict # "none" /\ worker.pc = "done")

=============================================================================
