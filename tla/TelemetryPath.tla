---------------------------- MODULE TelemetryPath ----------------------------
(***************************************************************************)
(* From a recorded response to the rows it becomes: the SDK's queue in      *)
(* front of the server's ingestion, over a network that loses requests and  *)
(* answers and delays requests beyond the deadline of their sender.         *)
(***************************************************************************)
EXTENDS SdkTelemetry, CustomerIdentity

CONSTANT MaxDelayed     \* bound: requests on their way that nobody waits for

ASSUME PathAssumption ==
    /\ Telemetry \subseteq Event
    /\ MaxDelayed \in Nat

VARIABLES
    rows,           \* the database, as CustomerIdentity has it
    wire            \* requests that may still arrive though nobody waits

vars == <<sdkVars, rows, wire>>

TypeOK ==
    /\ SdkTypeOK
    /\ rows.into \in [Visitors -> KnownCustomers \cup {NoOne}]
    /\ rows.parent \in [Users -> Accounts \cup {NoOne}]
    /\ rows.stored \subseteq Interactions
    /\ rows.owner \in [Interactions -> Owners]
    /\ rows.filed \in [Interactions -> Session \cup {NoKey}]
    /\ rows.sessions \subseteq Session
    /\ wire \in SUBSET Seq(Telemetry)

Init ==
    /\ SdkInit
    /\ rows = NoRows
    /\ wire = {}

-----------------------------------------------------------------------------
(* The receipt the worker believes: every event accepted, none dropped.      *)
Receipt(result) ==
    IF result.accepted = Len(worker.batch) /\ result.dropped = 0 THEN "delivered" ELSE "terminal"

(* The answer of a request that arrived.                                     *)
Answered ==
    LET result == Ingest(rows, worker.batch)
    IN  /\ Answer(Receipt(result))
        /\ rows' = result.rows
        /\ UNCHANGED wire

(* The batch is stored, its answer lost.                                     *)
AnswerLost ==
    /\ Answer("retryable")
    /\ rows' = Ingest(rows, worker.batch).rows
    /\ UNCHANGED wire

(* Nothing is stored: no connection, an aborted transaction, a rate limit,   *)
(* or a refusal the worker takes for final.                                  *)
Unstored ==
    /\ \E outcome \in {"retryable", "terminal"} : Answer(outcome)
    /\ UNCHANGED <<rows, wire>>

(* The request is on its way when its sender stops waiting.                  *)
Delay ==
    /\ wire' = wire \cup {worker.batch}
    /\ Cardinality(wire') <= MaxDelayed

(* The timeout of one attempt.                                               *)
AttemptTimesOut ==
    /\ Answer("retryable")
    /\ Delay
    /\ UNCHANGED rows

StopWaiting ==
    /\ Abandon \/ FlushTimesOut
    /\ UNCHANGED wire \/ Delay
    /\ UNCHANGED rows

Arrive(batch) ==
    /\ batch \in wire
    /\ rows' = Ingest(rows, batch).rows
    /\ wire' = wire \ {batch}
    /\ UNCHANGED sdkVars

Deliver == Answered \/ AnswerLost \/ Unstored \/ AttemptTimesOut \/ StopWaiting

Next ==
    \/ SdkStep /\ UNCHANGED <<rows, wire>>
    \/ Deliver
    \/ \E batch \in wire : Arrive(batch)

Spec == Init /\ [][Next]_vars

FairSpec == Spec /\ SdkFairness

-----------------------------------------------------------------------------
(* A confirmed event is in the rows: its interaction is stored, belongs to   *)
(* the customer its references name by now, and is filed if it gave a        *)
(* session.  Whatever was lost, repeated or late, no receipt is false.       *)
ConfirmedIsStored ==
    \A e \in confirmed :
        /\ e.id \in rows.stored
        /\ CustomerOf(rows, e) # NoOne => rows.owner[e.id] = CustomerOf(rows, e)
        /\ e.session # NoSession => rows.filed[e.id] # NoKey

(* An interaction is filed under a session that exists and is its customer's. *)
SessionFollowsCustomer ==
    \A i \in Interactions :
        rows.filed[i] # NoKey =>
            /\ rows.filed[i] \in rows.sessions
            /\ rows.filed[i].scope = rows.owner[i]

(* A merge leaves nothing with the visitor, but for the unowned activity of  *)
(* a session the visitor followed a link of: a claim made for the visitor    *)
(* in the batch that merges it is carried out after the merge.               *)
MergeLeavesOnlyLateClaims ==
    \A i \in Interactions :
        /\ rows.owner[i] \in Visitors
        /\ rows.into[rows.owner[i]] # NoOne
        => \E e \in Telemetry :
              /\ e.link /\ e.visitor = rows.owner[i]
              /\ e.session = rows.filed[i].ref /\ e.id # i

(* Identity is only ever resolved: an interaction without a customer gets    *)
(* one, a visitor becomes the customer it is merged into, and neither a      *)
(* merge nor the account of a user is undone.                                *)
OwnersOnlyResolve ==
    [][/\ \A i \in Interactions :
             rows'.owner[i] # rows.owner[i] =>
                 \/ rows.owner[i] = NoOne
                 \/ rows.owner[i] \in Visitors /\ rows'.owner[i] = rows'.into[rows.owner[i]]
       /\ \A v \in Visitors : rows.into[v] # NoOne => rows'.into[v] = rows.into[v]
       /\ \A u \in Users : rows.parent[u] # NoOne => rows'.parent[u] = rows.parent[u]]_vars

Batches == {<<e>> : e \in Telemetry} \cup {<<e, f>> : e, f \in Telemetry}

(* A batch that was accepted in full may come again, after an answer that    *)
(* was lost: it changes nothing.  (It may be refused in part, when it names  *)
(* a user first without and then with an account.)                           *)
RedeliveryIsHarmless ==
    \A batch \in Batches :
        LET first == Ingest(rows, batch)
            again == Ingest(first.rows, batch)
        IN  first.dropped = 0 => again.rows = first.rows

(* An event on its own does what a batch of it does.                         *)
OneByOne ==
    \A e \in Telemetry :
        Accepts(rows, e) => IngestOne(rows, e) = Ingest(rows, <<e>>).rows

(* Nothing is lost without a trace before it reaches the server, and what is  *)
(* reported lost, or flushed, is.                                            *)
NothingLostSilently == LossIsCounted /\ OkMeansFlushed

(* Whatever the order, the delay and the repetition of batches, what was      *)
(* confirmed is in the rows, and interactions end up with the customer their *)
(* references name, in that customer's session.                              *)
IdentityHolds ==
    /\ [](ConfirmedIsStored /\ SessionFollowsCustomer /\ MergeLeavesOnlyLateClaims
           /\ RedeliveryIsHarmless /\ OneByOne)
    /\ OwnersOnlyResolve

=============================================================================
