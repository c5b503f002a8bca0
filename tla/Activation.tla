------------------------------ MODULE Activation ------------------------------
(***************************************************************************)
(* What a product tells of the context it retrieved: the decisions it took   *)
(* by it and what came of them.  Both carry an identifier of the product's   *)
(* and may be sent again at any time.  Meanwhile customers refuse, signals    *)
(* expire, and retention deletes retrievals with all that hangs on them.     *)
(* The insights count what a customer's page shows one by one.  Time is in    *)
(* days; one customer, whose retrievals CustomerContext makes.               *)
(***************************************************************************)
EXTENDS Integers, FiniteSets

CONSTANTS
    Signals,        \* items of context
    LabelOf,        \* the type and key of each
    DecisionNames,  \* externalDecisionId
    OutcomeNames,   \* externalOutcomeId
    Variants,
    NotSent,        \* no occurredAt
    MaxRetrievals,  \* bound: retrievals stored at once, one a day
    MaxDecisions,   \* bound: rows of decisions
    LateBy,         \* how old an outcome may be
    UseRetained,    \* retention
    LastDayOfUse    \* bound: the clock

ASSUME ActivationAssumption ==
    /\ IsFiniteSet(Signals) /\ LabelOf \in [Signals -> STRING]
    /\ MaxRetrievals \in Nat /\ MaxDecisions \in Nat /\ LateBy \in Nat /\ UseRetained \in Nat
    /\ LastDayOfUse \in Nat \ {0} /\ NotSent = 0

VARIABLES
    today,
    stored,         \* the signals there are
    allowed,        \* those whose customer has not refused, and not expired
    retrievals,     \* rows: by number, the day and the signals returned
    decisions,      \* rows: by number, the identifier, payload, signals, day
    decided,        \* how many decisions were ever stored
    outcomes,       \* rows: by identifier, the payload, and when it occurred
    replies         \* history: what was answered of the decisions that are stored

activationVars ==
    <<today, stored, allowed, retrievals, decisions, decided, outcomes, replies>>

Kinds == {"conversion", "dismissal"}

NoRow == [n \in {} |-> n]

With(rows, n, row) == [m \in DOMAIN rows \cup {n} |-> IF m = n THEN row ELSE rows[m]]

Without(rows, gone) == [m \in DOMAIN rows \ gone |-> rows[m]]

ActivationTypeOK ==
    /\ today \in 1 .. LastDayOfUse
    /\ allowed \subseteq stored /\ stored \subseteq Signals
    /\ \A n \in DOMAIN retrievals : retrievals[n].signals \subseteq stored
    /\ \A n \in DOMAIN decisions :
          /\ n <= decided /\ decisions[n].signals \subseteq stored
          /\ decisions[n].of.retrieval \in DOMAIN retrievals
    /\ \A o \in DOMAIN outcomes : outcomes[o].of.decision \in DOMAIN decisions

ActivationInit ==
    /\ today = 1
    /\ stored = Signals /\ allowed = Signals
    /\ retrievals = NoRow /\ decisions = NoRow /\ decided = 0 /\ outcomes = NoRow
    /\ replies = {}

-----------------------------------------------------------------------------
(* retrieve_customer_context, seen from here: it returns what is permitted.  *)
Retrieve ==
    /\ today \notin DOMAIN retrievals /\ Cardinality(DOMAIN retrievals) < MaxRetrievals
    /\ retrievals' = With(retrievals, today, [at |-> today, signals |-> allowed])
    /\ UNCHANGED <<today, stored, allowed, decisions, decided, outcomes, replies>>

(* The decision stored under that name, of the same payload.                 *)
RecordedAs(name, of) ==
    {n \in DOMAIN decisions : decisions[n].name = name /\ decisions[n].of = of}

Named(name) == {n \in DOMAIN decisions : decisions[n].name = name}

(* record_personalization_decision: the signals are checked first, also of a  *)
(* decision that is sent again; one with another payload is refused.         *)
RecordDecision(name, of) ==
    /\ of.signals # {}
    /\ of.retrieval \in DOMAIN retrievals
    /\ of.signals \subseteq retrievals[of.retrieval].signals \cap allowed
    /\ \/ /\ Named(name) = {}
          /\ decided < MaxDecisions
          /\ decided' = decided + 1
          /\ decisions' = With(decisions, decided',
                [name |-> name, of |-> of, signals |-> of.signals, at |-> today])
       \/ /\ RecordedAs(name, of) # {}
          /\ decisions' = [n \in DOMAIN decisions |->
                IF n \in RecordedAs(name, of)
                THEN [decisions[n] EXCEPT !.signals = @ \cup of.signals] ELSE decisions[n]]
          /\ UNCHANGED decided
    /\ replies' = replies \cup
            {[decision |-> n, sent |-> of, signals |-> decisions'[n].signals,
              at |-> decisions'[n].at] :
             n \in {m \in DOMAIN decisions' : decisions'[m].name = name}}
    /\ UNCHANGED <<today, stored, allowed, retrievals, outcomes>>

(* record_personalization_outcome: of a decision that is stored, in a window; *)
(* one without a time occurs as it is first received.  One sent again with    *)
(* the same payload changes nothing, one with another is refused.            *)
RecordOutcome(name, of) ==
    /\ of.occurred # NotSent => of.occurred \in today - LateBy .. today
    /\ of.decision \in DOMAIN decisions
    /\ name \notin DOMAIN outcomes
    /\ outcomes' = With(outcomes, name,
            [of |-> of, at |-> IF of.occurred = NotSent THEN today ELSE of.occurred])
    /\ UNCHANGED <<today, stored, allowed, retrievals, decisions, decided, replies>>

-----------------------------------------------------------------------------
(* The customer refuses, or permits again; an item expires.                  *)
ChangePermission(now) ==
    /\ now # allowed
    /\ allowed' = now
    /\ UNCHANGED <<today, stored, retrievals, decisions, decided, outcomes, replies>>

(* The cascade of retrievals that are deleted.                               *)
Cascade(gone) ==
    LET lost == {n \in DOMAIN decisions : decisions[n].of.retrieval \in gone}
    IN  /\ decisions' = Without(decisions, lost)
        /\ outcomes' = Without(outcomes, {o \in DOMAIN outcomes : outcomes[o].of.decision \in lost})
        /\ replies' = {reply \in replies : reply.decision \notin lost}

(* purge_expired_product_data: signals that expired, with their links, and    *)
(* retrievals of before the retention.                                       *)
PurgeSignal(s) ==
    /\ s \in stored \ allowed
    /\ stored' = stored \ {s}
    /\ retrievals' = [n \in DOMAIN retrievals |-> [retrievals[n] EXCEPT !.signals = @ \ {s}]]
    /\ decisions' = [n \in DOMAIN decisions |-> [decisions[n] EXCEPT !.signals = @ \ {s}]]
    /\ UNCHANGED <<today, allowed, decided, outcomes, replies>>

PurgeRetrievals ==
    LET gone == {n \in DOMAIN retrievals : retrievals[n].at < today - UseRetained}
    IN  /\ gone # {}
        /\ retrievals' = Without(retrievals, gone)
        /\ Cascade(gone)
        /\ UNCHANGED <<today, stored, allowed, decided>>

NextDay ==
    /\ today < LastDayOfUse
    /\ today' = today + 1
    /\ UNCHANGED <<stored, allowed, retrievals, decisions, decided, outcomes, replies>>

ActivationNext ==
    \/ Retrieve
    \/ \E name \in DecisionNames, n \in DOMAIN retrievals, chosen \in SUBSET Signals, v \in Variants :
          RecordDecision(name, [retrieval |-> n, signals |-> chosen, variant |-> v])
    \/ \E name \in OutcomeNames, n \in DOMAIN decisions, kind \in Kinds,
          occurred \in 1 .. today \cup {NotSent} :
          RecordOutcome(name, [decision |-> n, kind |-> kind, occurred |-> occurred])
    \/ \E now \in SUBSET stored : ChangePermission(now)
    \/ \E s \in Signals : PurgeSignal(s)
    \/ PurgeRetrievals
    \/ NextDay

-----------------------------------------------------------------------------
(* What is shown of it.                                                      *)

(* The customer's page: retrievals since, each with its decisions, each of    *)
(* those with its outcomes.                                                  *)
PageSince(day) ==
    {[retrieval |-> n,
      decisions |-> {[decision |-> d, signals |-> decisions[d].signals,
                      outcomes |-> {o \in DOMAIN outcomes : outcomes[o].of.decision = d}] :
                     d \in {m \in DOMAIN decisions : decisions[m].of.retrieval = n}}] :
     n \in {m \in DOMAIN retrievals : retrievals[m].at >= day}}

DecisionsShown(day) == UNION {row.decisions : row \in PageSince(day)}

(* The funnel of the insights: decisions since, outcomes that occurred since. *)
FunnelSince(day) ==
    [decisions |-> Cardinality({n \in DOMAIN decisions : decisions[n].at >= day}),
     outcomes |-> Cardinality({o \in DOMAIN outcomes : outcomes[o].at >= day})]

(* Outcomes by signal: one row for each link of a decision since, with each   *)
(* of its outcomes.                                                          *)
LinksSince(label, day) ==
    UNION {{<<n, s>> : s \in {t \in decisions[n].signals : LabelOf[t] = label}} :
           n \in {m \in DOMAIN decisions : decisions[m].at >= day}}

OutcomesOf(label, day) ==
    [decisions |-> Cardinality({link[1] : link \in LinksSince(label, day)}),
     outcomes |-> Cardinality(
        {pair \in LinksSince(label, day) \X DOMAIN outcomes :
            outcomes[pair[2]].of.decision = pair[1][1]}),
     conversions |-> Cardinality(
        {pair \in LinksSince(label, day) \X DOMAIN outcomes :
            /\ outcomes[pair[2]].of.decision = pair[1][1]
            /\ outcomes[pair[2]].of.kind = "conversion"})]

-----------------------------------------------------------------------------
(* Properties.                                                               *)

(* However often a decision is sent, and whatever was refused or deleted     *)
(* between, it is answered as it was at first, with the signals it was sent   *)
(* with and no other; no two stored decisions have one name.                 *)
AnsweredAlike ==
    /\ \A a, b \in replies : a.decision = b.decision => a = b
    /\ \A a \in replies : a.signals = a.sent.signals
    /\ \A m, n \in DOMAIN decisions : decisions[m].name = decisions[n].name => m = n

(* The insights of a window count what the page of the retention shows: all   *)
(* decisions and outcomes on it, none beside it.  By signal, they count each  *)
(* outcome once, but for decisions that name two signals of the same label,   *)
(* of which the query counts the outcome for each.                           *)
UseAddsUp ==
    \A day \in today - UseRetained .. today :
        LET shown == DecisionsShown(today - UseRetained)
            since == {d \in shown : decisions[d.decision].at >= day}
            all == UNION {d.outcomes : d \in shown}
        IN  (\A n \in DOMAIN retrievals : retrievals[n].at >= today - UseRetained) =>
            /\ FunnelSince(day).decisions = Cardinality(since)
            /\ FunnelSince(day).outcomes = Cardinality({o \in all : outcomes[o].at >= day})
            /\ \A label \in {LabelOf[s] : s \in Signals} :
                  LET naming == {d \in since : \E s \in d.signals : LabelOf[s] = label}
                      counted == OutcomesOf(label, day)
                      once == Cardinality(UNION {d.outcomes : d \in naming})
                  IN  /\ counted.decisions = Cardinality(naming)
                      /\ counted.conversions <= counted.outcomes
                      /\ counted.outcomes >= once
                      /\ (\A d \in naming :
                              Cardinality({s \in d.signals : LabelOf[s] = label}) = 1)
                          => counted.outcomes = once

=============================================================================
