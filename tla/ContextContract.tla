---------------------------- MODULE ContextContract ----------------------------
(***************************************************************************)
(* What a request for customer context may collect.  A product defines       *)
(* fields, or falls back on the built-in ones; a request freezes the fields  *)
(* it may ask for, is sent again until its answer came, and is answered by    *)
(* an agent that was told them, while the product edits its fields, changes  *)
(* its retention and rotates its keys, and while the schema is migrated.     *)
(* The same interaction is described by telemetry, before or after.          *)
(* Consent and customers are CustomerContext's.  The time is in hours.       *)
(***************************************************************************)
EXTENDS Naturals, FiniteSets

CONSTANTS
    Fields,         \* keys of fields
    BuiltIn,        \* ENRICHMENT_CATALOG: [field, values, safe]
    Definitions,    \* what a product may make of a field
    NoDefinition,
    Calls,          \* inputs of the endpoint: interaction, operation, surface, purpose ...
    NoCall,
    Absent,         \* no sessionRef
    Bad,            \* a name that is none: an address, a raw URL, a secret
    ApiKeys,
    Days,           \* retentions a product may choose
    Life,           \* how long a request lives (two hours)
    LastHour,       \* bound of the time
    Expiries        \* times until which agents ask to keep an answer

(* What ENRICHMENT_CATALOG is: one entry for each key, with its values.       *)
IsCatalogue(entries) ==
    \A a, b \in entries : a.values # {} /\ (a.field = b.field => a = b)

ASSUME ContractAssumption ==
    /\ Days \subseteq Nat \ {0} /\ Life \in Nat \ {0} /\ LastHour \in Nat /\ Expiries \subseteq Nat
    /\ \A d \in Definitions : DOMAIN d = {"values", "safe", "operations", "enabled"}
    /\ IsCatalogue(BuiltIn)

VARIABLES
    schema,         \* the newest migration: 40 snapshots, 42 questions, 43 contracts
    definitions,    \* enrichment_field_definitions
    days,           \* product_environments.retention_days, in the unit of the time
    usable,         \* API keys that are neither revoked nor expired
    seen,           \* interactions_v2: what is known of each
    asked,          \* enrichment_requests with their snapshots
    answered,       \* enrichment_answers and their items
    told,           \* terms of the requests that agents were told
    hour

contractVars == <<schema, definitions, days, usable, seen, asked, answered, told, hour>>

Activities == {c.interaction : c \in Calls}

Values == (UNION {b.values : b \in BuiltIn}) \cup (UNION {d.values : d \in Definitions})

Entry == [field : Fields, values : SUBSET Values, safe : BOOLEAN]

Sessions == [hash : {"keyed", "plain"}, ref : {c.session : c \in Calls}]

(* interactions_v2 with its session and its customer_request_observations: no  *)
(* surface if there is no row, no status is 0.                               *)
Observed ==
    [surface : {"none", "unknown"} \cup {c.surface : c \in Calls},
     operation : {"none", "pending"} \cup {c.operation : c \in Calls}, status : Nat,
     session : Sessions \cup {Absent}, headers : {"none", "sent"}]

(* The endpoints accept surfaces of a list; "none" (no row) and NoCall are     *)
(* values of this module that no call carries, and Absent is no session.      *)
ASSUME InputAssumption ==
    /\ BuiltIn \subseteq Entry
    /\ \A d \in Definitions : d.safe \in BOOLEAN
    /\ NoCall \notin Calls /\ Absent \notin Sessions
    /\ \A c \in Calls :
          /\ c.surface \notin {"none", "unknown"} /\ c.operation # "none"
          /\ c.status \in Nat /\ c.headers \in {"none", "blank", "sent"}

SeenFirst(surface, operation) ==
    [surface |-> surface, operation |-> operation, status |-> 0, session |-> Absent,
     headers |-> "none"]

Unseen == SeenFirst("none", "none")

Unasked == [call |-> NoCall]

(* signed is what the capability's nonce covers; a request from before the    *)
(* contract columns covers none of it, and has no retention of its own.      *)
Unsigned == [fields |-> {}, days |-> 0]

Terms == [fields : SUBSET Entry, days : Nat]

Asked == [call : Calls, key : ApiKeys, fields : SUBSET Entry, hashed : BOOLEAN, days : Nat,
          signed : Terms, state : {"answer_ready", "declined", "answered", "no_relevant_context"},
          created : 0 .. LastHour]

AnswerItem == [field : Fields, value : Values, remember : BOOLEAN, expires : Expiries]

Requested == {i \in Activities : asked[i] # Unasked}

ContractTypeOK ==
    /\ schema \in {40, 42, 43}
    /\ definitions \in [Fields -> Definitions \cup {NoDefinition}]
    /\ days \in Days /\ usable \subseteq ApiKeys /\ hour \in 0 .. LastHour
    /\ seen \in [Activities -> Observed]
    /\ asked \in [Activities -> Asked \cup {Unasked}]
    /\ answered \in [Activities -> SUBSET AnswerItem]
    /\ \A t \in told : t.interaction \in Requested

ContractInit ==
    /\ schema \in {40, 42, 43}
    /\ definitions = [f \in Fields |-> NoDefinition]
    /\ days \in Days
    /\ usable = ApiKeys
    /\ seen = [i \in Activities |-> Unseen]
    /\ asked = [i \in Activities |-> Unasked]
    /\ answered = [i \in Activities |-> {}]
    /\ told = {}
    /\ hour = 0

-----------------------------------------------------------------------------
(* The catalogue.                                                            *)

FieldsAvailable == schema >= 42

Enabled ==
    IF FieldsAvailable
    THEN {f \in Fields : definitions[f] # NoDefinition /\ definitions[f].enabled} ELSE {}

Snapshot(f) == [field |-> f, values |-> definitions[f].values, safe |-> definitions[f].safe]

Suits(entry, call) == call.purpose = "targeted_advertising" => entry.safe

Eligible(call) ==
    {Snapshot(f) : f \in {g \in Enabled :
        /\ definitions[g].operations = {} \/ call.operation \in definitions[g].operations
        /\ Suits(Snapshot(g), call)}}

Selected(entries, call) == {e \in entries : e.field \in call.select}

(* resolve_enrichment_request_fields; no fields refuse the request.  One that *)
(* names no fields gets all that suit it, or the built-in ones as they are.  *)
Resolved(call) ==
    LET from == IF Enabled # {} THEN Eligible(call) ELSE {b \in BuiltIn : Suits(b, call)}
        chosen == Selected(from, call)
    IN  IF call.select = {}
        THEN IF Enabled # {} THEN from ELSE BuiltIn
        ELSE IF FieldsAvailable /\ call.select = {e.field : e \in chosen} THEN chosen ELSE {}

(* validate_field_definition_input; no operations bind the field to none.     *)
Defines(d) == d.values # {} /\ Bad \notin d.values /\ Bad \notin d.operations

UpsertField(f, d) ==
    /\ FieldsAvailable /\ Defines(d)
    /\ definitions[f] # d
    /\ definitions' = [definitions EXCEPT ![f] = d]
    /\ UNCHANGED <<schema, days, usable, seen, asked, answered, told, hour>>

DeleteField(f) ==
    /\ FieldsAvailable
    /\ definitions[f] # NoDefinition
    /\ definitions' = [definitions EXCEPT ![f] = NoDefinition]
    /\ UNCHANGED <<schema, days, usable, seen, asked, answered, told, hour>>

-----------------------------------------------------------------------------
(* Requests.                                                                 *)

(* load_verified_request_field_catalog, of a request with a snapshot.        *)
Catalogue(i) == IF FieldsAvailable THEN asked[i].fields ELSE BuiltIn

(* Mutant: the retention of the product is the one of the contract.          *)
MaxDaysOfProduct(i) == days

(* remembered_max_days: a request without the column has the product's.      *)
MaxDays(i) == IF asked[i].hashed THEN asked[i].days ELSE days

TermsOf(i) == [fields |-> Catalogue(i), days |-> MaxDays(i)]

(* enrichment_contract_digest, where there is one.                           *)
Digest(i) == IF asked[i].hashed THEN TermsOf(i) ELSE Unsigned

Lives(i) == hour < asked[i].created + Life

(* verified_enrichment_request.                                              *)
Verified(i) == asked[i].key \in usable /\ Lives(i) /\ asked[i].signed = Digest(i)

Tell(i) == told' = told \cup {[interaction |-> i, terms |-> TermsOf(i)']}

(* What create_enrichment_request accepts: an owner of the action that fits   *)
(* the surface, names that are names, headers of HTTP requests only.         *)
WellFormed(call) ==
    /\ call.owner \in {"default",
            IF call.surface = "mcp" THEN "company_mcp" ELSE "same_origin_best_effort"}
    /\ call.surface = "mcp" => call.headers = "none"
    /\ Bad \notin {call.operation, call.session}

(* validate_request_observation: headers that say nothing are none.          *)
Observation(said) == IF said.headers = "blank" THEN "none" ELSE said.headers

(* Nothing is remembered of a call that names no one.                        *)
Remembers(call) == call.remember /\ call.identified

(* A request hashes its session with the product's key, telemetry without.   *)
SessionRow(hash, ref) == IF ref = Absent THEN Absent ELSE [hash |-> hash, ref |-> ref]

(* What the request says of the interaction must fit what is known of it; a   *)
(* status and a session that are known must be said.                         *)
Fits(known, call) ==
    /\ known.surface \in {"none", call.surface}
    /\ known.operation \in {"none", "pending", call.operation}
    /\ known.status \in {0, call.status}
    /\ known.session \in {Absent, SessionRow("keyed", call.session)}

Filled(known, said, blank) == IF known = blank THEN said ELSE known

Completion(known, said, session) ==
    LET row == IF known.surface = "none" THEN SeenFirst(said.surface, said.operation) ELSE known
    IN  [surface |-> Filled(row.surface, said.surface, "unknown"),
         operation |-> Filled(row.operation, said.operation, "pending"),
         status |-> Filled(row.status, said.status, 0),
         session |-> Filled(row.session, session, Absent),
         headers |-> Filled(row.headers, Observation(said), "none")]

(* create_enrichment_request, the first time; a refusal on record is          *)
(* CustomerContext's to explain.                                             *)
Ask(call, key, state) ==
    LET i == call.interaction
        contract == schema >= 43
        fields == Resolved(call)
    IN  /\ key \in usable
        /\ WellFormed(call)
        /\ asked[i] = Unasked
        /\ Fits(seen[i], call)
        /\ fields # {}
        /\ asked' = [asked EXCEPT ![i] =
              [call |-> call, key |-> key, fields |-> fields, hashed |-> contract,
               days |-> IF contract THEN days ELSE 0, state |-> state, created |-> hour,
               signed |-> IF contract THEN [fields |-> fields, days |-> days] ELSE Unsigned]]
        /\ seen' = [seen EXCEPT ![i] =
                Completion(@, call, SessionRow("keyed", call.session))]
        /\ UNCHANGED <<schema, definitions, days, usable, answered, hour>>
        /\ Tell(i)

(* enrichment_request_hash covers all of the call but the owner of its action, *)
(* and the key it came with.                                                 *)
Hashed(call) ==
    [call EXCEPT !.owner = "default", !.remember = Remembers(call), !.headers = Observation(call)]

Repeats(i, call, key) == Hashed(asked[i].call) = Hashed(call) /\ asked[i].key = key

(* The same call again while the request lives; another one is refused.      *)
AskAgain(call, key) ==
    LET i == call.interaction
    IN  /\ key \in usable
        /\ WellFormed(call)
        /\ asked[i] # Unasked /\ Repeats(i, call, key)
        /\ Verified(i)
        /\ UNCHANGED <<schema, definitions, days, usable, seen, asked, answered, hour>>
        /\ Tell(i)

InspectAsked(i) ==
    /\ asked[i] # Unasked
    /\ Verified(i)
    /\ UNCHANGED <<schema, definitions, days, usable, seen, asked, answered, hour>>
    /\ Tell(i)

(* Mutant: an item is validated against the fields of today.                 *)
AcceptsNow(i, item) ==
    \E f \in Enabled : f = item.field /\ item.value \in Snapshot(f).values

(* validate_enrichment_item.                                                 *)
Accepts(i, item) ==
    \E e \in Catalogue(i) :
        /\ e.field = item.field /\ item.value \in e.values
        /\ Suits(e, asked[i].call)

Least(m, n) == IF m < n THEN m ELSE n

Retained(i) == Least(hour + days, asked[i].created + MaxDays(i))

LatestExpiry(i, item) ==
    IF item.remember THEN Retained(i) ELSE Least(asked[i].created + Life, Retained(i))

(* submit_enrichment_answer, the first time: a second answer is the same one  *)
(* and shows the same items, or is refused.                                  *)
AnswerFields(i, items) ==
    /\ asked[i] # Unasked
    /\ Verified(i)
    /\ asked[i].state = "answer_ready"
    /\ \A item \in items :
          /\ Accepts(i, item)
          /\ item.remember => Remembers(asked[i].call)
          /\ item.expires \in hour + 1 .. LatestExpiry(i, item)
    /\ answered' = [answered EXCEPT ![i] = items]
    /\ asked' = [asked EXCEPT ![i].state =
                    IF items = {} THEN "no_relevant_context" ELSE "answered"]
    /\ UNCHANGED <<schema, definitions, days, usable, seen, told, hour>>

DeclineFields(i) ==
    /\ asked[i] # Unasked
    /\ Verified(i)
    /\ asked[i].state = "answer_ready"
    /\ asked' = [asked EXCEPT ![i].state = "declined"]
    /\ UNCHANGED <<schema, definitions, days, usable, seen, answered, told, hour>>

-----------------------------------------------------------------------------
(* The rest of the world.                                                    *)

(* submit_product_feedback before anything is known of the interaction.      *)
ReportFirst(i) ==
    /\ seen[i] = Unseen
    /\ seen' = [seen EXCEPT ![i] = SeenFirst("unknown", "pending")]
    /\ UNCHANGED <<schema, definitions, days, usable, asked, answered, told, hour>>

(* ingest_telemetry_event fills what is not known; session_evidence is silent *)
(* of a session that is none.                                                *)
Telemetry(i, event) ==
    /\ event.operation # Bad
    /\ event.surface = "mcp" => event.headers = "none"
    /\ seen' = [seen EXCEPT ![i] = Completion(@, event,
            SessionRow("plain", IF event.session = Bad THEN Absent ELSE event.session))]
    /\ seen' # seen
    /\ UNCHANGED <<schema, definitions, days, usable, asked, answered, told, hour>>

Migrate ==
    /\ schema < 43
    /\ schema' = IF schema = 40 THEN 42 ELSE 43
    /\ UNCHANGED <<definitions, days, usable, seen, asked, answered, told, hour>>

UpdateRetention(d) ==
    /\ days # d
    /\ days' = d
    /\ UNCHANGED <<schema, definitions, usable, seen, asked, answered, told, hour>>

RetireKey(key) ==
    /\ key \in usable
    /\ usable' = usable \ {key}
    /\ UNCHANGED <<schema, definitions, days, seen, asked, answered, told, hour>>

HourPasses ==
    /\ hour < LastHour
    /\ hour' = hour + 1
    /\ UNCHANGED <<schema, definitions, days, usable, seen, asked, answered, told>>

ContractNext ==
    \/ \E f \in Fields : DeleteField(f) \/ \E d \in Definitions : UpsertField(f, d)
    \/ \E call \in Calls, key \in ApiKeys :
          \/ AskAgain(call, key)
          \/ \E state \in {"answer_ready", "declined"} : Ask(call, key, state)
    \/ \E i \in Activities :
          \/ InspectAsked(i) \/ DeclineFields(i)
          \/ AnswerFields(i, {})
          \/ \E e \in AnswerItem : AnswerFields(i, {e})
          \/ \E call \in Calls : Telemetry(i, call)
          \/ ReportFirst(i)
    \/ \E d \in Days : UpdateRetention(d)
    \/ \E key \in ApiKeys : RetireKey(key)
    \/ Migrate \/ HourPasses

ContractSpec == ContractInit /\ [][ContractNext]_contractVars

-----------------------------------------------------------------------------
(* However often a request is sent or inspected, and whatever the product and *)
(* the schema become, agents are told one catalogue for it, of fields with     *)
(* values, and one retention if it was made under a contract.                *)
OneContract ==
    /\ \A t \in told : IsCatalogue(t.terms.fields)
    /\ \A s, t \in told : s.interaction = t.interaction =>
        /\ s.terms.fields = t.terms.fields
        /\ asked[s.interaction].hashed => s.terms.days = t.terms.days

(* A capability works until its request expires or its key does.             *)
CapabilityWorks ==
    \A i \in Requested : Lives(i) /\ asked[i].key \in usable => Verified(i)

(* What is stored is what the agent was told it may answer, under a contract  *)
(* for no longer than it was told, and advertising sees only fields approved *)
(* for it.                                                                   *)
AnswersAsAgreed ==
    \A i \in Activities : \A item \in answered[i] :
        \E t \in told :
            /\ t.interaction = i
            /\ \E e \in t.terms.fields :
                  /\ e.field = item.field /\ item.value \in e.values
                  /\ Suits(e, asked[i].call)
            /\ item.remember => Remembers(asked[i].call)
            /\ asked[i].hashed =>
                  item.expires <= asked[i].created + (IF item.remember THEN t.terms.days ELSE Life)

(* A request and its interaction tell one story, whichever came first: of one *)
(* surface and operation, in the request's session, with the headers of the   *)
(* call if it had any.  Only a product whose operation is called "pending"     *)
(* may find another in its place: telemetry takes it for one not known yet.   *)
OneStory ==
    \A i \in Requested :
        LET call == asked[i].call
        IN  /\ WellFormed(call)
            /\ seen[i].surface = call.surface
            /\ seen[i].operation = call.operation \/ call.operation = "pending"
            /\ call.status # 0 => seen[i].status = call.status
            /\ call.session # Absent => seen[i].session = SessionRow("keyed", call.session)
            /\ Observation(call) # "none" => seen[i].headers = "sent"

(* A request stays what its agent was told.                                  *)
ContractKept == OneContract /\ CapabilityWorks /\ AnswersAsAgreed /\ OneStory

=============================================================================
