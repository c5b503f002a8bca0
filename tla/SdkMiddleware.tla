----------------------------- MODULE SdkMiddleware -----------------------------
(***************************************************************************)
(* The Rust SDK's HTTP middleware in front of a product, behind a shared     *)
(* cache: which answers get an envelope, what it says, and the consent cache  *)
(* it says it from, which is warmed in the background and never waited for.  *)
(* The subjects on the server are FeedbackConsent's; here they only change.  *)
(***************************************************************************)
EXTENDS Naturals, Sequences, FiniteSets

CONSTANTS
    Clients,        \* agents, each on behalf of a customer
    Anonymous,      \* those for whom the product resolves no customerRef
    Pages,          \* what the product answers: [kind, whole, encoded, policy]
    None,
    Ttl,            \* consent_cache_ttl
    Timeout,        \* consent_timeout
    Slots,          \* MAX_CONCURRENT_CONSENT_LOOKUPS
    LastTick,       \* bound of the time
    MaxChanges      \* bound of the changes of a subject

ASSUME MiddlewareAssumption ==
    /\ Anonymous \subseteq Clients
    /\ IsFiniteSet(Clients)
    /\ {Ttl, Timeout, Slots, LastTick, MaxChanges} \subseteq Nat
    /\ \A page \in Pages :
         /\ {page.whole, page.encoded} \subseteq BOOLEAN
         /\ page.policy \in {"none", "shared", "private"}

VARIABLES
    options,        \* http cache mode and feedback mode of the process
    history,        \* what the server held of each subject, and since when
    known,          \* consent_cache
    waiting,        \* lookups that were spawned and did not look for a twin yet
    running,        \* consent_lookups: the lookup of a subject under way
    shared,         \* what a shared cache in front of the product stores
    tick

middlewareVars == <<options, history, known, waiting, running, shared, tick>>

CacheModes == {"safe", "private", "request"}

FeedbackModes == {"never_ask", "ask_once", "ask_always", "off"}

Snapshot == [state : {"approved", "declined"}, revision : 1 .. MaxChanges]

Cached == [found : Snapshot, until : Nat]

(* A lookup has checked the cache, asked, and read what the server said.     *)
Lookup == [step : {"check", "asked", "read"}, deadline : Nat, found : Snapshot \cup {None}]

Envelope ==
    [state : {"feedback_disabled", "consent_required", "feedback_ready"},
     mode : FeedbackModes, configured : FeedbackModes \cup {None},
     asks : BOOLEAN, submits : BOOLEAN, manages : {"approved", "declined", None},
     revision : 0 .. MaxChanges]

ASSUME NoneAssumption == None \notin Envelope \cup FeedbackModes \cup {"approved", "declined"}

Response == [page : Pages, envelope : Envelope \cup {None}, vary : BOOLEAN,
           policy : {"none", "shared", "private"}, invites : BOOLEAN]

Stored == [answer : Response, optIn : BOOLEAN]

Methods == {"GET", "HEAD"}

MiddlewareTypeOK ==
    /\ options \in [cache : CacheModes, feedback : FeedbackModes]
    /\ history \in [Clients -> Seq([state : {"approved", "declined"}, at : 0 .. LastTick])]
    /\ known \in [Clients -> Cached \cup {None}]
    /\ running \in [Clients -> Lookup \cup {None}]
    /\ waiting \in [Clients -> 0 .. Slots]
    /\ shared \subseteq Stored
    /\ tick \in 0 .. LastTick

MiddlewareInit ==
    /\ options \in [cache : CacheModes, feedback : FeedbackModes]
    /\ history = [c \in Clients |-> <<>>]
    /\ known = [c \in Clients |-> None]
    /\ waiting = [c \in Clients |-> 0]
    /\ running = [c \in Clients |-> None]
    /\ shared = {}
    /\ tick = 0

-----------------------------------------------------------------------------
(* The consent cache.                                                        *)

(* Mutant: what was looked up stays valid.                                   *)
FreshForever(c) == known[c] # None

Fresh(c) == known[c] # None /\ tick < known[c].until

(* cached_consent: local state only.                                         *)
CachedConsent(c) ==
    CASE options.feedback = "never_ask" -> [state |-> "approved", revision |-> 0]
      [] options.feedback = "ask_once" /\ c \notin Anonymous /\ Fresh(c) -> known[c].found
      [] OTHER -> [state |-> "unknown", revision |-> 0]

(* The tasks that hold a slot, counted for each client.                      *)
LookupsOf(c) == waiting[c] + (IF running[c] = None THEN 0 ELSE 1)

Tasks == {task \in Clients \X (1 .. Slots) : task[2] <= LookupsOf(task[1])}

Busy == Cardinality(Tasks)

(* warm_consent takes a slot or gives up; the task it spawns does the rest.  *)
Warmed(c) ==
    IF options.feedback = "ask_once" /\ c \notin Anonymous /\ Busy < Slots
    THEN [waiting EXCEPT ![c] = @ + 1] ELSE waiting

(* One lookup of a subject at a time.                                        *)
FindTwin(c) ==
    /\ waiting[c] > 0
    /\ waiting' = [waiting EXCEPT ![c] = @ - 1]
    /\ running' = IF running[c] # None THEN running
                  ELSE [running EXCEPT ![c] = [step |-> "check", deadline |-> 0, found |-> None]]
    /\ UNCHANGED <<options, history, known, shared, tick>>

CheckCache(c) ==
    /\ running[c] # None /\ running[c].step = "check"
    /\ running' = [running EXCEPT ![c] =
          IF Fresh(c) THEN None
          ELSE [step |-> "asked", deadline |-> tick + Timeout, found |-> None]]
    /\ UNCHANGED <<options, history, known, waiting, shared, tick>>

(* The server reads the subject (feedback_consent_state).                    *)
ServerReads(c) ==
    /\ running[c] # None /\ running[c].step = "asked"
    /\ running' = [running EXCEPT ![c].step = "read",
                      ![c].found = IF history[c] = <<>> THEN None
                                   ELSE [state |-> history[c][Len(history[c])].state,
                                         revision |-> Len(history[c])]]
    /\ UNCHANGED <<options, history, known, waiting, shared, tick>>

(* What was decided is cached from now on, unknown is not.                   *)
LookupArrives(c) ==
    /\ running[c] # None /\ running[c].step = "read"
    /\ tick <= running[c].deadline
    /\ known' = IF running[c].found = None THEN known
                ELSE [known EXCEPT ![c] = [found |-> running[c].found, until |-> tick + Ttl]]
    /\ running' = [running EXCEPT ![c] = None]
    /\ UNCHANGED <<options, history, waiting, shared, tick>>

LookupFails(c) ==
    /\ running[c] # None /\ running[c].step # "check"
    /\ running' = [running EXCEPT ![c] = None]
    /\ UNCHANGED <<options, history, known, waiting, shared, tick>>

-----------------------------------------------------------------------------
(* The envelope.                                                             *)

Told(state, mode, configured, manages, revision) ==
    [state |-> state, mode |-> mode, configured |-> configured,
     asks |-> state = "consent_required", submits |-> state = "feedback_ready",
     manages |-> manages, revision |-> revision]

(* prepare_for_revision: without a customer, Ask once asks every time.       *)
Prepared(c) ==
    LET mode == options.feedback
        consent == CachedConsent(c)
        effective == IF mode = "ask_once" /\ c \in Anonymous THEN "ask_always" ELSE mode
    IN  CASE effective = "ask_once" /\ consent.state = "declined" ->
                Told("feedback_disabled", "ask_once", "ask_once", "declined", consent.revision)
          [] effective = "ask_always" \/ (effective = "ask_once" /\ consent.state = "unknown") ->
                Told("consent_required", effective, mode, None, 0)
          [] OTHER ->
                Told("feedback_ready", "never_ask", IF mode = "never_ask" THEN None ELSE mode,
                     IF mode = "ask_once" THEN "approved" ELSE None, consent.revision)

(* valid_envelope, with which the SDK of an agent reads it.                  *)
Understood(e) ==
    CASE e.state = "feedback_disabled" ->
            /\ e.mode = "ask_once" /\ e.configured = "ask_once"
            /\ ~e.asks /\ ~e.submits /\ e.manages = "declined"
      [] e.state = "feedback_ready" ->
            /\ e.mode = "never_ask" /\ ~e.asks /\ e.submits
            /\ e.manages = IF e.configured = "ask_once" THEN "approved" ELSE None
      [] e.state = "consent_required" ->
            /\ e.asks /\ ~e.submits
            /\ \/ e.mode = "ask_once" /\ e.configured = "ask_once"
               \/ e.mode = "ask_always" /\ e.configured \in {"ask_always", "ask_once"}

(* feedback_consent_action.                                                  *)
Action(e) ==
    IF ~Understood(e) THEN "skip"
    ELSE IF e.submits THEN "submit" ELSE IF e.asks THEN "ask" ELSE "skip"

-----------------------------------------------------------------------------
(* The middleware.                                                           *)

Enabled == options.feedback # "off"

(* Complete answers of bounded size, not encoded, that no shared cache is     *)
(* meant to keep; of a HEAD only the headers can say it.                     *)
Instrumentable(page, method) ==
    /\ page.whole /\ ~page.encoded
    /\ options.cache = "safe" => page.policy # "shared"
    /\ page.kind # "text"
    /\ IF method = "HEAD" THEN options.cache = "request" ELSE page.kind # "enveloped"

Plain(page) ==
    [page |-> page, envelope |-> None, vary |-> FALSE, policy |-> page.policy, invites |-> FALSE]

(* make_response_private: the capability is one client's.                    *)
MadePrivate(answer) == [answer EXCEPT !.policy = "private"]

(* ensure_request_vary, of answers in their identity encoding.               *)
Varied(answer) == [answer EXCEPT !.vary = ~answer.page.encoded]

(* add_request_discovery.                                                    *)
Invited(answer) ==
    [answer EXCEPT !.invites = answer.page.whole /\ ~answer.page.encoded
                                                 /\ answer.page.kind # "text"]

(* In the object, before the end of the page's body, or in a header when the  *)
(* page has a marker already or there is no body.                            *)
WithEnvelope(answer, envelope) == [answer EXCEPT !.envelope = envelope]

(* instrument_response.                                                      *)
Instrumented(c, page, method) ==
    IF Instrumentable(page, method)
    THEN MadePrivate(WithEnvelope(Plain(page), Prepared(c)))
    ELSE Plain(page)

(* AgentFeedbackService::call.                                               *)
ResponseTo(c, page, method, optIn) ==
    CASE ~Enabled -> Plain(page)
      [] Enabled /\ options.cache = "request" /\ ~optIn -> Invited(Varied(Plain(page)))
      [] Enabled /\ options.cache = "request" /\ optIn -> Varied(Instrumented(c, page, method))
      [] OTHER -> Instrumented(c, page, method)

(* A shared cache may keep what is neither private nor an answer to a HEAD.  *)
Kept(answer, method, optIn) ==
    IF method = "HEAD" \/ answer.policy = "private" THEN {shared}
    ELSE {shared, {e \in shared : e.answer.page # answer.page \/ (answer.vary /\ e.optIn # optIn)}
                      \cup {[answer |-> answer, optIn |-> optIn]}}

Matches(entry, page, optIn) ==
    entry.answer.page = page /\ (entry.answer.vary => entry.optIn = optIn)

(* The product answers; the envelope is signed, telemetry recorded and the    *)
(* cache warmed for the next answer.                                         *)
Respond(c, page, method, optIn) ==
    LET answer == ResponseTo(c, page, method, optIn)
    IN  /\ shared' \in Kept(answer, method, optIn)
        /\ waiting' = IF answer.envelope # None THEN Warmed(c) ELSE waiting
        /\ UNCHANGED <<options, history, known, running, tick>>

(* What an agent may be answered: by the product, or by the shared cache.    *)
Answers(c, page, method, optIn) ==
    {ResponseTo(c, page, method, optIn)} \cup {e.answer : e \in {x \in shared : Matches(x, page, optIn)}}

-----------------------------------------------------------------------------
(* The rest of the world.                                                    *)

(* The customer decides, here or elsewhere.                                  *)
SubjectChanges(c, decision) ==
    /\ c \notin Anonymous
    /\ Len(history[c]) < MaxChanges
    /\ history[c] # <<>> => history[c][Len(history[c])].state # decision
    /\ history' = [history EXCEPT ![c] = Append(@, [state |-> decision, at |-> tick])]
    /\ UNCHANGED <<options, known, waiting, running, shared, tick>>

TickPasses ==
    /\ tick < LastTick
    /\ tick' = tick + 1
    /\ UNCHANGED <<options, history, known, waiting, running, shared>>

MiddlewareNext ==
    \/ \E c \in Clients, page \in Pages, method \in Methods, optIn \in BOOLEAN :
          Respond(c, page, method, optIn)
    \/ \E c \in Clients :
          \/ FindTwin(c) \/ CheckCache(c) \/ ServerReads(c) \/ LookupArrives(c) \/ LookupFails(c)
          \/ \E decision \in {"approved", "declined"} : SubjectChanges(c, decision)
    \/ TickPasses

-----------------------------------------------------------------------------
(* A capability is one interaction's: no shared cache hands it out again,     *)
(* whatever the product says of its answers.                                 *)
NoSharedHandle == \A entry \in shared : entry.answer.envelope = None

(* An agent that opts in is not served what was plain because nobody had, and *)
(* an answer that invites to opt in keeps its word.                          *)
OptInIsHeard ==
    options.cache = "request" /\ Enabled =>
        \A c \in Clients, page \in {p \in Pages : p.kind # "enveloped"}, method \in Methods,
          optIn \in BOOLEAN :
            \A answer \in Answers(c, page, method, optIn) :
                /\ optIn /\ Instrumentable(page, method) => answer.envelope # None
                /\ answer.invites => Instrumentable(page, "GET")

(* The standing decision an envelope states is one that the server held less   *)
(* than a lookup and a time to live ago (README.md:126).                     *)
ConsentIsRecent ==
    \A c \in Clients :
        LET e == Prepared(c)
            its == history[c]
        IN  e.revision > 0 =>
              /\ its[e.revision].state = e.manages
              /\ e.revision < Len(its) => tick < its[e.revision + 1].at + Timeout + Ttl

(* What the middleware writes, the agent's SDK accepts; it submits only where  *)
(* nobody is to be asked, or consent was given.                              *)
EnvelopesAreUnderstood ==
    Enabled => \A c \in Clients :
        LET e == Prepared(c)
        IN  /\ Understood(e)
            /\ Action(e) = "submit" =>
                  \/ options.feedback = "never_ask"
                  \/ options.feedback = "ask_once" /\ history[c][e.revision].state = "approved"
            /\ Action(e) = "ask" => options.feedback \in {"ask_once", "ask_always"}

(* No more lookups than slots.                                               *)
SlotsHold == Busy <= Slots /\ \A c \in Clients : LookupsOf(c) <= Slots

MiddlewareSpec == MiddlewareInit /\ [][MiddlewareNext]_middlewareVars

(* The middleware serves the agent it answers, and nobody else.              *)
EnvelopesServe ==
    /\ MiddlewareTypeOK
    /\ NoSharedHandle /\ OptInIsHeard /\ ConsentIsRecent /\ EnvelopesAreUnderstood /\ SlotsHold

=============================================================================
