--------------------------- MODULE CustomerContext ---------------------------
(***************************************************************************)
(* Customer context: the enrichment requests a product raises with its      *)
(* responses, the permission a customer records, the answers an agent       *)
(* submits, and what the product may retrieve and act on afterwards, while  *)
(* an anonymous visitor turns out to be a known customer.                   *)
(*                                                                         *)
(* One product, one purpose: subjects, grants and items of two purposes     *)
(* never meet, every query filters on it.  Each operation is one            *)
(* transaction that locks its request row, and the rows it writes refer to  *)
(* a customer row that a merge holds locked, so an operation is one step.   *)
(* An answer or a personalization decision that read no grant rows has none *)
(* locked, and a first refusal may commit in between: the outcome is that   *)
(* of the refusal coming second, which is a behaviour of this model.        *)
(***************************************************************************)
EXTENDS Integers, Sequences, FiniteSets

CONSTANTS
    Visitor,        \* the customer first known by an anonymousRef
    Known,          \* the customer known by a userRef
    Nobody,         \* no customer: a NULL customer_id
    Interactions,   \* interactions that carry an enrichment request
    Never,          \* the expiry of a grant without one
    MaxWords        \* bound: decisions recorded

ASSUME ConstantsAssumption ==
    /\ Visitor # Known /\ Nobody \notin {Visitor, Known}
    /\ Never \notin Interactions
    /\ IsFiniteSet(Interactions)
    /\ MaxWords \in Nat

Customers == {Visitor, Known}

(* References of a call: none, anonymousRef, userRef, or both.              *)
References == {"none", "visitor", "known", "both"}

Decisions == {"approved", "declined"}

(* "share" stands for share_preferences and personalize, which every list of *)
(* scopes in the code names together.                                       *)
Scopes == {"share", "remember"}

Required(remember) == IF remember THEN Scopes ELSE {"share"}

(* A subject is derived from the interaction when the permission is for it   *)
(* alone, from the customer when it is to be remembered.                     *)
Subjects == [kind : {"once"}, of : Interactions] \cup [kind : {"durable"}, of : Customers]

Subject(c, i, remember) ==
    IF remember /\ c # Nobody THEN [kind |-> "durable", of |-> c]
                              ELSE [kind |-> "once", of |-> i]

VARIABLES
    merged,         \* customers.merged_into_customer_id: the visitor is Known
    requests,       \* enrichment_requests and enrichment_answers, by interaction
    live,           \* the requests that have not expired, in order of creation
    grants,         \* consent_grants, by subject and scope
    items,          \* enrichment_signal_items
    words,          \* decisions recorded so far, the clock of decided_at
    lastWord,       \* history: what each customer decided last
    retrieval,      \* the product's last customer_context_retrievals row
    used            \* the items of the personalization decision just recorded

vars == <<merged, requests, live, grants, items, words, lastWord, retrieval, used>>

Owners == Customers \cup {Nobody}

Answers == {"answered", "declined", "no_relevant_context"}

Completed == {"answered", "no_relevant_context"}

NoRequest ==
    [state |-> "none", customer |-> Nobody, remember |-> FALSE, allowed |-> FALSE,
     subject |-> CHOOSE s \in Subjects : TRUE, expected |-> 0, answer |-> "none"]

(* allowed: remember_allowed.  expected: expected_consent_revision.          *)
Request ==
    [state : {"none", "answer_ready", "declined"} \cup Completed, customer : Owners,
     remember : BOOLEAN, allowed : BOOLEAN, subject : Subjects, expected : Nat,
     answer : {"none"} \cup Answers]

NoGrant ==
    [state |-> "none", revision |-> 0, decided |-> 0, until |-> Never, customer |-> Nobody]

(* until: the interaction whose request gave the grant its expires_at.       *)
Grant ==
    [state : {"none"} \cup Decisions, revision : Nat, decided : 0 .. MaxWords,
     until : Interactions \cup {Never}, customer : Owners]

ItemKey == [from : Interactions, remembered : BOOLEAN]

Item == [from : Interactions, remembered : BOOLEAN, customer : Owners]

Retrieval == [customer : Owners, items : SUBSET ItemKey]

NoRetrieval == [customer |-> Nobody, items |-> {}]

KeysOf(some) == {[from |-> m.from, remembered |-> m.remembered] : m \in some}

(* One that returned nothing is as good as none.                             *)
Retrieved(c, some) ==
    IF some = {} THEN NoRetrieval ELSE [customer |-> c, items |-> KeysOf(some)]

Word == [answer : {"none"} \cup Decisions, at : 0 .. MaxWords, until : Interactions \cup {Never}]

TypeOK ==
    /\ merged \in BOOLEAN
    /\ requests \in [Interactions -> Request]
    /\ live \in Seq(Interactions)
    /\ grants \in [Subjects -> [Scopes -> Grant]]
    /\ items \subseteq Item
    /\ words \in 0 .. MaxWords
    /\ lastWord \in [Customers -> Word]
    /\ retrieval \in Retrieval
    /\ used \subseteq ItemKey

Init ==
    /\ merged = FALSE
    /\ requests = [i \in Interactions |-> NoRequest]
    /\ live = <<>>
    /\ grants = [s \in Subjects |-> [sc \in Scopes |-> NoGrant]]
    /\ items = {}
    /\ words = 0
    /\ lastWord = [c \in Customers |-> [answer |-> "none", at |-> 0, until |-> Never]]
    /\ retrieval = NoRetrieval
    /\ used = {}

-----------------------------------------------------------------------------
(* Reading the grants.                                                       *)

Live(i) == \E k \in 1 .. Len(live) : live[k] = i

(* expires_at IS NULL OR expires_at > NOW()                                  *)
Unexpired(until) == until = Never \/ Live(until)

Refuses(grant) == grant.state = "declined" /\ Unexpired(grant.until)

(* Of table, the rows of subject s, or of customer c when there is one.      *)
Candidates(table, s, c, scopes) ==
    {p \in Subjects \X scopes :
        /\ table[p[1]][p[2]].state # "none"
        /\ p[1] = s \/ (c # Nobody /\ table[p[1]][p[2]].customer = c)}

(* Mutant: the rows are ordered by their revision.                           *)
MostRevised(table, candidates) ==
    CHOOSE p \in candidates :
        \A q \in candidates : table[q[1]][q[2]].revision <= table[p[1]][p[2]].revision

(* ORDER BY decided_at DESC LIMIT 1: rows decided together share a subject.  *)
Latest(table, candidates) ==
    CHOOSE p \in candidates :
        \A q \in candidates : table[q[1]][q[2]].decided <= table[p[1]][p[2]].decided

(* The subject, revision and state a request starts from: those of the       *)
(* subject decided last among the ones that apply.                           *)
Standing(table, s, c, remember) ==
    LET candidates == Candidates(table, s, IF remember THEN c ELSE Nobody, Required(remember))
        subject == IF candidates = {} THEN s ELSE Latest(table, candidates)[1]
        effective == {table[p[1]][p[2]] : p \in {q \in candidates : q[1] = subject}}
        top == CHOOSE r \in {0} \cup {g.revision : g \in effective} :
                   \A g \in effective : g.revision <= r
    IN  [subject |-> subject, revision |-> top,
         state |-> IF \E g \in effective : Refuses(g) THEN "declined" ELSE "answer_ready"]

(* The effective consent of an item is the latest one of its request's       *)
(* subject or its customer.                                                  *)
OptedOut(m) ==
    LET candidates == Candidates(grants, requests[m.from].subject, m.customer, Scopes)
    IN  candidates # {} /\ LET p == Latest(grants, candidates) IN Refuses(grants[p[1]][p[2]])

(* Remembered items outlive the requests of the model.                       *)
Permitted(m) == (m.remembered \/ Live(m.from)) /\ ~OptedOut(m)

(* The items of interaction i, or remembered for customer c.                 *)
Query(i, c) ==
    {m \in items : Permitted(m) /\ (m.from = i \/ (c # Nobody /\ m.customer = c /\ m.remembered))}

-----------------------------------------------------------------------------
(* Identity.                                                                 *)

VisitorRow == IF merged THEN Known ELSE Visitor

CustomerOf(refs) ==
    CASE refs = "none" -> Nobody
      [] refs = "visitor" -> VisitorRow
      [] OTHER -> Known

Repoint(c) == IF c = Visitor THEN Known ELSE c

MergedGrants ==
    [s \in Subjects |-> [sc \in Scopes |->
        [grants[s][sc] EXCEPT !.customer = Repoint(@)]]]

MergedItems == {[m EXCEPT !.customer = Repoint(@)] : m \in items}

MergedRequests == [i \in Interactions |-> [requests[i] EXCEPT !.customer = Repoint(@)]]

(* Mutant: the retrievals are not among the tables that are repointed.       *)
RetrievalStays == retrieval

MergedRetrieval == [retrieval EXCEPT !.customer = Repoint(@)]

LaterWord(w, v) == IF v.at > w.at THEN v ELSE w

(* A call that carries both references merges the visitor into the customer; *)
(* telemetry is one.                                                         *)
Identify ==
    /\ ~merged
    /\ merged' = TRUE
    /\ requests' = MergedRequests
    /\ grants' = MergedGrants
    /\ items' = MergedItems
    /\ retrieval' = MergedRetrieval
    /\ lastWord' = [lastWord EXCEPT ![Known] = LaterWord(@, lastWord[Visitor])]
    /\ UNCHANGED <<live, words>>

-----------------------------------------------------------------------------
(* Requests.                                                                 *)

(* The first call for an interaction; a retry returns the stored request. A  *)
(* request with both references finds the merge done by Identify.            *)
CreateRequest(i, refs, remember) ==
    LET c == CustomerOf(refs)
        durable == remember /\ refs # "none"
        standing == Standing(grants, Subject(c, i, durable), c, durable)
    IN  /\ requests[i].state = "none"
        /\ refs = "both" => merged
        /\ requests' = [requests EXCEPT ![i] =
               [state |-> standing.state, customer |-> c, remember |-> durable,
                allowed |-> durable, subject |-> standing.subject,
                expected |-> standing.revision, answer |-> "none"]]
        /\ live' = Append(live, i)
        /\ UNCHANGED <<merged, grants, items, words, lastWord, retrieval>>

(* Two hours after its creation a request, its capability, the grants given  *)
(* for it alone and its unremembered items expire.                           *)
Expire ==
    /\ live # <<>>
    /\ live' = Tail(live)
    /\ UNCHANGED <<merged, requests, grants, items, words, lastWord, retrieval>>

-----------------------------------------------------------------------------
(* Permission.                                                               *)

(* The request after a decision that also changes whether to remember.       *)
Reselected(i, remember) ==
    LET r == requests[i]
        standing == Standing(grants, Subject(r.customer, i, remember), r.customer, remember)
    IN  IF remember = r.remember THEN r
        ELSE [state |-> standing.state, customer |-> r.customer, remember |-> remember,
              allowed |-> r.allowed, subject |-> standing.subject,
              expected |-> standing.revision, answer |-> r.answer]

MayReselect(i, remember) ==
    \/ remember = requests[i].remember
    \/ /\ remember => requests[i].allowed
       /\ requests[i].state = "answer_ready"

Existing(r) == {sc \in Required(r.remember) : grants[r.subject][sc].state # "none"}

AlreadySo(r, answer) ==
    \A sc \in Required(r.remember) : grants[r.subject][sc].state = answer

(* The highest revision of the subject is the one the request was made with. *)
IsCurrent(r) ==
    /\ \A sc \in Existing(r) : grants[r.subject][sc].revision <= r.expected
    /\ r.expected = 0 \/ \E sc \in Existing(r) : grants[r.subject][sc].revision = r.expected

(* ON CONFLICT ... WHERE consent_grants.revision = expected, for every scope. *)
RowsAgree(r) == \A sc \in Existing(r) : grants[r.subject][sc].revision = r.expected

Recorded(r, i, answer) ==
    [grants EXCEPT ![r.subject] = [sc \in Scopes |->
        IF sc \in Required(r.remember)
        THEN [state |-> answer, revision |-> r.expected + 1, decided |-> words + 1,
              until |-> IF r.remember THEN Never ELSE i,
              customer |-> IF @[sc].customer = Nobody THEN r.customer ELSE @[sc].customer]
        ELSE @[sc]]]

(* Mutant: a decision leaves the request in a state of the grants.           *)
SettledAsDecided(r, state) ==
    IF r.state \in Completed THEN r
    ELSE [r EXCEPT !.state = IF state = "declined" THEN state ELSE "approved"]

(* state: the state shown to the agent, kept unless an answer settled it.    *)
Settled(r, state) == IF r.state \in Completed THEN r ELSE [r EXCEPT !.state = state]

ShownState(table, r) == Standing(table, r.subject, r.customer, r.remember).state

(* A decision changes the grants when it was taken on the latest revision    *)
(* and differs; otherwise the request shows what is decided.                 *)
DecideConsent(i, answer, remember) ==
    LET r == Reselected(i, remember)
        changes == ~AlreadySo(r, answer) /\ IsCurrent(r)
        decided == IF changes THEN Recorded(r, i, answer) ELSE grants
    IN  /\ Live(i)
        /\ MayReselect(i, remember)
        /\ changes => RowsAgree(r) /\ words < MaxWords
        /\ grants' = decided
        /\ IF changes
           THEN /\ words' = words + 1
                /\ lastWord' =
                     IF r.customer = Nobody THEN lastWord
                     ELSE [lastWord EXCEPT ![r.customer] =
                             [answer |-> answer, at |-> words + 1,
                              until |-> IF r.remember THEN Never ELSE i]]
           ELSE UNCHANGED <<words, lastWord>>
        /\ requests' = [requests EXCEPT ![i] = Settled(r, ShownState(decided, r))]
        /\ UNCHANGED <<merged, live, items, retrieval>>

-----------------------------------------------------------------------------
(* Answers.                                                                  *)

Blocked(r) == \E sc \in Scopes : Refuses(grants[r.subject][sc])

WithAnswer(r, status) ==
    [state |-> status, customer |-> r.customer, remember |-> r.remember, allowed |-> r.allowed,
     subject |-> r.subject, expected |-> r.expected, answer |-> status]

(* memory: whether the items of the answer are to be remembered.  A repeated *)
(* answer changes nothing, a different one is refused.                       *)
SubmitAnswer(i, status, memory) ==
    /\ Live(i)
    /\ requests[i].answer = "none"
    /\ requests[i].state = "answer_ready"
    /\ ~Blocked(requests[i])
    /\ (status = "answered") <=> (memory # {})
    /\ TRUE \in memory => requests[i].remember
    /\ requests' = [requests EXCEPT ![i] = WithAnswer(@, status)]
    /\ items' = items \cup
         {[from |-> i, remembered |-> remembered, customer |-> requests[i].customer] :
             remembered \in memory}
    /\ UNCHANGED <<merged, live, grants, words, lastWord, retrieval>>

-----------------------------------------------------------------------------
(* Use.                                                                      *)

Remembered(c) == {m \in items : m.remembered /\ m.customer = c /\ Permitted(m)}

(* By references, both naming one customer; or by an interaction, its        *)
(* customer included.                                                        *)
RetrieveByReference(refs) ==
    /\ refs # "none"
    /\ refs = "both" => merged
    /\ retrieval' = Retrieved(CustomerOf(refs), Remembered(CustomerOf(refs)))
    /\ UNCHANGED <<merged, requests, live, grants, items, words, lastWord>>

RetrieveByInteraction(i) ==
    /\ requests[i].state # "none"
    /\ retrieval' = Retrieved(requests[i].customer, Query(i, requests[i].customer))
    /\ UNCHANGED <<merged, requests, live, grants, items, words, lastWord>>

(* Mutant: what was retrieved is not looked at again.                        *)
PersonalizeAsRetrieved(chosen) ==
    /\ chosen # {}
    /\ chosen \subseteq retrieval.items
    /\ used' = chosen
    /\ UNCHANGED <<merged, requests, live, grants, items, words, lastWord, retrieval>>

(* A decision names items of the retrieval that are all still permitted.     *)
Personalize(chosen) ==
    /\ chosen # {}
    /\ chosen \subseteq retrieval.items
    /\ chosen \subseteq KeysOf({m \in items : Permitted(m)})
    /\ used' = chosen
    /\ UNCHANGED <<merged, requests, live, grants, items, words, lastWord, retrieval>>

-----------------------------------------------------------------------------
Next ==
    \/ /\ \/ Identify
          \/ \E i \in Interactions, refs \in References, remember \in BOOLEAN :
                CreateRequest(i, refs, remember)
          \/ Expire
          \/ \E i \in Interactions, answer \in Decisions, remember \in BOOLEAN :
                DecideConsent(i, answer, remember)
          \/ \E i \in Interactions, status \in Answers, memory \in SUBSET BOOLEAN :
                SubmitAnswer(i, status, memory)
          \/ \E refs \in References : RetrieveByReference(refs)
          \/ \E i \in Interactions : RetrieveByInteraction(i)
       /\ used' = {}
    \/ \E chosen \in SUBSET retrieval.items : Personalize(chosen)

Spec == Init /\ [][Next]_vars

-----------------------------------------------------------------------------
(* A merge leaves nothing with the visitor: every request, grant and item of *)
(* the merged customer belongs to the one it was merged into.                *)
MergeLeavesNothing ==
    merged =>
        /\ \A i \in Interactions : requests[i].customer # Visitor
        /\ \A s \in Subjects, sc \in Scopes : grants[s][sc].customer # Visitor
        /\ \A m \in items : m.customer # Visitor

(* A customer whose latest word is a refusal still in force is not served:   *)
(* no remembered item of theirs can be retrieved, and a request that would   *)
(* remember more is declined, whichever of their references it comes by.     *)
LatestRefusalHolds ==
    \A c \in Customers :
        /\ lastWord[c].answer = "declined"
        /\ Unexpired(lastWord[c].until)
        /\ c = Visitor => ~merged
        => /\ \A m \in items : m.remembered /\ m.customer = c => ~Permitted(m)
           /\ Standing(grants, Subject(c, CHOOSE i \in Interactions : TRUE, TRUE), c, TRUE).state
                = "declined"

(* Nothing is remembered beyond the contract: an item kept for later belongs *)
(* to a request that may remember, and that was answered while it did.       *)
MemoryWasPermitted ==
    \A m \in items : m.remembered => requests[m.from].remember /\ requests[m.from].allowed

(* A personalization decision never rests on an item whose customer's latest *)
(* word, when it is recorded, is a refusal in force: what was retrieved      *)
(* before the refusal does not count.                                        *)
ActivationHeedsRefusal ==
    [][\A k \in used', m \in items :
          /\ m.from = k.from /\ m.remembered = k.remembered /\ m.customer # Nobody
          => ~ (lastWord[m.customer].answer = "declined" /\ Unexpired(lastWord[m.customer].until))]_vars

(* A refusal survives the merge: nothing stays with the visitor, and the     *)
(* customer is not served.                                                   *)
RefusalsHold == MergeLeavesNothing /\ LatestRefusalHolds

(* What is remembered may be, and what is acted on still may.                *)
UseIsPermitted == []MemoryWasPermitted /\ ActivationHeedsRefusal

=============================================================================
