-------------------------- MODULE CustomerIdentity --------------------------
(***************************************************************************)
(* Who an interaction belongs to: the transaction that ingests a batch of   *)
(* telemetry resolves references to customers, merges an anonymous visitor  *)
(* into the customer it turns out to be, files interactions under sessions  *)
(* of their customer, and lets a clicked product link claim the unowned     *)
(* activity of its session.                                                 *)
(*                                                                         *)
(* A customer is named by the reference it was created for: identifiers of  *)
(* one product, whose hash is unique.  A batch holds the advisory locks of  *)
(* its references and the rows it changes until it commits, so two batches  *)
(* that touch the same customer, interaction or session are serial and the  *)
(* transaction is one function of the rows; one that a deadlock or a        *)
(* foreign key aborts leaves no trace, and its sender retries.              *)
(***************************************************************************)
EXTENDS Integers, Sequences, FiniteSets, FiniteSetsExt

CONSTANTS
    Users, Accounts, Visitors,  \* values of userRef, accountRef, anonymousRef
    NoOne,                      \* an absent reference, a NULL customer
    SessionRefs,                \* values of sessionRef
    NoSession,                  \* no sessionRef, a NULL session
    MaxInteraction              \* interactions are 1 .. MaxInteraction

ASSUME IdentityAssumption ==
    /\ NoOne \notin Users \cup Accounts \cup Visitors
    /\ NoSession \notin SessionRefs
    /\ Users \cap Accounts = {} /\ Visitors \cap (Users \cup Accounts) = {}
    /\ MaxInteraction \in Nat

Interactions == 1 .. MaxInteraction

KnownCustomers == Users \cup Accounts

Customers == KnownCustomers \cup Visitors

Owners == Customers \cup {NoOne}

(* link: customerLinkSource is product_link_click, which validation accepts  *)
(* only with a sessionRef and an anonymousRef.                              *)
Event ==
    {e \in [id : Interactions, user : Users \cup {NoOne}, account : Accounts \cup {NoOne},
            visitor : Visitors \cup {NoOne}, session : SessionRefs \cup {NoSession},
            link : BOOLEAN] :
        e.link => e.session # NoSession /\ e.visitor # NoOne}

(* sessions_v2, keyed by the customer scope and the reference.               *)
Session == [scope : Owners, ref : SessionRefs]

NoKey == [scope |-> NoOne, ref |-> NoSession]

(* The rows: into is merged_into_customer_id, parent is parent_customer_id,  *)
(* owner and filed are the customer and the session of an interaction.       *)
Rows ==
    [into : [Visitors -> KnownCustomers \cup {NoOne}],
     parent : [Users -> Accounts \cup {NoOne}],
     stored : SUBSET Interactions,
     owner : [Interactions -> Owners],
     filed : [Interactions -> Session \cup {NoKey}],
     sessions : SUBSET Session]

NoRows ==
    [into |-> [v \in Visitors |-> NoOne],
     parent |-> [u \in Users |-> NoOne],
     stored |-> {},
     owner |-> [i \in Interactions |-> NoOne],
     filed |-> [i \in Interactions |-> NoKey],
     sessions |-> {}]

-----------------------------------------------------------------------------
(* References.                                                               *)

(* A user keeps the account it was first seen with; without one it conflicts *)
(* as well.                                                                  *)
AccountAgrees(rows, e) ==
    e.user # NoOne => rows.parent[e.user] \in {NoOne, e.account}

Known(e) == IF e.user # NoOne THEN e.user ELSE e.account

Canonical(rows, v) == IF rows.into[v] = NoOne THEN v ELSE rows.into[v]

(* A visitor already linked to another customer conflicts.                   *)
VisitorAgrees(rows, e) ==
    e.visitor # NoOne /\ Known(e) # NoOne => rows.into[e.visitor] \in {NoOne, Known(e)}

CustomerOf(rows, e) ==
    IF Known(e) # NoOne THEN Known(e)
    ELSE IF e.visitor # NoOne THEN Canonical(rows, e.visitor) ELSE NoOne

Upsert(rows, e) ==
    IF e.user # NoOne /\ rows.parent[e.user] = NoOne
    THEN [rows EXCEPT !.parent[e.user] = e.account] ELSE rows

-----------------------------------------------------------------------------
(* Merging.                                                                  *)

(* Every session of scope from becomes, or joins, the one of scope to.       *)
Rekey(rows, from, to) ==
    LET moved(key) == IF key.scope = from THEN [scope |-> to, ref |-> key.ref] ELSE key
    IN  [rows EXCEPT !.filed = [i \in Interactions |-> moved(rows.filed[i])],
                     !.sessions = {moved(key) : key \in rows.sessions}]

(* Interactions of the visitor are those of the customer from now on.        *)
Reassign(rows, v, known) ==
    [rows EXCEPT
        !.into[v] = known,
        !.owner = [i \in Interactions |-> IF rows.owner[i] = v THEN known ELSE rows.owner[i]]]

(* Mutant: sessions stay with the visitor.                                   *)
MergeUnfiled(rows, v, known) ==
    IF rows.into[v] # NoOne THEN rows ELSE Reassign(rows, v, known)

Merge(rows, v, known) ==
    IF rows.into[v] # NoOne THEN rows ELSE Rekey(Reassign(rows, v, known), v, known)

Resolve(rows, e) ==
    IF e.visitor # NoOne /\ Known(e) # NoOne
    THEN Merge(Upsert(rows, e), e.visitor, Known(e))
    ELSE Upsert(rows, e)

-----------------------------------------------------------------------------
(* One event.                                                                *)

(* An interaction keeps its customer: an event of another one conflicts.     *)
OwnerAgrees(rows, e) ==
    rows.owner[e.id] = NoOne \/ CustomerOf(rows, e) \in {NoOne, rows.owner[e.id]}

Accepts(rows, e) ==
    /\ AccountAgrees(rows, e)
    /\ VisitorAgrees(rows, e)
    /\ OwnerAgrees(Resolve(rows, e), e)

OwnerOf(rows, e) == IF rows.owner[e.id] = NoOne THEN CustomerOf(rows, e) ELSE rows.owner[e.id]

Store(rows, e) ==
    [rows EXCEPT
        !.stored = rows.stored \cup {e.id},
        !.owner = [i \in Interactions |-> IF i = e.id THEN OwnerOf(rows, e) ELSE rows.owner[i]]]

ClaimOf(rows, e) == [ref |-> e.session, by |-> CustomerOf(rows, e)]

-----------------------------------------------------------------------------
(* The events of a batch.                                                    *)

(* Events go by their interactions, those of one in the order they came.     *)
NextOf(batch, left) ==
    CHOOSE n \in left : \A m \in left :
        batch[n].id < batch[m].id \/ (batch[n].id = batch[m].id /\ n <= m)

(* Where a batch stands: its accepted and dropped events by their positions, *)
(* and the links that were followed.                                         *)
Unread(rows) == [rows |-> rows, accepted |-> {}, dropped |-> {}, claims |-> {}]

(* An event that conflicts is rolled back to its savepoint and dropped.      *)
IngestEvent(batch, done) ==
    LET n == NextOf(batch, DOMAIN batch \ (done.accepted \cup done.dropped))
        e == batch[n]
        resolved == Resolve(done.rows, e)
    IN  IF Accepts(done.rows, e)
        THEN [rows |-> Store(resolved, e), accepted |-> done.accepted \cup {n},
              dropped |-> done.dropped,
              claims |-> done.claims \cup (IF e.link THEN {ClaimOf(resolved, e)} ELSE {})]
        ELSE [done EXCEPT !.dropped = @ \cup {n}]

IngestEvents(rows, batch) ==
    LET done[n \in 0 .. Len(batch)] ==
            IF n = 0 THEN Unread(rows) ELSE IngestEvent(batch, done[n - 1])
    IN  done[Len(batch)]

-----------------------------------------------------------------------------
(* Sessions.                                                                 *)

(* The session reference of interaction i: the one it is filed under, or the *)
(* first one an accepted event of the batch gives.                           *)
Evidence(rows, batch, accepted, i) ==
    LET given == {n \in accepted : batch[n].id = i /\ batch[n].session # NoSession}
    IN  IF rows.filed[i] # NoKey THEN rows.filed[i].ref
        ELSE IF given # {} THEN batch[Min(given)].session ELSE NoSession

(* Every interaction of the batch is filed under the session of its customer *)
(* and its reference.                                                        *)
Correlate(rows, batch, accepted) ==
    LET ref(i) == Evidence(rows, batch, accepted, i)
        ids == {i \in {batch[n].id : n \in accepted} : ref(i) # NoSession}
        key(i) == [scope |-> rows.owner[i], ref |-> ref(i)]
    IN  [rows EXCEPT !.filed = [i \in Interactions |-> IF i \in ids THEN key(i) ELSE rows.filed[i]],
                     !.sessions = rows.sessions \cup {key(i) : i \in ids}]

Unowned(ref) == [scope |-> NoOne, ref |-> ref]

(* The unowned activity of a session goes to the customer that followed a    *)
(* link of it.  Of several in a batch the one with the least identifier gets *)
(* it, which is as random as the identifiers; then the session is gone.      *)
Claim(rows, claims) ==
    LET found == {k \in claims : Unowned(k.ref) \in rows.sessions}
        winner(ref) == (CHOOSE k \in found : k.ref = ref).by
        claimed(i) == rows.owner[i] = NoOne /\ \E k \in found : rows.filed[i] = Unowned(k.ref)
        to(ref) == [scope |-> winner(ref), ref |-> ref]
    IN  [rows EXCEPT
            !.owner = [i \in Interactions |->
                         IF claimed(i) THEN winner(rows.filed[i].ref) ELSE rows.owner[i]],
            !.filed = [i \in Interactions |->
                         IF claimed(i) THEN to(rows.filed[i].ref) ELSE rows.filed[i]],
            !.sessions = (rows.sessions \ {Unowned(k.ref) : k \in found})
                            \cup {to(k.ref) : k \in found}]

-----------------------------------------------------------------------------
(* The transaction: events in the order of their interactions, then the      *)
(* sessions of what was accepted, then the claims.                           *)
Ingest(rows, batch) ==
    LET done == IngestEvents(rows, batch)
    IN  [rows |-> Claim(Correlate(done.rows, batch, done.accepted), done.claims),
         accepted |-> Cardinality(done.accepted), dropped |-> Cardinality(done.dropped)]

(* The rows after a batch of one event, an accepted one, step by step: the   *)
(* same as Ingest(rows, <<e>>).rows.                                         *)
FileUnder(rows, i, ref) ==
    IF ref = NoSession THEN rows
    ELSE LET key == [scope |-> rows.owner[i], ref |-> ref]
         IN  [rows EXCEPT !.filed = [j \in Interactions |-> IF j = i THEN key ELSE rows.filed[j]],
                          !.sessions = rows.sessions \cup {key}]

SessionRefOf(rows, e) == IF rows.filed[e.id] # NoKey THEN rows.filed[e.id].ref ELSE e.session

IngestOne(rows, e) ==
    LET resolved == Resolve(rows, e)
        stored == Store(resolved, e)
        filed == FileUnder(stored, e.id, SessionRefOf(stored, e))
    IN  IF e.link THEN Claim(filed, {ClaimOf(resolved, e)}) ELSE filed

=============================================================================
