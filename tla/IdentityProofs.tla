---------------------------- MODULE IdentityProofs ----------------------------
(***************************************************************************)
(* What the steps of the transaction that ingests telemetry do to the rows,   *)
(* for any customers, sessions and batches.                                  *)
(***************************************************************************)
EXTENDS CustomerIdentity, FiniteSetTheorems, NaturalsInduction,
        WellFoundedInduction, TLAPS

-----------------------------------------------------------------------------
(* The rows.                                                                 *)

LEMMA EventType ==
  ASSUME NEW e \in Event
  PROVE  /\ e.id \in Interactions
         /\ e.user \in Users \cup {NoOne} /\ e.account \in Accounts \cup {NoOne}
         /\ e.visitor \in Visitors \cup {NoOne} /\ e.session \in SessionRefs \cup {NoSession}
         /\ e.link => e.session \in SessionRefs /\ e.visitor \in Visitors
         /\ Known(e) \in KnownCustomers \cup {NoOne}
BY DEF Event, Known, KnownCustomers

LEMMA Names ==
  /\ NoOne \notin KnownCustomers /\ NoOne \notin Visitors /\ NoOne \notin Customers
  /\ KnownCustomers \cap Visitors = {}
  /\ Customers = KnownCustomers \cup Visitors /\ Owners = Customers \cup {NoOne}
BY IdentityAssumption DEF KnownCustomers, Customers, Owners

LEMMA RowsType ==
  ASSUME NEW r \in Rows
  PROVE  /\ r.into \in [Visitors -> KnownCustomers \cup {NoOne}]
         /\ r.parent \in [Users -> Accounts \cup {NoOne}]
         /\ r.stored \subseteq Interactions
         /\ r.owner \in [Interactions -> Owners]
         /\ r.filed \in [Interactions -> Session \cup {NoKey}]
         /\ r.sessions \subseteq Session
         /\ r = [into |-> r.into, parent |-> r.parent, stored |-> r.stored, owner |-> r.owner,
                 filed |-> r.filed, sessions |-> r.sessions]
BY DEF Rows

LEMMA RowsAre ==
  ASSUME NEW into \in [Visitors -> KnownCustomers \cup {NoOne}],
         NEW parent \in [Users -> Accounts \cup {NoOne}],
         NEW stored \in SUBSET Interactions,
         NEW owner \in [Interactions -> Owners],
         NEW filed \in [Interactions -> Session \cup {NoKey}],
         NEW sessions \in SUBSET Session
  PROVE  [into |-> into, parent |-> parent, stored |-> stored, owner |-> owner,
          filed |-> filed, sessions |-> sessions] \in Rows
BY DEF Rows

(* Rows with some of the tables replaced.                                    *)
LEMMA MoreStored ==
  ASSUME NEW r \in Rows, NEW a
  PROVE  [r EXCEPT !.stored = a] =
            [into |-> r.into, parent |-> r.parent, stored |-> a,
             owner |-> r.owner, filed |-> r.filed, sessions |-> r.sessions]
BY RowsType

LEMMA FewerSessions ==
  ASSUME NEW r \in Rows, NEW a
  PROVE  [r EXCEPT !.sessions = a] =
            [into |-> r.into, parent |-> r.parent, stored |-> r.stored,
             owner |-> r.owner, filed |-> r.filed, sessions |-> a]
BY RowsType

LEMMA NewOwners ==
  ASSUME NEW r \in Rows, NEW a, NEW b
  PROVE  [r EXCEPT !.into = a, !.owner = b] =
            [into |-> a, parent |-> r.parent, stored |-> r.stored,
             owner |-> b, filed |-> r.filed, sessions |-> r.sessions]
<1>1. PICK p : p = [r EXCEPT !.into = a]
  OBVIOUS
<1>2. p = [into |-> a, parent |-> r.parent, stored |-> r.stored,
           owner |-> r.owner, filed |-> r.filed, sessions |-> r.sessions]
  BY <1>1, RowsType
<1>3. [r EXCEPT !.into = a, !.owner = b] = [p EXCEPT !.owner = b]
  BY <1>1, Zenon
<1>4. [p EXCEPT !.owner = b] =
        [into |-> a, parent |-> r.parent, stored |-> r.stored,
         owner |-> b, filed |-> r.filed, sessions |-> r.sessions]
  BY <1>2
<1> QED
  BY <1>3, <1>4

LEMMA NewSessions ==
  ASSUME NEW r \in Rows, NEW a, NEW b
  PROVE  [r EXCEPT !.filed = a, !.sessions = b] =
            [into |-> r.into, parent |-> r.parent, stored |-> r.stored,
             owner |-> r.owner, filed |-> a, sessions |-> b]
<1>1. PICK p : p = [r EXCEPT !.filed = a]
  OBVIOUS
<1>2. p = [into |-> r.into, parent |-> r.parent, stored |-> r.stored,
           owner |-> r.owner, filed |-> a, sessions |-> r.sessions]
  BY <1>1, RowsType
<1>3. [r EXCEPT !.filed = a, !.sessions = b] = [p EXCEPT !.sessions = b]
  BY <1>1, Zenon
<1>4. [p EXCEPT !.sessions = b] =
        [into |-> r.into, parent |-> r.parent, stored |-> r.stored,
         owner |-> r.owner, filed |-> a, sessions |-> b]
  BY <1>2
<1> QED
  BY <1>3, <1>4

LEMMA NewStored ==
  ASSUME NEW r \in Rows, NEW a, NEW b
  PROVE  [r EXCEPT !.stored = a, !.owner = b] =
            [into |-> r.into, parent |-> r.parent, stored |-> a,
             owner |-> b, filed |-> r.filed, sessions |-> r.sessions]
<1>1. PICK p : p = [r EXCEPT !.stored = a]
  OBVIOUS
<1>2. p = [into |-> r.into, parent |-> r.parent, stored |-> a,
           owner |-> r.owner, filed |-> r.filed, sessions |-> r.sessions]
  BY <1>1, RowsType
<1>3. [r EXCEPT !.stored = a, !.owner = b] = [p EXCEPT !.owner = b]
  BY <1>1, Zenon
<1>4. [p EXCEPT !.owner = b] =
        [into |-> r.into, parent |-> r.parent, stored |-> a,
         owner |-> b, filed |-> r.filed, sessions |-> r.sessions]
  BY <1>2
<1> QED
  BY <1>3, <1>4

LEMMA NewFiling ==
  ASSUME NEW r \in Rows, NEW a, NEW b, NEW c
  PROVE  [r EXCEPT !.owner = a, !.filed = b, !.sessions = c] =
            [into |-> r.into, parent |-> r.parent, stored |-> r.stored,
             owner |-> a, filed |-> b, sessions |-> c]
<1>1. PICK p : p = [r EXCEPT !.owner = a]
  OBVIOUS
<1>2. p = [into |-> r.into, parent |-> r.parent, stored |-> r.stored,
           owner |-> a, filed |-> r.filed, sessions |-> r.sessions]
  BY <1>1, RowsType
<1>3. PICK q : q = [p EXCEPT !.filed = b]
  OBVIOUS
<1>4. q = [into |-> r.into, parent |-> r.parent, stored |-> r.stored,
           owner |-> a, filed |-> b, sessions |-> r.sessions]
  BY <1>3, <1>2
<1>5. [r EXCEPT !.owner = a, !.filed = b, !.sessions = c] = [q EXCEPT !.sessions = c]
  BY <1>1, <1>3, Zenon
<1>6. [q EXCEPT !.sessions = c] =
        [into |-> r.into, parent |-> r.parent, stored |-> r.stored,
         owner |-> a, filed |-> b, sessions |-> c]
  BY <1>4
<1> QED
  BY <1>5, <1>6

LEMMA FewerStored ==
  ASSUME NEW r \in Rows, NEW a, NEW b, NEW c
  PROVE  [r EXCEPT !.stored = a, !.owner = b, !.filed = c] =
            [into |-> r.into, parent |-> r.parent, stored |-> a,
             owner |-> b, filed |-> c, sessions |-> r.sessions]
<1>1. PICK p : p = [r EXCEPT !.stored = a]
  OBVIOUS
<1>2. p = [into |-> r.into, parent |-> r.parent, stored |-> a,
           owner |-> r.owner, filed |-> r.filed, sessions |-> r.sessions]
  BY <1>1, RowsType
<1>3. PICK q : q = [p EXCEPT !.owner = b]
  OBVIOUS
<1>4. q = [into |-> r.into, parent |-> r.parent, stored |-> a,
           owner |-> b, filed |-> r.filed, sessions |-> r.sessions]
  BY <1>3, <1>2
<1>5. [r EXCEPT !.stored = a, !.owner = b, !.filed = c] = [q EXCEPT !.filed = c]
  BY <1>1, <1>3, Zenon
<1>6. [q EXCEPT !.filed = c] =
        [into |-> r.into, parent |-> r.parent, stored |-> a,
         owner |-> b, filed |-> c, sessions |-> r.sessions]
  BY <1>4
<1> QED
  BY <1>5, <1>6

LEMMA UpsertIs ==
  ASSUME NEW r \in Rows, NEW e \in Event
  PROVE  /\ Upsert(r, e) \in Rows
         /\ Upsert(r, e).into = r.into /\ Upsert(r, e).stored = r.stored
         /\ Upsert(r, e).owner = r.owner /\ Upsert(r, e).filed = r.filed
         /\ Upsert(r, e).sessions = r.sessions
<1>1. CASE e.user # NoOne /\ r.parent[e.user] = NoOne
  <2>1. Upsert(r, e) = [into |-> r.into, parent |-> [r.parent EXCEPT ![e.user] = e.account],
                        stored |-> r.stored, owner |-> r.owner, filed |-> r.filed,
                        sessions |-> r.sessions]
    BY <1>1, RowsType DEF Upsert
  <2>2. [r.parent EXCEPT ![e.user] = e.account] \in [Users -> Accounts \cup {NoOne}]
    BY RowsType, EventType
  <2>3. Upsert(r, e) \in Rows
    BY <2>1, <2>2, RowsType, RowsAre
  <2> QED
    BY <2>1, <2>3
<1>2. CASE ~(e.user # NoOne /\ r.parent[e.user] = NoOne)
  BY <1>2 DEF Upsert
<1> QED
  BY <1>1, <1>2

LEMMA ReassignIs ==
  ASSUME NEW r \in Rows, NEW v \in Visitors, NEW known \in KnownCustomers
  PROVE  /\ Reassign(r, v, known) \in Rows
         /\ Reassign(r, v, known).into = [r.into EXCEPT ![v] = known]
         /\ Reassign(r, v, known).stored = r.stored /\ Reassign(r, v, known).filed = r.filed
         /\ Reassign(r, v, known).sessions = r.sessions /\ Reassign(r, v, known).parent = r.parent
         /\ \A i \in Interactions :
               Reassign(r, v, known).owner[i] = IF r.owner[i] = v THEN known ELSE r.owner[i]
<1> DEFINE owner == [i \in Interactions |-> IF r.owner[i] = v THEN known ELSE r.owner[i]]
<1>1. Reassign(r, v, known) =
        [into |-> [r.into EXCEPT ![v] = known], parent |-> r.parent, stored |-> r.stored,
         owner |-> owner, filed |-> r.filed, sessions |-> r.sessions]
  BY NewOwners DEF Reassign
<1>2. [r.into EXCEPT ![v] = known] \in [Visitors -> KnownCustomers \cup {NoOne}]
  BY RowsType
<1>3. /\ owner \in [Interactions -> Owners]
      /\ \A i \in Interactions : owner[i] = IF r.owner[i] = v THEN known ELSE r.owner[i]
  BY RowsType, Names
<1> HIDE DEF owner
<1>4. Reassign(r, v, known) \in Rows
  BY <1>1, <1>2, <1>3, RowsType, RowsAre
<1> QED
  BY <1>1, <1>3, <1>4

(* The key a session of scope from goes to.                                  *)
MovedKey(key, from, to) == IF key.scope = from THEN [scope |-> to, ref |-> key.ref] ELSE key

LEMMA RekeyIs ==
  ASSUME NEW r \in Rows, NEW from \in Customers, NEW to \in Owners
  PROVE  /\ Rekey(r, from, to) \in Rows
         /\ Rekey(r, from, to).into = r.into /\ Rekey(r, from, to).owner = r.owner
         /\ Rekey(r, from, to).stored = r.stored /\ Rekey(r, from, to).parent = r.parent
         /\ Rekey(r, from, to).sessions = {MovedKey(key, from, to) : key \in r.sessions}
         /\ \A i \in Interactions : Rekey(r, from, to).filed[i] = MovedKey(r.filed[i], from, to)
<1> DEFINE filed == [i \in Interactions |-> MovedKey(r.filed[i], from, to)]
           sessions == {MovedKey(key, from, to) : key \in r.sessions}
<1>1. Rekey(r, from, to) =
        [into |-> r.into, parent |-> r.parent, stored |-> r.stored, owner |-> r.owner,
         filed |-> filed, sessions |-> sessions]
  <2>1. filed = [i \in Interactions |->
                  IF r.filed[i].scope = from THEN [scope |-> to, ref |-> r.filed[i].ref] ELSE r.filed[i]]
    BY DEF MovedKey
  <2>2. sessions = {IF key.scope = from THEN [scope |-> to, ref |-> key.ref] ELSE key : key \in r.sessions}
    BY DEF MovedKey
  <2>3. Rekey(r, from, to) = [r EXCEPT !.filed = filed, !.sessions = sessions]
    BY <2>1, <2>2, Zenon DEF Rekey
  <2> HIDE DEF filed, sessions
  <2> QED
    BY <2>3, NewSessions
<1>2. ASSUME NEW key \in Session PROVE MovedKey(key, from, to) \in Session
  BY DEF MovedKey, Session
<1>3. sessions \in SUBSET Session
  <2>1. r.sessions \subseteq Session
    BY RowsType
  <2>2. ASSUME NEW x \in sessions PROVE x \in Session
    BY <2>1, <1>2
  <2> QED
    BY <2>2
<1>4. \A i \in Interactions : MovedKey(r.filed[i], from, to) \in Session \cup {NoKey}
  BY <1>2, RowsType, Names DEF MovedKey, NoKey
<1>5. filed \in [Interactions -> Session \cup {NoKey}]
  BY <1>4
<1>6. \A i \in Interactions : filed[i] = MovedKey(r.filed[i], from, to)
  OBVIOUS
<1> HIDE DEF filed
<1>7. Rekey(r, from, to) \in Rows
  BY <1>1, <1>3, <1>5, RowsType, RowsAre
<1> QED
  BY <1>1, <1>6, <1>7

(* Resolving an event leaves the sessions where they are, or moves those of   *)
(* its visitor to the customer it turned out to be.                          *)
LEMMA ResolveIs ==
  ASSUME NEW r \in Rows, NEW e \in Event
  PROVE  /\ Resolve(r, e) \in Rows
         /\ Resolve(r, e).stored = r.stored
         /\ \/ /\ Resolve(r, e).sessions = r.sessions /\ Resolve(r, e).filed = r.filed
               /\ Resolve(r, e).owner = r.owner /\ Resolve(r, e).into = r.into
            \/ /\ e.visitor \in Visitors /\ Known(e) \in KnownCustomers
               /\ Resolve(r, e).into = [r.into EXCEPT ![e.visitor] = Known(e)]
               /\ Resolve(r, e).into[e.visitor] = Known(e)
               /\ Resolve(r, e).sessions = {MovedKey(key, e.visitor, Known(e)) : key \in r.sessions}
               /\ \A i \in Interactions :
                     /\ Resolve(r, e).owner[i] =
                           IF r.owner[i] = e.visitor THEN Known(e) ELSE r.owner[i]
                     /\ Resolve(r, e).owner[i] # e.visitor
                     /\ Resolve(r, e).filed[i] = MovedKey(r.filed[i], e.visitor, Known(e))
<1> DEFINE u == Upsert(r, e)
<1>1. /\ u \in Rows /\ u.sessions = r.sessions /\ u.stored = r.stored
      /\ u.owner = r.owner /\ u.filed = r.filed /\ u.into = r.into
  BY UpsertIs
<1> HIDE DEF u
<1>2. CASE e.visitor # NoOne /\ Known(e) # NoOne /\ u.into[e.visitor] = NoOne
  <2> DEFINE a == Reassign(u, e.visitor, Known(e))
  <2>1. e.visitor \in Visitors /\ Known(e) \in KnownCustomers
    BY <1>2, EventType
  <2>2. e.visitor \in Customers /\ Known(e) \in Owners
    BY <2>1, Names
  <2>3. Resolve(r, e) = Rekey(a, e.visitor, Known(e))
    BY <1>2 DEF Resolve, Merge, u
  <2>4. /\ a \in Rows /\ a.sessions = u.sessions /\ a.stored = u.stored /\ a.filed = u.filed
        /\ a.into = [u.into EXCEPT ![e.visitor] = Known(e)]
        /\ \A i \in Interactions :
              a.owner[i] = IF u.owner[i] = e.visitor THEN Known(e) ELSE u.owner[i]
    BY <1>1, <2>1, ReassignIs
  <2> HIDE DEF a
  <2>5. a.into[e.visitor] = Known(e)
    BY <1>1, <2>1, <2>4, RowsType
  <2>6. /\ Resolve(r, e) \in Rows
        /\ Resolve(r, e).into = a.into /\ Resolve(r, e).owner = a.owner
        /\ Resolve(r, e).stored = a.stored
        /\ Resolve(r, e).sessions = {MovedKey(key, e.visitor, Known(e)) : key \in a.sessions}
        /\ \A i \in Interactions :
              Resolve(r, e).filed[i] = MovedKey(a.filed[i], e.visitor, Known(e))
    BY <2>2, <2>3, <2>4, RekeyIs
  <2>7. Known(e) # e.visitor
    BY <2>1, Names
  <2>8. \A i \in Interactions :
           /\ Resolve(r, e).owner[i] = IF r.owner[i] = e.visitor THEN Known(e) ELSE r.owner[i]
           /\ Resolve(r, e).owner[i] # e.visitor
           /\ Resolve(r, e).filed[i] = MovedKey(r.filed[i], e.visitor, Known(e))
    BY <1>1, <2>4, <2>6, <2>7
  <2> QED
    BY <1>1, <2>1, <2>4, <2>5, <2>6, <2>8
<1>3. CASE ~(e.visitor # NoOne /\ Known(e) # NoOne /\ u.into[e.visitor] = NoOne)
  <2>1. Resolve(r, e) = u
    BY <1>3 DEF Resolve, Merge, u
  <2> QED
    BY <1>1, <2>1
<1> QED
  BY <1>2, <1>3

LEMMA CustomerOfType ==
  ASSUME NEW r \in Rows, NEW e \in Event
  PROVE  /\ CustomerOf(r, e) \in Owners
         /\ Known(e) # NoOne => CustomerOf(r, e) = Known(e)
         /\ e.visitor # NoOne => CustomerOf(r, e) # NoOne
<1>1. ASSUME e.visitor # NoOne PROVE Canonical(r, e.visitor) \in Customers
  <2>1. e.visitor \in Visitors
    BY <1>1, EventType
  <2>2. r.into[e.visitor] \in KnownCustomers \cup {NoOne}
    BY <2>1, RowsType
  <2> QED
    BY <2>1, <2>2, Names DEF Canonical
<1> QED
  BY <1>1, EventType, Names DEF CustomerOf

LEMMA StoreIs ==
  ASSUME NEW r \in Rows, NEW e \in Event
  PROVE  /\ Store(r, e) \in Rows
         /\ Store(r, e).stored = r.stored \cup {e.id}
         /\ Store(r, e).into = r.into /\ Store(r, e).sessions = r.sessions
         /\ Store(r, e).parent = r.parent
         /\ Store(r, e).owner[e.id] = OwnerOf(r, e) /\ Store(r, e).filed = r.filed
         /\ \A i \in Interactions \ {e.id} : Store(r, e).owner[i] = r.owner[i]
<1> DEFINE owner == [i \in Interactions |-> IF i = e.id THEN OwnerOf(r, e) ELSE r.owner[i]]
           stored == r.stored \cup {e.id}
<1>1. Store(r, e) =
        [into |-> r.into, parent |-> r.parent, stored |-> stored,
         owner |-> owner, filed |-> r.filed, sessions |-> r.sessions]
  <2>1. Store(r, e) = [r EXCEPT !.stored = stored, !.owner = owner]
    BY Zenon DEF Store
  <2> HIDE DEF owner, stored
  <2> QED
    BY <2>1, NewStored
<1>2. OwnerOf(r, e) \in Owners
  BY CustomerOfType, RowsType, EventType DEF OwnerOf
<1>3. /\ owner \in [Interactions -> Owners] /\ owner[e.id] = OwnerOf(r, e)
      /\ \A i \in Interactions \ {e.id} : owner[i] = r.owner[i]
  BY <1>2, RowsType, EventType
<1>4. stored \in SUBSET Interactions
  BY RowsType, EventType
<1> HIDE DEF owner
<1>5. Store(r, e) \in Rows
  BY <1>1, <1>3, <1>4, RowsType, RowsAre
<1> QED
  BY <1>1, <1>3, <1>5

LEMMA FileUnderIs ==
  ASSUME NEW r \in Rows, NEW i \in Interactions, NEW ref \in SessionRefs \cup {NoSession}
  PROVE  /\ FileUnder(r, i, ref) \in Rows
         /\ FileUnder(r, i, ref).stored = r.stored
         /\ FileUnder(r, i, ref).into = r.into /\ FileUnder(r, i, ref).owner = r.owner
         /\ \A j \in Interactions \ {i} : FileUnder(r, i, ref).filed[j] = r.filed[j]
         /\ \/ /\ FileUnder(r, i, ref).sessions = r.sessions
               /\ ref = NoSession /\ FileUnder(r, i, ref).filed = r.filed
            \/ /\ FileUnder(r, i, ref).filed[i].scope = r.owner[i]
               /\ FileUnder(r, i, ref).sessions = r.sessions \cup {FileUnder(r, i, ref).filed[i]}
<1>1. CASE ref = NoSession
  BY <1>1 DEF FileUnder
<1>2. CASE ref # NoSession
  <2> DEFINE key == [scope |-> r.owner[i], ref |-> ref]
             filed == [j \in Interactions |-> IF j = i THEN key ELSE r.filed[j]]
             sessions == r.sessions \cup {key}
  <2>1. key \in Session /\ key.scope = r.owner[i]
    BY <1>2, RowsType DEF Session
  <2>2. FileUnder(r, i, ref) =
          [into |-> r.into, parent |-> r.parent, stored |-> r.stored,
           owner |-> r.owner, filed |-> filed, sessions |-> sessions]
    <3>1. FileUnder(r, i, ref) = [r EXCEPT !.filed = filed, !.sessions = sessions]
      BY <1>2, Zenon DEF FileUnder
    <3> HIDE DEF filed, sessions
    <3> QED
      BY <3>1, NewSessions
  <2> HIDE DEF key
  <2>3. /\ filed \in [Interactions -> Session \cup {NoKey}] /\ filed[i] = key
        /\ \A j \in Interactions \ {i} : filed[j] = r.filed[j]
    BY <2>1, RowsType
  <2>4. sessions \in SUBSET Session
    BY <2>1, RowsType
  <2> HIDE DEF filed
  <2>5. FileUnder(r, i, ref) \in Rows
    BY <2>2, <2>3, <2>4, RowsType, RowsAre
  <2> QED
    BY <2>1, <2>2, <2>3, <2>5
<1> QED
  BY <1>1, <1>2

(* Claims whose unowned session is there, and the customer that gets it.      *)
Found(r, claims) == {k \in claims : Unowned(k.ref) \in r.sessions}

Winner(r, claims, ref) == (CHOOSE k \in Found(r, claims) : k.ref = ref).by

Claims == [ref : SessionRefs, by : Owners]

IsClaimed(r, claims, i) ==
    r.owner[i] = NoOne /\ \E k \in Found(r, claims) : r.filed[i] = Unowned(k.ref)

LEMMA WinnerIs ==
  ASSUME NEW r \in Rows, NEW claims \in SUBSET Claims, NEW k \in Found(r, claims)
  PROVE  /\ \E c \in claims : c.ref = k.ref /\ c.by = Winner(r, claims, k.ref)
         /\ Winner(r, claims, k.ref) \in Owners
         /\ [scope |-> Winner(r, claims, k.ref), ref |-> k.ref] \in Session
<1> DEFINE best == CHOOSE c \in Found(r, claims) : c.ref = k.ref
<1>1. best \in Found(r, claims) /\ best.ref = k.ref
  OBVIOUS
<1>2. best \in claims /\ best.by = Winner(r, claims, k.ref)
  BY <1>1 DEF Found, Winner
<1> HIDE DEF best
<1>3. best.by \in Owners /\ k.ref \in SessionRefs
  BY <1>2 DEF Claims, Found
<1> QED
  BY <1>1, <1>2, <1>3 DEF Session

LEMMA ClaimsAre ==
  ASSUME NEW r \in Rows, NEW claims \in SUBSET Claims
  PROVE  /\ Claim(r, claims) \in Rows
         /\ Claim(r, claims).stored = r.stored /\ Claim(r, claims).into = r.into
         /\ Claim(r, claims).parent = r.parent
         /\ \A i \in Interactions :
               ~IsClaimed(r, claims, i) => /\ Claim(r, claims).owner[i] = r.owner[i]
                                         /\ Claim(r, claims).filed[i] = r.filed[i]
         /\ \A i \in Interactions :
               IsClaimed(r, claims, i) =>
                  /\ Claim(r, claims).owner[i] = Winner(r, claims, r.filed[i].ref)
                  /\ Claim(r, claims).filed[i] =
                        [scope |-> Winner(r, claims, r.filed[i].ref), ref |-> r.filed[i].ref]
         /\ Claim(r, claims).sessions =
               (r.sessions \ {Unowned(k.ref) : k \in Found(r, claims)})
                  \cup {[scope |-> Winner(r, claims, k.ref), ref |-> k.ref] : k \in Found(r, claims)}
<1> DEFINE win(ref) == Winner(r, claims, ref)
           owner == [i \in Interactions |->
                       IF IsClaimed(r, claims, i) THEN win(r.filed[i].ref) ELSE r.owner[i]]
           filed == [i \in Interactions |->
                       IF IsClaimed(r, claims, i)
                       THEN [scope |-> win(r.filed[i].ref), ref |-> r.filed[i].ref] ELSE r.filed[i]]
           sessions == (r.sessions \ {Unowned(k.ref) : k \in Found(r, claims)})
                         \cup {[scope |-> win(k.ref), ref |-> k.ref] : k \in Found(r, claims)}
<1>1. Claim(r, claims) = [into |-> r.into, parent |-> r.parent, stored |-> r.stored,
                          owner |-> owner, filed |-> filed, sessions |-> sessions]
  <2>1. Claim(r, claims) = [r EXCEPT !.owner = owner, !.filed = filed, !.sessions = sessions]
    BY Zenon DEF Claim, IsClaimed, Found, Winner
  <2> HIDE DEF owner, filed, sessions
  <2> QED
    BY <2>1, NewFiling
<1>2. ASSUME NEW i \in Interactions, IsClaimed(r, claims, i)
      PROVE  win(r.filed[i].ref) \in Owners
             /\ [scope |-> win(r.filed[i].ref), ref |-> r.filed[i].ref] \in Session
  <2>1. PICK k \in Found(r, claims) : r.filed[i] = Unowned(k.ref)
    BY <1>2 DEF IsClaimed
  <2>2. r.filed[i].ref = k.ref
    BY <2>1 DEF Unowned
  <2> QED
    BY <2>2, WinnerIs
<1>3. owner \in [Interactions -> Owners] /\ filed \in [Interactions -> Session \cup {NoKey}]
  <2> HIDE DEF win
  <2> QED
    BY <1>2, RowsType
<1>4. sessions \in SUBSET Session
  <2>1. \A k \in Found(r, claims) : [scope |-> win(k.ref), ref |-> k.ref] \in Session
    BY WinnerIs
  <2>2. r.sessions \subseteq Session
    BY RowsType
  <2> HIDE DEF win
  <2> QED
    BY <2>1, <2>2
<1>5. Claim(r, claims) \in Rows
  <2> HIDE DEF owner, filed, sessions
  <2> QED
    BY <1>1, <1>3, <1>4, RowsType, RowsAre
<1>6. /\ Claim(r, claims).stored = r.stored /\ Claim(r, claims).into = r.into
      /\ Claim(r, claims).parent = r.parent /\ Claim(r, claims).owner = owner
      /\ Claim(r, claims).filed = filed /\ Claim(r, claims).sessions = sessions
  <2> HIDE DEF owner, filed, sessions
  <2> QED
    BY <1>1
<1>7. \A i \in Interactions :
         ~IsClaimed(r, claims, i) => owner[i] = r.owner[i] /\ filed[i] = r.filed[i]
  OBVIOUS
<1>8. \A i \in Interactions :
         IsClaimed(r, claims, i) =>
            /\ owner[i] = Winner(r, claims, r.filed[i].ref)
            /\ filed[i] = [scope |-> Winner(r, claims, r.filed[i].ref), ref |-> r.filed[i].ref]
  OBVIOUS
<1> HIDE DEF owner, filed
<1> QED
  BY <1>5, <1>6, <1>7, <1>8

LEMMA ClaimIs ==
  ASSUME NEW r \in Rows, NEW ref \in SessionRefs, NEW by \in Owners, NEW source, NEW target,
         source = [scope |-> NoOne, ref |-> ref], target = [scope |-> by, ref |-> ref]
  PROVE  /\ Claim(r, {[ref |-> ref, by |-> by]}) \in Rows
         /\ Claim(r, {[ref |-> ref, by |-> by]}).stored = r.stored
         /\ Claim(r, {[ref |-> ref, by |-> by]}).into = r.into
         /\ \A i \in Interactions :
               r.filed[i] # source => /\ Claim(r, {[ref |-> ref, by |-> by]}).filed[i] = r.filed[i]
                                      /\ Claim(r, {[ref |-> ref, by |-> by]}).owner[i] = r.owner[i]
         /\ \/ /\ Claim(r, {[ref |-> ref, by |-> by]}) = r /\ source \notin r.sessions
               /\ Claim(r, {[ref |-> ref, by |-> by]}).sessions = r.sessions
            \/ /\ source \in r.sessions
               /\ Claim(r, {[ref |-> ref, by |-> by]}).sessions =
                     (r.sessions \ {source}) \cup {target}
               /\ \A i \in Interactions :
                     r.filed[i] = source /\ r.owner[i] = NoOne =>
                        /\ Claim(r, {[ref |-> ref, by |-> by]}).filed[i] = target
                        /\ Claim(r, {[ref |-> ref, by |-> by]}).owner[i] = by
<1> DEFINE claim == [ref |-> ref, by |-> by]
           new == Claim(r, {claim})
<1>1. /\ claim \in Claims /\ claim.ref = ref /\ claim.by = by /\ Unowned(ref) = source
      /\ {claim} \in SUBSET Claims
  BY DEF Claims, Unowned
<1> HIDE DEF claim
<1>2. /\ new \in Rows /\ new.stored = r.stored /\ new.into = r.into /\ new.parent = r.parent
      /\ \A i \in Interactions :
            ~IsClaimed(r, {claim}, i) => new.owner[i] = r.owner[i] /\ new.filed[i] = r.filed[i]
      /\ \A i \in Interactions :
            IsClaimed(r, {claim}, i) =>
               /\ new.owner[i] = Winner(r, {claim}, r.filed[i].ref)
               /\ new.filed[i] =
                     [scope |-> Winner(r, {claim}, r.filed[i].ref), ref |-> r.filed[i].ref]
      /\ new.sessions =
            (r.sessions \ {Unowned(k.ref) : k \in Found(r, {claim})})
               \cup {[scope |-> Winner(r, {claim}, k.ref), ref |-> k.ref] : k \in Found(r, {claim})}
  BY <1>1, ClaimsAre, Zenon
<1> HIDE DEF new
<1>3. CASE source \notin r.sessions
  <2>1. Found(r, {claim}) = {}
    BY <1>1, <1>3 DEF Found
  <2>2. \A i \in Interactions : ~IsClaimed(r, {claim}, i)
    BY <2>1 DEF IsClaimed
  <2>3. new.sessions = r.sessions
    BY <1>2, <2>1
  <2>4. new.owner = r.owner /\ new.filed = r.filed
    <3>1. /\ \A i \in Interactions : new.owner[i] = r.owner[i] /\ new.filed[i] = r.filed[i]
          /\ new.owner \in [Interactions -> Owners] /\ r.owner \in [Interactions -> Owners]
          /\ new.filed \in [Interactions -> Session \cup {NoKey}]
          /\ r.filed \in [Interactions -> Session \cup {NoKey}]
      BY <1>2, <2>2, RowsType
    <3> QED
      BY <3>1
  <2>5. new = r
    BY <1>2, <2>3, <2>4, RowsType, Zenon
  <2> QED
    BY <1>1, <1>3, <2>3, <2>5 DEF new, claim
<1>4. CASE source \in r.sessions
  <2>1. Found(r, {claim}) = {claim}
    BY <1>1, <1>4 DEF Found
  <2>2. Winner(r, {claim}, ref) = by
    <3>1. (CHOOSE k \in {claim} : k.ref = ref) = claim
      BY <1>1
    <3> QED
      BY <1>1, <2>1, <3>1 DEF Winner
  <2>3. new.sessions = (r.sessions \ {source}) \cup {target}
    <3>1. {Unowned(k.ref) : k \in {claim}} = {source}
      BY <1>1
    <3>2. {[scope |-> Winner(r, {claim}, k.ref), ref |-> k.ref] : k \in {claim}} = {target}
      BY <1>1, <2>2
    <3> QED
      BY <1>2, <2>1, <3>1, <3>2, Zenon
  <2>4. \A i \in Interactions : IsClaimed(r, {claim}, i) <=> r.filed[i] = source /\ r.owner[i] = NoOne
    BY <1>1, <2>1 DEF IsClaimed
  <2>5. source.ref = ref
    OBVIOUS
  <2>6. \A i \in Interactions :
           /\ r.filed[i] # source => new.filed[i] = r.filed[i] /\ new.owner[i] = r.owner[i]
           /\ r.filed[i] = source /\ r.owner[i] = NoOne => new.filed[i] = target /\ new.owner[i] = by
    BY <1>2, <2>2, <2>4, <2>5
  <2> QED
    BY <1>2, <1>4, <2>3, <2>6 DEF new, claim
<1> QED
  BY <1>3, <1>4

-----------------------------------------------------------------------------
(* Counting.                                                                 *)

LEMMA Smallest ==
  ASSUME NEW S \in SUBSET Nat, S # {}
  PROVE  \E least \in S : \A n \in S : least <= n
<1>1. PICK least \in S : \A n \in S : ~ (<<n, least>> \in OpToRel(<, Nat))
  BY NatLessThanWellFounded, WFMin
<1>2. OpToRel(<, Nat) = {ss \in Nat \X Nat : ss[1] < ss[2]}
  BY Zenon DEF OpToRel
<1>3. ASSUME NEW n \in S PROVE least <= n
  <2>1. <<n, least>> \notin {ss \in Nat \X Nat : ss[1] < ss[2]}
    BY <1>1, <1>2, Zenon
  <2>2. n \in Nat /\ least \in Nat
    OBVIOUS
  <2> QED
    BY <2>1, <2>2
<1> QED
  BY <1>3

LEMMA IntervalInduction ==
  ASSUME NEW N \in Nat, NEW S, 0 \in S, \A n \in 1 .. N : n - 1 \in S => n \in S
  PROVE  \A n \in 0 .. N : n \in S
<1> SUFFICES ASSUME NEW m \in 0 .. N, m \notin S PROVE FALSE
  OBVIOUS
<1> DEFINE T == {n \in 0 .. N : n \notin S}
<1>1. T \in SUBSET Nat /\ T # {}
  OBVIOUS
<1> HIDE DEF T
<1>2. PICK least \in T : \A n \in T : least <= n
  BY <1>1, Smallest
<1> USE DEF T
<1>3. least \in 1 .. N /\ least \notin S
  OBVIOUS
<1>4. least - 1 \in S
  BY <1>2, <1>3
<1> QED
  BY <1>3, <1>4

-----------------------------------------------------------------------------
(* The events of a batch, one after the other.                               *)

Left(batch, done) == DOMAIN batch \ (done.accepted \cup done.dropped)

(* What becomes of the event at position n.                                  *)
Taken(batch, done, n) ==
    LET resolved == Resolve(done.rows, batch[n])
    IN  IF Accepts(done.rows, batch[n])
        THEN [rows |-> Store(resolved, batch[n]), accepted |-> done.accepted \cup {n},
              dropped |-> done.dropped,
              claims |-> done.claims
                            \cup (IF batch[n].link THEN {ClaimOf(resolved, batch[n])} ELSE {})]
        ELSE [done EXCEPT !.dropped = @ \cup {n}]

Standing(batch) ==
    [rows : Rows, accepted : SUBSET (DOMAIN batch), dropped : SUBSET (DOMAIN batch),
     claims : SUBSET Claims]

Progress(r, batch) ==
    CHOOSE done : done = [n \in 0 .. Len(batch) |->
                            IF n = 0 THEN Unread(r) ELSE IngestEvent(batch, done[n - 1])]

Unfolds(r, batch, f, m) ==
    /\ f = [n \in 0 .. m |-> f[n]]
    /\ f[0] = Unread(r) /\ \A n \in 1 .. m : f[n] = IngestEvent(batch, f[n - 1])

LEMMA ProgressIs ==
  ASSUME NEW r, NEW batch, Len(batch) \in Nat
  PROVE  /\ IngestEvents(r, batch) = Progress(r, batch)[Len(batch)]
         /\ Progress(r, batch)[0] = Unread(r)
         /\ \A n \in 1 .. Len(batch) :
               Progress(r, batch)[n] = IngestEvent(batch, Progress(r, batch)[n - 1])
<1> DEFINE N == Len(batch)
           T == {m \in 0 .. N : \E f : Unfolds(r, batch, f, m)}
<1>1. 0 \in T
  <2> DEFINE f == [n \in 0 .. 0 |-> Unread(r)]
  <2>1. f[0] = Unread(r) /\ f = [n \in 0 .. 0 |-> f[n]] /\ 1 .. 0 = {}
    OBVIOUS
  <2> HIDE DEF f
  <2>2. Unfolds(r, batch, f, 0)
    BY <2>1 DEF Unfolds
  <2> QED
    BY <2>2
<1>2. ASSUME NEW m \in 1 .. N, m - 1 \in T PROVE m \in T
  <2>1. PICK f : Unfolds(r, batch, f, m - 1)
    BY <1>2
  <2> DEFINE g == [n \in 0 .. m |-> IF n = m THEN IngestEvent(batch, f[m - 1]) ELSE f[n]]
  <2>2. g = [n \in 0 .. m |-> g[n]]
    OBVIOUS
  <2>3. g[m] = IngestEvent(batch, f[m - 1]) /\ \A n \in 0 .. m - 1 : g[n] = f[n]
    OBVIOUS
  <2> HIDE DEF g
  <2>4. g[0] = Unread(r)
    BY <2>1, <2>3 DEF Unfolds
  <2>5. ASSUME NEW n \in 1 .. m PROVE g[n] = IngestEvent(batch, g[n - 1])
    <3>1. CASE n = m
      BY <2>3, <3>1
    <3>2. CASE n # m
      <4>1. n \in 1 .. m - 1 /\ n - 1 \in 0 .. m - 1 /\ n \in 0 .. m - 1
        BY <3>2
      <4> QED
        BY <2>1, <2>3, <4>1 DEF Unfolds
    <3> QED
      BY <3>1, <3>2
  <2>6. Unfolds(r, batch, g, m)
    BY <2>2, <2>4, <2>5 DEF Unfolds
  <2> QED
    BY <2>6
<1>3. N \in T
  <2> HIDE DEF T
  <2>1. \A n \in 1 .. N : n - 1 \in T => n \in T
    BY <1>2
  <2>2. N \in Nat /\ N \in 0 .. N
    OBVIOUS
  <2> HIDE DEF N
  <2>3. \A n \in 0 .. N : n \in T
    BY <1>1, <2>1, <2>2, IntervalInduction
  <2> QED
    BY <2>2, <2>3
<1>4. PICK f : Unfolds(r, batch, f, N)
  BY <1>3
<1> DEFINE F(g) == [n \in 0 .. N |-> IF n = 0 THEN Unread(r) ELSE IngestEvent(batch, g[n - 1])]
<1>5. f = F(f)
  <2>1. \A n \in 0 .. N : f[n] = IF n = 0 THEN Unread(r) ELSE IngestEvent(batch, f[n - 1])
    BY <1>4 DEF Unfolds
  <2>2. [n \in 0 .. N |-> f[n]] = F(f)
    BY <2>1
  <2> QED
    BY <1>4, <2>2 DEF Unfolds
<1> DEFINE p == Progress(r, batch)
<1>6. p = CHOOSE g : g = F(g)
  BY DEF Progress
<1>7. p = F(p)
  <2> HIDE DEF F
  <2> QED
    BY <1>5, <1>6
<1>8. IngestEvents(r, batch) = p[N]
  BY DEF IngestEvents, Progress
<1> HIDE DEF p
<1>9. p[0] = Unread(r)
  <2>1. F(p)[0] = Unread(r)
    OBVIOUS
  <2> QED
    BY <1>7, <2>1
<1>10. \A n \in 1 .. N : p[n] = IngestEvent(batch, p[n - 1])
  <2>1. \A n \in 1 .. N : F(p)[n] = IngestEvent(batch, p[n - 1])
    OBVIOUS
  <2> QED
    BY <1>7, <2>1
<1> QED
  BY <1>8, <1>9, <1>10 DEF p

LEMMA NextIs ==
  ASSUME NEW batch \in Seq(Event), NEW left \in SUBSET (DOMAIN batch), left # {}
  PROVE  NextOf(batch, left) \in left
<1>1. \A n \in left : n \in Nat /\ batch[n] \in Event
  OBVIOUS
<1>2. \A n \in left : batch[n].id \in Nat
  BY <1>1, EventType, IdentityAssumption DEF Interactions
<1> DEFINE ids == {batch[n].id : n \in left}
<1>3. ids \in SUBSET Nat /\ ids # {}
  BY <1>2
<1>4. PICK id \in ids : \A x \in ids : id <= x
  BY <1>3, Smallest
<1> DEFINE same == {n \in left : batch[n].id = id}
<1>5. same \in SUBSET Nat /\ same # {}
  BY <1>1, <1>4
<1>6. PICK first \in same : \A n \in same : first <= n
  BY <1>5, Smallest
<1>7. ASSUME NEW m \in left
      PROVE  batch[first].id < batch[m].id \/ (batch[first].id = batch[m].id /\ first <= m)
  <2>1. batch[first].id = id /\ id <= batch[m].id /\ batch[m].id \in Nat /\ id \in Nat
    BY <1>2, <1>4, <1>6
  <2>2. CASE batch[m].id = id
    <3>1. m \in same
      BY <2>2
    <3> QED
      BY <1>6, <2>1, <2>2, <3>1
  <2>3. CASE batch[m].id # id
    BY <2>1, <2>3
  <2> QED
    BY <2>2, <2>3
<1>8. first \in left
  OBVIOUS
<1> HIDE DEF ids, same
<1> QED
  BY <1>7, <1>8 DEF NextOf

LEMMA TakesOne ==
  ASSUME NEW batch, NEW done
  PROVE  IngestEvent(batch, done) = Taken(batch, done, NextOf(batch, Left(batch, done)))
BY Zenon DEF IngestEvent, Taken, Left

(* An event is accepted, or dropped without a trace.                         *)
LEMMA TakenIs ==
  ASSUME NEW batch \in Seq(Event), NEW done \in Standing(batch), NEW n \in Left(batch, done),
         NEW e, e = batch[n], NEW new, new = Taken(batch, done, n)
  PROVE  /\ new \in Standing(batch) /\ Left(batch, new) = Left(batch, done) \ {n}
         /\ e \in Event /\ n \in DOMAIN batch /\ done.rows \in Rows /\ n \notin done.accepted
         /\ \/ /\ Accepts(done.rows, e) /\ new.rows = Store(Resolve(done.rows, e), e)
               /\ new.accepted = done.accepted \cup {n} /\ new.dropped = done.dropped
               /\ new.claims = done.claims \cup
                     (IF e.link THEN {ClaimOf(Resolve(done.rows, e), e)} ELSE {})
            \/ /\ ~Accepts(done.rows, e) /\ new.rows = done.rows
               /\ new.accepted = done.accepted /\ new.dropped = done.dropped \cup {n}
               /\ new.claims = done.claims
<1>1. /\ e \in Event /\ done.rows \in Rows /\ n \in DOMAIN batch /\ n \notin done.accepted
      /\ done.accepted \in SUBSET (DOMAIN batch) /\ done.dropped \in SUBSET (DOMAIN batch)
      /\ done.claims \in SUBSET Claims
      /\ done = [rows |-> done.rows, accepted |-> done.accepted, dropped |-> done.dropped,
                 claims |-> done.claims]
  BY DEF Left, Standing
<1>2. PICK resolved : resolved = Resolve(done.rows, e)
  OBVIOUS
<1>3. resolved \in Rows
  BY <1>1, <1>2, ResolveIs
<1>4. CASE Accepts(done.rows, e)
  <2>1. PICK stored : stored = Store(resolved, e)
    OBVIOUS
  <2>2. stored \in Rows
    BY <1>1, <1>3, <2>1, StoreIs
  <2>3. PICK more : more = IF e.link THEN {ClaimOf(resolved, e)} ELSE {}
    OBVIOUS
  <2>4. more \in SUBSET Claims
    <3>1. e.link => e.session \in SessionRefs
      BY <1>1, EventType
    <3>2. CustomerOf(resolved, e) \in Owners
      BY <1>1, <1>3, CustomerOfType
    <3> QED
      BY <2>3, <3>1, <3>2 DEF ClaimOf, Claims
  <2>5. new = [rows |-> stored, accepted |-> done.accepted \cup {n}, dropped |-> done.dropped,
               claims |-> done.claims \cup more]
    BY <1>2, <1>4, <2>1, <2>3, Zenon DEF Taken
  <2>6. /\ new.rows = stored /\ new.accepted = done.accepted \cup {n}
        /\ new.dropped = done.dropped /\ new.claims = done.claims \cup more
    BY <2>5
  <2>7. new \in Standing(batch)
    BY <1>1, <2>2, <2>4, <2>5 DEF Standing
  <2>8. Left(batch, new) = Left(batch, done) \ {n}
    BY <2>6 DEF Left
  <2> QED
    BY <1>1, <1>2, <1>4, <2>1, <2>3, <2>6, <2>7, <2>8
<1>5. CASE ~Accepts(done.rows, e)
  <2>1. new = [done EXCEPT !.dropped = done.dropped \cup {n}]
    BY <1>5, Zenon DEF Taken
  <2>2. new = [rows |-> done.rows, accepted |-> done.accepted, dropped |-> done.dropped \cup {n},
               claims |-> done.claims]
    BY <1>1, <2>1
  <2>3. new \in Standing(batch)
    BY <1>1, <2>2 DEF Standing
  <2>4. /\ new.rows = done.rows /\ new.accepted = done.accepted
        /\ new.dropped = done.dropped \cup {n} /\ new.claims = done.claims
    BY <2>2
  <2>5. Left(batch, new) = Left(batch, done) \ {n}
    BY <2>4 DEF Left
  <2> QED
    BY <1>1, <1>5, <2>3, <2>4, <2>5, Zenon
<1> QED
  BY <1>4, <1>5

(* What holds before a batch and is kept by each of its events holds after    *)
(* them.                                                                     *)
LEMMA BatchInduction ==
  ASSUME NEW r \in Rows, NEW batch \in Seq(Event), NEW Good,
         Unread(r) \in Good,
         \A done \in Good \cap Standing(batch) :
            \A n \in Left(batch, done) : Taken(batch, done, n) \in Good
  PROVE  /\ IngestEvents(r, batch) \in Good /\ IngestEvents(r, batch) \in Standing(batch)
         /\ Left(batch, IngestEvents(r, batch)) = {}
<1> DEFINE N == Len(batch)
           p == Progress(r, batch)
           S == {m \in 0 .. N : /\ p[m] \in Good /\ p[m] \in Standing(batch)
                                /\ IsFiniteSet(Left(batch, p[m]))
                                /\ Cardinality(Left(batch, p[m])) = N - m}
<1>1. N \in Nat /\ DOMAIN batch = 1 .. N
  OBVIOUS
<1>2. /\ IngestEvents(r, batch) = p[N] /\ p[0] = Unread(r)
      /\ \A n \in 1 .. N : p[n] = IngestEvent(batch, p[n - 1])
  BY <1>1, ProgressIs
<1> HIDE DEF p
<1>3. 0 \in S
  <2>1. Unread(r) \in Standing(batch)
    BY DEF Unread, Standing
  <2>2. Left(batch, Unread(r)) = 1 .. N
    BY <1>1 DEF Left, Unread
  <2>3. IsFiniteSet(1 .. N) /\ Cardinality(1 .. N) = N
    BY <1>1, FS_Interval
  <2> QED
    BY <1>1, <1>2, <2>1, <2>2, <2>3
<1>4. ASSUME NEW m \in 1 .. N, m - 1 \in S PROVE m \in S
  <2>1. PICK done : done = p[m - 1]
    OBVIOUS
  <2>2. /\ done \in Good /\ done \in Standing(batch) /\ IsFiniteSet(Left(batch, done))
        /\ Cardinality(Left(batch, done)) = N - (m - 1)
    BY <1>4, <2>1
  <2>3. Left(batch, done) # {}
    <3>1. N - (m - 1) # 0
      BY <1>1
    <3>2. Cardinality({}) = 0
      BY FS_EmptySet, Zenon
    <3> QED
      BY <2>2, <3>1, <3>2, Zenon
  <2>4. PICK n : n = NextOf(batch, Left(batch, done))
    OBVIOUS
  <2>5. n \in Left(batch, done)
    <3>1. Left(batch, done) \in SUBSET (DOMAIN batch)
      BY DEF Left
    <3> QED
      BY <2>3, <2>4, <3>1, NextIs
  <2>6. PICK new : new = Taken(batch, done, n)
    OBVIOUS
  <2>7. p[m] = new
    BY <1>2, <2>1, <2>4, <2>6, TakesOne
  <2>8. new \in Good
    BY <2>2, <2>5, <2>6
  <2>9. new \in Standing(batch) /\ Left(batch, new) = Left(batch, done) \ {n}
    BY <2>2, <2>5, <2>6, TakenIs
  <2>10. /\ IsFiniteSet(Left(batch, done) \ {n})
         /\ Cardinality(Left(batch, done) \ {n}) = Cardinality(Left(batch, done)) - 1
    BY <2>2, <2>5, FS_RemoveElement
  <2>11. Cardinality(Left(batch, new)) = N - m
    BY <1>1, <2>2, <2>9, <2>10
  <2>12. /\ new \in Good /\ new \in Standing(batch) /\ IsFiniteSet(Left(batch, new))
         /\ Cardinality(Left(batch, new)) = N - m
    BY <2>8, <2>9, <2>10, <2>11, Zenon
  <2>13. m \in 0 .. N
    BY <1>1
  <2> QED
    BY <2>7, <2>12, <2>13, Zenon
<1>5. N \in S
  <2> HIDE DEF S
  <2>1. \A n \in 1 .. N : n - 1 \in S => n \in S
    BY <1>4
  <2>2. N \in Nat /\ N \in 0 .. N
    BY <1>1
  <2> HIDE DEF N
  <2>3. \A n \in 0 .. N : n \in S
    BY <1>3, <2>1, <2>2, IntervalInduction
  <2> QED
    BY <2>2, <2>3
<1>6. Cardinality(Left(batch, p[N])) = 0
  BY <1>1, <1>5
<1>7. Left(batch, p[N]) = {}
  BY <1>5, <1>6, FS_EmptySet
<1> QED
  BY <1>2, <1>5, <1>7

-----------------------------------------------------------------------------
(* What the steps keep of the rows: identity is only resolved.                *)

OwnerResolves(r, s, i) ==
    /\ r.owner[i] \in KnownCustomers => s.owner[i] = r.owner[i]
    /\ r.owner[i] \in Visitors =>
          /\ s.owner[i] \in {r.owner[i], Canonical(s, r.owner[i])}
          /\ r.into[r.owner[i]] = NoOne => s.owner[i] = Canonical(s, r.owner[i])

Resolves(r, s) ==
    /\ r.stored \subseteq s.stored
    /\ \A v \in Visitors : r.into[v] # NoOne => s.into[v] = r.into[v]
    /\ \A u \in Users : r.parent[u] # NoOne => s.parent[u] = r.parent[u]
    /\ \A i \in Interactions : r.filed[i] # NoKey => s.filed[i] # NoKey
    /\ \A i \in Interactions : OwnerResolves(r, s, i)

LEMMA ResolvesAlone == ASSUME NEW r \in Rows PROVE Resolves(r, r)
BY DEF Resolves, OwnerResolves, Canonical

LEMMA ResolvesOn ==
  ASSUME NEW r \in Rows, NEW s \in Rows, NEW t \in Rows, Resolves(r, s), Resolves(s, t)
  PROVE  Resolves(r, t)
<1>1. ASSUME NEW i \in Interactions PROVE OwnerResolves(r, t, i)
  <2>1. OwnerResolves(r, s, i) /\ OwnerResolves(s, t, i)
    BY DEF Resolves
  <2>2. CASE r.owner[i] \in KnownCustomers
    BY <2>1, <2>2, Names DEF OwnerResolves
  <2>3. CASE r.owner[i] \in Visitors
    <3> DEFINE v == r.owner[i]
    <3>1. v \in Visitors /\ v \notin KnownCustomers
      BY <2>3, Names
    <3>2. s.into[v] \in KnownCustomers \cup {NoOne} /\ t.into[v] \in KnownCustomers \cup {NoOne}
      BY <3>1, RowsType
    <3>3. s.into[v] # NoOne => t.into[v] = s.into[v]
      BY <3>1 DEF Resolves
    <3>4. s.owner[i] \in {v, Canonical(s, v)} /\ (r.into[v] = NoOne => s.owner[i] = Canonical(s, v))
      BY <2>1, <2>3 DEF OwnerResolves
    <3>5. r.into[v] # NoOne => s.into[v] = r.into[v]
      BY <3>1 DEF Resolves
    <3>6. CASE s.owner[i] = v
      <4>1. /\ t.owner[i] \in {v, Canonical(t, v)}
            /\ s.into[v] = NoOne => t.owner[i] = Canonical(t, v)
        BY <2>1, <3>1, <3>6 DEF OwnerResolves
      <4>2. r.into[v] = NoOne => s.into[v] = NoOne
        BY <3>1, <3>2, <3>4, <3>6 DEF Canonical
      <4> QED
        BY <3>1, <4>1, <4>2, Names DEF OwnerResolves
    <3>7. CASE s.owner[i] # v
      <4>1. s.owner[i] = s.into[v] /\ s.into[v] # NoOne
        BY <3>4, <3>7 DEF Canonical
      <4>2. s.owner[i] \in KnownCustomers
        BY <3>2, <4>1
      <4>3. t.owner[i] = s.owner[i]
        BY <2>1, <4>2 DEF OwnerResolves
      <4>4. Canonical(t, v) = t.into[v] /\ t.owner[i] = t.into[v]
        BY <3>3, <4>1, <4>3 DEF Canonical
      <4> QED
        BY <3>1, <4>4, Names DEF OwnerResolves
    <3> QED
      BY <3>6, <3>7
  <2> QED
    BY <2>2, <2>3 DEF OwnerResolves
<1> QED
  BY <1>1 DEF Resolves

LEMMA UpsertParents ==
  ASSUME NEW r \in Rows, NEW e \in Event
  PROVE  /\ \A u \in Users : r.parent[u] # NoOne => Upsert(r, e).parent[u] = r.parent[u]
         /\ e.user # NoOne /\ AccountAgrees(r, e) => Upsert(r, e).parent[e.user] = e.account
         /\ e.user # NoOne /\ r.parent[e.user] = e.account => Upsert(r, e) = r
<1>1. CASE e.user # NoOne /\ r.parent[e.user] = NoOne
  <2> DEFINE parent == [r.parent EXCEPT ![e.user] = e.account]
  <2>1. Upsert(r, e) = [into |-> r.into, parent |-> parent,
                        stored |-> r.stored, owner |-> r.owner, filed |-> r.filed,
                        sessions |-> r.sessions]
    BY <1>1, RowsType DEF Upsert
  <2>2. Upsert(r, e).parent = parent
    BY <2>1
  <2>3. e.user \in Users
    BY <1>1, EventType
  <2>4. parent[e.user] = e.account /\ \A u \in Users \ {e.user} : parent[u] = r.parent[u]
    BY <2>3, RowsType
  <2>5. r.parent[e.user] = e.account => parent = r.parent
    BY <2>3, RowsType
  <2>6. r.parent[e.user] = e.account => Upsert(r, e) = r
    BY <2>1, <2>5, RowsType, Zenon
  <2> QED
    BY <1>1, <2>2, <2>4, <2>6
<1>2. CASE ~(e.user # NoOne /\ r.parent[e.user] = NoOne)
  BY <1>2 DEF Upsert, AccountAgrees
<1> QED
  BY <1>1, <1>2

LEMMA ResolvedRefs ==
  ASSUME NEW r \in Rows, NEW e \in Event, NEW s, s = Resolve(r, e)
  PROVE  /\ s.parent = Upsert(r, e).parent
         /\ \A v \in Visitors : r.into[v] # NoOne => s.into[v] = r.into[v]
         /\ e.visitor # NoOne /\ Known(e) # NoOne => s.into[e.visitor] # NoOne
         /\ e.visitor # NoOne /\ Known(e) # NoOne /\ r.into[e.visitor] # NoOne => s = Upsert(r, e)
         /\ ~(e.visitor # NoOne /\ Known(e) # NoOne) => s = Upsert(r, e)
<1>1. PICK u : u = Upsert(r, e)
  OBVIOUS
<1>2. u \in Rows /\ u.into = r.into
  BY <1>1, UpsertIs
<1>3. CASE e.visitor # NoOne /\ Known(e) # NoOne /\ r.into[e.visitor] = NoOne
  <2>1. e.visitor \in Visitors /\ Known(e) \in KnownCustomers
    BY <1>3, EventType
  <2>2. PICK a : a = Reassign(u, e.visitor, Known(e))
    OBVIOUS
  <2>3. s = Rekey(a, e.visitor, Known(e))
    BY <1>1, <1>2, <1>3, <2>2 DEF Resolve, Merge
  <2>4. a \in Rows /\ a.into = [u.into EXCEPT ![e.visitor] = Known(e)] /\ a.parent = u.parent
    BY <1>2, <2>1, <2>2, ReassignIs
  <2>5. s.into = a.into /\ s.parent = a.parent
    <3>1. e.visitor \in Customers /\ Known(e) \in Owners
      BY <2>1, Names
    <3> QED
      BY <2>3, <2>4, <3>1, RekeyIs
  <2>6. s.into[e.visitor] = Known(e) /\ \A v \in Visitors \ {e.visitor} : s.into[v] = r.into[v]
    BY <1>2, <2>1, <2>4, <2>5, RowsType
  <2> QED
    BY <1>1, <1>3, <2>4, <2>5, <2>6
<1>4. CASE ~(e.visitor # NoOne /\ Known(e) # NoOne /\ r.into[e.visitor] = NoOne)
  <2>1. s = u
    BY <1>1, <1>2, <1>4 DEF Resolve, Merge
  <2> QED
    BY <1>1, <1>2, <1>4, <2>1
<1> QED
  BY <1>3, <1>4

LEMMA ResolveResolves ==
  ASSUME NEW r \in Rows, NEW e \in Event, NEW s, s = Resolve(r, e)
  PROVE  /\ s \in Rows /\ Resolves(r, s)
         /\ \A i \in Interactions : s.filed[i].ref = r.filed[i].ref
<1>1. s \in Rows /\ s.stored = r.stored
  BY ResolveIs
<1>2. \A v \in Visitors : r.into[v] # NoOne => s.into[v] = r.into[v]
  BY ResolvedRefs
<1>3. \A u \in Users : r.parent[u] # NoOne => s.parent[u] = r.parent[u]
  BY ResolvedRefs, UpsertParents
<1>4. CASE s.filed = r.filed /\ s.owner = r.owner /\ s.into = r.into
  <2>1. \A i \in Interactions : OwnerResolves(r, s, i)
    BY <1>4 DEF OwnerResolves, Canonical
  <2> QED
    BY <1>1, <1>2, <1>3, <1>4, <2>1 DEF Resolves
<1>5. CASE ~(s.filed = r.filed /\ s.owner = r.owner /\ s.into = r.into)
  <2>1. /\ e.visitor \in Visitors /\ Known(e) \in KnownCustomers
        /\ s.into = [r.into EXCEPT ![e.visitor] = Known(e)]
        /\ \A i \in Interactions :
              /\ s.owner[i] = IF r.owner[i] = e.visitor THEN Known(e) ELSE r.owner[i]
              /\ s.owner[i] # e.visitor
              /\ s.filed[i] = MovedKey(r.filed[i], e.visitor, Known(e))
    BY <1>5, ResolveIs
  <2>2. s.into[e.visitor] = Known(e) /\ \A v \in Visitors \ {e.visitor} : s.into[v] = r.into[v]
    BY <2>1, RowsType
  <2>3. ASSUME NEW i \in Interactions
        PROVE  s.filed[i].ref = r.filed[i].ref /\ (r.filed[i] # NoKey => s.filed[i] # NoKey)
    <3>1. s.filed[i] = MovedKey(r.filed[i], e.visitor, Known(e))
      BY <2>1
    <3>2. r.filed[i] \in Session \cup {NoKey}
      BY RowsType
    <3> QED
      BY <2>1, <3>1, <3>2, Names DEF MovedKey, NoKey
  <2>4. ASSUME NEW i \in Interactions PROVE OwnerResolves(r, s, i)
    <3>1. s.owner[i] = IF r.owner[i] = e.visitor THEN Known(e) ELSE r.owner[i]
      BY <2>1
    <3>2. CASE r.owner[i] = e.visitor
      BY <2>1, <2>2, <3>1, <3>2, Names DEF OwnerResolves, Canonical
    <3>3. CASE r.owner[i] # e.visitor
      BY <2>2, <3>1, <3>3 DEF OwnerResolves, Canonical
    <3> QED
      BY <3>2, <3>3
  <2> QED
    BY <1>1, <1>2, <1>3, <2>3, <2>4 DEF Resolves
<1> QED
  BY <1>4, <1>5

LEMMA StoreResolves ==
  ASSUME NEW r \in Rows, NEW e \in Event, NEW s, s = Store(r, e)
  PROVE  s \in Rows /\ Resolves(r, s) /\ s.filed = r.filed
<1>1. /\ s \in Rows /\ s.stored = r.stored \cup {e.id} /\ s.into = r.into /\ s.parent = r.parent
      /\ s.owner[e.id] = OwnerOf(r, e) /\ s.filed = r.filed
      /\ \A i \in Interactions \ {e.id} : s.owner[i] = r.owner[i]
  BY StoreIs
<1>2. \A i \in Interactions : r.owner[i] # NoOne => s.owner[i] = r.owner[i]
  BY <1>1 DEF OwnerOf
<1>3. \A i \in Interactions : OwnerResolves(r, s, i)
  BY <1>1, <1>2, Names DEF OwnerResolves, Canonical
<1> QED
  BY <1>1, <1>3 DEF Resolves

LEMMA ClaimResolves ==
  ASSUME NEW r \in Rows, NEW claims \in SUBSET Claims, NEW s, s = Claim(r, claims)
  PROVE  s \in Rows /\ Resolves(r, s)
<1>1. s \in Rows /\ s.stored = r.stored /\ s.into = r.into /\ s.parent = r.parent
  BY ClaimsAre
<1>2. ASSUME NEW i \in Interactions, IsClaimed(r, claims, i)
      PROVE  r.owner[i] = NoOne /\ s.filed[i] # NoKey
  <2>1. r.owner[i] = NoOne
    BY <1>2 DEF IsClaimed
  <2>2. s.filed[i] = [scope |-> Winner(r, claims, r.filed[i].ref), ref |-> r.filed[i].ref]
    BY <1>2, ClaimsAre
  <2>3. PICK k \in Found(r, claims) : r.filed[i] = Unowned(k.ref)
    BY <1>2 DEF IsClaimed
  <2>4. r.filed[i].ref = k.ref /\ k.ref \in SessionRefs
    BY <2>3 DEF Unowned, Found, Claims
  <2>5. s.filed[i].ref \in SessionRefs
    BY <2>2, <2>4
  <2> QED
    BY <2>1, <2>5, IdentityAssumption DEF NoKey
<1>3. \A i \in Interactions :
         ~IsClaimed(r, claims, i) => s.owner[i] = r.owner[i] /\ s.filed[i] = r.filed[i]
  BY ClaimsAre
<1>4. \A i \in Interactions : OwnerResolves(r, s, i)
  BY <1>1, <1>2, <1>3, Names DEF OwnerResolves, Canonical
<1>5. \A i \in Interactions : r.filed[i] # NoKey => s.filed[i] # NoKey
  BY <1>2, <1>3
<1> QED
  BY <1>1, <1>4, <1>5 DEF Resolves

LEMMA EvidenceIs ==
  ASSUME NEW r \in Rows, NEW batch \in Seq(Event), NEW accepted \in SUBSET (DOMAIN batch),
         NEW i \in Interactions, NEW ref, ref = Evidence(r, batch, accepted, i)
  PROVE  /\ ref \in SessionRefs \cup {NoSession}
         /\ r.filed[i] # NoKey => ref = r.filed[i].ref /\ ref \in SessionRefs
         /\ r.filed[i] = NoKey /\ ref # NoSession =>
               \E n \in accepted : batch[n].id = i /\ batch[n].session = ref
         /\ \A n \in accepted : batch[n].id = i /\ batch[n].session # NoSession => ref # NoSession
<1>1. CASE r.filed[i] # NoKey
  <2>1. r.filed[i] \in Session
    BY <1>1, RowsType
  <2>2. ref = r.filed[i].ref
    BY <1>1 DEF Evidence
  <2> QED
    BY <1>1, <2>1, <2>2, IdentityAssumption DEF Session
<1>2. CASE r.filed[i] = NoKey
  <2> DEFINE given == {n \in accepted : batch[n].id = i /\ batch[n].session # NoSession}
  <2>1. CASE given = {}
    <3>1. ref = NoSession
      BY <1>2, <2>1 DEF Evidence
    <3> QED
      BY <1>2, <2>1, <3>1
  <2>2. CASE given # {}
    <3>1. ref = batch[Min(given)].session
      BY <1>2, <2>2 DEF Evidence
    <3>2. given \in SUBSET Nat
      OBVIOUS
    <3>3. \E least \in given : \A n \in given : least <= n
      BY <2>2, <3>2, Smallest
    <3>4. Min(given) \in given
      BY <3>3 DEF Min
    <3>5. PICK n \in accepted : n = Min(given) /\ batch[n].id = i /\ batch[n].session # NoSession
      BY <3>4
    <3>6. ref = batch[n].session /\ batch[n] \in Event
      BY <3>1, <3>5
    <3>7. batch[n].session \in SessionRefs \cup {NoSession}
      BY <3>6, EventType
    <3> QED
      BY <1>2, <3>5, <3>6, <3>7
  <2> QED
    BY <2>1, <2>2
<1> QED
  BY <1>1, <1>2

(* The interactions a batch files, and where.                                *)
Filings(r, batch, accepted) ==
    {i \in {batch[n].id : n \in accepted} : Evidence(r, batch, accepted, i) # NoSession}

FilingOf(r, batch, accepted, i) == [scope |-> r.owner[i], ref |-> Evidence(r, batch, accepted, i)]

LEMMA CorrelateIs ==
  ASSUME NEW r \in Rows, NEW batch \in Seq(Event), NEW accepted \in SUBSET (DOMAIN batch),
         NEW s, s = Correlate(r, batch, accepted)
  PROVE  /\ s \in Rows /\ s.stored = r.stored /\ s.into = r.into /\ s.parent = r.parent
         /\ s.owner = r.owner
         /\ \A i \in Interactions :
               i \notin Filings(r, batch, accepted) => s.filed[i] = r.filed[i]
         /\ \A i \in Filings(r, batch, accepted) :
               /\ i \in Interactions /\ s.filed[i] = FilingOf(r, batch, accepted, i)
               /\ s.filed[i] \in Session /\ s.filed[i] \in s.sessions
         /\ r.sessions \subseteq s.sessions
         /\ s.sessions = r.sessions \cup {FilingOf(r, batch, accepted, i) :
                                            i \in Filings(r, batch, accepted)}
<1> DEFINE ids == Filings(r, batch, accepted)
           key(i) == FilingOf(r, batch, accepted, i)
           filed == [i \in Interactions |-> IF i \in ids THEN key(i) ELSE r.filed[i]]
           sessions == r.sessions \cup {key(i) : i \in ids}
<1>1. \A i \in ids : i \in Interactions /\ key(i) \in Session
  <2> SUFFICES ASSUME NEW i \in ids PROVE i \in Interactions /\ key(i) \in Session
    OBVIOUS
  <2>1. PICK n \in accepted : i = batch[n].id
    BY DEF Filings
  <2>2. i \in Interactions
    BY <2>1, EventType
  <2>3. Evidence(r, batch, accepted, i) \in SessionRefs
    <3>1. PICK ref : ref = Evidence(r, batch, accepted, i)
      OBVIOUS
    <3>2. ref \in SessionRefs \cup {NoSession}
      BY <2>2, <3>1, EvidenceIs
    <3>3. ref # NoSession
      BY <3>1 DEF Filings
    <3> QED
      BY <3>1, <3>2, <3>3
  <2>4. r.owner[i] \in Owners
    BY <2>2, RowsType
  <2> QED
    BY <2>2, <2>3, <2>4 DEF FilingOf, Session
<1>2. s = [into |-> r.into, parent |-> r.parent, stored |-> r.stored, owner |-> r.owner,
           filed |-> filed, sessions |-> sessions]
  <2>1. s = [r EXCEPT !.filed = filed, !.sessions = sessions]
    BY Zenon DEF Correlate, Filings, FilingOf
  <2> HIDE DEF filed, sessions
  <2> QED
    BY <2>1, NewSessions
<1> HIDE DEF ids, key
<1>3. filed \in [Interactions -> Session \cup {NoKey}]
  BY <1>1, RowsType
<1>4. sessions \in SUBSET Session
  BY <1>1, RowsType
<1>5. \A i \in Interactions : filed[i] = IF i \in ids THEN key(i) ELSE r.filed[i]
  OBVIOUS
<1>6. r.sessions \subseteq sessions /\ \A i \in ids : key(i) \in sessions
  OBVIOUS
<1> HIDE DEF filed
<1>7. s \in Rows
  <2> HIDE DEF sessions
  <2>1. /\ r.into \in [Visitors -> KnownCustomers \cup {NoOne}]
        /\ r.parent \in [Users -> Accounts \cup {NoOne}]
        /\ r.stored \in SUBSET Interactions /\ r.owner \in [Interactions -> Owners]
    BY RowsType
  <2>2. [into |-> r.into, parent |-> r.parent, stored |-> r.stored, owner |-> r.owner,
         filed |-> filed, sessions |-> sessions] \in Rows
    BY <1>3, <1>4, <2>1, RowsAre
  <2> QED
    BY <1>2, <2>2, Zenon
<1>8. /\ s.stored = r.stored /\ s.into = r.into /\ s.parent = r.parent /\ s.owner = r.owner
      /\ s.filed = filed /\ s.sessions = sessions
  BY <1>2
<1>9. \A i \in ids : /\ i \in Interactions /\ s.filed[i] = key(i)
                     /\ s.filed[i] \in Session /\ s.filed[i] \in s.sessions
  BY <1>1, <1>5, <1>6, <1>8
<1>10. \A i \in Interactions : i \notin ids => s.filed[i] = r.filed[i]
  BY <1>5, <1>8
<1> QED
  BY <1>6, <1>7, <1>8, <1>9, <1>10 DEF ids, key

LEMMA CorrelateResolves ==
  ASSUME NEW r \in Rows, NEW batch \in Seq(Event), NEW accepted \in SUBSET (DOMAIN batch),
         NEW s, s = Correlate(r, batch, accepted)
  PROVE  s \in Rows /\ Resolves(r, s)
<1>1. /\ s \in Rows /\ s.stored = r.stored /\ s.into = r.into /\ s.parent = r.parent
      /\ s.owner = r.owner
      /\ \A i \in Interactions : i \notin Filings(r, batch, accepted) => s.filed[i] = r.filed[i]
      /\ \A i \in Filings(r, batch, accepted) : s.filed[i] \in Session
  BY CorrelateIs
<1>2. NoKey \notin Session
  BY IdentityAssumption DEF NoKey, Session
<1>3. \A i \in Interactions : OwnerResolves(r, s, i)
  BY <1>1 DEF OwnerResolves, Canonical
<1>4. \A i \in Interactions : r.filed[i] # NoKey => s.filed[i] # NoKey
  BY <1>1, <1>2
<1> QED
  BY <1>1, <1>3, <1>4 DEF Resolves

-----------------------------------------------------------------------------
(* What an accepted event leaves, whatever comes later.                      *)

Lasting(r, e) ==
    /\ e.id \in r.stored
    /\ CustomerOf(r, e) # NoOne => r.owner[e.id] = CustomerOf(r, e)
    /\ e.user # NoOne /\ e.account # NoOne => r.parent[e.user] = e.account
    /\ e.visitor # NoOne /\ Known(e) # NoOne => r.into[e.visitor] # NoOne

LEMMA LastingOn ==
  ASSUME NEW r \in Rows, NEW s \in Rows, Resolves(r, s), NEW e \in Event, Lasting(r, e)
  PROVE  Lasting(s, e)
<1>1. /\ e.id \in Interactions /\ e.user \in Users \cup {NoOne}
      /\ e.visitor \in Visitors \cup {NoOne} /\ Known(e) \in KnownCustomers \cup {NoOne}
  BY EventType
<1>2. e.id \in s.stored
  BY DEF Lasting, Resolves
<1>3. e.user # NoOne /\ e.account # NoOne => s.parent[e.user] = e.account
  BY <1>1 DEF Lasting, Resolves
<1>4. e.visitor # NoOne /\ Known(e) # NoOne => s.into[e.visitor] # NoOne
  BY <1>1 DEF Lasting, Resolves
<1>5. ASSUME CustomerOf(s, e) # NoOne PROVE s.owner[e.id] = CustomerOf(s, e)
  <2>1. OwnerResolves(r, s, e.id)
    BY <1>1 DEF Resolves
  <2>2. CASE Known(e) # NoOne
    <3>1. r.owner[e.id] = Known(e) /\ CustomerOf(s, e) = Known(e)
      BY <2>2 DEF Lasting, CustomerOf
    <3> QED
      BY <1>1, <2>1, <2>2, <3>1 DEF OwnerResolves
  <2>3. CASE Known(e) = NoOne
    <3>1. /\ e.visitor # NoOne /\ CustomerOf(s, e) = Canonical(s, e.visitor)
          /\ CustomerOf(r, e) = Canonical(r, e.visitor)
      BY <1>5, <2>3 DEF CustomerOf
    <3>2. e.visitor \in Visitors
      BY <1>1, <3>1
    <3>3. CustomerOf(r, e) # NoOne /\ r.into[e.visitor] \in KnownCustomers \cup {NoOne}
      BY <3>1, <3>2, RowsType, Names DEF Canonical
    <3>4. r.owner[e.id] = Canonical(r, e.visitor)
      BY <3>1, <3>3 DEF Lasting
    <3>5. CASE r.into[e.visitor] = NoOne
      BY <2>1, <3>1, <3>2, <3>4, <3>5 DEF OwnerResolves, Canonical
    <3>6. CASE r.into[e.visitor] # NoOne
      <4>1. s.into[e.visitor] = r.into[e.visitor]
        BY <3>2, <3>6 DEF Resolves
      <4>2. s.owner[e.id] = r.owner[e.id]
        BY <2>1, <3>3, <3>4, <3>6 DEF OwnerResolves, Canonical
      <4> QED
        BY <3>1, <3>4, <4>1, <4>2 DEF Canonical
    <3> QED
      BY <3>5, <3>6
  <2> QED
    BY <2>2, <2>3
<1> QED
  BY <1>2, <1>3, <1>4, <1>5 DEF Lasting

LEMMA LastingFirst ==
  ASSUME NEW r \in Rows, NEW e \in Event, Accepts(r, e), NEW s, s = Store(Resolve(r, e), e)
  PROVE  Lasting(s, e) /\ (e.visitor # NoOne => s.owner[e.id] # NoOne)
<1>1. PICK resolved : resolved = Resolve(r, e)
  OBVIOUS
<1>2. resolved \in Rows /\ Resolves(r, resolved)
  BY <1>1, ResolveResolves
<1>3. /\ s.stored = resolved.stored \cup {e.id} /\ s.into = resolved.into
      /\ s.parent = resolved.parent /\ s.owner[e.id] = OwnerOf(resolved, e)
  BY <1>1, <1>2, StoreIs
<1>4. CustomerOf(s, e) = CustomerOf(resolved, e)
  BY <1>3 DEF CustomerOf, Canonical
<1>5. OwnerAgrees(resolved, e) /\ AccountAgrees(r, e)
  BY <1>1 DEF Accepts
<1>6. CustomerOf(s, e) # NoOne => s.owner[e.id] = CustomerOf(s, e)
  BY <1>3, <1>4, <1>5 DEF OwnerAgrees, OwnerOf
<1>7. e.user # NoOne => s.parent[e.user] = e.account
  BY <1>1, <1>3, <1>5, ResolvedRefs, UpsertParents
<1>8. e.visitor # NoOne /\ Known(e) # NoOne => s.into[e.visitor] # NoOne
  BY <1>1, <1>3, ResolvedRefs
<1>9. e.visitor # NoOne => s.owner[e.id] # NoOne
  BY <1>2, <1>3, CustomerOfType DEF OwnerOf
<1> QED
  BY <1>3, <1>6, <1>7, <1>8, <1>9 DEF Lasting

LEMMA OwnerStays ==
  ASSUME NEW r \in Rows, NEW s \in Rows, Resolves(r, s), NEW i \in Interactions, r.owner[i] # NoOne
  PROVE  s.owner[i] # NoOne
<1>1. r.owner[i] \in KnownCustomers \cup Visitors /\ OwnerResolves(r, s, i)
  BY RowsType, Names DEF Resolves
<1> QED
  BY <1>1, Names DEF OwnerResolves, Canonical

(* A claim is by the customer of an accepted event, which has an owner.       *)
ClaimFollows(batch, r, k) ==
    /\ k.by # NoOne
    /\ \E n \in DOMAIN batch :
          /\ batch[n].link /\ k.ref = batch[n].session
          /\ k.by \in Visitors => k.by = batch[n].visitor
          /\ r.owner[batch[n].id] # NoOne

LEMMA ClaimFollowsOn ==
  ASSUME NEW batch \in Seq(Event), NEW r \in Rows, NEW s \in Rows, Resolves(r, s), NEW k,
         ClaimFollows(batch, r, k)
  PROVE  ClaimFollows(batch, s, k)
<1>1. PICK n \in DOMAIN batch :
         /\ batch[n].link /\ k.ref = batch[n].session
         /\ k.by \in Visitors => k.by = batch[n].visitor
         /\ r.owner[batch[n].id] # NoOne
  BY DEF ClaimFollows
<1>2. batch[n].id \in Interactions
  BY <1>1, EventType
<1>3. s.owner[batch[n].id] # NoOne
  BY <1>1, <1>2, OwnerStays
<1> QED
  BY <1>1, <1>3 DEF ClaimFollows

Keeps(r, batch, done) ==
    /\ Resolves(r, done.rows)
    /\ \A n \in done.accepted : Lasting(done.rows, batch[n])
    /\ \A n \in done.accepted : batch[n].link => \E k \in done.claims : k.ref = batch[n].session
    /\ \A k \in done.claims : ClaimFollows(batch, done.rows, k)

LEMMA TakenKeeps ==
  ASSUME NEW r \in Rows, NEW batch \in Seq(Event), NEW done \in Standing(batch),
         Keeps(r, batch, done), NEW n \in Left(batch, done),
         NEW new, new = Taken(batch, done, n)
  PROVE  Keeps(r, batch, new)
<1>1. PICK e : e = batch[n]
  OBVIOUS
<1>2. /\ new \in Standing(batch) /\ e \in Event /\ n \in DOMAIN batch /\ done.rows \in Rows
      /\ \/ /\ Accepts(done.rows, e) /\ new.rows = Store(Resolve(done.rows, e), e)
            /\ new.accepted = done.accepted \cup {n} /\ new.dropped = done.dropped
            /\ new.claims = done.claims \cup
                  (IF e.link THEN {ClaimOf(Resolve(done.rows, e), e)} ELSE {})
         \/ /\ ~Accepts(done.rows, e) /\ new.rows = done.rows
            /\ new.accepted = done.accepted /\ new.dropped = done.dropped \cup {n}
            /\ new.claims = done.claims
  BY <1>1, TakenIs
<1>3. CASE ~Accepts(done.rows, e)
  BY <1>2, <1>3 DEF Keeps
<1>4. CASE Accepts(done.rows, e)
  <2>1. PICK resolved : resolved = Resolve(done.rows, e)
    OBVIOUS
  <2>2. /\ new.rows = Store(resolved, e) /\ new.accepted = done.accepted \cup {n}
        /\ new.claims = done.claims \cup (IF e.link THEN {ClaimOf(resolved, e)} ELSE {})
    BY <1>2, <1>4, <2>1
  <2>3. resolved \in Rows /\ Resolves(done.rows, resolved)
    BY <1>2, <2>1, ResolveResolves
  <2>4. new.rows \in Rows /\ Resolves(resolved, new.rows)
    BY <1>2, <2>2, <2>3, StoreResolves
  <2>5. Resolves(done.rows, new.rows)
    BY <1>2, <2>3, <2>4, ResolvesOn
  <2>6. Resolves(r, new.rows)
    BY <1>2, <2>4, <2>5, ResolvesOn DEF Keeps
  <2>7. Lasting(new.rows, e) /\ (e.visitor # NoOne => new.rows.owner[e.id] # NoOne)
    BY <1>2, <1>4, <2>1, <2>2, LastingFirst
  <2>8. ASSUME NEW m \in new.accepted PROVE Lasting(new.rows, batch[m])
    <3>1. CASE m = n
      BY <1>1, <2>7, <3>1
    <3>2. CASE m # n
      <4>1. m \in done.accepted /\ batch[m] \in Event
        BY <2>2, <3>2 DEF Standing
      <4>2. Lasting(done.rows, batch[m])
        BY <4>1 DEF Keeps
      <4> QED
        BY <1>2, <2>4, <2>5, <4>1, <4>2, LastingOn
    <3> QED
      BY <3>1, <3>2
  <2>9. ASSUME NEW m \in new.accepted, batch[m].link
        PROVE  \E k \in new.claims : k.ref = batch[m].session
    <3>1. CASE m = n
      <4>1. ClaimOf(resolved, e) \in new.claims
        BY <1>1, <2>2, <2>9, <3>1
      <4>2. ClaimOf(resolved, e).ref = e.session
        BY DEF ClaimOf
      <4> QED
        BY <1>1, <3>1, <4>1, <4>2
    <3>2. CASE m # n
      BY <2>2, <2>9, <3>2 DEF Keeps
    <3> QED
      BY <3>1, <3>2
  <2>10. ASSUME NEW k \in new.claims PROVE ClaimFollows(batch, new.rows, k)
    <3>1. CASE k \in done.claims
      BY <1>2, <2>4, <2>5, <3>1, ClaimFollowsOn DEF Keeps
    <3>2. CASE k \notin done.claims
      <4>1. e.link /\ k = ClaimOf(resolved, e)
        BY <2>2, <2>10, <3>2
      <4>2. k.ref = e.session /\ k.by = CustomerOf(resolved, e)
        BY <4>1 DEF ClaimOf
      <4>3. e.visitor \in Visitors /\ e.visitor # NoOne
        BY <1>2, <4>1, EventType, Names
      <4>4. k.by # NoOne
        BY <1>2, <2>3, <4>2, <4>3, CustomerOfType
      <4>5. k.by \in Visitors => k.by = e.visitor
        <5>1. resolved.into[e.visitor] \in KnownCustomers \cup {NoOne}
          BY <2>3, <4>3, RowsType
        <5>2. Known(e) \in KnownCustomers \cup {NoOne}
          BY <1>2, EventType
        <5> QED
          BY <4>2, <4>3, <5>1, <5>2, Names DEF CustomerOf, Canonical
      <4>6. new.rows.owner[e.id] # NoOne
        BY <2>7, <4>3
      <4> QED
        BY <1>1, <1>2, <4>1, <4>2, <4>4, <4>5, <4>6 DEF ClaimFollows
    <3> QED
      BY <3>1, <3>2
  <2> QED
    BY <2>6, <2>8, <2>9, <2>10 DEF Keeps
<1> QED
  BY <1>3, <1>4

LEMMA BatchKeeps ==
  ASSUME NEW r \in Rows, NEW batch \in Seq(Event), NEW done, done = IngestEvents(r, batch)
  PROVE  /\ done \in Standing(batch) /\ Left(batch, done) = {} /\ done.rows \in Rows
         /\ Keeps(r, batch, done)
<1> DEFINE Good == {d \in Standing(batch) : Keeps(r, batch, d)}
<1>1. Unread(r) \in Good
  <2>1. Unread(r) \in Standing(batch)
    BY DEF Unread, Standing
  <2>2. Unread(r).rows = r /\ Unread(r).accepted = {} /\ Unread(r).claims = {}
    BY DEF Unread
  <2>3. Keeps(r, batch, Unread(r))
    BY <2>2, ResolvesAlone DEF Keeps
  <2> QED
    BY <2>1, <2>3
<1>2. ASSUME NEW d \in Good \cap Standing(batch), NEW n \in Left(batch, d)
      PROVE  Taken(batch, d, n) \in Good
  <2>1. PICK new : new = Taken(batch, d, n)
    OBVIOUS
  <2>2. new \in Standing(batch)
    BY <2>1, TakenIs
  <2>3. Keeps(r, batch, new)
    BY <2>1, TakenKeeps
  <2> QED
    BY <2>1, <2>2, <2>3
<1> HIDE DEF Good
<1>3. done \in Good /\ done \in Standing(batch) /\ Left(batch, done) = {}
  BY <1>1, <1>2, BatchInduction
<1> QED
  BY <1>3 DEF Good, Standing

-----------------------------------------------------------------------------
(* Where interactions are filed.                                             *)

(* An interaction is filed under a session of its customer.                  *)
Filed(r) ==
    \A i \in Interactions :
        r.filed[i] # NoKey => r.filed[i] \in r.sessions /\ r.filed[i].scope = r.owner[i]

IdsOf(batch, accepted) == {batch[n].id : n \in accepted}

(* The same between the events of a batch, whose interactions follow.        *)
FiledBut(r, ids) ==
    \A i \in Interactions :
        r.filed[i] # NoKey =>
            r.filed[i] \in r.sessions /\ (i \in ids \/ r.filed[i].scope = r.owner[i])

LEMMA TakenFiles ==
  ASSUME NEW batch \in Seq(Event), NEW done \in Standing(batch), NEW n \in Left(batch, done),
         FiledBut(done.rows, IdsOf(batch, done.accepted)),
         NEW new, new = Taken(batch, done, n)
  PROVE  FiledBut(new.rows, IdsOf(batch, new.accepted))
<1>1. PICK e : e = batch[n]
  OBVIOUS
<1>2. PICK r : r = done.rows
  OBVIOUS
<1>3. /\ new \in Standing(batch) /\ e \in Event /\ n \in DOMAIN batch /\ r \in Rows
      /\ \/ /\ Accepts(r, e) /\ new.rows = Store(Resolve(r, e), e)
            /\ new.accepted = done.accepted \cup {n}
         \/ /\ ~Accepts(r, e) /\ new.rows = r /\ new.accepted = done.accepted
  BY <1>1, <1>2, TakenIs
<1>4. CASE ~Accepts(r, e)
  BY <1>2, <1>3, <1>4
<1>5. CASE Accepts(r, e)
  <2>1. PICK s : s = Resolve(r, e)
    OBVIOUS
  <2>2. PICK t : t = Store(s, e)
    OBVIOUS
  <2>3. new.rows = t /\ new.accepted = done.accepted \cup {n}
    BY <1>3, <1>5, <2>1, <2>2
  <2>4. s \in Rows
    BY <1>3, <2>1, ResolveIs
  <2>5. /\ t.filed = s.filed /\ t.sessions = s.sessions
        /\ \A i \in Interactions \ {e.id} : t.owner[i] = s.owner[i]
    BY <1>3, <2>2, <2>4, StoreIs
  <2>6. ASSUME NEW i \in Interactions, s.filed[i] # NoKey
        PROVE  /\ s.filed[i] \in s.sessions
               /\ i \in IdsOf(batch, done.accepted) \/ s.filed[i].scope = s.owner[i]
    <3>1. /\ r.filed[i] # NoKey =>
               /\ r.filed[i] \in r.sessions
               /\ i \in IdsOf(batch, done.accepted) \/ r.filed[i].scope = r.owner[i]
          /\ r.filed[i] \in Session \cup {NoKey}
      BY <1>2, <1>3, RowsType DEF FiledBut
    <3>2. CASE s.sessions = r.sessions /\ s.filed = r.filed /\ s.owner = r.owner
      BY <2>6, <3>1, <3>2
    <3>3. CASE ~(s.sessions = r.sessions /\ s.filed = r.filed /\ s.owner = r.owner)
      <4>0. \/ s.sessions = r.sessions /\ s.filed = r.filed /\ s.owner = r.owner /\ s.into = r.into
            \/ /\ e.visitor \in Visitors /\ Known(e) \in KnownCustomers
               /\ s.into = [r.into EXCEPT ![e.visitor] = Known(e)] /\ s.into[e.visitor] = Known(e)
               /\ s.sessions = {MovedKey(key, e.visitor, Known(e)) : key \in r.sessions}
               /\ \A j \in Interactions :
                     /\ s.owner[j] = IF r.owner[j] = e.visitor THEN Known(e) ELSE r.owner[j]
                     /\ s.owner[j] # e.visitor
                     /\ s.filed[j] = MovedKey(r.filed[j], e.visitor, Known(e))
        <5>1. r \in Rows /\ e \in Event
          BY <1>3
        <5> QED
          BY <2>1, <5>1, ResolveIs
      <4>1. /\ e.visitor \in Visitors
            /\ s.sessions = {MovedKey(key, e.visitor, Known(e)) : key \in r.sessions}
            /\ s.owner[i] = IF r.owner[i] = e.visitor THEN Known(e) ELSE r.owner[i]
            /\ s.filed[i] = MovedKey(r.filed[i], e.visitor, Known(e))
        BY <3>3, <4>0, Zenon
      <4>2. r.filed[i] # NoKey
        BY <2>6, <4>1, Names DEF MovedKey, NoKey
      <4>3. s.filed[i] \in s.sessions
        BY <3>1, <4>1, <4>2
      <4>4. s.filed[i].scope = IF r.filed[i].scope = e.visitor THEN Known(e) ELSE r.filed[i].scope
        BY <4>1 DEF MovedKey
      <4> QED
        BY <3>1, <4>1, <4>2, <4>3, <4>4
    <3> QED
      BY <3>2, <3>3
  <2>7. e.id \in IdsOf(batch, new.accepted)
        /\ IdsOf(batch, done.accepted) \subseteq IdsOf(batch, new.accepted)
    BY <1>1, <2>3 DEF IdsOf
  <2>8. FiledBut(t, IdsOf(batch, new.accepted))
    BY <2>5, <2>6, <2>7 DEF FiledBut
  <2> QED
    BY <2>3, <2>8
<1> QED
  BY <1>4, <1>5

LEMMA BatchFiles ==
  ASSUME NEW r \in Rows, Filed(r), NEW batch \in Seq(Event), NEW done, done = IngestEvents(r, batch)
  PROVE  FiledBut(done.rows, IdsOf(batch, done.accepted))
<1> DEFINE Good == {d \in Standing(batch) : FiledBut(d.rows, IdsOf(batch, d.accepted))}
<1>1. Unread(r) \in Good
  <2>1. Unread(r) \in Standing(batch)
    BY DEF Unread, Standing
  <2>2. Unread(r).rows = r
    BY DEF Unread
  <2>3. FiledBut(Unread(r).rows, IdsOf(batch, Unread(r).accepted))
    BY <2>2 DEF Filed, FiledBut
  <2> QED
    BY <2>1, <2>3
<1>2. ASSUME NEW d \in Good \cap Standing(batch), NEW n \in Left(batch, d)
      PROVE  Taken(batch, d, n) \in Good
  <2>1. PICK new : new = Taken(batch, d, n)
    OBVIOUS
  <2>2. new \in Standing(batch)
    BY <2>1, TakenIs
  <2>3. FiledBut(new.rows, IdsOf(batch, new.accepted))
    BY <2>1, TakenFiles
  <2> QED
    BY <2>1, <2>2, <2>3
<1> HIDE DEF Good
<1>3. done \in Good
  BY <1>1, <1>2, BatchInduction
<1> QED
  BY <1>3 DEF Good

LEMMA CorrelateFiles ==
  ASSUME NEW r \in Rows, NEW batch \in Seq(Event), NEW accepted \in SUBSET (DOMAIN batch),
         FiledBut(r, IdsOf(batch, accepted)), NEW s, s = Correlate(r, batch, accepted)
  PROVE  /\ Filed(s)
         /\ \A n \in accepted :
               batch[n].session # NoSession => s.filed[batch[n].id] # NoKey
<1>1. /\ s.owner = r.owner /\ r.sessions \subseteq s.sessions
      /\ \A i \in Interactions :
            i \notin Filings(r, batch, accepted) => s.filed[i] = r.filed[i]
      /\ \A i \in Filings(r, batch, accepted) :
            /\ i \in Interactions /\ s.filed[i] = FilingOf(r, batch, accepted, i)
            /\ s.filed[i] \in Session /\ s.filed[i] \in s.sessions
  BY CorrelateIs
<1>2. NoKey \notin Session
  BY IdentityAssumption DEF NoKey, Session
<1>3. ASSUME NEW i \in Interactions, s.filed[i] # NoKey
      PROVE  s.filed[i] \in s.sessions /\ s.filed[i].scope = s.owner[i]
  <2>1. CASE i \in Filings(r, batch, accepted)
    <3>1. s.filed[i] = FilingOf(r, batch, accepted, i) /\ s.filed[i] \in s.sessions
      BY <1>1, <2>1
    <3>2. FilingOf(r, batch, accepted, i).scope = r.owner[i]
      BY DEF FilingOf
    <3> QED
      BY <1>1, <3>1, <3>2
  <2>2. CASE i \notin Filings(r, batch, accepted)
    <3>1. r.filed[i] = s.filed[i] /\ r.filed[i] # NoKey
      BY <1>1, <1>3, <2>2
    <3>2. PICK ref : ref = Evidence(r, batch, accepted, i)
      OBVIOUS
    <3>3. ref # NoSession
      BY <3>1, <3>2, EvidenceIs, IdentityAssumption
    <3>4. i \notin IdsOf(batch, accepted)
      BY <2>2, <3>2, <3>3 DEF Filings, IdsOf
    <3> QED
      BY <1>1, <3>1, <3>4 DEF FiledBut
  <2> QED
    BY <2>1, <2>2
<1>4. ASSUME NEW n \in accepted, batch[n].session # NoSession
      PROVE  s.filed[batch[n].id] # NoKey
  <2>1. batch[n].id \in Interactions
    BY EventType
  <2>2. PICK ref : ref = Evidence(r, batch, accepted, batch[n].id)
    OBVIOUS
  <2>3. ref # NoSession
    BY <1>4, <2>1, <2>2, EvidenceIs
  <2>4. batch[n].id \in Filings(r, batch, accepted)
    BY <2>2, <2>3 DEF Filings
  <2> QED
    BY <1>1, <1>2, <2>4
<1> QED
  BY <1>3, <1>4 DEF Filed

LEMMA ClaimFiles ==
  ASSUME NEW r \in Rows, Filed(r), NEW claims \in SUBSET Claims, NEW s, s = Claim(r, claims)
  PROVE  Filed(s)
<1>1. /\ \A i \in Interactions :
            ~IsClaimed(r, claims, i) => s.owner[i] = r.owner[i] /\ s.filed[i] = r.filed[i]
      /\ \A i \in Interactions :
            IsClaimed(r, claims, i) =>
               /\ s.owner[i] = Winner(r, claims, r.filed[i].ref)
               /\ s.filed[i] =
                     [scope |-> Winner(r, claims, r.filed[i].ref), ref |-> r.filed[i].ref]
      /\ s.sessions =
            (r.sessions \ {Unowned(k.ref) : k \in Found(r, claims)})
               \cup {[scope |-> Winner(r, claims, k.ref), ref |-> k.ref] : k \in Found(r, claims)}
  BY ClaimsAre, Zenon
<1>2. ASSUME NEW i \in Interactions, s.filed[i] # NoKey
      PROVE  s.filed[i] \in s.sessions /\ s.filed[i].scope = s.owner[i]
  <2>1. CASE IsClaimed(r, claims, i)
    <3>1. PICK k \in Found(r, claims) : r.filed[i] = Unowned(k.ref)
      BY <2>1 DEF IsClaimed
    <3>2. r.filed[i].ref = k.ref
      BY <3>1 DEF Unowned
    <3>3. /\ s.owner[i] = Winner(r, claims, k.ref)
          /\ s.filed[i] = [scope |-> Winner(r, claims, k.ref), ref |-> k.ref]
      BY <1>1, <2>1, <3>2, Zenon
    <3>4. s.filed[i].scope = s.owner[i]
      BY <3>3
    <3>5. s.filed[i] \in {[scope |-> Winner(r, claims, c.ref), ref |-> c.ref] :
                            c \in Found(r, claims)}
      BY <3>3, Zenon
    <3> QED
      BY <1>1, <3>4, <3>5, Zenon
  <2>2. CASE ~IsClaimed(r, claims, i)
    <3>1. s.filed[i] = r.filed[i] /\ s.owner[i] = r.owner[i]
      BY <1>1, <2>2
    <3>2. r.filed[i] \in r.sessions /\ r.filed[i].scope = r.owner[i]
      BY <1>2, <3>1 DEF Filed
    <3>3. \A k \in Found(r, claims) : r.filed[i] # Unowned(k.ref)
      BY <2>2, <3>2 DEF IsClaimed, Unowned
    <3>4. s.filed[i] \in s.sessions
      BY <1>1, <3>1, <3>2, <3>3
    <3> QED
      BY <3>1, <3>2, <3>4
  <2> QED
    BY <2>1, <2>2
<1> QED
  BY <1>2 DEF Filed

-----------------------------------------------------------------------------
(* What stays with a visitor that turned out to be somebody.                 *)

(* Of events T: those of a link the visitor followed in the session.          *)
LateOnly(r, T) ==
    \A i \in Interactions :
        r.owner[i] \in Visitors /\ r.into[r.owner[i]] # NoOne =>
            \E e \in T : /\ e.link /\ e.visitor = r.owner[i]
                         /\ e.session = r.filed[i].ref /\ e.id # i

LEMMA LateOnlyOn ==
  ASSUME NEW r \in Rows, NEW s \in Rows, NEW T, LateOnly(r, T),
         \A i \in Interactions :
            s.owner[i] \in Visitors /\ s.into[s.owner[i]] # NoOne =>
               /\ r.owner[i] = s.owner[i] /\ r.into[r.owner[i]] # NoOne
               /\ r.filed[i].ref = s.filed[i].ref
  PROVE  LateOnly(s, T)
<1> SUFFICES ASSUME NEW i \in Interactions, s.owner[i] \in Visitors, s.into[s.owner[i]] # NoOne
             PROVE  \E e \in T : /\ e.link /\ e.visitor = s.owner[i]
                                 /\ e.session = s.filed[i].ref /\ e.id # i
  BY DEF LateOnly
<1>1. /\ r.owner[i] = s.owner[i] /\ r.into[r.owner[i]] # NoOne
      /\ r.filed[i].ref = s.filed[i].ref
  OBVIOUS
<1>2. PICK e \in T : /\ e.link /\ e.visitor = r.owner[i]
                     /\ e.session = r.filed[i].ref /\ e.id # i
  BY <1>1 DEF LateOnly
<1> QED
  BY <1>1, <1>2

LEMMA ResolveLeaves ==
  ASSUME NEW r \in Rows, NEW T, LateOnly(r, T), NEW e \in Event, NEW s, s = Resolve(r, e)
  PROVE  LateOnly(s, T)
<1>1. s \in Rows /\ \A i \in Interactions : s.filed[i].ref = r.filed[i].ref
  BY ResolveResolves
<1>2. \/ s.sessions = r.sessions /\ s.filed = r.filed /\ s.owner = r.owner /\ s.into = r.into
      \/ /\ e.visitor \in Visitors /\ Known(e) \in KnownCustomers
         /\ s.into = [r.into EXCEPT ![e.visitor] = Known(e)] /\ s.into[e.visitor] = Known(e)
         /\ s.sessions = {MovedKey(key, e.visitor, Known(e)) : key \in r.sessions}
         /\ \A j \in Interactions :
               /\ s.owner[j] = IF r.owner[j] = e.visitor THEN Known(e) ELSE r.owner[j]
               /\ s.owner[j] # e.visitor
               /\ s.filed[j] = MovedKey(r.filed[j], e.visitor, Known(e))
  BY ResolveIs
<1>3. ASSUME NEW i \in Interactions, s.owner[i] \in Visitors, s.into[s.owner[i]] # NoOne
      PROVE  r.owner[i] = s.owner[i] /\ r.into[r.owner[i]] # NoOne
  <2>1. CASE s.owner = r.owner /\ s.into = r.into
    BY <1>3, <2>1
  <2>2. CASE ~(s.owner = r.owner /\ s.into = r.into)
    <3>1. /\ Known(e) \in KnownCustomers /\ s.into = [r.into EXCEPT ![e.visitor] = Known(e)]
          /\ s.owner[i] = IF r.owner[i] = e.visitor THEN Known(e) ELSE r.owner[i]
          /\ s.owner[i] # e.visitor
      BY <1>2, <2>2
    <3>2. r.owner[i] = s.owner[i]
      BY <1>3, <3>1, Names
    <3>3. s.into[s.owner[i]] = r.into[s.owner[i]]
      BY <1>3, <3>1, RowsType
    <3> QED
      BY <1>3, <3>2, <3>3
  <2> QED
    BY <2>1, <2>2
<1> QED
  BY <1>1, <1>3, LateOnlyOn

LEMMA StoreLeaves ==
  ASSUME NEW r \in Rows, NEW T, LateOnly(r, T), NEW e \in Event, NEW s, s = Store(r, e)
  PROVE  LateOnly(s, T)
<1>1. /\ s \in Rows /\ s.filed = r.filed /\ s.into = r.into
      /\ s.owner[e.id] = OwnerOf(r, e)
      /\ \A i \in Interactions \ {e.id} : s.owner[i] = r.owner[i]
  BY StoreIs
<1>2. ASSUME NEW i \in Interactions, s.owner[i] \in Visitors, s.into[s.owner[i]] # NoOne
      PROVE  r.owner[i] = s.owner[i]
  <2>1. CASE i # e.id \/ r.owner[e.id] # NoOne
    BY <1>1, <2>1 DEF OwnerOf
  <2>2. CASE i = e.id /\ r.owner[e.id] = NoOne
    <3>1. s.owner[i] = CustomerOf(r, e)
      BY <1>1, <2>2 DEF OwnerOf
    <3>2. Known(e) = NoOne /\ e.visitor # NoOne
      BY <1>2, <3>1, EventType, Names DEF CustomerOf
    <3>3. e.visitor \in Visitors /\ r.into[e.visitor] \in KnownCustomers \cup {NoOne}
      BY <3>2, EventType, RowsType
    <3>4. s.owner[i] = e.visitor /\ r.into[e.visitor] = NoOne
      BY <1>2, <3>1, <3>2, <3>3, Names DEF CustomerOf, Canonical
    <3> QED
      BY <1>1, <1>2, <3>4
  <2> QED
    BY <2>1, <2>2
<1> QED
  BY <1>1, <1>2, LateOnlyOn

LEMMA BatchLeaves ==
  ASSUME NEW r \in Rows, NEW T, LateOnly(r, T), NEW batch \in Seq(Event),
         NEW done, done = IngestEvents(r, batch)
  PROVE  LateOnly(done.rows, T)
<1> DEFINE Good == {d \in Standing(batch) : LateOnly(d.rows, T)}
<1>1. Unread(r) \in Good
  <2>1. Unread(r) \in Standing(batch)
    BY DEF Unread, Standing
  <2>2. Unread(r).rows = r
    BY DEF Unread
  <2> QED
    BY <2>1, <2>2
<1>2. ASSUME NEW d \in Good \cap Standing(batch), NEW n \in Left(batch, d)
      PROVE  Taken(batch, d, n) \in Good
  <2>1. PICK new : new = Taken(batch, d, n)
    OBVIOUS
  <2>2. PICK e : e = batch[n]
    OBVIOUS
  <2>3. /\ new \in Standing(batch) /\ e \in Event /\ d.rows \in Rows
        /\ \/ new.rows = Store(Resolve(d.rows, e), e)
           \/ new.rows = d.rows
    BY <2>1, <2>2, TakenIs
  <2>4. PICK s : s = Resolve(d.rows, e)
    OBVIOUS
  <2>5. s \in Rows /\ LateOnly(s, T)
    BY <2>3, <2>4, ResolveIs, ResolveLeaves
  <2>6. PICK t : t = Store(s, e)
    OBVIOUS
  <2>7. LateOnly(t, T)
    BY <2>3, <2>5, <2>6, StoreLeaves
  <2>8. LateOnly(new.rows, T)
    BY <2>3, <2>4, <2>6, <2>7
  <2> QED
    BY <2>1, <2>3, <2>8
<1> HIDE DEF Good
<1>3. done \in Good
  BY <1>1, <1>2, BatchInduction
<1> QED
  BY <1>3 DEF Good

LEMMA CorrelateLeaves ==
  ASSUME NEW r \in Rows, NEW T \in SUBSET Event, LateOnly(r, T), NEW batch \in Seq(Event),
         NEW accepted \in SUBSET (DOMAIN batch), NEW s, s = Correlate(r, batch, accepted)
  PROVE  LateOnly(s, T)
<1>1. /\ s \in Rows /\ s.into = r.into /\ s.owner = r.owner
      /\ \A i \in Interactions : i \notin Filings(r, batch, accepted) => s.filed[i] = r.filed[i]
      /\ \A i \in Filings(r, batch, accepted) :
            i \in Interactions /\ s.filed[i] = FilingOf(r, batch, accepted, i)
  BY CorrelateIs
<1>2. ASSUME NEW i \in Interactions, s.owner[i] \in Visitors, s.into[s.owner[i]] # NoOne
      PROVE  r.filed[i].ref = s.filed[i].ref
  <2>1. CASE i \notin Filings(r, batch, accepted)
    BY <1>1, <2>1
  <2>2. CASE i \in Filings(r, batch, accepted)
    <3>1. PICK e \in T : /\ e.link /\ e.visitor = r.owner[i]
                         /\ e.session = r.filed[i].ref /\ e.id # i
      BY <1>1, <1>2 DEF LateOnly
    <3>2. r.filed[i].ref \in SessionRefs
      BY <3>1, EventType
    <3>3. r.filed[i] # NoKey
      BY <3>2, IdentityAssumption DEF NoKey
    <3>4. PICK ref : ref = Evidence(r, batch, accepted, i)
      OBVIOUS
    <3>5. ref = r.filed[i].ref
      BY <3>3, <3>4, EvidenceIs
    <3>6. s.filed[i] = FilingOf(r, batch, accepted, i)
      BY <1>1, <2>2
    <3>7. s.filed[i].ref = ref
      BY <3>4, <3>6 DEF FilingOf
    <3> QED
      BY <3>5, <3>7
  <2> QED
    BY <2>1, <2>2
<1> QED
  BY <1>1, <1>2, LateOnlyOn

(* The claims of a batch of those events.                                    *)
LEMMA ClaimLeaves ==
  ASSUME NEW r \in Rows, NEW T \in SUBSET Event, LateOnly(r, T), NEW batch \in Seq(T),
         NEW claims \in SUBSET Claims, \A k \in claims : ClaimFollows(batch, r, k),
         NEW s, s = Claim(r, claims)
  PROVE  LateOnly(s, T)
<1>1. s \in Rows /\ s.into = r.into
  BY ClaimsAre
<1>2. /\ \A i \in Interactions :
            ~IsClaimed(r, claims, i) => s.owner[i] = r.owner[i] /\ s.filed[i] = r.filed[i]
      /\ \A i \in Interactions :
            IsClaimed(r, claims, i) =>
               /\ s.owner[i] = Winner(r, claims, r.filed[i].ref)
               /\ s.filed[i] =
                     [scope |-> Winner(r, claims, r.filed[i].ref), ref |-> r.filed[i].ref]
  BY ClaimsAre, Zenon
<1>3. ASSUME NEW i \in Interactions, s.owner[i] \in Visitors, s.into[s.owner[i]] # NoOne
      PROVE  \E e \in T : /\ e.link /\ e.visitor = s.owner[i]
                          /\ e.session = s.filed[i].ref /\ e.id # i
  <2>1. CASE ~IsClaimed(r, claims, i)
    <3>1. s.owner[i] = r.owner[i] /\ s.filed[i] = r.filed[i]
      BY <1>2, <2>1
    <3>2. PICK e \in T : /\ e.link /\ e.visitor = r.owner[i]
                         /\ e.session = r.filed[i].ref /\ e.id # i
      BY <1>1, <1>3, <3>1 DEF LateOnly
    <3> QED
      BY <3>1, <3>2
  <2>2. CASE IsClaimed(r, claims, i)
    <3>1. PICK k \in Found(r, claims) : r.filed[i] = Unowned(k.ref)
      BY <2>2 DEF IsClaimed
    <3>2. r.filed[i].ref = k.ref /\ r.owner[i] = NoOne
      BY <2>2, <3>1 DEF Unowned, IsClaimed
    <3>3. PICK c \in claims : c.ref = k.ref /\ c.by = Winner(r, claims, k.ref)
      BY <3>1, WinnerIs
    <3>4. s.owner[i] = c.by /\ s.filed[i].ref = c.ref
      <4>1. /\ s.owner[i] = Winner(r, claims, r.filed[i].ref)
            /\ s.filed[i] =
                  [scope |-> Winner(r, claims, r.filed[i].ref), ref |-> r.filed[i].ref]
        BY <1>2, <2>2, Zenon
      <4>2. s.filed[i].ref = r.filed[i].ref
        BY <4>1
      <4> QED
        BY <3>2, <3>3, <4>1, <4>2
    <3>5. PICK n \in DOMAIN batch :
             /\ batch[n].link /\ c.ref = batch[n].session
             /\ c.by \in Visitors => c.by = batch[n].visitor
             /\ r.owner[batch[n].id] # NoOne
      BY DEF ClaimFollows
    <3>6. batch[n] \in T /\ batch[n].id # i
      BY <3>2, <3>5
    <3> QED
      BY <1>3, <3>4, <3>5, <3>6
  <2> QED
    BY <2>1, <2>2
<1> QED
  BY <1>3 DEF LateOnly

-----------------------------------------------------------------------------
(* The transaction.                                                          *)

(* Identity is only resolved by it, what is accepted is kept, interactions    *)
(* are filed, and a merge leaves only late claims.                           *)
LEMMA IngestKeeps ==
  ASSUME NEW r \in Rows, NEW batch \in Seq(Event), NEW x, x = Ingest(r, batch).rows
  PROVE  /\ x \in Rows /\ Resolves(r, x)
         /\ Filed(r) => Filed(x)
         /\ \A T \in SUBSET Event : batch \in Seq(T) /\ LateOnly(r, T) => LateOnly(x, T)
<1>1. PICK done : done = IngestEvents(r, batch)
  OBVIOUS
<1>2. PICK s : s = Correlate(done.rows, batch, done.accepted)
  OBVIOUS
<1>3. x = Claim(s, done.claims)
  BY <1>1, <1>2, Zenon DEF Ingest
<1>4. /\ done \in Standing(batch) /\ done.rows \in Rows /\ Keeps(r, batch, done)
  BY <1>1, BatchKeeps
<1>5. done.accepted \in SUBSET (DOMAIN batch) /\ done.claims \in SUBSET Claims
  BY <1>4 DEF Standing
<1>6. s \in Rows /\ Resolves(done.rows, s)
  BY <1>2, <1>4, <1>5, CorrelateResolves
<1>7. x \in Rows /\ Resolves(s, x)
  BY <1>3, <1>5, <1>6, ClaimResolves
<1>8. Resolves(r, s)
  BY <1>4, <1>6, ResolvesOn DEF Keeps
<1>9. Resolves(r, x)
  BY <1>6, <1>7, <1>8, ResolvesOn
<1>10. ASSUME Filed(r) PROVE Filed(x)
  <2>1. FiledBut(done.rows, IdsOf(batch, done.accepted))
    BY <1>1, <1>10, BatchFiles
  <2>2. Filed(s)
    BY <1>2, <1>4, <1>5, <2>1, CorrelateFiles
  <2> QED
    BY <1>3, <1>5, <1>6, <2>2, ClaimFiles
<1>11. ASSUME NEW T \in SUBSET Event, batch \in Seq(T), LateOnly(r, T) PROVE LateOnly(x, T)
  <2>1. LateOnly(done.rows, T)
    BY <1>1, <1>11, BatchLeaves
  <2>2. LateOnly(s, T)
    BY <1>2, <1>4, <1>5, <2>1, CorrelateLeaves
  <2>3. \A k \in done.claims : ClaimFollows(batch, s, k)
    BY <1>4, <1>6, ClaimFollowsOn DEF Keeps
  <2> QED
    BY <1>3, <1>5, <1>6, <1>11, <2>2, <2>3, ClaimLeaves
<1> QED
  BY <1>7, <1>9, <1>10, <1>11

(* A batch none of whose events was dropped: all of them are kept and filed,  *)
(* and the links were followed to the end.                                   *)
LEMMA FullIngest ==
  ASSUME NEW r \in Rows, Filed(r), NEW batch \in Seq(Event), NEW x, x = Ingest(r, batch).rows,
         Ingest(r, batch).dropped = 0, NEW n \in DOMAIN batch, NEW e, e = batch[n]
  PROVE  /\ e \in Event /\ Lasting(x, e)
         /\ e.session # NoSession => x.filed[e.id] # NoKey
         /\ e.link => Unowned(e.session) \notin x.sessions
<1>1. PICK done : done = IngestEvents(r, batch)
  OBVIOUS
<1>2. PICK s : s = Correlate(done.rows, batch, done.accepted)
  OBVIOUS
<1>3. x = Claim(s, done.claims) /\ Cardinality(done.dropped) = 0
  BY <1>1, <1>2, Zenon DEF Ingest
<1>4. /\ done \in Standing(batch) /\ done.rows \in Rows /\ Keeps(r, batch, done)
      /\ Left(batch, done) = {}
  BY <1>1, BatchKeeps
<1>5. /\ done.accepted \in SUBSET (DOMAIN batch) /\ done.claims \in SUBSET Claims
      /\ done.dropped \in SUBSET (DOMAIN batch)
  BY <1>4 DEF Standing
<1>6. s \in Rows /\ Resolves(done.rows, s)
  BY <1>2, <1>4, <1>5, CorrelateResolves
<1>7. x \in Rows /\ Resolves(s, x)
  BY <1>3, <1>5, <1>6, ClaimResolves
<1>8. n \in done.accepted
  <2>1. IsFiniteSet(DOMAIN batch)
    BY FS_Interval
  <2>2. IsFiniteSet(done.dropped)
    BY <1>5, <2>1, FS_Subset
  <2>3. done.dropped = {}
    BY <1>3, <2>2, FS_EmptySet
  <2> QED
    BY <1>4, <2>3 DEF Left
<1>9. e \in Event /\ e.id \in Interactions
  BY EventType
<1>10. Lasting(x, e)
  <2>1. Lasting(done.rows, e)
    BY <1>4, <1>8 DEF Keeps
  <2>2. Lasting(s, e)
    BY <1>4, <1>6, <1>9, <2>1, LastingOn
  <2> QED
    BY <1>6, <1>7, <1>9, <2>2, LastingOn
<1>11. ASSUME e.session # NoSession PROVE x.filed[e.id] # NoKey
  <2>1. FiledBut(done.rows, IdsOf(batch, done.accepted))
    BY <1>1, BatchFiles
  <2>2. s.filed[e.id] # NoKey
    BY <1>2, <1>4, <1>5, <1>8, <1>11, <2>1, CorrelateFiles
  <2> QED
    BY <1>7, <1>9, <2>2 DEF Resolves
<1>12. ASSUME e.link, Unowned(e.session) \in x.sessions PROVE FALSE
  <2>1. PICK mine \in done.claims : mine.ref = e.session
    BY <1>4, <1>8, <1>12 DEF Keeps
  <2>2. x.sessions =
           (s.sessions \ {Unowned(k.ref) : k \in Found(s, done.claims)})
              \cup {[scope |-> Winner(s, done.claims, k.ref), ref |-> k.ref] :
                      k \in Found(s, done.claims)}
    <3>1. PICK claims : claims = done.claims
      OBVIOUS
    <3>2. s \in Rows /\ claims \in SUBSET Claims /\ x = Claim(s, claims)
      BY <1>3, <1>5, <1>6, <3>1
    <3>3. Claim(s, claims).sessions =
             (s.sessions \ {Unowned(k.ref) : k \in Found(s, claims)})
                \cup {[scope |-> Winner(s, claims, k.ref), ref |-> k.ref] :
                        k \in Found(s, claims)}
      BY <3>2, ClaimsAre
    <3> QED
      BY <3>1, <3>2, <3>3, Zenon
  <2>3. CASE Unowned(e.session) \in s.sessions \ {Unowned(k.ref) : k \in Found(s, done.claims)}
    <3>1. mine \in Found(s, done.claims)
      BY <2>1, <2>3 DEF Found
    <3> QED
      BY <2>1, <2>3, <3>1
  <2>4. CASE Unowned(e.session) \notin s.sessions \ {Unowned(k.ref) : k \in Found(s, done.claims)}
    <3>1. PICK c \in Found(s, done.claims) :
             Unowned(e.session) = [scope |-> Winner(s, done.claims, c.ref), ref |-> c.ref]
      BY <1>12, <2>2, <2>4, Zenon
    <3>2. Winner(s, done.claims, c.ref) = NoOne
      BY <3>1 DEF Unowned
    <3>3. PICK w \in done.claims : w.by = Winner(s, done.claims, c.ref)
      BY <1>5, <1>6, WinnerIs
    <3>4. w.by # NoOne
      BY <1>4 DEF Keeps, ClaimFollows
    <3> QED
      BY <3>2, <3>3, <3>4
  <2> QED
    BY <2>3, <2>4
<1> QED
  BY <1>9, <1>10, <1>11, <1>12

-----------------------------------------------------------------------------
(* The same batch again.                                                     *)

LEMMA StoreAgain ==
  ASSUME NEW x \in Rows, NEW e \in Event, Lasting(x, e), Accepts(x, e)
  PROVE  Resolve(x, e) = x /\ Store(x, e) = x
<1>1. Upsert(x, e) = x
  <2>1. CASE e.user = NoOne
    BY <2>1 DEF Upsert
  <2>2. CASE e.user # NoOne
    <3>1. x.parent[e.user] \in {NoOne, e.account}
      BY <2>2 DEF Accepts, AccountAgrees
    <3>2. e.account # NoOne => x.parent[e.user] = e.account
      BY <2>2 DEF Lasting
    <3>3. x.parent[e.user] = e.account
      BY <3>1, <3>2
    <3> QED
      BY <2>2, <3>3, UpsertParents
  <2> QED
    BY <2>1, <2>2
<1>2. Resolve(x, e) = x
  BY <1>1, ResolvedRefs DEF Lasting
<1>3. OwnerOf(x, e) = x.owner[e.id]
  BY DEF Lasting, OwnerOf
<1>4. PICK s : s = Store(x, e)
  OBVIOUS
<1>5. /\ s \in Rows /\ s.stored = x.stored \cup {e.id} /\ s.into = x.into
      /\ s.sessions = x.sessions /\ s.parent = x.parent /\ s.filed = x.filed
      /\ s.owner[e.id] = OwnerOf(x, e)
      /\ \A i \in Interactions \ {e.id} : s.owner[i] = x.owner[i]
  BY <1>4, StoreIs
<1>6. s.stored = x.stored
  BY <1>5 DEF Lasting
<1>7. s.owner = x.owner
  <2>1. \A i \in Interactions : s.owner[i] = x.owner[i]
    BY <1>3, <1>5
  <2>2. s.owner \in [Interactions -> Owners] /\ x.owner \in [Interactions -> Owners]
    BY <1>5, RowsType
  <2> QED
    BY <2>1, <2>2
<1>8. s = x
  BY <1>5, <1>6, <1>7, RowsType, Zenon
<1> QED
  BY <1>2, <1>4, <1>8

LEMMA CorrelateAgain ==
  ASSUME NEW x \in Rows, Filed(x), NEW batch \in Seq(Event),
         NEW accepted \in SUBSET (DOMAIN batch),
         \A n \in accepted : batch[n].session # NoSession => x.filed[batch[n].id] # NoKey
  PROVE  Correlate(x, batch, accepted) = x
<1>1. PICK s : s = Correlate(x, batch, accepted)
  OBVIOUS
<1>2. /\ s \in Rows /\ s.stored = x.stored /\ s.into = x.into /\ s.parent = x.parent
      /\ s.owner = x.owner
      /\ \A i \in Interactions : i \notin Filings(x, batch, accepted) => s.filed[i] = x.filed[i]
      /\ \A i \in Filings(x, batch, accepted) :
            i \in Interactions /\ s.filed[i] = FilingOf(x, batch, accepted, i)
  BY <1>1, CorrelateIs
<1>3. s.sessions = x.sessions \cup {FilingOf(x, batch, accepted, i) :
                                       i \in Filings(x, batch, accepted)}
  BY <1>1, CorrelateIs
<1>4. ASSUME NEW i \in Filings(x, batch, accepted)
      PROVE  FilingOf(x, batch, accepted, i) = x.filed[i] /\ x.filed[i] \in x.sessions
  <2>1. i \in Interactions
    BY <1>2
  <2>2. PICK ref : ref = Evidence(x, batch, accepted, i)
    OBVIOUS
  <2>3. ref # NoSession
    BY <2>2 DEF Filings
  <2>4. x.filed[i] # NoKey
    <3>1. SUFFICES ASSUME x.filed[i] = NoKey PROVE FALSE
      OBVIOUS
    <3>2. PICK n \in accepted : batch[n].id = i /\ batch[n].session = ref
      BY <2>1, <2>2, <2>3, <3>1, EvidenceIs
    <3> QED
      BY <2>3, <3>1, <3>2
  <2>5. ref = x.filed[i].ref
    BY <2>1, <2>2, <2>4, EvidenceIs
  <2>6. x.filed[i] \in x.sessions /\ x.filed[i].scope = x.owner[i]
    BY <2>1, <2>4 DEF Filed
  <2>7. x.filed[i] = [scope |-> x.filed[i].scope, ref |-> x.filed[i].ref]
    BY <2>6, RowsType DEF Session
  <2>8. FilingOf(x, batch, accepted, i) = [scope |-> x.owner[i], ref |-> ref]
    BY <2>2 DEF FilingOf
  <2> QED
    BY <2>5, <2>6, <2>7, <2>8
<1>5. s.sessions = x.sessions
  BY <1>3, <1>4
<1>6. s.filed = x.filed
  <2>1. \A i \in Interactions : s.filed[i] = x.filed[i]
    BY <1>2, <1>4
  <2>2. /\ s.filed \in [Interactions -> Session \cup {NoKey}]
        /\ x.filed \in [Interactions -> Session \cup {NoKey}]
    BY <1>2, RowsType
  <2> QED
    BY <2>1, <2>2
<1>7. s = x
  <2>1. s = [into |-> s.into, parent |-> s.parent, stored |-> s.stored, owner |-> s.owner,
             filed |-> s.filed, sessions |-> s.sessions]
    BY <1>2, RowsType
  <2>2. x = [into |-> x.into, parent |-> x.parent, stored |-> x.stored, owner |-> x.owner,
             filed |-> x.filed, sessions |-> x.sessions]
    BY RowsType
  <2> QED
    BY <1>2, <1>5, <1>6, <2>1, <2>2, Zenon
<1> QED
  BY <1>1, <1>7

LEMMA ClaimNothing ==
  ASSUME NEW x \in Rows, NEW claims \in SUBSET Claims,
         \A k \in claims : Unowned(k.ref) \notin x.sessions
  PROVE  Claim(x, claims) = x
<1>1. PICK s : s = Claim(x, claims)
  OBVIOUS
<1>2. Found(x, claims) = {}
  BY DEF Found
<1>3. /\ s \in Rows /\ s.stored = x.stored /\ s.into = x.into /\ s.parent = x.parent
      /\ \A i \in Interactions :
            ~IsClaimed(x, claims, i) => s.owner[i] = x.owner[i] /\ s.filed[i] = x.filed[i]
  BY <1>1, ClaimsAre
<1>4. s.sessions =
         (x.sessions \ {Unowned(k.ref) : k \in Found(x, claims)})
            \cup {[scope |-> Winner(x, claims, k.ref), ref |-> k.ref] : k \in Found(x, claims)}
  BY <1>1, ClaimsAre, Zenon
<1>5. s.sessions = x.sessions
  BY <1>2, <1>4
<1>6. \A i \in Interactions : s.owner[i] = x.owner[i] /\ s.filed[i] = x.filed[i]
  BY <1>2, <1>3 DEF IsClaimed
<1>7. s.owner = x.owner /\ s.filed = x.filed
  <2>1. /\ s.owner \in [Interactions -> Owners] /\ x.owner \in [Interactions -> Owners]
        /\ s.filed \in [Interactions -> Session \cup {NoKey}]
        /\ x.filed \in [Interactions -> Session \cup {NoKey}]
    BY <1>3, RowsType
  <2> QED
    BY <1>6, <2>1
<1>8. s = x
  <2>1. s = [into |-> s.into, parent |-> s.parent, stored |-> s.stored, owner |-> s.owner,
             filed |-> s.filed, sessions |-> s.sessions]
    BY <1>3, RowsType
  <2>2. x = [into |-> x.into, parent |-> x.parent, stored |-> x.stored, owner |-> x.owner,
             filed |-> x.filed, sessions |-> x.sessions]
    BY RowsType
  <2> QED
    BY <1>3, <1>5, <1>7, <2>1, <2>2, Zenon
<1> QED
  BY <1>1, <1>8

(* Accepted in full once, a batch changes nothing any more.                   *)
LEMMA IngestAgain ==
  ASSUME NEW r \in Rows, Filed(r), NEW batch \in Seq(Event), NEW x, x = Ingest(r, batch).rows,
         Ingest(r, batch).dropped = 0
  PROVE  Ingest(x, batch).rows = x
<1>1. x \in Rows /\ Filed(x)
  BY IngestKeeps
<1>2. \A n \in DOMAIN batch :
         /\ batch[n] \in Event /\ Lasting(x, batch[n])
         /\ batch[n].session # NoSession => x.filed[batch[n].id] # NoKey
         /\ batch[n].link => Unowned(batch[n].session) \notin x.sessions
  BY FullIngest
<1> DEFINE Good == {d \in Standing(batch) :
                      /\ d.rows = x
                      /\ \A k \in d.claims : Unowned(k.ref) \notin x.sessions}
<1>3. Unread(x) \in Good
  <2>1. Unread(x) \in Standing(batch)
    BY <1>1 DEF Unread, Standing
  <2>2. Unread(x).rows = x /\ Unread(x).claims = {}
    BY DEF Unread
  <2> QED
    BY <2>1, <2>2
<1>4. ASSUME NEW d \in Good \cap Standing(batch), NEW n \in Left(batch, d)
      PROVE  Taken(batch, d, n) \in Good
  <2>1. PICK new : new = Taken(batch, d, n)
    OBVIOUS
  <2>2. PICK e : e = batch[n]
    OBVIOUS
  <2>3. /\ new \in Standing(batch) /\ e \in Event /\ n \in DOMAIN batch
        /\ \/ /\ Accepts(d.rows, e) /\ new.rows = Store(Resolve(d.rows, e), e)
              /\ new.claims = d.claims \cup
                    (IF e.link THEN {ClaimOf(Resolve(d.rows, e), e)} ELSE {})
           \/ /\ ~Accepts(d.rows, e) /\ new.rows = d.rows /\ new.claims = d.claims
    BY <2>1, <2>2, TakenIs
  <2>4. d.rows = x /\ \A k \in d.claims : Unowned(k.ref) \notin x.sessions
    OBVIOUS
  <2> HIDE DEF Good
  <2>5. CASE ~Accepts(x, e)
    <3>1. new.rows = x /\ new.claims = d.claims
      BY <2>3, <2>4, <2>5
    <3> QED
      BY <2>1, <2>3, <2>4, <3>1 DEF Good
  <2>6. CASE Accepts(x, e)
    <3>1. Resolve(x, e) = x /\ Store(x, e) = x
      BY <1>1, <1>2, <2>2, <2>3, <2>6, StoreAgain
    <3>2. new.rows = x /\ new.claims = d.claims \cup (IF e.link THEN {ClaimOf(x, e)} ELSE {})
      BY <2>3, <2>4, <2>6, <3>1
    <3>3. ClaimOf(x, e).ref = e.session
      BY DEF ClaimOf
    <3>4. e.link => Unowned(e.session) \notin x.sessions
      BY <1>2, <2>2, <2>3
    <3>5. \A k \in new.claims : Unowned(k.ref) \notin x.sessions
      BY <2>4, <3>2, <3>3, <3>4
    <3> QED
      BY <2>1, <2>3, <3>2, <3>5 DEF Good
  <2> QED
    BY <2>5, <2>6
<1> HIDE DEF Good
<1>5. PICK done : done = IngestEvents(x, batch)
  OBVIOUS
<1>6. done \in Good
  BY <1>1, <1>3, <1>4, <1>5, BatchInduction
<1>7. /\ done.rows = x /\ done.accepted \in SUBSET (DOMAIN batch) /\ done.claims \in SUBSET Claims
      /\ \A k \in done.claims : Unowned(k.ref) \notin x.sessions
  BY <1>6 DEF Good, Standing
<1>8. Correlate(x, batch, done.accepted) = x
  BY <1>1, <1>2, <1>7, CorrelateAgain
<1>9. Claim(x, done.claims) = x
  BY <1>1, <1>7, ClaimNothing
<1>10. Ingest(x, batch).rows = Claim(Correlate(done.rows, batch, done.accepted), done.claims)
  BY <1>5, Zenon DEF Ingest
<1> QED
  BY <1>7, <1>8, <1>9, <1>10

-----------------------------------------------------------------------------
(* A batch of one event.                                                     *)

LEMMA FileUnderSingle ==
  ASSUME NEW r \in Rows, NEW e \in Event, NEW batch \in Seq(Event), 1 \in DOMAIN batch,
         batch[1] = e
  PROVE  Correlate(r, batch, {1}) = FileUnder(r, e.id, SessionRefOf(r, e))
<1>0. PICK one : one = {1}
  OBVIOUS
<1>1. one \in SUBSET (DOMAIN batch)
  BY <1>0
<1>2. PICK i : i = e.id
  OBVIOUS
<1>3. i \in Interactions
  BY <1>2, EventType
<1>4. PICK ref : ref = Evidence(r, batch, one, i)
  OBVIOUS
<1>5. ref = SessionRefOf(r, e)
  <2>1. CASE r.filed[i] # NoKey
    BY <1>2, <1>4, <2>1 DEF Evidence, SessionRefOf
  <2>2. CASE r.filed[i] = NoKey
    <3>1. /\ ref \in SessionRefs \cup {NoSession}
          /\ ref # NoSession =>
                \E n \in one : batch[n].id = i /\ batch[n].session = ref
          /\ \A n \in one : batch[n].id = i /\ batch[n].session # NoSession => ref # NoSession
      BY <1>1, <1>3, <1>4, <2>2, EvidenceIs
    <3>2. ref = e.session
      BY <1>0, <1>1, <1>2, <3>1
    <3> QED
      BY <1>2, <2>2, <3>2 DEF SessionRefOf
  <2> QED
    BY <2>1, <2>2
<1>6. {batch[n].id : n \in one} = {i}
  BY <1>0, <1>1, <1>2
<1>7. PICK s : s = Correlate(r, batch, one)
  OBVIOUS
<1>8. /\ s \in Rows /\ s.stored = r.stored /\ s.into = r.into /\ s.parent = r.parent
      /\ s.owner = r.owner
      /\ \A j \in Interactions : j \notin Filings(r, batch, one) => s.filed[j] = r.filed[j]
      /\ \A j \in Filings(r, batch, one) :
            j \in Interactions /\ s.filed[j] = FilingOf(r, batch, one, j)
  BY <1>1, <1>7, CorrelateIs
<1>9. s.sessions = r.sessions \cup {FilingOf(r, batch, one, j) : j \in Filings(r, batch, one)}
  BY <1>1, <1>7, CorrelateIs
<1>10. PICK key : key = [scope |-> r.owner[i], ref |-> ref]
  OBVIOUS
<1>11. FilingOf(r, batch, one, i) = key
  BY <1>4, <1>10 DEF FilingOf
<1>12. CASE ref = NoSession
  <2>1. Filings(r, batch, one) = {}
    BY <1>4, <1>6, <1>12 DEF Filings
  <2>2. s.sessions = r.sessions
    BY <1>9, <2>1
  <2>3. \A j \in Interactions : s.filed[j] = r.filed[j]
    BY <1>8, <2>1
  <2>4. s.filed = r.filed
    <3>1. /\ s.filed \in [Interactions -> Session \cup {NoKey}]
          /\ r.filed \in [Interactions -> Session \cup {NoKey}]
      BY <1>8, RowsType
    <3> QED
      BY <2>3, <3>1
  <2>5. s = r
    <3>1. s = [into |-> s.into, parent |-> s.parent, stored |-> s.stored, owner |-> s.owner,
               filed |-> s.filed, sessions |-> s.sessions]
      BY <1>8, RowsType
    <3>2. r = [into |-> r.into, parent |-> r.parent, stored |-> r.stored, owner |-> r.owner,
               filed |-> r.filed, sessions |-> r.sessions]
      BY RowsType
    <3> QED
      BY <1>8, <2>2, <2>4, <3>1, <3>2, Zenon
  <2> QED
    BY <1>0, <1>5, <1>7, <1>12, <2>5 DEF FileUnder
<1>13. CASE ref # NoSession
  <2>1. Filings(r, batch, one) = {i}
    BY <1>4, <1>6, <1>13 DEF Filings
  <2>2. s.sessions = r.sessions \cup {key}
    <3>1. {FilingOf(r, batch, one, j) : j \in {i}} = {key}
      BY <1>11
    <3> QED
      BY <1>9, <2>1, <3>1, Zenon
  <2>3. \A j \in Interactions : s.filed[j] = IF j = i THEN key ELSE r.filed[j]
    BY <1>8, <1>11, <2>1
  <2>4. s.filed = [j \in Interactions |-> IF j = i THEN key ELSE r.filed[j]]
    <3>1. s.filed \in [Interactions -> Session \cup {NoKey}]
      BY <1>8, RowsType
    <3> QED
      BY <2>3, <3>1
  <2>5. PICK filed : filed = [j \in Interactions |-> IF j = i THEN key ELSE r.filed[j]]
    OBVIOUS
  <2>6. PICK sessions : sessions = r.sessions \cup {key}
    OBVIOUS
  <2>7. FileUnder(r, i, ref) = [r EXCEPT !.filed = filed, !.sessions = sessions]
    BY <1>10, <1>13, <2>5, <2>6, Zenon DEF FileUnder
  <2>8. FileUnder(r, i, ref) =
          [into |-> r.into, parent |-> r.parent, stored |-> r.stored, owner |-> r.owner,
           filed |-> filed, sessions |-> sessions]
    BY <2>7, NewSessions
  <2>9. s = [into |-> s.into, parent |-> s.parent, stored |-> s.stored, owner |-> s.owner,
             filed |-> s.filed, sessions |-> s.sessions]
    BY <1>8, RowsType
  <2>10. s = FileUnder(r, i, ref)
    BY <1>8, <2>2, <2>4, <2>5, <2>6, <2>8, <2>9, Zenon
  <2> QED
    BY <1>0, <1>2, <1>5, <1>7, <2>10
<1> QED
  BY <1>12, <1>13

LEMMA IngestSingle ==
  ASSUME NEW r \in Rows, NEW e \in Event, Accepts(r, e)
  PROVE  IngestOne(r, e) = Ingest(r, <<e>>).rows
<1>1. PICK batch : batch = <<e>>
  OBVIOUS
<1>2. batch \in Seq(Event) /\ DOMAIN batch = {1} /\ batch[1] = e /\ Len(batch) = 1
  BY <1>1
<1>3. PICK done : done = IngestEvents(r, batch)
  OBVIOUS
<1>4. PICK resolved : resolved = Resolve(r, e)
  OBVIOUS
<1>5. PICK stored : stored = Store(resolved, e)
  OBVIOUS
<1>6. stored \in Rows /\ resolved \in Rows
  BY <1>4, <1>5, ResolveIs, StoreIs
<1>7. done = IngestEvent(batch, Unread(r))
  <2>1. Len(batch) \in Nat /\ 1 \in 1 .. Len(batch) /\ 1 - 1 = 0
    BY <1>2
  <2>2. /\ IngestEvents(r, batch) = Progress(r, batch)[Len(batch)]
        /\ Progress(r, batch)[0] = Unread(r)
        /\ Progress(r, batch)[1] = IngestEvent(batch, Progress(r, batch)[0])
    BY <2>1, ProgressIs
  <2> QED
    BY <1>2, <1>3, <2>2
<1>8. PICK claims : claims = IF e.link THEN {ClaimOf(resolved, e)} ELSE {}
  OBVIOUS
<1>9. done.rows = stored /\ done.accepted = {1} /\ done.claims = claims
  <2>1. /\ Unread(r).rows = r /\ Unread(r).accepted = {} /\ Unread(r).dropped = {}
        /\ Unread(r).claims = {}
    BY DEF Unread
  <2>2. Left(batch, Unread(r)) = {1}
    BY <1>2, <2>1 DEF Left
  <2>3. NextOf(batch, {1}) = 1
    <3>1. {1} \in SUBSET (DOMAIN batch) /\ {1} # {}
      BY <1>2
    <3>2. NextOf(batch, {1}) \in {1}
      BY <1>2, <3>1, NextIs
    <3> QED
      BY <3>2
  <2>4. done = Taken(batch, Unread(r), 1)
    BY <1>7, <2>2, <2>3, TakesOne
  <2>5. done = [rows |-> stored, accepted |-> {} \cup {1}, dropped |-> {},
                claims |-> {} \cup claims]
    BY <1>2, <1>4, <1>5, <1>8, <2>1, <2>4, Zenon DEF Taken
  <2> QED
    BY <2>5
<1>10. PICK filed : filed = FileUnder(stored, e.id, SessionRefOf(stored, e))
  OBVIOUS
<1>11. Correlate(stored, batch, {1}) = filed
  BY <1>2, <1>6, <1>10, FileUnderSingle
<1>12. filed \in Rows
  <2>1. {1} \in SUBSET (DOMAIN batch)
    BY <1>2
  <2> QED
    BY <1>2, <1>6, <1>11, <2>1, CorrelateIs
<1>13. Ingest(r, batch).rows = Claim(filed, claims)
  <2>1. Ingest(r, batch).rows = Claim(Correlate(done.rows, batch, done.accepted), done.claims)
    BY <1>3, Zenon DEF Ingest
  <2> QED
    BY <1>9, <1>11, <2>1
<1>14. IngestOne(r, e) = IF e.link THEN Claim(filed, {ClaimOf(resolved, e)}) ELSE filed
  BY <1>4, <1>5, <1>10, Zenon DEF IngestOne
<1>15. CASE e.link
  BY <1>1, <1>8, <1>13, <1>14, <1>15
<1>16. CASE ~e.link
  <2>1. claims = {} /\ claims \in SUBSET Claims
    BY <1>8, <1>16
  <2>2. Claim(filed, claims) = filed
    BY <1>12, <2>1, ClaimNothing
  <2> QED
    BY <1>1, <1>13, <1>14, <1>16, <2>2
<1> QED
  BY <1>15, <1>16

=============================================================================
