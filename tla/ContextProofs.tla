----------------------------- MODULE ContextProofs -----------------------------
(***************************************************************************)
(* What holds of customer context for any number of interactions and         *)
(* decisions: whichever of their references a customer comes by, and         *)
(* whenever a visitor turns out to be known, a refusal in force is heeded;    *)
(* whatever becomes of a product's fields, a request stays what it was; and   *)
(* what the dashboard shows of all this is so.                               *)
(***************************************************************************)
EXTENDS ContextSystem, FiniteSetTheorems, WellFoundedInduction, NaturalsInduction, TLAPS

USE ConstantsAssumption

Made(i) == requests[i].state # "none"

(* The customer a subject stands for, once it stands for one.                *)
OwnerOf(s) ==
    IF s.kind = "durable" THEN IF merged THEN Repoint(s.of) ELSE s.of
                          ELSE requests[s.of].customer

Real(s) == s.kind = "once" => Made(s.of)

Gone(c) == c = Visitor /\ merged

(* A row without a decision is none; the others were decided by now.         *)
GrantFits(g) ==
    /\ g.state = "none" <=> g.decided = 0
    /\ g.state = "none" => g.customer = Nobody
    /\ g.decided <= words /\ g.revision <= words

GrantsFit == \A s \in Subjects, sc \in Scopes : GrantFits(grants[s][sc])

RequestFits(i) ==
    /\ requests[i].expected <= words
    /\ ~Made(i) => requests[i].customer = Nobody
    /\ Made(i) =>
         /\ ~Gone(requests[i].customer)
         /\ requests[i].remember => requests[i].allowed
         /\ Real(requests[i].subject) /\ OwnerOf(requests[i].subject) = requests[i].customer

RequestsFit == \A i \in Interactions : RequestFits(i)

(* What one decision wrote is rows of one subject, alike.                    *)
Together ==
    \A s, t \in Subjects, sc, sd \in Scopes :
        grants[s][sc].decided # 0 /\ grants[s][sc].decided = grants[t][sd].decided =>
            /\ s = t
            /\ grants[s][sc].state = grants[t][sd].state
            /\ grants[s][sc].until = grants[t][sd].until

(* A row belongs to the customer its subject stands for.                     *)
RowsOwned ==
    \A s \in Subjects, sc \in Scopes : grants[s][sc].state # "none" =>
        Real(s) /\ grants[s][sc].customer = OwnerOf(s)

(* The latest word of a customer is the latest of their rows.                *)
WordKept(c) ==
    /\ lastWord[c].at <= words
    /\ \A s \in Subjects, sc \in Scopes :
          grants[s][sc].customer = c => grants[s][sc].decided <= lastWord[c].at
    /\ lastWord[c].answer # "none" =>
          \E s \in Subjects, sc \in Scopes :
              /\ grants[s][sc].customer = c
              /\ grants[s][sc].state = lastWord[c].answer
              /\ grants[s][sc].decided = lastWord[c].at
              /\ grants[s][sc].until = lastWord[c].until

WordsKept == \A c \in Customers : ~Gone(c) => WordKept(c)

(* An item belongs to the customer of the request it answered, which stays    *)
(* as it was answered.                                                       *)
ItemsFit ==
    \A m \in items :
        /\ requests[m.from].state = "answered"
        /\ m.customer = requests[m.from].customer
        /\ m.remembered => requests[m.from].remember

LiveAreMade == \A k \in 1 .. Len(live) : Made(live[k])

CustomerInv ==
    /\ TypeOK
    /\ GrantsFit /\ RequestsFit /\ LiveAreMade
    /\ Together /\ RowsOwned
    /\ WordsKept /\ ItemsFit

-----------------------------------------------------------------------------
(* Types.                                                                    *)

LEMMA Cast ==
  /\ Visitor \in Customers /\ Known \in Customers /\ Nobody \notin Customers
  /\ Scopes = {"share", "remember"} /\ Owners = Customers \cup {Nobody}
  /\ Nobody # Visitor /\ Nobody # Known /\ Visitor # Known
BY DEF Customers, Scopes, Owners

LEMMA GrantType ==
  ASSUME TypeOK, NEW s \in Subjects, NEW sc \in Scopes
  PROVE  /\ grants[s][sc] \in Grant
         /\ grants[s][sc].state \in {"none", "approved", "declined"}
         /\ grants[s][sc].revision \in Nat /\ grants[s][sc].decided \in Nat
         /\ grants[s][sc].decided \in 0 .. MaxWords
         /\ grants[s][sc].customer \in Owners
         /\ grants[s][sc].until \in Interactions \cup {Never}
         /\ words \in Nat /\ words <= MaxWords
BY DEF TypeOK, Grant, Decisions

LEMMA RequestType ==
  ASSUME TypeOK, NEW i \in Interactions
  PROVE  /\ requests[i] \in Request
         /\ requests[i].state \in {"none", "answer_ready", "declined", "answered", "no_relevant_context"}
         /\ requests[i].customer \in Owners
         /\ requests[i].remember \in BOOLEAN /\ requests[i].allowed \in BOOLEAN
         /\ requests[i].subject \in Subjects /\ requests[i].expected \in Nat
BY DEF TypeOK, Request, Completed

LEMMA SubjectType ==
  ASSUME NEW s \in Subjects
  PROVE  \/ s.kind = "once" /\ s.of \in Interactions
         \/ s.kind = "durable" /\ s.of \in Customers
BY DEF Subjects

LEMMA OwnSubject ==
  ASSUME NEW c \in Owners, NEW i \in Interactions, NEW remember \in BOOLEAN
  PROVE  /\ Subject(c, i, remember) \in Subjects
         /\ \/ /\ remember /\ c # Nobody
               /\ Subject(c, i, remember) = [kind |-> "durable", of |-> c]
            \/ Subject(c, i, remember) = [kind |-> "once", of |-> i]
BY DEF Subject, Subjects, Owners

-----------------------------------------------------------------------------
(* The latest of some rows.                                                  *)

LEMMA Greatest ==
  ASSUME NEW n \in Nat, NEW S \in SUBSET (0 .. n), S # {}
  PROVE  \E top \in S : \A x \in S : x <= top
<1> DEFINE below == {n - x : x \in S}
<1>1. below \subseteq Nat /\ below # {}
  <2>1. \A x \in S : n - x \in Nat
    OBVIOUS
  <2>2. PICK x \in S : TRUE
    OBVIOUS
  <2>3. n - x \in below
    BY <2>2
  <2> QED
    BY <2>1, <2>3
<1>2. PICK least \in below : \A y \in below : ~ (<<y, least>> \in OpToRel(<, Nat))
  BY <1>1, NatLessThanWellFounded, WFMin
<1>3. ASSUME NEW y \in below PROVE least <= y
  <2>1. OpToRel(<, Nat) = {ss \in Nat \X Nat : ss[1] < ss[2]}
    BY Zenon DEF OpToRel
  <2>2. <<y, least>> \notin {ss \in Nat \X Nat : ss[1] < ss[2]}
    BY <1>2, <2>1, Zenon
  <2> QED
    BY <1>1, <2>2
<1>4. PICK top \in S : least = n - top
  OBVIOUS
<1>5. ASSUME NEW x \in S PROVE x <= top
  <2>1. least <= n - x
    BY <1>3
  <2> QED
    BY <2>1, <1>4
<1> QED
  BY <1>5

LEMMA LatestIsThere ==
  ASSUME TypeOK, NEW some, some \subseteq Subjects \X Scopes, some # {}
  PROVE  /\ Latest(grants, some) \in some
         /\ \A q \in some : grants[q[1]][q[2]].decided <=
               grants[Latest(grants, some)[1]][Latest(grants, some)[2]].decided
<1> DEFINE times == {grants[q[1]][q[2]].decided : q \in some}
<1>1. times \subseteq 0 .. MaxWords /\ times # {}
  BY GrantType
<1>2. PICK top \in times : \A x \in times : x <= top
  BY <1>1, Greatest
<1>3. PICK p \in some : grants[p[1]][p[2]].decided = top
  OBVIOUS
<1>4. \A q \in some : grants[q[1]][q[2]].decided <= grants[p[1]][p[2]].decided
  BY <1>2, <1>3
<1> QED
  BY <1>4 DEF Latest

LEMMA CandidateType ==
  ASSUME NEW s, NEW c, NEW scopes \in SUBSET Scopes
  PROVE  Candidates(grants, s, c, scopes) \subseteq Subjects \X Scopes
BY DEF Candidates

(* The subject a request starts from is its own or another one of the         *)
(* customer's.                                                               *)
LEMMA StandingFacts ==
  ASSUME TypeOK, GrantsFit, RowsOwned,
         NEW s \in Subjects, NEW c \in Owners, NEW remember \in BOOLEAN
  PROVE  LET standing == Standing(grants, s, c, remember)
         IN  /\ standing.subject \in Subjects
             /\ \/ standing.subject = s
                \/ c # Nobody /\ Real(standing.subject) /\ OwnerOf(standing.subject) = c
             /\ standing.revision \in Nat /\ standing.revision <= words
             /\ standing.state \in {"declined", "answer_ready"}
<1> DEFINE scopes == Required(remember)
           some == Candidates(grants, s, IF remember THEN c ELSE Nobody, scopes)
           subject == IF some = {} THEN s ELSE Latest(grants, some)[1]
           effective == {grants[p[1]][p[2]] : p \in {q \in some : q[1] = subject}}
           levels == {0} \cup {g.revision : g \in effective}
           top == CHOOSE r \in levels : \A g \in effective : g.revision <= r
<1>1. scopes \subseteq Scopes
  BY DEF Required, Scopes
<1>2. some \subseteq Subjects \X Scopes
  BY <1>1 DEF Candidates
<1>3. /\ subject \in Subjects
      /\ subject = s \/ (c # Nobody /\ Real(subject) /\ OwnerOf(subject) = c)
  <2>1. CASE some = {}
    BY <2>1
  <2>2. CASE some # {}
    <3>1. Latest(grants, some) \in some
      BY <1>2, <2>2, LatestIsThere
    <3> DEFINE p == Latest(grants, some)
    <3>2. /\ p[1] \in Subjects /\ p[2] \in Scopes /\ grants[p[1]][p[2]].state # "none"
          /\ p[1] = s \/ (c # Nobody /\ grants[p[1]][p[2]].customer = c)
      BY <3>1, <1>1 DEF Candidates
    <3> QED
      BY <2>2, <3>2 DEF RowsOwned
  <2> QED
    BY <2>1, <2>2
<1>4. \A g \in effective : g.revision \in Nat /\ g.revision <= words
  BY <1>2, GrantType DEF GrantsFit, GrantFits
<1>5. words \in Nat
  BY DEF TypeOK
<1>6. levels \subseteq 0 .. words /\ levels # {}
  BY <1>4, <1>5
<1> HIDE DEF levels, effective
<1>7. PICK most \in levels : \A x \in levels : x <= most
  BY <1>5, <1>6, Greatest
<1>8. \A g \in effective : g.revision <= most
  <2>1. \A g \in effective : g.revision \in levels
    BY Zenon DEF levels
  <2> QED
    BY <1>7, <2>1
<1>9. top \in levels
  <2>1. \E r \in levels : \A g \in effective : g.revision <= r
    BY <1>8
  <2> QED
    BY ONLY <2>1, Zenon
<1> HIDE DEF top
<1>10. top \in Nat /\ top <= words
  BY <1>5, <1>6, <1>9
<1>11. /\ Standing(grants, s, c, remember).subject = subject
       /\ Standing(grants, s, c, remember).revision = top
       /\ Standing(grants, s, c, remember).state \in {"declined", "answer_ready"}
  BY DEF Standing, levels, effective, top
<1> HIDE DEF subject
<1> QED
  BY <1>3, <1>10, <1>11

-----------------------------------------------------------------------------
(* A refusal in force.                                                       *)

Refused(c) ==
    ~Gone(c) /\ lastWord[c].answer = "declined" /\ Unexpired(lastWord[c].until)

LEMMA RefusalIsLatest ==
  ASSUME CustomerInv, NEW c \in Customers, Refused(c), NEW s \in Subjects, OwnerOf(s) = c
  PROVE  LET some == Candidates(grants, s, c, Scopes)
             p == Latest(grants, some)
         IN  some # {} /\ p \in some /\ Refuses(grants[p[1]][p[2]])
<1> DEFINE some == Candidates(grants, s, c, Scopes)
           p == Latest(grants, some)
<1> USE DEF CustomerInv
<1>1. c # Nobody
  BY Cast
<1>2. PICK t \in Subjects, sc \in Scopes :
         /\ grants[t][sc].customer = c /\ grants[t][sc].state = "declined"
         /\ grants[t][sc].decided = lastWord[c].at
         /\ grants[t][sc].until = lastWord[c].until
  BY DEF WordsKept, WordKept, Refused
<1>3. <<t, sc>> \in some
  BY <1>1, <1>2 DEF Candidates
<1>4. some \subseteq Subjects \X Scopes
  BY DEF Candidates
<1>5. p \in some /\ grants[t][sc].decided <= grants[p[1]][p[2]].decided
  BY <1>3, <1>4, LatestIsThere
<1>6. p[1] \in Subjects /\ p[2] \in Scopes
  BY <1>4, <1>5
<1>7. grants[p[1]][p[2]].state # "none" /\ grants[p[1]][p[2]].customer = c
  BY <1>5, <1>6 DEF Candidates, RowsOwned
<1>8. grants[p[1]][p[2]].decided <= lastWord[c].at
  BY <1>6, <1>7 DEF WordsKept, WordKept, Refused
<1>9. grants[p[1]][p[2]].decided = grants[t][sc].decided
  BY <1>2, <1>5, <1>6, <1>8, GrantType
<1>10. grants[t][sc].decided # 0
  BY <1>2 DEF GrantsFit, GrantFits
<1>11. /\ grants[p[1]][p[2]].state = "declined"
       /\ grants[p[1]][p[2]].until = lastWord[c].until
  BY <1>2, <1>6, <1>9, <1>10 DEF Together
<1> QED
  BY <1>3, <1>5, <1>11 DEF Refuses, Refused

LEMMA RefusalHidesItems ==
  ASSUME CustomerInv, NEW m \in items, m.customer # Nobody, Refused(m.customer)
  PROVE  ~Permitted(m)
<1> DEFINE c == m.customer
           s == requests[m.from].subject
<1>1. m.from \in Interactions /\ c \in Customers
  BY Cast DEF CustomerInv, TypeOK, Item
<1>2. Made(m.from) /\ requests[m.from].customer = c
  BY DEF CustomerInv, ItemsFit, Made
<1>3. s \in Subjects /\ OwnerOf(s) = c
  BY <1>1, <1>2, RequestType DEF CustomerInv, RequestsFit, RequestFits
<1>4. OptedOut(m)
  BY <1>1, <1>3, RefusalIsLatest DEF OptedOut
<1> QED
  BY <1>4 DEF Permitted

LEMMA NothingLeft == CustomerInv => MergeLeavesNothing
<1> SUFFICES ASSUME CustomerInv, merged PROVE MergeLeavesNothing
  BY DEF MergeLeavesNothing
<1> USE DEF CustomerInv
<1>1. ASSUME NEW i \in Interactions PROVE requests[i].customer # Visitor
  BY Cast DEF RequestsFit, RequestFits, Gone
<1>2. ASSUME NEW s \in Subjects, NEW sc \in Scopes PROVE grants[s][sc].customer # Visitor
  <2>1. CASE grants[s][sc].state = "none"
    BY <2>1, Cast DEF GrantsFit, GrantFits
  <2>2. CASE grants[s][sc].state # "none"
    <3>1. Real(s) /\ grants[s][sc].customer = OwnerOf(s)
      BY <2>2 DEF RowsOwned
    <3>2. CASE s.kind = "durable"
      BY <3>1, <3>2, Cast DEF OwnerOf, Repoint
    <3>3. CASE s.kind = "once" /\ s.of \in Interactions
      BY <3>1, <3>3, <1>1 DEF OwnerOf, Real
    <3> QED
      BY <3>2, <3>3, SubjectType
  <2> QED
    BY <2>1, <2>2
<1>3. ASSUME NEW m \in items PROVE m.customer # Visitor
  BY <1>1 DEF ItemsFit, TypeOK, Item
<1> QED
  BY <1>1, <1>2, <1>3 DEF MergeLeavesNothing

-----------------------------------------------------------------------------
(* Steps that record nothing.                                                *)

LEMMA OwnersKept ==
  ASSUME TypeOK, merged' = merged,
         \A i \in Interactions : /\ requests'[i].customer = requests[i].customer
                                 /\ requests'[i].state = "none" <=> requests[i].state = "none"
  PROVE  \A s \in Subjects : OwnerOf(s)' = OwnerOf(s) /\ (Real(s)' <=> Real(s))
BY SubjectType DEF OwnerOf, Real, Made

LEMMA CustomerInvKept ==
  ASSUME CustomerInv, TypeOK', LiveAreMade',
         UNCHANGED <<merged, requests, grants, items, words, lastWord>>
  PROVE  CustomerInv'
<1>1. \A s \in Subjects : OwnerOf(s)' = OwnerOf(s) /\ (Real(s)' <=> Real(s))
  BY DEF OwnerOf, Real, Made
<1>2. GrantsFit' /\ Together' /\ RowsOwned'
  BY <1>1 DEF CustomerInv, GrantsFit, GrantFits, Together, RowsOwned
<1>3. RequestsFit'
  BY <1>1, RequestType DEF CustomerInv, RequestsFit, RequestFits, Made, Gone
<1>4. WordsKept'
  BY DEF CustomerInv, WordsKept, WordKept, Gone
<1>5. ItemsFit'
  BY DEF CustomerInv, ItemsFit
<1> QED
  BY <1>2, <1>3, <1>4, <1>5 DEF CustomerInv

LEMMA RetrievalType ==
  ASSUME TypeOK, NEW some \in SUBSET items, NEW c \in Owners
  PROVE  Retrieved(c, some) \in Retrieval
<1>1. KeysOf(some) \subseteq ItemKey
  BY DEF KeysOf, TypeOK, Item, ItemKey
<1> QED
  BY <1>1, Cast DEF Retrieved, Retrieval, NoRetrieval

LEMMA LookStep ==
  ASSUME CustomerInv,
         \/ \E refs \in References : RetrieveByReference(refs)
         \/ \E i \in Interactions : RetrieveByInteraction(i),
         used' = {}
  PROVE  CustomerInv'
<1>1. /\ UNCHANGED <<merged, requests, live, grants, items, words, lastWord>>
      /\ retrieval' \in Retrieval
  <2>1. CASE \E refs \in References : RetrieveByReference(refs)
    <3>1. PICK refs \in References : RetrieveByReference(refs)
      BY <2>1
    <3>2. CustomerOf(refs) \in Owners
      BY Cast DEF CustomerOf, VisitorRow
    <3>3. Remembered(CustomerOf(refs)) \subseteq items
      BY DEF Remembered
    <3> QED
      BY <3>1, <3>2, <3>3, RetrievalType DEF RetrieveByReference, CustomerInv
  <2>2. CASE \E i \in Interactions : RetrieveByInteraction(i)
    <3>1. PICK i \in Interactions : RetrieveByInteraction(i)
      BY <2>2
    <3>2. requests[i].customer \in Owners
      BY RequestType DEF CustomerInv
    <3>3. Query(i, requests[i].customer) \subseteq items
      BY DEF Query
    <3> QED
      BY <3>1, <3>2, <3>3, RetrievalType DEF RetrieveByInteraction, CustomerInv
  <2> QED
    BY <2>1, <2>2
<1>2. TypeOK'
  BY <1>1 DEF CustomerInv, TypeOK
<1>3. LiveAreMade'
  BY <1>1 DEF CustomerInv, LiveAreMade, Made
<1> QED
  BY <1>1, <1>2, <1>3, CustomerInvKept

LEMMA PersonalizeStep ==
  ASSUME CustomerInv, NEW chosen, Personalize(chosen)
  PROVE  CustomerInv'
<1>1. TypeOK'
  BY DEF Personalize, CustomerInv, TypeOK, Retrieval
<1>2. LiveAreMade'
  BY DEF Personalize, CustomerInv, LiveAreMade, Made
<1> QED
  BY <1>1, <1>2, CustomerInvKept DEF Personalize

LEMMA ExpireStep ==
  ASSUME CustomerInv, Expire, used' = {}
  PROVE  CustomerInv'
<1>1. live \in Seq(Interactions) /\ live # <<>>
  BY DEF CustomerInv, TypeOK, Expire
<1>2. /\ live' \in Seq(Interactions) /\ Len(live') = Len(live) - 1
      /\ \A k \in 1 .. Len(live') : live'[k] = live[k + 1] /\ k + 1 \in 1 .. Len(live)
  BY <1>1 DEF Expire
<1>3. TypeOK'
  BY <1>2 DEF Expire, CustomerInv, TypeOK
<1>4. LiveAreMade'
  BY <1>2 DEF Expire, CustomerInv, LiveAreMade, Made
<1> QED
  BY <1>3, <1>4, CustomerInvKept DEF Expire

-----------------------------------------------------------------------------
(* A visitor turns out to be known.                                          *)

LEMMA IdentifyFacts ==
  ASSUME TypeOK, Identify
  PROVE  /\ ~merged /\ merged'
         /\ \A i \in Interactions :
               /\ requests'[i] \in Request
               /\ requests'[i].customer = Repoint(requests[i].customer)
               /\ requests'[i].state = requests[i].state
               /\ requests'[i].remember = requests[i].remember
               /\ requests'[i].allowed = requests[i].allowed
               /\ requests'[i].subject = requests[i].subject
               /\ requests'[i].expected = requests[i].expected
         /\ \A s \in Subjects, sc \in Scopes :
               /\ grants'[s][sc] \in Grant
               /\ grants'[s][sc].customer = Repoint(grants[s][sc].customer)
               /\ grants'[s][sc].state = grants[s][sc].state
               /\ grants'[s][sc].revision = grants[s][sc].revision
               /\ grants'[s][sc].decided = grants[s][sc].decided
               /\ grants'[s][sc].until = grants[s][sc].until
         /\ \A m \in items' : \E n \in items :
               /\ m \in Item
               /\ m.from = n.from /\ m.remembered = n.remembered
               /\ m.customer = Repoint(n.customer)
<1>1. \A c \in Owners : Repoint(c) \in Owners
  BY Cast DEF Repoint
<1>2. ASSUME NEW i \in Interactions
      PROVE  /\ requests'[i] = [requests[i] EXCEPT !.customer = Repoint(requests[i].customer)]
             /\ requests[i] \in Request /\ Repoint(requests[i].customer) \in Owners
  BY <1>1, RequestType DEF Identify, MergedRequests
<1>3. ASSUME NEW s \in Subjects, NEW sc \in Scopes
      PROVE  /\ grants'[s][sc] = [grants[s][sc] EXCEPT !.customer = Repoint(grants[s][sc].customer)]
             /\ grants[s][sc] \in Grant /\ Repoint(grants[s][sc].customer) \in Owners
  BY <1>1, GrantType DEF Identify, MergedGrants
<1>4. ASSUME NEW m \in items'
      PROVE  \E n \in items : /\ n \in Item /\ Repoint(n.customer) \in Owners
                              /\ m = [n EXCEPT !.customer = Repoint(n.customer)]
  BY <1>1 DEF Identify, MergedItems, TypeOK, Item
<1>5. ASSUME NEW i \in Interactions
      PROVE  /\ requests'[i] \in Request
             /\ requests'[i].customer = Repoint(requests[i].customer)
             /\ requests'[i].state = requests[i].state
             /\ requests'[i].remember = requests[i].remember
             /\ requests'[i].allowed = requests[i].allowed
             /\ requests'[i].subject = requests[i].subject
             /\ requests'[i].expected = requests[i].expected
  BY <1>2 DEF Request
<1>6. ASSUME NEW s \in Subjects, NEW sc \in Scopes
      PROVE  /\ grants'[s][sc] \in Grant
             /\ grants'[s][sc].customer = Repoint(grants[s][sc].customer)
             /\ grants'[s][sc].state = grants[s][sc].state
             /\ grants'[s][sc].revision = grants[s][sc].revision
             /\ grants'[s][sc].decided = grants[s][sc].decided
             /\ grants'[s][sc].until = grants[s][sc].until
  <2> DEFINE g == grants[s][sc]
             h == grants'[s][sc]
             c == Repoint(grants[s][sc].customer)
  <2>1. g \in Grant /\ c \in Owners /\ h = [g EXCEPT !.customer = c]
    BY <1>3
  <2> HIDE DEF g, h, c
  <2>2. /\ h \in Grant /\ h.customer = c /\ h.state = g.state /\ h.revision = g.revision
        /\ h.decided = g.decided /\ h.until = g.until
    BY ONLY <2>1 DEF Grant
  <2> QED
    BY <2>2 DEF g, h, c
<1>7. ASSUME NEW m \in items'
      PROVE  \E n \in items : /\ m \in Item
                              /\ m.from = n.from /\ m.remembered = n.remembered
                              /\ m.customer = Repoint(n.customer)
  BY <1>4 DEF Item
<1> QED
  BY <1>5, <1>6, <1>7 DEF Identify

LEMMA IdentifyStep ==
  ASSUME CustomerInv, Identify, used' = {}
  PROVE  CustomerInv'
<1> USE DEF CustomerInv
<1>1. /\ ~merged /\ merged' = TRUE
      /\ \A c \in Owners : Repoint(c) \in Owners \ {Visitor}
      /\ \A c \in Owners : Repoint(c) = Nobody <=> c = Nobody
  BY Cast DEF Identify, Repoint
<1>2. TypeOK'
  <2>1. requests' \in [Interactions -> Request]
    BY IdentifyFacts DEF Identify, MergedRequests
  <2>2. grants' \in [Subjects -> [Scopes -> Grant]]
    BY IdentifyFacts DEF Identify, MergedGrants
  <2>3. items' \subseteq Item
    BY IdentifyFacts
  <2>4. retrieval' \in Retrieval
    BY <1>1 DEF Identify, MergedRetrieval, TypeOK, Retrieval
  <2>5. lastWord' \in [Customers -> Word]
    BY Cast DEF Identify, LaterWord, TypeOK
  <2> QED
    BY <2>1, <2>2, <2>3, <2>4, <2>5, <1>1 DEF Identify, TypeOK
<1>3. ASSUME NEW s \in Subjects
      PROVE  /\ OwnerOf(s)' = Repoint(OwnerOf(s)) /\ (Real(s)' <=> Real(s))
             /\ OwnerOf(s) \in Owners
  BY <1>1, IdentifyFacts, SubjectType, RequestType, Cast DEF OwnerOf, Real, Made
<1>4. GrantsFit'
  BY <1>1, IdentifyFacts, GrantType DEF GrantsFit, GrantFits, Identify
<1>5. RequestsFit'
  BY <1>1, <1>3, IdentifyFacts, RequestType DEF RequestsFit, RequestFits, Made, Gone, Identify
<1>6. LiveAreMade'
  BY IdentifyFacts DEF LiveAreMade, Made, Identify, TypeOK
<1>7. Together'
  BY IdentifyFacts DEF Together
<1>8. RowsOwned'
  BY <1>3, IdentifyFacts DEF RowsOwned
<1>9. ItemsFit'
  <2>1. ASSUME NEW m \in items'
        PROVE  /\ requests'[m.from].state = "answered"
               /\ m.customer = requests'[m.from].customer
               /\ m.remembered => requests'[m.from].remember
    <3>1. PICK n \in items : /\ m.from = n.from /\ m.remembered = n.remembered
                             /\ m.customer = Repoint(n.customer)
      BY IdentifyFacts
    <3>2. n.from \in Interactions
      BY DEF TypeOK, Item
    <3> QED
      BY <3>1, <3>2, IdentifyFacts DEF ItemsFit
  <2> QED
    BY <2>1 DEF ItemsFit
<1>10. WordsKept'
  <2>1. WordKept(Visitor) /\ WordKept(Known)
    BY <1>1, Cast DEF WordsKept, Gone
  <2>2. /\ lastWord[Visitor].at \in Nat /\ lastWord[Known].at \in Nat
        /\ lastWord'[Known] = LaterWord(lastWord[Known], lastWord[Visitor])
    BY Cast DEF TypeOK, Word, Identify
  <2>3. WordKept(Known)'
    <3>1. lastWord'[Known].at <= words'
      BY <2>1, <2>2 DEF WordKept, LaterWord, Identify
    <3>2. ASSUME NEW s \in Subjects, NEW sc \in Scopes, grants'[s][sc].customer = Known
          PROVE  grants'[s][sc].decided <= lastWord'[Known].at
      <4>1. grants[s][sc].customer \in {Known, Visitor}
        BY <3>2, IdentifyFacts, GrantType DEF Repoint
      <4>2. \/ grants[s][sc].decided <= lastWord[Known].at
            \/ grants[s][sc].decided <= lastWord[Visitor].at
        BY <4>1, <2>1 DEF WordKept
      <4>3. grants'[s][sc].decided = grants[s][sc].decided /\ grants[s][sc].decided \in Nat
        BY IdentifyFacts, GrantType
      <4>4. lastWord[Known].at <= lastWord'[Known].at /\ lastWord[Visitor].at <= lastWord'[Known].at
            /\ lastWord'[Known].at \in Nat
        BY <2>2 DEF LaterWord
      <4> QED
        BY <4>2, <4>3, <4>4, <2>2
    <3>3. ASSUME lastWord'[Known].answer # "none"
          PROVE  \E s \in Subjects, sc \in Scopes :
                    /\ grants'[s][sc].customer = Known
                    /\ grants'[s][sc].state = lastWord'[Known].answer
                    /\ grants'[s][sc].decided = lastWord'[Known].at
                    /\ grants'[s][sc].until = lastWord'[Known].until
      <4>1. PICK c \in {Known, Visitor} : lastWord'[Known] = lastWord[c]
        BY <2>2 DEF LaterWord
      <4>2. PICK s \in Subjects, sc \in Scopes :
               /\ grants[s][sc].customer = c
               /\ grants[s][sc].state = lastWord[c].answer
               /\ grants[s][sc].decided = lastWord[c].at
               /\ grants[s][sc].until = lastWord[c].until
        BY <4>1, <3>3, <2>1 DEF WordKept
      <4>3. grants'[s][sc].customer = Known
        BY <4>1, <4>2, IdentifyFacts DEF Repoint
      <4> QED
        BY <4>1, <4>2, <4>3, IdentifyFacts
    <3> QED
      BY <3>1, <3>2, <3>3 DEF WordKept
  <2> QED
    BY <2>3, <1>1 DEF WordsKept, Gone, Customers
<1> QED
  BY <1>2, <1>4, <1>5, <1>6, <1>7, <1>8, <1>9, <1>10

-----------------------------------------------------------------------------
(* A request.                                                                *)

LEMMA CreateStep ==
  ASSUME CustomerInv, NEW i \in Interactions, NEW refs \in References, NEW remember \in BOOLEAN,
         CreateRequest(i, refs, remember), used' = {}
  PROVE  CustomerInv'
<1> USE DEF CustomerInv
<1> DEFINE c == CustomerOf(refs)
           durable == remember /\ refs # "none"
           own == Subject(c, i, durable)
           standing == Standing(grants, own, c, durable)
<1>1. c \in Owners /\ ~Gone(c) /\ (durable => c # Nobody) /\ durable \in BOOLEAN
  BY Cast DEF CustomerOf, VisitorRow, Gone, References
<1>2. /\ own \in Subjects
      /\ \/ durable /\ own = [kind |-> "durable", of |-> c]
         \/ own = [kind |-> "once", of |-> i]
  BY <1>1, OwnSubject
<1>3. /\ standing.subject \in Subjects
      /\ \/ standing.subject = own
         \/ c # Nobody /\ Real(standing.subject) /\ OwnerOf(standing.subject) = c
      /\ standing.revision \in Nat /\ standing.revision <= words
      /\ standing.state \in {"declined", "answer_ready"}
  BY <1>1, <1>2, StandingFacts
<1>4. /\ ~Made(i)
      /\ requests' = [requests EXCEPT ![i] =
               [state |-> standing.state, customer |-> c, remember |-> durable,
                allowed |-> durable, subject |-> standing.subject,
                expected |-> standing.revision, answer |-> "none"]]
      /\ live' = Append(live, i)
      /\ UNCHANGED <<merged, grants, items, words, lastWord, retrieval>>
  BY DEF CreateRequest, Made
<1> HIDE DEF c, durable, own, standing
<1>5. /\ requests'[i].state = standing.state /\ requests'[i].customer = c
      /\ requests'[i].remember = durable /\ requests'[i].allowed = durable
      /\ requests'[i].subject = standing.subject /\ requests'[i].expected = standing.revision
      /\ requests'[i] \in Request
      /\ \A j \in Interactions \ {i} : requests'[j] = requests[j]
      /\ DOMAIN requests' = Interactions
  BY <1>1, <1>3, <1>4 DEF TypeOK, Request
<1>6. TypeOK'
  BY <1>4, <1>5 DEF TypeOK
<1>7. \A s \in Subjects : Real(s) => Real(s)' /\ OwnerOf(s)' = OwnerOf(s)
  BY <1>4, <1>5, <1>3, SubjectType DEF Real, OwnerOf, Made
<1>8. GrantsFit' /\ Together'
  BY <1>4 DEF GrantsFit, GrantFits, Together
<1>9. RowsOwned'
  BY <1>4, <1>7 DEF RowsOwned
<1>10. RequestsFit'
  <2>1. PICK s \in Subjects : s = standing.subject
    BY <1>3
  <2>2. Real(s)' /\ OwnerOf(s)' = c
    <3>1. CASE s = own /\ own = [kind |-> "once", of |-> i]
      BY <3>1, <1>3, <1>5 DEF Real, OwnerOf, Made
    <3>2. CASE s = own /\ own = [kind |-> "durable", of |-> c]
      BY <3>2, <1>1, <1>4 DEF Real, OwnerOf, Gone, Repoint
    <3>3. CASE Real(s) /\ OwnerOf(s) = c
      BY <3>3, <1>7
    <3> QED
      BY <1>2, <1>3, <2>1, <3>1, <3>2, <3>3
  <2>3. requests'[i].subject = s
    BY <1>5, <2>1
  <2>4. RequestFits(i)'
    BY <2>2, <2>3, <1>1, <1>3, <1>4, <1>5 DEF RequestFits, Made, Gone
  <2>5. ASSUME NEW j \in Interactions, j # i PROVE RequestFits(j)'
    BY <2>5, <1>4, <1>5, <1>7, RequestType DEF RequestsFit, RequestFits, Made, Gone
  <2> QED
    BY <2>4, <2>5 DEF RequestsFit
<1>11. LiveAreMade'
  <2>1. live \in Seq(Interactions)
    BY DEF TypeOK
  <2>2. ASSUME NEW k \in 1 .. Len(live') PROVE live'[k] = i \/ (k \in 1 .. Len(live) /\ live'[k] = live[k])
    BY <2>1, <1>4
  <2>3. ASSUME NEW k \in 1 .. Len(live') PROVE requests'[live'[k]].state # "none"
    <3>1. CASE live'[k] = i
      BY <3>1, <1>3, <1>5
    <3>2. CASE k \in 1 .. Len(live) /\ live'[k] = live[k] /\ live'[k] # i
      BY <3>2, <2>1, <1>5 DEF Made, LiveAreMade
    <3> QED
      BY <2>2, <3>1, <3>2
  <2> QED
    BY <2>3 DEF LiveAreMade, Made
<1>12. ItemsFit'
  BY <1>4, <1>5 DEF ItemsFit, Made, TypeOK, Item
<1>13. WordsKept'
  BY <1>4 DEF WordsKept, WordKept, Gone
<1> QED
  BY <1>6, <1>8, <1>9, <1>10, <1>11, <1>12, <1>13

-----------------------------------------------------------------------------
(* An answer.                                                                *)

LEMMA AnswerStep ==
  ASSUME CustomerInv, NEW i \in Interactions, NEW status \in Answers, NEW memory \in SUBSET BOOLEAN,
         SubmitAnswer(i, status, memory), used' = {}
  PROVE  CustomerInv'
<1> USE DEF CustomerInv
<1>1. /\ requests[i].state = "answer_ready" /\ status \in {"answered", "declined", "no_relevant_context"}
      /\ memory # {} => status = "answered"
      /\ TRUE \in memory => requests[i].remember
      /\ UNCHANGED <<merged, live, grants, words, lastWord, retrieval>>
  BY DEF SubmitAnswer, Answers
<1>2. /\ requests'[i] \in Request
      /\ requests'[i].state = status /\ requests'[i].customer = requests[i].customer
      /\ requests'[i].remember = requests[i].remember /\ requests'[i].allowed = requests[i].allowed
      /\ requests'[i].subject = requests[i].subject /\ requests'[i].expected = requests[i].expected
      /\ \A j \in Interactions \ {i} : requests'[j] = requests[j]
      /\ DOMAIN requests' = Interactions
  BY <1>1, RequestType DEF SubmitAnswer, WithAnswer, TypeOK, Request, Answers, Completed
<1>3. \A m \in items' :
         \/ m \in items
         \/ /\ m \in Item /\ m.from = i /\ m.customer = requests[i].customer
            /\ status = "answered" /\ (m.remembered => requests[i].remember)
  <2>1. requests[i].customer \in Owners
    BY RequestType
  <2>2. items' = items \cup
           {[from |-> i, remembered |-> remembered, customer |-> requests[i].customer] :
               remembered \in memory}
    BY DEF SubmitAnswer
  <2>3. ASSUME NEW m \in items', m \notin items
        PROVE  /\ m \in Item /\ m.from = i /\ m.customer = requests[i].customer
               /\ status = "answered" /\ (m.remembered => requests[i].remember)
    <3>1. PICK remembered \in memory :
             m = [from |-> i, remembered |-> remembered, customer |-> requests[i].customer]
      BY <2>2, <2>3
    <3>2. remembered \in BOOLEAN /\ (remembered => TRUE \in memory)
      BY <3>1
    <3>3. m.from = i /\ m.remembered = remembered /\ m.customer = requests[i].customer
      BY <3>1
    <3>4. m \in Item
      BY <2>1, <3>1, <3>2 DEF Item
    <3> QED
      BY <1>1, <3>2, <3>3, <3>4
  <2> QED
    BY <2>3
<1>4. TypeOK'
  <2>1. items' \subseteq Item
    BY <1>3 DEF TypeOK
  <2>2. requests' \in [Interactions -> Request]
    <3>1. requests' = [requests EXCEPT ![i] = WithAnswer(requests[i], status)]
      BY DEF SubmitAnswer
    <3> QED
      BY <3>1, <1>2 DEF TypeOK
  <2> QED
    BY <1>1, <2>1, <2>2 DEF TypeOK
<1>5. /\ \A j \in Interactions : /\ requests'[j].customer = requests[j].customer
                                 /\ requests'[j].state = "none" <=> requests[j].state = "none"
      /\ \A s \in Subjects : OwnerOf(s)' = OwnerOf(s) /\ (Real(s)' <=> Real(s))
  BY <1>1, <1>2, OwnersKept
<1>6. GrantsFit' /\ Together' /\ RowsOwned'
  BY <1>1, <1>5 DEF GrantsFit, GrantFits, Together, RowsOwned
<1>7. RequestsFit'
  BY <1>1, <1>2, <1>5, RequestType DEF RequestsFit, RequestFits, Made, Gone
<1>8. LiveAreMade'
  BY <1>1, <1>5 DEF LiveAreMade, Made, TypeOK
<1>9. ItemsFit'
  <2>1. ASSUME NEW m \in items'
        PROVE  /\ requests'[m.from].state = "answered"
               /\ m.customer = requests'[m.from].customer
               /\ m.remembered => requests'[m.from].remember
    <3>1. CASE m \in items
      <4>1. m.from \in Interactions /\ requests[m.from].state = "answered"
        BY <3>1 DEF ItemsFit, TypeOK, Item
      <4>2. requests'[m.from] = requests[m.from]
        BY <4>1, <1>1, <1>2
      <4> QED
        BY <3>1, <4>2 DEF ItemsFit
    <3>2. CASE m \notin items
      BY <3>2, <1>2, <1>3
    <3> QED
      BY <3>1, <3>2
  <2> QED
    BY <2>1 DEF ItemsFit
<1>10. WordsKept'
  BY <1>1 DEF WordsKept, WordKept, Gone
<1> QED
  BY <1>4, <1>6, <1>7, <1>8, <1>9, <1>10

-----------------------------------------------------------------------------
(* A decision.                                                               *)

LEMMA ReselectedFacts ==
  ASSUME CustomerInv, NEW i \in Interactions, NEW remember \in BOOLEAN,
         Live(i), MayReselect(i, remember)
  PROVE  LET r == Reselected(i, remember)
         IN  /\ Made(i) /\ r \in Request /\ r.state # "none"
             /\ r.customer = requests[i].customer /\ ~Gone(r.customer)
             /\ r.remember => r.allowed
             /\ r.expected <= words
             /\ Real(r.subject) /\ OwnerOf(r.subject) = r.customer
             /\ requests[i].state = "answered" => r = requests[i]
<1> USE DEF CustomerInv
<1> DEFINE c == requests[i].customer
           own == Subject(c, i, remember)
           standing == Standing(grants, own, c, remember)
           r == Reselected(i, remember)
<1>1. Made(i)
  BY DEF Live, LiveAreMade
<1>2. /\ c \in Owners /\ ~Gone(c) /\ requests[i] \in Request
      /\ requests[i].remember => requests[i].allowed
      /\ requests[i].expected <= words
      /\ Real(requests[i].subject) /\ OwnerOf(requests[i].subject) = c
  BY <1>1, RequestType DEF RequestsFit, RequestFits
<1>3. CASE remember = requests[i].remember
  <2>1. r = requests[i]
    BY <1>3 DEF Reselected
  <2> HIDE DEF r
  <2> QED
    BY <1>1, <1>2, <2>1 DEF Made, r
<1>4. CASE remember # requests[i].remember
  <2>1. requests[i].state = "answer_ready" /\ (remember => requests[i].allowed)
    BY <1>4 DEF MayReselect
  <2>2. /\ own \in Subjects
        /\ \/ c # Nobody /\ own = [kind |-> "durable", of |-> c]
           \/ own = [kind |-> "once", of |-> i]
    BY <1>2, OwnSubject
  <2>3. /\ standing.subject \in Subjects
        /\ \/ standing.subject = own
           \/ c # Nobody /\ Real(standing.subject) /\ OwnerOf(standing.subject) = c
        /\ standing.revision \in Nat /\ standing.revision <= words
        /\ standing.state \in {"declined", "answer_ready"}
    BY <1>2, <2>2, StandingFacts
  <2>4. Real(own) /\ OwnerOf(own) = c
    BY <1>1, <1>2, <2>2 DEF Real, OwnerOf, Gone, Repoint
  <2>5. r = [state |-> standing.state, customer |-> requests[i].customer, remember |-> remember,
             allowed |-> requests[i].allowed, subject |-> standing.subject,
             expected |-> standing.revision, answer |-> requests[i].answer]
    BY <1>4 DEF Reselected
  <2> HIDE DEF c, own, standing, r
  <2>6. requests[i].answer \in {"none"} \cup Answers
    BY <1>2 DEF Request
  <2>7. r \in Request
    BY <2>3, <2>5, <2>6, RequestType DEF Request
  <2> QED
    BY <1>1, <1>2, <2>1, <2>3, <2>4, <2>5, <2>7 DEF c, r
<1> QED
  BY <1>3, <1>4

(* What the request becomes: what it was, in a state of the permissions.     *)
LEMMA SettledFacts ==
  ASSUME NEW r \in Request, NEW state \in {"declined", "answer_ready"}, r.state # "none"
  PROVE  LET t == Settled(r, state)
         IN  /\ t \in Request /\ t.state # "none"
             /\ r.state = "answered" => t.state = "answered"
             /\ t.customer = r.customer /\ t.remember = r.remember /\ t.allowed = r.allowed
             /\ t.subject = r.subject /\ t.expected = r.expected
BY DEF Settled, Request, Completed

LEMMA ShownType ==
  ASSUME NEW table, NEW r
  PROVE  ShownState(table, r) \in {"declined", "answer_ready"}
BY DEF ShownState, Standing

(* The request afterwards, whatever becomes of the grants.                   *)
LEMMA DecideRequests ==
  ASSUME CustomerInv, NEW i \in Interactions, NEW answer \in Decisions, NEW remember \in BOOLEAN,
         DecideConsent(i, answer, remember)
  PROVE  LET r == Reselected(i, remember)
         IN  /\ requests' \in [Interactions -> Request]
             /\ \A j \in Interactions \ {i} : requests'[j] = requests[j]
             /\ requests'[i] \in Request /\ requests'[i].state # "none"
             /\ requests[i].state = "answered" =>
                   requests'[i].state = "answered" /\ requests'[i].remember = requests[i].remember
             /\ requests'[i].customer = requests[i].customer
             /\ requests'[i].remember = r.remember /\ requests'[i].allowed = r.allowed
             /\ requests'[i].subject = r.subject /\ requests'[i].expected = r.expected
<1> DEFINE r == Reselected(i, remember)
<1>1. Live(i) /\ MayReselect(i, remember)
  BY DEF DecideConsent
<1>2. /\ r \in Request /\ r.state # "none" /\ r.customer = requests[i].customer
      /\ requests[i].state = "answered" => r = requests[i]
  BY <1>1, ReselectedFacts
<1>3. \E state \in {"declined", "answer_ready"} : requests' = [requests EXCEPT ![i] = Settled(r, state)]
  BY ShownType DEF DecideConsent
<1>4. PICK state \in {"declined", "answer_ready"} : requests' = [requests EXCEPT ![i] = Settled(r, state)]
  BY <1>3
<1> HIDE DEF r
<1>5. requests'[i] = Settled(r, state) /\ DOMAIN requests' = Interactions
      /\ \A j \in Interactions \ {i} : requests'[j] = requests[j]
  BY <1>4 DEF CustomerInv, TypeOK
<1>6. Settled(r, state) \in Request
  BY <1>2, SettledFacts
<1>7. requests' \in [Interactions -> Request]
  BY <1>4, <1>6 DEF CustomerInv, TypeOK
<1> QED
  BY <1>2, <1>5, <1>7, SettledFacts DEF r


(* What the decision writes: the rows of one subject, for its customer.      *)
LEMMA RecordedFacts ==
  ASSUME CustomerInv, NEW i \in Interactions, NEW answer \in Decisions, NEW r \in Request,
         Real(r.subject), OwnerOf(r.subject) = r.customer, r.expected <= words, words < MaxWords,
         NEW s \in Subjects, NEW sc \in Scopes
  PROVE  LET g == Recorded(r, i, answer)[s][sc]
         IN  \/ g = grants[s][sc] /\ (s # r.subject \/ sc \notin Required(r.remember))
             \/ /\ s = r.subject /\ sc \in Required(r.remember)
                /\ g.state = answer /\ g.revision = r.expected + 1 /\ g.decided = words + 1
                /\ g.until = (IF r.remember THEN Never ELSE i) /\ g.customer = r.customer
                /\ g \in Grant
<1> USE DEF CustomerInv
<1> DEFINE g == Recorded(r, i, answer)[s][sc]
           w == IF grants[s][sc].customer = Nobody THEN r.customer ELSE grants[s][sc].customer
<1>1. r.subject \in Subjects /\ r.expected \in Nat /\ r.customer \in Owners /\ r.remember \in BOOLEAN
  BY DEF Request
<1>2. CASE s = r.subject /\ sc \in Required(r.remember)
  <2>1. g = [state |-> answer, revision |-> r.expected + 1, decided |-> words + 1,
             until |-> IF r.remember THEN Never ELSE i, customer |-> w]
    BY <1>2 DEF Recorded, TypeOK
  <2>2. w = r.customer
    BY <1>2, GrantType, Cast DEF RowsOwned, GrantsFit, GrantFits
  <2>3. words + 1 \in 0 .. MaxWords
    BY ConstantsAssumption DEF TypeOK
  <2> HIDE DEF g, w
  <2> QED
    BY <1>1, <1>2, <2>1, <2>2, <2>3 DEF Grant, g
<1>3. CASE s # r.subject \/ sc \notin Required(r.remember)
  <2>1. g = grants[s][sc]
    BY <1>3 DEF Recorded, TypeOK
  <2> QED
    BY <1>3, <2>1
<1> QED
  BY <1>2, <1>3

LEMMA RecordedType ==
  ASSUME CustomerInv, NEW i \in Interactions, NEW answer \in Decisions, NEW r \in Request,
         Real(r.subject), OwnerOf(r.subject) = r.customer, r.expected <= words, words < MaxWords
  PROVE  Recorded(r, i, answer) \in [Subjects -> [Scopes -> Grant]]
<1> DEFINE table == Recorded(r, i, answer)
<1>1. DOMAIN table = Subjects
  BY DEF Recorded, CustomerInv, TypeOK
<1>2. ASSUME NEW s \in Subjects, NEW sc \in Scopes PROVE table[s][sc] \in Grant
  BY RecordedFacts, GrantType DEF CustomerInv
<1>3. ASSUME NEW s \in Subjects PROVE table[s] = [sc \in Scopes |-> table[s][sc]]
  BY DEF Recorded, CustomerInv, TypeOK
<1>4. table = [s \in Subjects |-> table[s]]
  BY <1>1 DEF Recorded
<1> HIDE DEF table
<1>5. \A s \in Subjects : table[s] \in [Scopes -> Grant]
  BY <1>2, <1>3
<1>6. table \in [Subjects -> [Scopes -> Grant]]
  BY <1>4, <1>5
<1> QED
  BY <1>6 DEF table


(* The parts of the invariant that only see the requests.                    *)
LEMMA DecideKeeps ==
  ASSUME CustomerInv, NEW i \in Interactions, NEW answer \in Decisions, NEW remember \in BOOLEAN,
         DecideConsent(i, answer, remember), words <= words', words' \in Nat
  PROVE  /\ \A s \in Subjects : OwnerOf(s)' = OwnerOf(s) /\ (Real(s)' <=> Real(s))
         /\ RequestsFit' /\ LiveAreMade' /\ ItemsFit'
<1> USE DEF CustomerInv
<1> DEFINE r == Reselected(i, remember)
<1>1. Live(i) /\ MayReselect(i, remember) /\ UNCHANGED <<merged, live, items, retrieval>>
  BY DEF DecideConsent
<1>2. /\ Made(i) /\ r \in Request /\ ~Gone(requests[i].customer)
      /\ r.remember => r.allowed
      /\ r.expected <= words /\ r.expected \in Nat /\ r.subject \in Subjects
      /\ Real(r.subject) /\ OwnerOf(r.subject) = requests[i].customer
  BY <1>1, ReselectedFacts DEF Request
<1>3. /\ requests' \in [Interactions -> Request]
      /\ \A j \in Interactions \ {i} : requests'[j] = requests[j]
      /\ requests'[i] \in Request /\ requests'[i].state # "none"
      /\ requests[i].state = "answered" =>
            requests'[i].state = "answered" /\ requests'[i].remember = requests[i].remember
      /\ requests'[i].customer = requests[i].customer
      /\ requests'[i].remember = r.remember /\ requests'[i].allowed = r.allowed
      /\ requests'[i].subject = r.subject /\ requests'[i].expected = r.expected
  BY DecideRequests
<1> HIDE DEF r
<1>4. \A j \in Interactions :
         /\ requests'[j].customer = requests[j].customer
         /\ requests'[j].state = "none" <=> requests[j].state = "none"
  BY <1>2, <1>3 DEF Made
<1>5. \A s \in Subjects : OwnerOf(s)' = OwnerOf(s) /\ (Real(s)' <=> Real(s))
  <2>1. merged' = merged
    BY <1>1
  <2> QED
    BY ONLY <2>1, <1>4, OwnersKept, CustomerInv DEF CustomerInv
<1>6. RequestsFit'
  <2>1. PICK s \in Subjects : s = r.subject
    BY <1>2
  <2>2. Real(s)' /\ OwnerOf(s)' = requests[i].customer /\ requests'[i].subject = s
    BY <2>1, <1>2, <1>3, <1>5
  <2>3. words \in Nat
    BY DEF TypeOK
  <2>4. RequestFits(i)'
    BY <2>2, <2>3, <1>1, <1>2, <1>3 DEF RequestFits, Made, Gone
  <2>5. ASSUME NEW j \in Interactions, j # i PROVE RequestFits(j)'
    BY <2>3, <2>5, <1>1, <1>3, <1>5, RequestType DEF RequestsFit, RequestFits, Made, Gone
  <2> QED
    BY <2>4, <2>5 DEF RequestsFit
<1>7. LiveAreMade'
  <2>1. live' = live /\ live \in Seq(Interactions)
    BY <1>1 DEF TypeOK
  <2>2. ASSUME NEW k \in 1 .. Len(live) PROVE requests'[live[k]].state # "none"
    BY <2>1, <1>4 DEF LiveAreMade, Made
  <2> QED
    BY <2>1, <2>2 DEF LiveAreMade, Made
<1>8. ItemsFit'
  BY <1>1, <1>3 DEF ItemsFit, TypeOK, Item
<1> QED
  BY <1>5, <1>6, <1>7, <1>8

LEMMA DecideStep ==
  ASSUME CustomerInv, NEW i \in Interactions, NEW answer \in Decisions, NEW remember \in BOOLEAN,
         DecideConsent(i, answer, remember), used' = {}
  PROVE  CustomerInv'
<1> USE DEF CustomerInv
<1> DEFINE r == Reselected(i, remember)
           changes == ~AlreadySo(r, answer) /\ IsCurrent(r)
           until == IF r.remember THEN Never ELSE i
<1>1. Live(i) /\ MayReselect(i, remember) /\ UNCHANGED <<merged, live, items, retrieval>>
  BY DEF DecideConsent
<1>2. /\ r \in Request /\ ~Gone(r.customer) /\ r.expected <= words
      /\ Real(r.subject) /\ OwnerOf(r.subject) = r.customer
      /\ r.subject \in Subjects /\ r.expected \in Nat /\ r.customer \in Owners
      /\ r.remember \in BOOLEAN
  BY <1>1, ReselectedFacts DEF Request
<1>3. requests' \in [Interactions -> Request]
  BY DecideRequests
<1>4. CASE ~changes
  <2>1. grants' = grants /\ words' = words /\ lastWord' = lastWord
    BY <1>4 DEF DecideConsent
  <2>2. /\ \A s \in Subjects : OwnerOf(s)' = OwnerOf(s) /\ (Real(s)' <=> Real(s))
        /\ RequestsFit' /\ LiveAreMade' /\ ItemsFit'
    BY <2>1, DecideKeeps DEF TypeOK
  <2>3. TypeOK'
    BY <1>1, <1>3, <2>1 DEF TypeOK
  <2>4. GrantsFit' /\ Together' /\ RowsOwned'
    BY <2>1, <2>2 DEF GrantsFit, GrantFits, Together, RowsOwned
  <2>5. WordsKept'
    BY <1>1, <2>1 DEF WordsKept, WordKept, Gone
  <2> QED
    BY <2>2, <2>3, <2>4, <2>5
<1>5. CASE changes
  <2>1. /\ words < MaxWords /\ words' = words + 1 /\ grants' = Recorded(r, i, answer)
        /\ lastWord' = IF r.customer = Nobody THEN lastWord
                       ELSE [lastWord EXCEPT ![r.customer] =
                               [answer |-> answer, at |-> words + 1, until |-> until]]
    BY <1>5 DEF DecideConsent
  <2>2. words \in Nat /\ words' \in 0 .. MaxWords /\ words' \in Nat
    BY <2>1, ConstantsAssumption DEF TypeOK
  <2>3. /\ \A s \in Subjects : OwnerOf(s)' = OwnerOf(s) /\ (Real(s)' <=> Real(s))
        /\ RequestsFit' /\ LiveAreMade' /\ ItemsFit'
    BY <2>1, <2>2, DecideKeeps
  <2>4. ASSUME NEW s \in Subjects, NEW sc \in Scopes
        PROVE  \/ /\ grants'[s][sc] = grants[s][sc]
                  /\ s # r.subject \/ sc \notin Required(r.remember)
               \/ /\ s = r.subject /\ sc \in Required(r.remember)
                  /\ grants'[s][sc].state = answer /\ grants'[s][sc].revision = r.expected + 1
                  /\ grants'[s][sc].decided = words + 1 /\ grants'[s][sc].until = until
                  /\ grants'[s][sc].customer = r.customer
    BY <1>2, <2>1, RecordedFacts
  <2>5. grants' \in [Subjects -> [Scopes -> Grant]]
    BY <1>2, <2>1, RecordedType
  <2> HIDE DEF r, until, changes
  <2>6. lastWord' \in [Customers -> Word]
    <3>1. [answer |-> answer, at |-> words + 1, until |-> until] \in Word
      BY <2>1, <2>2, <1>2 DEF Word, until
    <3> QED
      BY <3>1, <2>1, <1>2 DEF TypeOK, Owners
  <2>7. TypeOK'
    BY <1>1, <1>3, <2>2, <2>5, <2>6 DEF TypeOK
  <2>8. GrantsFit'
    <3>1. ASSUME NEW s \in Subjects, NEW sc \in Scopes PROVE GrantFits(grants[s][sc])'
      <4>1. CASE grants'[s][sc] = grants[s][sc]
        BY <4>1, <2>1, <2>2, GrantType DEF GrantsFit, GrantFits
      <4>2. CASE grants'[s][sc] # grants[s][sc]
        BY <4>2, <2>1, <2>2, <2>4, <1>2 DEF GrantFits, Decisions
      <4> QED
        BY <4>1, <4>2
    <3> QED
      BY <3>1 DEF GrantsFit
  <2>9. Together'
    <3>1. ASSUME NEW s \in Subjects, NEW t \in Subjects, NEW sc \in Scopes, NEW sd \in Scopes,
                 grants'[s][sc].decided # 0, grants'[s][sc].decided = grants'[t][sd].decided
          PROVE  /\ s = t
                 /\ grants'[s][sc].state = grants'[t][sd].state
                 /\ grants'[s][sc].until = grants'[t][sd].until
      <4>1. /\ grants[s][sc].decided \in Nat /\ grants[s][sc].decided <= words
            /\ grants[t][sd].decided \in Nat /\ grants[t][sd].decided <= words
        BY GrantType DEF GrantsFit, GrantFits
      <4>2. CASE grants'[s][sc] = grants[s][sc] /\ grants'[t][sd] = grants[t][sd]
        BY <4>2, <3>1 DEF Together
      <4>3. CASE grants'[s][sc] # grants[s][sc] \/ grants'[t][sd] # grants[t][sd]
        <5>1. grants'[s][sc].decided = words + 1 /\ grants'[t][sd].decided = words + 1
          BY <4>3, <3>1, <2>4
        <5>2. grants'[s][sc] # grants[s][sc] /\ grants'[t][sd] # grants[t][sd]
          BY <5>1, <4>1, <2>2
        <5> QED
          BY <5>2, <2>4
      <4> QED
        BY <4>2, <4>3
    <3> QED
      BY <3>1 DEF Together
  <2>10. RowsOwned'
    <3>1. ASSUME NEW s \in Subjects, NEW sc \in Scopes, grants'[s][sc].state # "none"
          PROVE  Real(s) /\ grants'[s][sc].customer = OwnerOf(s)
      BY <3>1, <2>4, <1>2 DEF RowsOwned
    <3> QED
      BY <3>1, <2>3 DEF RowsOwned
  <2>11. WordsKept'
    <3>1. ASSUME NEW c \in Customers, ~Gone(c), c = r.customer PROVE WordKept(c)'
      <4>1. lastWord'[c] = [answer |-> answer, at |-> words + 1, until |-> until]
        BY <3>1, <2>1, Cast DEF TypeOK
      <4>2. lastWord'[c].at = words + 1 /\ lastWord'[c].answer = answer /\ lastWord'[c].until = until
        BY <4>1
      <4>3. "share" \in Required(r.remember) /\ "share" \in Scopes
        BY DEF Required, Scopes
      <4>4. ASSUME NEW s \in Subjects, NEW sc \in Scopes PROVE grants'[s][sc].decided <= words + 1
        BY <2>2, <2>4, GrantType DEF GrantsFit, GrantFits
      <4>5. /\ grants'[r.subject]["share"].customer = c
            /\ grants'[r.subject]["share"].state = lastWord'[c].answer
            /\ grants'[r.subject]["share"].decided = lastWord'[c].at
            /\ grants'[r.subject]["share"].until = lastWord'[c].until
        BY <4>2, <4>3, <3>1, <1>2, <2>4
      <4> QED
        BY <4>2, <4>3, <4>4, <4>5, <1>2, <2>1, <2>2 DEF WordKept
    <3>2. ASSUME NEW c \in Customers, ~Gone(c), c # r.customer PROVE WordKept(c)'
      <4>1. lastWord'[c] = lastWord[c] /\ WordKept(c) /\ lastWord[c].at \in Nat
        BY <3>2, <2>1 DEF TypeOK, WordsKept, Word
      <4>2. ASSUME NEW s \in Subjects, NEW sc \in Scopes,
                   grants'[s][sc].customer = c \/ grants[s][sc].customer = c
            PROVE  grants'[s][sc] = grants[s][sc]
        BY <4>2, <3>2, <2>4, <1>2, Cast DEF RowsOwned, GrantsFit, GrantFits
      <4> QED
        BY <4>1, <4>2, <2>1, <2>2 DEF WordKept
    <3> QED
      BY <3>1, <3>2, <1>1 DEF WordsKept, Gone
  <2> QED
    BY <2>3, <2>7, <2>8, <2>9, <2>10, <2>11
<1> QED
  BY <1>4, <1>5


-----------------------------------------------------------------------------
(* Every step.                                                               *)

LEMMA CustomerInit == Init => CustomerInv
<1> SUFFICES ASSUME Init PROVE CustomerInv
  OBVIOUS
<1> USE DEF Init
<1>1. TypeOK
  <2>1. (CHOOSE s \in Subjects : TRUE) \in Subjects
    <3>1. [kind |-> "durable", of |-> Visitor] \in Subjects
      BY DEF Subjects, Customers
    <3>2. \E s \in Subjects : TRUE
      BY <3>1
    <3> QED
      BY ONLY <3>2, Zenon
  <2>2. requests \in [Interactions -> Request]
    BY <2>1 DEF NoRequest, Request, Owners
  <2>3. 0 \in 0 .. MaxWords
    BY ConstantsAssumption
  <2>4. grants \in [Subjects -> [Scopes -> Grant]]
    BY <2>3 DEF NoGrant, Grant, Owners
  <2>5. lastWord \in [Customers -> Word]
    BY <2>3 DEF Word
  <2>6. retrieval \in Retrieval
    BY DEF NoRetrieval, Retrieval, Owners
  <2>7. live \in Seq(Interactions)
    OBVIOUS
  <2>8. merged \in BOOLEAN /\ words \in 0 .. MaxWords
    BY <2>3
  <2>9. items \subseteq Item /\ used \subseteq ItemKey
    OBVIOUS
  <2> QED
    BY ONLY <2>2, <2>4, <2>5, <2>6, <2>7, <2>8, <2>9 DEF TypeOK
<1>2. ASSUME NEW s \in Subjects, NEW sc \in Scopes
      PROVE  /\ grants[s][sc].state = "none" /\ grants[s][sc].decided = 0
             /\ grants[s][sc].revision = 0 /\ grants[s][sc].customer = Nobody
  BY DEF NoGrant
<1>3. GrantsFit /\ Together /\ RowsOwned
  BY <1>2 DEF GrantsFit, GrantFits, Together, RowsOwned
<1>4. RequestsFit
  BY DEF RequestsFit, RequestFits, Made, NoRequest
<1>5. LiveAreMade /\ ItemsFit
  BY DEF LiveAreMade, ItemsFit
<1>6. WordsKept
  BY <1>2, Cast DEF WordsKept, WordKept
<1> QED
  BY <1>1, <1>3, <1>4, <1>5, <1>6 DEF CustomerInv

LEMMA CustomerStep == CustomerInv /\ [Next]_vars => CustomerInv'
<1> SUFFICES ASSUME CustomerInv, [Next]_vars PROVE CustomerInv'
  OBVIOUS
<1>1. CASE Identify /\ used' = {}
  BY <1>1, IdentifyStep
<1>2. CASE \E i \in Interactions, refs \in References, remember \in BOOLEAN :
              CreateRequest(i, refs, remember) /\ used' = {}
  BY <1>2, CreateStep
<1>3. CASE Expire /\ used' = {}
  BY <1>3, ExpireStep
<1>4. CASE \E i \in Interactions, answer \in Decisions, remember \in BOOLEAN :
              DecideConsent(i, answer, remember) /\ used' = {}
  BY <1>4, DecideStep
<1>5. CASE \E i \in Interactions, status \in Answers, memory \in SUBSET BOOLEAN :
              SubmitAnswer(i, status, memory) /\ used' = {}
  BY <1>5, AnswerStep
<1>6. CASE /\ \/ \E refs \in References : RetrieveByReference(refs)
              \/ \E i \in Interactions : RetrieveByInteraction(i)
           /\ used' = {}
  BY <1>6, LookStep
<1>7. CASE \E chosen \in SUBSET retrieval.items : Personalize(chosen)
  BY <1>7, PersonalizeStep
<1>8. CASE UNCHANGED vars
  <2>1. UNCHANGED <<merged, requests, live, grants, items, words, lastWord>> /\ TypeOK'
    BY <1>8 DEF vars, CustomerInv, TypeOK
  <2>2. LiveAreMade'
    BY <2>1 DEF LiveAreMade, Made, CustomerInv
  <2> QED
    BY <2>1, <2>2, CustomerInvKept
<1> QED
  BY <1>1, <1>2, <1>3, <1>4, <1>5, <1>6, <1>7, <1>8 DEF Next

LEMMA CustomerAlways == Spec => []CustomerInv
BY CustomerInit, CustomerStep, PTL DEF Spec

-----------------------------------------------------------------------------
(* What the invariant says.                                                  *)

LEMMA RefusalDeclines ==
  ASSUME CustomerInv, NEW c \in Customers, Refused(c), NEW i
  PROVE  Standing(grants, Subject(c, i, TRUE), c, TRUE).state = "declined"
<1> DEFINE s == Subject(c, i, TRUE)
           some == Candidates(grants, s, c, Scopes)
           p == Latest(grants, some)
<1>1. c # Nobody
  BY Cast
<1>2. s = [kind |-> "durable", of |-> c] /\ s \in Subjects
  <2>1. s = [kind |-> "durable", of |-> c]
    BY <1>1 DEF Subject
  <2>2. [kind |-> "durable", of |-> c] \in Subjects
    BY DEF Subjects
  <2> QED
    BY <2>1, <2>2
<1>3. OwnerOf(s) = c
  <2>1. PICK t : t = [kind |-> "durable", of |-> c]
    OBVIOUS
  <2>2. OwnerOf(t) = c
    BY <2>1 DEF OwnerOf, Refused, Gone, Repoint
  <2> QED
    BY ONLY <1>2, <2>1, <2>2
<1>4. some # {} /\ p \in some /\ Refuses(grants[p[1]][p[2]])
  BY <1>2, <1>3, RefusalIsLatest
<1> HIDE DEF s, some, p
<1>5. some = Candidates(grants, s, c, Required(TRUE))
  BY DEF some, Required
<1>6. \E g \in {grants[q[1]][q[2]] : q \in {x \in some : x[1] = p[1]}} : Refuses(g)
  BY <1>4
<1>7. Standing(grants, s, c, TRUE).state = "declined"
  BY <1>4, <1>5, <1>6 DEF Standing, p
<1> QED
  BY <1>7 DEF s

LEMMA RefusalsFollow == CustomerInv => RefusalsHold
<1> SUFFICES ASSUME CustomerInv PROVE RefusalsHold
  OBVIOUS
<1>1. ASSUME NEW c \in Customers, lastWord[c].answer = "declined", Unexpired(lastWord[c].until),
             c = Visitor => ~merged
      PROVE  /\ \A m \in items : m.remembered /\ m.customer = c => ~Permitted(m)
             /\ Standing(grants, Subject(c, CHOOSE i \in Interactions : TRUE, TRUE), c, TRUE).state
                  = "declined"
  <2>1. Refused(c) /\ c # Nobody
    BY <1>1, Cast DEF Refused, Gone
  <2> QED
    BY <2>1, RefusalHidesItems, RefusalDeclines
<1> QED
  BY <1>1, NothingLeft DEF RefusalsHold, LatestRefusalHolds

LEMMA MemoryFollows == CustomerInv => MemoryWasPermitted
<1> SUFFICES ASSUME CustomerInv, NEW m \in items, m.remembered
             PROVE  requests[m.from].remember /\ requests[m.from].allowed
  BY DEF MemoryWasPermitted
<1>1. m.from \in Interactions /\ Made(m.from) /\ requests[m.from].remember
  BY DEF CustomerInv, ItemsFit, Made, TypeOK, Item
<1> QED
  BY <1>1 DEF CustomerInv, RequestsFit, RequestFits

LEMMA ActivationStep ==
  ASSUME CustomerInv, [Next]_vars
  PROVE  [\A k \in used', m \in items :
            /\ m.from = k.from /\ m.remembered = k.remembered /\ m.customer # Nobody
            => ~ (lastWord[m.customer].answer = "declined"
                     /\ Unexpired(lastWord[m.customer].until))]_vars
<1> SUFFICES ASSUME Next, NEW k \in used', NEW m \in items,
                    m.from = k.from, m.remembered = k.remembered, m.customer # Nobody
             PROVE  ~ (lastWord[m.customer].answer = "declined"
                         /\ Unexpired(lastWord[m.customer].until))
  OBVIOUS
<1>1. PICK chosen \in SUBSET retrieval.items : Personalize(chosen)
  BY DEF Next
<1>2. PICK n \in items : Permitted(n) /\ n.from = k.from
  BY <1>1 DEF Personalize, KeysOf
<1>3. n.customer = m.customer
  BY <1>2 DEF CustomerInv, ItemsFit
<1>4. ~Refused(n.customer)
  BY <1>2, <1>3, RefusalHidesItems
<1>5. ~Gone(n.customer)
  BY DEF CustomerInv, ItemsFit, RequestsFit, RequestFits, Made, TypeOK, Item
<1> QED
  BY <1>3, <1>4, <1>5 DEF Refused

(* The operations of context keep the shape of what is stored.               *)
THEOREM CustomerTypes == Spec => []TypeOK
BY CustomerAlways, PTL DEF CustomerInv

(* A merge leaves no request, grant or item with the visitor, and a refusal   *)
(* in force hides what is remembered and declines what would remember more,   *)
(* whichever reference it comes by: resolve_customer_with_status,             *)
(* load_effective_consent_state_tx and the queries of retrieval, for any       *)
(* number of interactions and decisions.                                     *)
THEOREM RefusalsAreHeeded == Spec => []RefusalsHold
BY CustomerAlways, RefusalsFollow, PTL

(* What is kept for later was permitted when it was answered and when it is   *)
(* read, and a personalization decision rests on nothing its customer has     *)
(* refused by then, however long ago the product retrieved it.               *)
THEOREM UseAllowed == Spec => UseIsPermitted
<1>1. Spec => []MemoryWasPermitted
  BY CustomerAlways, MemoryFollows, PTL
<1>2. Spec => ActivationHeedsRefusal
  BY CustomerAlways, ActivationStep, PTL DEF Spec, ActivationHeedsRefusal
<1> QED
  BY <1>1, <1>2 DEF UseIsPermitted

-----------------------------------------------------------------------------
(* What a request may collect.  A product's fields are a catalogue whatever   *)
(* it makes of them, and a request is frozen as it was signed and told.       *)

DefinitionsFit == \A f \in Fields : definitions[f] # NoDefinition => Defines(definitions[f])

Frozen(r) ==
    /\ IsCatalogue(r.fields)
    /\ r.hashed => schema = 43 /\ r.signed = [fields |-> r.fields, days |-> r.days]
    /\ ~r.hashed => r.signed = Unsigned
    /\ schema = 40 => r.fields = BuiltIn

RequestsFrozen ==
    \A i \in Requested : Frozen(asked[i]) /\ \E t \in told : t.interaction = i

ToldAsAsked ==
    \A t \in told :
        /\ t.terms.fields = asked[t.interaction].fields
        /\ asked[t.interaction].hashed => t.terms.days = asked[t.interaction].days

AnswerFits(r, item) ==
    /\ \E e \in r.fields : e.field = item.field /\ item.value \in e.values /\ Suits(e, r.call)
    /\ item.remember => Remembers(r.call)
    /\ r.hashed => item.expires <= r.created + (IF item.remember THEN r.days ELSE Life)

AnswersFit ==
    \A i \in Activities : \A item \in answered[i] : i \in Requested /\ AnswerFits(asked[i], item)

SeenFits == \A i \in Activities : seen[i].surface # "none" => seen[i].operation # "none"

ContractInv ==
    /\ ContractTypeOK
    /\ DefinitionsFit /\ RequestsFrozen /\ ToldAsAsked /\ AnswersFit
    /\ SeenFits /\ OneStory

LEMMA AskedType ==
  ASSUME ContractTypeOK, NEW i \in Requested
  PROVE  /\ i \in Activities /\ asked[i] \in Asked /\ asked[i].call \in Calls
         /\ asked[i].hashed \in BOOLEAN /\ asked[i].days \in Nat /\ asked[i].created \in Nat
         /\ asked[i].fields \subseteq Entry
BY DEF ContractTypeOK, Asked, Requested

LEMMA PlainTypes ==
  ASSUME ContractTypeOK
  PROVE  /\ days \in Nat /\ hour \in Nat /\ Life \in Nat
BY ContractAssumption DEF ContractTypeOK

(* What is resolved from a catalogue is one.                                 *)
LEMMA PartOfCatalogue ==
  ASSUME NEW entries, IsCatalogue(entries), NEW some \in SUBSET entries
  PROVE  IsCatalogue(some)
BY DEF IsCatalogue

LEMMA ResolvedFacts ==
  ASSUME ContractInv, NEW call \in Calls
  PROVE  /\ IsCatalogue(Resolved(call)) /\ Resolved(call) \subseteq Entry
         /\ schema = 40 /\ Resolved(call) # {} => Resolved(call) = BuiltIn
<1> DEFINE snapshots == {Snapshot(f) : f \in Enabled}
           suited == {b \in BuiltIn : Suits(b, call)}
<1>1. Enabled \subseteq Fields /\ \A f \in Enabled : definitions[f] # NoDefinition
  BY DEF Enabled
<1>2. \A f \in Enabled : Snapshot(f).field = f /\ Snapshot(f).values # {} /\ Snapshot(f) \in Entry
  <2>1. ASSUME NEW f \in Enabled
        PROVE  Snapshot(f).field = f /\ Snapshot(f).values # {} /\ Snapshot(f) \in Entry
    <3>1. f \in Fields /\ definitions[f] # NoDefinition /\ Defines(definitions[f])
      BY <1>1 DEF ContractInv, DefinitionsFit
    <3>2. definitions \in [Fields -> Definitions \cup {NoDefinition}]
      BY DEF ContractInv, ContractTypeOK
    <3>3. PICK d \in Definitions : d = definitions[f]
      BY <3>1, <3>2
    <3>4. d.values # {}
      BY <3>1, <3>3 DEF Defines
    <3>5. d.values \subseteq Values /\ d.safe \in BOOLEAN
      <4>1. d.safe \in BOOLEAN
        BY InputAssumption
      <4>2. d.values \in {x.values : x \in Definitions}
        OBVIOUS
      <4>3. d.values \subseteq Values
        BY ONLY <4>2, Zenon DEF Values
      <4> QED
        BY <4>1, <4>3
    <3>6. Snapshot(f) = [field |-> f, values |-> d.values, safe |-> d.safe]
      BY <3>3 DEF Snapshot
    <3> QED
      BY <3>1, <3>4, <3>5, <3>6 DEF Entry
  <2> QED
    BY <2>1
<1>3. IsCatalogue(snapshots) /\ snapshots \subseteq Entry
  BY <1>2 DEF IsCatalogue
<1>4. IsCatalogue(BuiltIn) /\ BuiltIn \subseteq Entry
  BY ContractAssumption, InputAssumption
<1>5. Eligible(call) \subseteq snapshots
  BY DEF Eligible
<1>6. \A entries : Selected(entries, call) \subseteq entries
  BY DEF Selected
<1>7. Resolved(call) \subseteq snapshots \/ Resolved(call) \subseteq BuiltIn
  BY <1>5, <1>6 DEF Resolved
<1>8. schema = 40 /\ Resolved(call) # {} => Resolved(call) = BuiltIn
  BY DEF Resolved, Enabled, FieldsAvailable
<1> HIDE DEF snapshots
<1> QED
  BY <1>3, <1>4, <1>7, <1>8, PartOfCatalogue

(* What a step leaves of the request it tells of.                            *)
LEMMA TermsFacts ==
  ASSUME ContractInv, NEW i \in Requested
  PROVE  /\ Catalogue(i) = asked[i].fields
         /\ asked[i].hashed => MaxDays(i) = asked[i].days
         /\ asked[i].signed = Digest(i)
<1>1. Frozen(asked[i]) /\ schema \in {40, 42, 43} /\ asked[i].hashed \in BOOLEAN
  BY AskedType DEF ContractInv, RequestsFrozen, ContractTypeOK
<1>2. Catalogue(i) = asked[i].fields
  BY <1>1 DEF Catalogue, FieldsAvailable, Frozen
<1>3. asked[i].hashed => MaxDays(i) = asked[i].days
  BY DEF MaxDays
<1>4. asked[i].signed = Digest(i)
  BY <1>1, <1>2, <1>3 DEF Digest, TermsOf, Frozen
<1> QED
  BY <1>2, <1>3, <1>4

-----------------------------------------------------------------------------
(* Steps that leave the requests alone.                                      *)

LEMMA ContractKeptBy ==
  ASSUME ContractInv, ContractTypeOK', DefinitionsFit',
         UNCHANGED <<asked, answered, told, seen>>,
         schema' = 40 => schema = 40, schema = 43 => schema' = 43
  PROVE  ContractInv'
<1>1. Requested' = Requested
  BY DEF Requested
<1>2. RequestsFrozen'
  BY <1>1 DEF ContractInv, RequestsFrozen, Frozen
<1>3. ToldAsAsked' /\ AnswersFit' /\ SeenFits'
  BY <1>1 DEF ContractInv, ToldAsAsked, AnswersFit, AnswerFits, SeenFits
<1>4. OneStory'
  BY <1>1 DEF ContractInv, OneStory
<1> QED
  BY <1>2, <1>3, <1>4 DEF ContractInv

LEMMA TypeKept ==
  ASSUME ContractTypeOK, UNCHANGED <<asked, answered, told, seen>>,
         schema' \in {40, 42, 43}, definitions' \in [Fields -> Definitions \cup {NoDefinition}],
         days' \in Days, usable' \subseteq ApiKeys, hour' \in 0 .. LastHour
  PROVE  ContractTypeOK'
BY DEF ContractTypeOK, Requested

LEMMA WorldSteps ==
  ASSUME ContractInv,
         \/ \E f \in Fields : DeleteField(f) \/ \E d \in Definitions : UpsertField(f, d)
         \/ \E d \in Days : UpdateRetention(d)
         \/ \E key \in ApiKeys : RetireKey(key)
         \/ Migrate
         \/ HourPasses
         \/ UNCHANGED contractVars
  PROVE  ContractInv'
<1> USE DEF ContractInv
<1>1. ASSUME NEW f \in Fields, DeleteField(f) PROVE ContractInv'
  <2>1. definitions' \in [Fields -> Definitions \cup {NoDefinition}] /\ DefinitionsFit'
    BY <1>1 DEF DeleteField, ContractTypeOK, DefinitionsFit
  <2>2. ContractTypeOK'
    BY <1>1, <2>1, TypeKept DEF DeleteField, ContractTypeOK
  <2> QED
    BY <1>1, <2>1, <2>2, ContractKeptBy DEF DeleteField
<1>2. ASSUME NEW f \in Fields, NEW d \in Definitions, UpsertField(f, d) PROVE ContractInv'
  <2>1. definitions' \in [Fields -> Definitions \cup {NoDefinition}] /\ DefinitionsFit'
    BY <1>2 DEF UpsertField, ContractTypeOK, DefinitionsFit
  <2>2. ContractTypeOK'
    BY <1>2, <2>1, TypeKept DEF UpsertField, ContractTypeOK
  <2> QED
    BY <1>2, <2>1, <2>2, ContractKeptBy DEF UpsertField
<1>3. CASE \/ \E d \in Days : UpdateRetention(d)
           \/ \E key \in ApiKeys : RetireKey(key)
           \/ Migrate
           \/ HourPasses
           \/ UNCHANGED contractVars
  <2>1. /\ UNCHANGED <<asked, answered, told, seen, definitions>>
        /\ schema' \in {40, 42, 43} /\ (schema' = 40 => schema = 40) /\ (schema = 43 => schema' = 43)
        /\ days' \in Days /\ usable' \subseteq ApiKeys /\ hour' \in 0 .. LastHour
    <3>1. CASE \E d \in Days : UpdateRetention(d)
      BY <3>1 DEF UpdateRetention, ContractTypeOK
    <3>2. CASE \E key \in ApiKeys : RetireKey(key)
      BY <3>2 DEF RetireKey, ContractTypeOK
    <3>3. CASE Migrate
      BY <3>3 DEF Migrate, ContractTypeOK
    <3>4. CASE HourPasses
      BY <3>4, ContractAssumption DEF HourPasses, ContractTypeOK
    <3>5. CASE UNCHANGED contractVars
      BY <3>5 DEF contractVars, ContractTypeOK
    <3> QED
      BY <1>3, <3>1, <3>2, <3>3, <3>4, <3>5
  <2>2. DefinitionsFit' /\ definitions' \in [Fields -> Definitions \cup {NoDefinition}]
    BY <2>1 DEF DefinitionsFit, ContractTypeOK
  <2>3. ContractTypeOK'
    BY <2>1, <2>2, TypeKept
  <2> QED
    BY <2>1, <2>2, <2>3, ContractKeptBy
<1> QED
  BY <1>1, <1>2, <1>3


-----------------------------------------------------------------------------
(* Telling an agent of a request again.                                      *)

LEMMA TellStep ==
  ASSUME ContractInv, NEW i \in Requested, Tell(i),
         UNCHANGED <<schema, definitions, days, usable, seen, asked, answered, hour>>
  PROVE  ContractInv'
<1> USE DEF ContractInv
<1>1. Requested' = Requested
  BY DEF Requested
<1>2. PICK t : t = [interaction |-> i, terms |-> TermsOf(i)]
  OBVIOUS
<1>3. told' = told \cup {t}
  <2>1. TermsOf(i)' = TermsOf(i)
    BY DEF TermsOf, Catalogue, MaxDays, FieldsAvailable
  <2> QED
    BY <2>1, <1>2 DEF Tell
<1>4. /\ t.interaction = i /\ t.terms.fields = asked[i].fields
      /\ asked[i].hashed => t.terms.days = asked[i].days
  BY <1>2, TermsFacts DEF TermsOf
<1>5. ContractTypeOK'
  BY <1>1, <1>3, <1>4 DEF ContractTypeOK
<1>6. DefinitionsFit' /\ SeenFits'
  BY DEF DefinitionsFit, SeenFits
<1>7. RequestsFrozen'
  BY <1>1, <1>3 DEF RequestsFrozen, Frozen
<1>8. ToldAsAsked'
  BY <1>3, <1>4 DEF ToldAsAsked
<1>9. AnswersFit'
  BY <1>1 DEF AnswersFit, AnswerFits
<1>10. OneStory'
  BY <1>1 DEF OneStory
<1> QED
  BY <1>5, <1>6, <1>7, <1>8, <1>9, <1>10

-----------------------------------------------------------------------------
(* What is known of an interaction.                                          *)

LEMMA CompletionFacts ==
  ASSUME NEW known \in Observed, NEW said \in Calls, NEW session \in Sessions \cup {Absent}
  PROVE  LET row == Completion(known, said, session)
         IN  /\ row \in Observed
             /\ (known.surface # "none" => known.operation # "none") => row.operation # "none"
             /\ known.surface \notin {"none", "unknown"} => row.surface = known.surface
             /\ known.surface = "none" => row.surface = said.surface /\ row.operation = said.operation
             /\ known.surface # "none" /\ known.operation # "pending" => row.operation = known.operation
             /\ known.surface # "none" /\ known.operation = "pending" => row.operation = said.operation
             /\ known.surface # "none" /\ known.status # 0 => row.status = known.status
             /\ known.surface = "none" \/ known.status = 0 => row.status = said.status
             /\ known.surface # "none" /\ known.session # Absent => row.session = known.session
             /\ known.surface = "none" \/ known.session = Absent => row.session = session
             /\ known.surface # "none" /\ known.headers # "none" => row.headers = known.headers
             /\ known.surface = "none" \/ known.headers = "none" => row.headers = Observation(said)
<1>1. /\ said.surface \notin {"none", "unknown"} /\ said.operation # "none"
      /\ said.status \in Nat /\ Observation(said) \in {"none", "sent"}
      /\ said.surface \in {c.surface : c \in Calls} /\ said.operation \in {c.operation : c \in Calls}
  BY InputAssumption DEF Observation
<1> DEFINE row == IF known.surface = "none" THEN SeenFirst(said.surface, said.operation) ELSE known
           done == Completion(known, said, session)
<1>2. /\ known.surface = "none" =>
            /\ row.surface = said.surface /\ row.operation = said.operation
            /\ row.status = 0 /\ row.session = Absent /\ row.headers = "none"
      /\ known.surface # "none" => row = known
  BY DEF SeenFirst
<1>3. done = [surface |-> Filled(row.surface, said.surface, "unknown"),
              operation |-> Filled(row.operation, said.operation, "pending"),
              status |-> Filled(row.status, said.status, 0),
              session |-> Filled(row.session, session, Absent),
              headers |-> Filled(row.headers, Observation(said), "none")]
  BY DEF Completion
<1> HIDE DEF row, done
<1>4. /\ known.surface \in {"none", "unknown"} \cup {c.surface : c \in Calls}
      /\ known.operation \in {"none", "pending"} \cup {c.operation : c \in Calls}
      /\ known.status \in Nat /\ known.session \in Sessions \cup {Absent} /\ known.headers \in {"none", "sent"}
  BY DEF Observed
<1>5. done \in Observed
  BY <1>1, <1>2, <1>3, <1>4 DEF Filled, Observed
<1> QED
  BY <1>1, <1>2, <1>3, <1>5 DEF Filled, done

(* Steps that only learn of an interaction.                                  *)
LEMMA SeenKept ==
  ASSUME ContractInv, NEW i \in Activities, NEW row \in Observed,
         seen' = [seen EXCEPT ![i] = row], row.surface # "none" => row.operation # "none",
         UNCHANGED <<schema, definitions, days, usable, asked, answered, told, hour>>,
         i \in Requested =>
           /\ row.surface = asked[i].call.surface
           /\ row.operation = asked[i].call.operation \/ asked[i].call.operation = "pending"
           /\ asked[i].call.status # 0 => row.status = asked[i].call.status
           /\ asked[i].call.session # Absent => row.session = SessionRow("keyed", asked[i].call.session)
           /\ Observation(asked[i].call) # "none" => row.headers = "sent"
  PROVE  ContractInv'
<1> USE DEF ContractInv
<1>1. Requested' = Requested
  BY DEF Requested
<1>2. seen'[i] = row /\ \A j \in Activities \ {i} : seen'[j] = seen[j]
  BY DEF ContractTypeOK
<1>3. ContractTypeOK'
  BY <1>1 DEF ContractTypeOK
<1>4. DefinitionsFit' /\ RequestsFrozen' /\ ToldAsAsked' /\ AnswersFit'
  BY <1>1 DEF DefinitionsFit, RequestsFrozen, Frozen, ToldAsAsked, AnswersFit, AnswerFits
<1>5. SeenFits'
  BY <1>2 DEF SeenFits
<1>6. OneStory'
  BY <1>1, <1>2 DEF OneStory, Requested
<1> QED
  BY <1>3, <1>4, <1>5, <1>6

LEMMA StoryOf ==
  ASSUME ContractInv, NEW i \in Requested
  PROVE  /\ seen[i] \in Observed /\ asked[i].call \in Calls
         /\ seen[i].surface = asked[i].call.surface
         /\ seen[i].surface \notin {"none", "unknown"}
         /\ seen[i].operation = asked[i].call.operation \/ asked[i].call.operation = "pending"
         /\ asked[i].call.status # 0 => seen[i].status = asked[i].call.status
         /\ asked[i].call.session # Absent =>
               /\ seen[i].session = SessionRow("keyed", asked[i].call.session)
               /\ seen[i].session # Absent
         /\ Observation(asked[i].call) # "none" => seen[i].headers = "sent"
<1>1. seen[i] \in Observed /\ asked[i].call \in Calls
  BY AskedType DEF ContractInv, ContractTypeOK
<1>2. asked[i].call.surface \notin {"none", "unknown"}
  BY <1>1, InputAssumption
<1>3. asked[i].call.session # Absent =>
         SessionRow("keyed", asked[i].call.session) \in Sessions
  BY <1>1 DEF SessionRow, Sessions
<1> QED
  BY <1>1, <1>2, <1>3, InputAssumption DEF ContractInv, OneStory


LEMMA LearnStep ==
  ASSUME ContractInv, NEW i \in Activities, ReportFirst(i) \/ \E call \in Calls : Telemetry(i, call)
  PROVE  ContractInv'
<1>1. CASE ReportFirst(i)
  <2>1. PICK row : row = SeenFirst("unknown", "pending")
    OBVIOUS
  <2>2. row \in Observed /\ row.operation # "none"
    BY <2>1 DEF SeenFirst, Observed
  <2>3. seen[i].surface = "none"
    BY <1>1 DEF ReportFirst, Unseen, SeenFirst
  <2>4. i \notin Requested
    BY <2>3, StoryOf
  <2>5. seen' = [seen EXCEPT ![i] = row]
        /\ UNCHANGED <<schema, definitions, days, usable, asked, answered, told, hour>>
    BY <1>1, <2>1 DEF ReportFirst
  <2> QED
    BY <2>2, <2>4, <2>5, SeenKept
<1>2. ASSUME NEW call \in Calls, Telemetry(i, call) PROVE ContractInv'
  <2>1. PICK session : session = SessionRow("plain", IF call.session = Bad THEN Absent ELSE call.session)
    OBVIOUS
  <2>2. session \in Sessions \cup {Absent}
    BY <2>1 DEF SessionRow, Sessions
  <2>3. seen[i] \in Observed /\ (seen[i].surface # "none" => seen[i].operation # "none")
    BY DEF ContractInv, ContractTypeOK, SeenFits
  <2>4. PICK row : row = Completion(seen[i], call, session)
    OBVIOUS
  <2>5. seen' = [seen EXCEPT ![i] = row]
        /\ UNCHANGED <<schema, definitions, days, usable, asked, answered, told, hour>>
    BY <1>2, <2>1, <2>4 DEF Telemetry
  <2>6. row \in Observed /\ row.operation # "none"
    BY <2>2, <2>3, <2>4, CompletionFacts
  <2>7. ASSUME i \in Requested
        PROVE  /\ row.surface = asked[i].call.surface
               /\ row.operation = asked[i].call.operation \/ asked[i].call.operation = "pending"
               /\ asked[i].call.status # 0 => row.status = asked[i].call.status
               /\ asked[i].call.session # Absent =>
                     row.session = SessionRow("keyed", asked[i].call.session)
               /\ Observation(asked[i].call) # "none" => row.headers = "sent"
    <3>1. /\ seen[i].surface = asked[i].call.surface
          /\ seen[i].surface \notin {"none", "unknown"}
          /\ seen[i].operation = asked[i].call.operation \/ asked[i].call.operation = "pending"
          /\ asked[i].call.status # 0 => seen[i].status = asked[i].call.status
          /\ asked[i].call.session # Absent =>
                /\ seen[i].session = SessionRow("keyed", asked[i].call.session)
                /\ seen[i].session # Absent
          /\ Observation(asked[i].call) # "none" => seen[i].headers = "sent"
      BY <2>7, StoryOf
    <3>2. /\ row.surface = seen[i].surface
          /\ seen[i].operation # "pending" => row.operation = seen[i].operation
          /\ seen[i].status # 0 => row.status = seen[i].status
          /\ seen[i].session # Absent => row.session = seen[i].session
          /\ seen[i].headers # "none" => row.headers = seen[i].headers
      BY <3>1, <2>2, <2>3, <2>4, CompletionFacts
    <3> QED
      BY <3>1, <3>2
  <2> QED
    BY <2>5, <2>6, <2>7, SeenKept
<1> QED
  BY <1>1, <1>2

-----------------------------------------------------------------------------
(* A request.                                                                *)

LEMMA AskStep ==
  ASSUME ContractInv, NEW call \in Calls, NEW key \in ApiKeys,
         NEW state \in {"answer_ready", "declined"}, Ask(call, key, state)
  PROVE  ContractInv'
<1> USE DEF ContractInv
<1>1. PICK i \in Activities : i = call.interaction
  BY DEF Activities
<1>2. PICK fields : fields = Resolved(call)
  OBVIOUS
<1>3. PICK r : r = [call |-> call, key |-> key, fields |-> fields, hashed |-> schema >= 43,
                    days |-> IF schema >= 43 THEN days ELSE 0, state |-> state, created |-> hour,
                    signed |-> IF schema >= 43 THEN [fields |-> fields, days |-> days] ELSE Unsigned]
  OBVIOUS
<1>4. PICK row : row = Completion(seen[i], call, SessionRow("keyed", call.session))
  OBVIOUS
<1>5. /\ WellFormed(call) /\ i \notin Requested /\ Fits(seen[i], call) /\ fields # {}
      /\ asked' = [asked EXCEPT ![i] = r] /\ seen' = [seen EXCEPT ![i] = row]
      /\ UNCHANGED <<schema, definitions, days, usable, answered, hour>>
      /\ Tell(i)
  BY <1>1, <1>2, <1>3, <1>4 DEF Ask, Requested
<1>6. /\ IsCatalogue(fields) /\ fields \subseteq Entry
      /\ schema = 40 => fields = BuiltIn
  BY <1>2, <1>5, ResolvedFacts
<1>7. /\ r.call = call /\ r.fields = fields /\ r.hashed = (schema >= 43)
      /\ r.days = (IF schema >= 43 THEN days ELSE 0)
      /\ r.signed = (IF schema >= 43 THEN [fields |-> fields, days |-> days] ELSE Unsigned)
      /\ r \in Asked
  <2>1. days \in Nat /\ hour \in 0 .. LastHour
    BY PlainTypes DEF ContractTypeOK
  <2>2. Unsigned \in Terms /\ [fields |-> fields, days |-> days] \in Terms
    BY <2>1, <1>6 DEF Unsigned, Terms
  <2> QED
    BY <1>3, <1>6, <2>1, <2>2 DEF Asked
<1>8. /\ asked'[i] = r /\ \A j \in Activities \ {i} : asked'[j] = asked[j]
      /\ seen'[i] = row /\ \A j \in Activities \ {i} : seen'[j] = seen[j]
  BY <1>5 DEF ContractTypeOK
<1>9. r # Unasked
  BY <1>7, InputAssumption DEF Unasked
<1>10. Requested' = Requested \cup {i}
  BY <1>8, <1>9 DEF Requested
<1>11. /\ row \in Observed /\ row.operation # "none"
       /\ row.surface = call.surface
       /\ row.operation = call.operation \/ call.operation = "pending"
       /\ call.status # 0 => row.status = call.status
       /\ call.session # Absent => row.session = SessionRow("keyed", call.session)
       /\ Observation(call) # "none" => row.headers = "sent"
  <2>1. SessionRow("keyed", call.session) \in Sessions \cup {Absent}
    BY DEF SessionRow, Sessions
  <2>2. seen[i] \in Observed /\ (seen[i].surface # "none" => seen[i].operation # "none")
    BY DEF ContractTypeOK, SeenFits
  <2>3. /\ call.surface \notin {"none", "unknown"} /\ Observation(call) \in {"none", "sent"}
        /\ seen[i].headers \in {"none", "sent"}
    BY <2>2, InputAssumption DEF Observation, Observed
  <2>4. /\ seen[i].surface \in {"none", call.surface}
        /\ seen[i].operation \in {"none", "pending", call.operation}
        /\ seen[i].status \in {0, call.status}
        /\ seen[i].session \in {Absent, SessionRow("keyed", call.session)}
    BY <1>5 DEF Fits
  <2> QED
    BY <1>4, <2>1, <2>2, <2>3, <2>4, CompletionFacts
<1>12. PICK t : /\ t.interaction = i /\ t.terms.fields = fields
                /\ r.hashed => t.terms.days = r.days
                /\ told' = told \cup {t}
  <2>1. PICK t : t = [interaction |-> i, terms |-> TermsOf(i)']
    OBVIOUS
  <2>2. schema \in {40, 42, 43} /\ schema' = schema
    BY <1>5 DEF ContractTypeOK
  <2>3. t.interaction = i /\ t.terms.fields = fields /\ (r.hashed => t.terms.days = r.days)
    BY <2>1, <2>2, <1>6, <1>7, <1>8 DEF TermsOf, Catalogue, MaxDays, FieldsAvailable
  <2>4. told' = told \cup {t}
    BY <2>1, <1>5 DEF Tell
  <2> QED
    BY <2>3, <2>4
<1>13. ContractTypeOK'
  BY <1>5, <1>7, <1>10, <1>11, <1>12 DEF ContractTypeOK
<1>14. DefinitionsFit'
  BY <1>5 DEF DefinitionsFit
<1>15. RequestsFrozen'
  <2>1. schema \in {40, 42, 43} /\ schema' = schema
    BY <1>5 DEF ContractTypeOK
  <2>2. Frozen(asked[i])'
    <3>1. CASE schema = 43
      <4>1. r.hashed /\ r.signed = [fields |-> r.fields, days |-> r.days]
        <5>1. r.hashed
          <6>1. schema >= 43
            BY <3>1
          <6>2. r.hashed = (schema >= 43)
            BY <1>7
          <6> QED
            BY ONLY <6>1, <6>2, Zenon
        <5>2. r.signed = [fields |-> fields, days |-> days] /\ r.days = days
          BY <3>1, <1>3
        <5> QED
          BY <5>1, <5>2, <1>7
      <4> QED
        BY <3>1, <4>1, <2>1, <1>6, <1>7, <1>8 DEF Frozen
    <3>2. CASE schema # 43
      <4>1. ~r.hashed /\ r.signed = Unsigned
        <5>1. ~r.hashed
          <6>1. ~(schema >= 43)
            BY <3>2, <2>1
          <6>2. r.hashed = (schema >= 43)
            BY <1>7
          <6> QED
            BY ONLY <6>1, <6>2, Zenon
        <5>2. r.signed = Unsigned
          BY <3>2, <2>1, <1>3
        <5> QED
          BY <5>1, <5>2
      <4> QED
        BY <3>2, <4>1, <2>1, <1>6, <1>7, <1>8 DEF Frozen
    <3> QED
      BY <3>1, <3>2
  <2>3. ASSUME NEW j \in Requested PROVE Frozen(asked[j])'
    BY <2>1, <1>5, <1>8 DEF RequestsFrozen, Frozen, Requested
  <2> QED
    BY <2>2, <2>3, <1>10, <1>12 DEF RequestsFrozen
<1>16. ToldAsAsked'
  BY <1>5, <1>7, <1>8, <1>12 DEF ToldAsAsked, ContractTypeOK, Requested
<1>17. AnswersFit'
  BY <1>5, <1>8, <1>10 DEF AnswersFit, AnswerFits, Requested
<1>18. SeenFits'
  BY <1>8, <1>11 DEF SeenFits
<1>19. OneStory'
  <2>1. ASSUME NEW j \in Requested PROVE asked'[j] = asked[j] /\ seen'[j] = seen[j]
    BY <1>5, <1>8 DEF Requested
  <2> QED
    BY <2>1, <1>5, <1>7, <1>8, <1>10, <1>11 DEF OneStory
<1> QED
  BY <1>13, <1>14, <1>15, <1>16, <1>17, <1>18, <1>19


-----------------------------------------------------------------------------
(* An answer.                                                                *)

(* What an answer leaves of the request.                                     *)
LEMMA SettleKept ==
  ASSUME ContractInv, NEW i \in Requested, NEW given \in SUBSET AnswerItem,
         NEW state \in {"declined", "answered", "no_relevant_context"},
         asked' = [asked EXCEPT ![i].state = state], answered' = [answered EXCEPT ![i] = given],
         UNCHANGED <<schema, definitions, days, usable, seen, told, hour>>,
         \A item \in given : AnswerFits(asked[i], item)
  PROVE  ContractInv'
<1> USE DEF ContractInv
<1>1. i \in Activities /\ asked[i] \in Asked
  BY AskedType
<1>2. PICK r : r = [asked[i] EXCEPT !.state = state]
  OBVIOUS
<1>3. /\ r \in Asked
      /\ r.call = asked[i].call /\ r.fields = asked[i].fields /\ r.hashed = asked[i].hashed
      /\ r.days = asked[i].days /\ r.created = asked[i].created /\ r.signed = asked[i].signed
  BY <1>1, <1>2 DEF Asked
<1>4. asked' = [asked EXCEPT ![i] = r]
  BY <1>2
<1>5. /\ asked'[i] = r /\ \A j \in Activities \ {i} : asked'[j] = asked[j]
      /\ answered'[i] = given /\ \A j \in Activities \ {i} : answered'[j] = answered[j]
  BY <1>1, <1>4 DEF ContractTypeOK
<1>6. Requested' = Requested
  <2>1. r # Unasked
    BY <1>3, InputAssumption DEF Unasked, Asked
  <2> QED
    BY <2>1, <1>5 DEF Requested
<1>7. ContractTypeOK'
  BY <1>1, <1>3, <1>4, <1>6 DEF ContractTypeOK
<1>8. DefinitionsFit' /\ SeenFits'
  BY DEF DefinitionsFit, SeenFits
<1>9. RequestsFrozen'
  BY <1>3, <1>5, <1>6 DEF RequestsFrozen, Frozen, Requested
<1>10. ToldAsAsked'
  BY <1>3, <1>5 DEF ToldAsAsked, ContractTypeOK, Requested
<1>11. AnswersFit'
  BY <1>3, <1>5, <1>6 DEF AnswersFit, AnswerFits
<1>12. OneStory'
  BY <1>3, <1>5, <1>6 DEF OneStory, Requested
<1> QED
  BY <1>7, <1>8, <1>9, <1>10, <1>11, <1>12

LEMMA AnswerFieldsStep ==
  ASSUME ContractInv, NEW i \in Activities, NEW given \in SUBSET AnswerItem, AnswerFields(i, given)
  PROVE  ContractInv'
<1>1. i \in Requested
  BY DEF AnswerFields, Requested
<1>2. ASSUME NEW item \in given PROVE AnswerFits(asked[i], item)
  <2>1. /\ Accepts(i, item) /\ (item.remember => Remembers(asked[i].call))
        /\ item.expires \in hour + 1 .. LatestExpiry(i, item)
    BY DEF AnswerFields
  <2>2. Catalogue(i) = asked[i].fields /\ (asked[i].hashed => MaxDays(i) = asked[i].days)
    BY <1>1, TermsFacts
  <2>3. \E e \in asked[i].fields :
           e.field = item.field /\ item.value \in e.values /\ Suits(e, asked[i].call)
    BY <2>1, <2>2 DEF Accepts
  <2>4. /\ asked[i].created \in Nat /\ asked[i].days \in Nat /\ asked[i].hashed \in BOOLEAN
        /\ days \in Nat /\ hour \in Nat /\ Life \in Nat /\ item.expires \in Nat
        /\ item.remember \in BOOLEAN
    BY <1>1, AskedType, PlainTypes, ContractAssumption DEF ContractInv, AnswerItem
  <2>5. ASSUME asked[i].hashed
        PROVE  item.expires <= asked[i].created + (IF item.remember THEN asked[i].days ELSE Life)
    <3>1. LatestExpiry(i, item) =
            IF item.remember THEN Least(hour + days, asked[i].created + asked[i].days)
            ELSE Least(asked[i].created + Life, Least(hour + days, asked[i].created + asked[i].days))
      BY <2>2, <2>5 DEF LatestExpiry, Retained
    <3>2. LatestExpiry(i, item) <= asked[i].created + (IF item.remember THEN asked[i].days ELSE Life)
          /\ LatestExpiry(i, item) \in Nat
      BY <3>1, <2>4 DEF Least
    <3> QED
      BY <2>1, <2>4, <3>2
  <2> QED
    BY <2>1, <2>3, <2>5 DEF AnswerFits
<1>3. PICK state \in {"answered", "no_relevant_context"} : asked' = [asked EXCEPT ![i].state = state]
  BY DEF AnswerFields
<1>4. /\ answered' = [answered EXCEPT ![i] = given]
      /\ UNCHANGED <<schema, definitions, days, usable, seen, told, hour>>
  BY DEF AnswerFields
<1> QED
  BY <1>1, <1>2, <1>3, <1>4, SettleKept

LEMMA DeclineStep ==
  ASSUME ContractInv, NEW i \in Activities, DeclineFields(i)
  PROVE  ContractInv'
<1>1. i \in Requested /\ answered[i] \in SUBSET AnswerItem
  BY DEF DeclineFields, Requested, ContractInv, ContractTypeOK
<1>2. \A item \in answered[i] : AnswerFits(asked[i], item)
  BY DEF ContractInv, AnswersFit
<1>3. PICK given \in SUBSET AnswerItem : given = answered[i]
  BY <1>1
<1>4. /\ asked' = [asked EXCEPT ![i].state = "declined"]
      /\ UNCHANGED <<schema, definitions, days, usable, seen, told, hour, answered>>
  BY DEF DeclineFields
<1>5. answered' = [answered EXCEPT ![i] = given]
  BY <1>1, <1>3, <1>4 DEF ContractInv, ContractTypeOK
<1> QED
  BY <1>1, <1>2, <1>3, <1>4, <1>5, SettleKept

-----------------------------------------------------------------------------
(* Every step of a contract.                                                 *)

LEMMA ContractBegins == ContractInit => ContractInv
<1> SUFFICES ASSUME ContractInit PROVE ContractInv
  OBVIOUS
<1> USE DEF ContractInit
<1>1. Requested = {}
  BY DEF Requested
<1>2. Unseen \in Observed
  BY DEF Unseen, SeenFirst, Observed
<1>3. ContractTypeOK
  BY <1>1, <1>2, ContractAssumption DEF ContractTypeOK
<1>4. DefinitionsFit /\ RequestsFrozen /\ ToldAsAsked /\ AnswersFit /\ OneStory
  BY <1>1 DEF DefinitionsFit, RequestsFrozen, ToldAsAsked, AnswersFit, OneStory
<1>5. SeenFits
  BY DEF SeenFits, Unseen, SeenFirst
<1> QED
  BY <1>3, <1>4, <1>5 DEF ContractInv

LEMMA ContractStep == ContractInv /\ [ContractNext]_contractVars => ContractInv'
<1> SUFFICES ASSUME ContractInv, [ContractNext]_contractVars PROVE ContractInv'
  OBVIOUS
<1>1. CASE \/ \E f \in Fields : DeleteField(f) \/ \E d \in Definitions : UpsertField(f, d)
           \/ \E d \in Days : UpdateRetention(d)
           \/ \E key \in ApiKeys : RetireKey(key)
           \/ Migrate \/ HourPasses
           \/ UNCHANGED contractVars
  BY <1>1, WorldSteps
<1>2. ASSUME NEW call \in Calls, NEW key \in ApiKeys, AskAgain(call, key) PROVE ContractInv'
  <2>1. PICK i : i = call.interaction
    OBVIOUS
  <2>2. i \in Requested
    BY <1>2, <2>1 DEF AskAgain, Requested, Activities
  <2> QED
    BY <1>2, <2>1, <2>2, TellStep DEF AskAgain
<1>3. ASSUME NEW call \in Calls, NEW key \in ApiKeys,
             NEW state \in {"answer_ready", "declined"}, Ask(call, key, state)
      PROVE  ContractInv'
  BY <1>3, AskStep
<1>4. ASSUME NEW i \in Activities, InspectAsked(i) PROVE ContractInv'
  BY <1>4, TellStep DEF InspectAsked, Requested
<1>5. ASSUME NEW i \in Activities,
             DeclineFields(i) \/ AnswerFields(i, {}) \/ \E e \in AnswerItem : AnswerFields(i, {e})
      PROVE  ContractInv'
  BY <1>5, DeclineStep, AnswerFieldsStep
<1>6. ASSUME NEW i \in Activities, ReportFirst(i) \/ \E call \in Calls : Telemetry(i, call)
      PROVE  ContractInv'
  BY <1>6, LearnStep
<1> QED
  BY <1>1, <1>2, <1>3, <1>4, <1>5, <1>6 DEF ContractNext

LEMMA ContractFollows == ContractInv => ContractKept
<1> SUFFICES ASSUME ContractInv PROVE ContractKept
  OBVIOUS
<1> USE DEF ContractInv
<1>1. \A t \in told : t.interaction \in Requested
  BY DEF ContractTypeOK
<1>2. OneContract
  <2>1. ASSUME NEW t \in told PROVE IsCatalogue(t.terms.fields)
    BY <1>1 DEF ToldAsAsked, RequestsFrozen, Frozen
  <2>2. ASSUME NEW s \in told, NEW t \in told, s.interaction = t.interaction
        PROVE  /\ s.terms.fields = t.terms.fields
               /\ asked[s.interaction].hashed => s.terms.days = t.terms.days
    BY <2>2 DEF ToldAsAsked
  <2> QED
    BY <2>1, <2>2 DEF OneContract
<1>3. CapabilityWorks
  BY TermsFacts DEF CapabilityWorks, Verified
<1>4. AnswersAsAgreed
  <2>1. ASSUME NEW i \in Activities, NEW item \in answered[i]
        PROVE  \E t \in told :
                  /\ t.interaction = i
                  /\ \E e \in t.terms.fields :
                        /\ e.field = item.field /\ item.value \in e.values
                        /\ Suits(e, asked[i].call)
                  /\ item.remember => Remembers(asked[i].call)
                  /\ asked[i].hashed =>
                        item.expires <= asked[i].created
                                          + (IF item.remember THEN t.terms.days ELSE Life)
    <3>1. i \in Requested /\ AnswerFits(asked[i], item)
      BY DEF AnswersFit
    <3>2. PICK t \in told : t.interaction = i
      BY <3>1 DEF RequestsFrozen
    <3>3. /\ t.terms.fields = asked[i].fields
          /\ asked[i].hashed => t.terms.days = asked[i].days
      BY <3>2 DEF ToldAsAsked
    <3> QED
      BY <3>1, <3>2, <3>3 DEF AnswerFits
  <2> QED
    BY <2>1 DEF AnswersAsAgreed
<1> QED
  BY <1>2, <1>3, <1>4 DEF ContractKept

(* A request for context stays what its agent was told, from the catalogue it *)
(* froze to the answer that is stored, whatever the product edits, retains or *)
(* migrates meanwhile, and it tells one story with its interaction:            *)
(* create_enrichment_request, verified_enrichment_request and                *)
(* submit_enrichment_answer, for any fields, calls and retentions.           *)
THEOREM ContractsAreKept == ContractSpec => []ContractKept
BY ContractBegins, ContractStep, ContractFollows, PTL DEF ContractSpec

(* Fields, requests, answers and what is known of interactions keep the shape *)
(* of their tables.                                                          *)
THEOREM ContractTypes == ContractSpec => []ContractTypeOK
BY ContractBegins, ContractStep, PTL DEF ContractSpec, ContractInv

-----------------------------------------------------------------------------
(* The pages.  A question is completed exactly as it was answered, and what   *)
(* was retrieved stays with the customer it is of.                           *)

(* A request is completed exactly as it was answered.                        *)
AnswersSettle ==
    \A i \in Interactions, status \in Completed :
        requests[i].answer = status <=> requests[i].state = status

(* What was retrieved is of answered requests, and of whom it was retrieved  *)
(* for.                                                                      *)
Returned(i) ==
    /\ i \in Interactions /\ requests[i].state = "answered"
    /\ requests[i].customer # Nobody => retrieval.customer = requests[i].customer

RetrievalFits == \A k \in retrieval.items : Returned(k.from)

WordsSpoken == \A c \in Customers : lastWord[c].at > 0 => lastWord[c].answer # "none"

PageInv == AnswersSettle /\ RetrievalFits /\ WordsSpoken

LEMMA PageInit == Init => PageInv
<1> SUFFICES ASSUME Init PROVE PageInv
  OBVIOUS
<1>1. AnswersSettle
  BY DEF Init, AnswersSettle, NoRequest, Completed
<1>2. RetrievalFits
  BY DEF Init, RetrievalFits, NoRetrieval
<1>3. WordsSpoken
  BY DEF Init, WordsSpoken
<1> QED
  BY <1>1, <1>2, <1>3 DEF PageInv

(* Requests that were made keep their customer and those answered stay so.   *)
LEMMA RetrievalFitsKept ==
  ASSUME RetrievalFits, retrieval' = retrieval,
         \A i \in Interactions : requests[i].state = "answered" =>
            /\ requests'[i].state = "answered"
            /\ requests'[i].customer = requests[i].customer
  PROVE  RetrievalFits'
BY DEF RetrievalFits, Returned

LEMMA PageIdentify ==
  ASSUME CustomerInv, PageInv, Identify
  PROVE  PageInv'
<1>1. \A i \in Interactions : /\ requests'[i].state = requests[i].state
                              /\ requests'[i].customer = Repoint(requests[i].customer)
  BY IdentifyFacts DEF CustomerInv
<1>2. \A i \in Interactions : requests'[i].answer = requests[i].answer
  BY RequestType DEF CustomerInv, Identify, MergedRequests, Request
<1>3. AnswersSettle'
  BY <1>1, <1>2 DEF PageInv, AnswersSettle
<1>4. /\ retrieval'.items = retrieval.items
      /\ retrieval'.customer = Repoint(retrieval.customer)
  BY DEF Identify, MergedRetrieval, CustomerInv, TypeOK, Retrieval
<1>5. RetrievalFits'
  <2> SUFFICES ASSUME NEW k \in retrieval.items PROVE Returned(k.from)'
    BY <1>4 DEF RetrievalFits
  <2>1. Returned(k.from)
    BY DEF PageInv, RetrievalFits
  <2> QED
    BY <1>1, <1>4, <2>1, Cast DEF Returned, Repoint
<1>6. WordsSpoken'
  BY Cast DEF Identify, LaterWord, PageInv, WordsSpoken, CustomerInv, TypeOK
<1> QED
  BY <1>3, <1>5, <1>6 DEF PageInv

LEMMA PageCreate ==
  ASSUME CustomerInv, PageInv, NEW i \in Interactions, NEW refs \in References,
         NEW remember \in BOOLEAN, CreateRequest(i, refs, remember)
  PROVE  PageInv'
<1>1. /\ requests[i].state = "none" /\ UNCHANGED <<lastWord, retrieval>>
      /\ \A j \in Interactions \ {i} : requests'[j] = requests[j]
  BY DEF CreateRequest, CustomerInv, TypeOK
<1>2. /\ requests'[i].answer = "none" /\ requests'[i].state \in {"declined", "answer_ready"}
  BY DEF CreateRequest, Standing, CustomerInv, TypeOK
<1>3. AnswersSettle'
  BY <1>1, <1>2 DEF PageInv, AnswersSettle, Completed
<1>4. RetrievalFits'
  BY <1>1, RetrievalFitsKept DEF PageInv
<1> QED
  BY <1>1, <1>3, <1>4 DEF PageInv, WordsSpoken

LEMMA PageAnswer ==
  ASSUME CustomerInv, PageInv, NEW i \in Interactions, NEW status \in Answers,
         NEW memory \in SUBSET BOOLEAN, SubmitAnswer(i, status, memory)
  PROVE  PageInv'
<1>1. /\ requests[i].state = "answer_ready" /\ UNCHANGED <<lastWord, retrieval>>
      /\ \A j \in Interactions \ {i} : requests'[j] = requests[j]
      /\ requests'[i].answer = status /\ requests'[i].state = status
  BY DEF SubmitAnswer, WithAnswer, CustomerInv, TypeOK
<1>2. AnswersSettle'
  BY <1>1 DEF PageInv, AnswersSettle, Completed
<1>3. RetrievalFits'
  BY <1>1, RetrievalFitsKept DEF PageInv
<1> QED
  BY <1>1, <1>2, <1>3 DEF PageInv, WordsSpoken

LEMMA PageDecide ==
  ASSUME CustomerInv, PageInv, NEW i \in Interactions, NEW answer \in Decisions,
         NEW remember \in BOOLEAN, DecideConsent(i, answer, remember)
  PROVE  PageInv'
<1> DEFINE r == Reselected(i, remember)
           changes == ~AlreadySo(r, answer) /\ IsCurrent(r)
<1>1. Live(i) /\ MayReselect(i, remember) /\ retrieval' = retrieval
  BY DEF DecideConsent
<1>2. PICK state \in {"declined", "answer_ready"} : requests' = [requests EXCEPT ![i] = Settled(r, state)]
  BY ShownType DEF DecideConsent
<1>3. /\ r \in Request /\ r.customer \in Owners
      /\ \A status \in Completed : r.answer = status <=> r.state = status
  <2>1. r \in Request
    BY <1>1, ReselectedFacts
  <2>2. CASE r = requests[i]
    BY <2>1, <2>2 DEF PageInv, AnswersSettle, Request
  <2>3. CASE r # requests[i]
    <3>1. remember # requests[i].remember
      BY <2>3 DEF Reselected
    <3>2. requests[i].state = "answer_ready"
      BY <1>1, <3>1 DEF MayReselect
    <3>3. r.answer = requests[i].answer /\ r.state \in {"declined", "answer_ready"}
      BY <3>1 DEF Reselected, Standing
    <3> QED
      BY <2>1, <3>2, <3>3 DEF PageInv, AnswersSettle, Completed, Request
  <2> QED
    BY <2>2, <2>3
<1>4. \A j \in Interactions \ {i} : requests'[j] = requests[j]
  BY <1>2 DEF CustomerInv, TypeOK
<1>5. requests'[i] = Settled(r, state)
  BY <1>2 DEF CustomerInv, TypeOK
<1> HIDE DEF r
<1>6. \A status \in Completed : requests'[i].answer = status <=> requests'[i].state = status
  BY <1>3, <1>5 DEF Settled, Request, Completed
<1>7. AnswersSettle'
  BY <1>4, <1>6 DEF PageInv, AnswersSettle
<1>8. RetrievalFits'
  <2>1. /\ requests[i].state = "answered" => requests'[i].state = "answered"
        /\ requests'[i].customer = requests[i].customer
    BY DecideRequests
  <2> QED
    BY <1>1, <1>4, <2>1, RetrievalFitsKept DEF PageInv
<1>9. WordsSpoken'
  <2>1. CASE lastWord' = lastWord
    BY <2>1 DEF PageInv, WordsSpoken
  <2>2. CASE lastWord' # lastWord
    <3>1. r.customer # Nobody
          /\ lastWord' = [lastWord EXCEPT ![r.customer] =
                             [answer |-> answer, at |-> words + 1,
                              until |-> IF r.remember THEN Never ELSE i]]
      BY <2>2 DEF DecideConsent, r
    <3>2. r.customer \in Customers /\ answer # "none"
      BY <1>3, <3>1 DEF Owners, Decisions
    <3> QED
      BY <3>1, <3>2 DEF PageInv, WordsSpoken, CustomerInv, TypeOK
  <2> QED
    BY <2>1, <2>2
<1> QED
  BY <1>7, <1>8, <1>9 DEF PageInv

LEMMA PageLook ==
  ASSUME CustomerInv, PageInv,
         \/ \E refs \in References : RetrieveByReference(refs)
         \/ \E i \in Interactions : RetrieveByInteraction(i)
  PROVE  PageInv'
<1>1. UNCHANGED <<requests, items, lastWord>>
  BY DEF RetrieveByReference, RetrieveByInteraction
<1>2. ASSUME NEW some, NEW c, some \subseteq items, retrieval' = Retrieved(c, some),
             \A m \in some : requests[m.from].customer # Nobody =>
                                 requests[m.from].customer = c
      PROVE  RetrievalFits'
  <2> SUFFICES ASSUME NEW k \in retrieval'.items PROVE Returned(k.from)'
    BY DEF RetrievalFits
  <2>1. some # {} /\ retrieval'.customer = c /\ retrieval'.items = KeysOf(some)
    BY <1>2 DEF Retrieved, NoRetrieval
  <2>2. PICK m \in some : k.from = m.from
    BY <2>1 DEF KeysOf
  <2>3. m.from \in Interactions /\ requests[m.from].state = "answered"
    BY <1>2 DEF CustomerInv, ItemsFit, TypeOK, Item
  <2> QED
    BY <1>1, <1>2, <2>1, <2>2, <2>3 DEF Returned
<1>3. RetrievalFits'
  <2>1. CASE \E refs \in References : RetrieveByReference(refs)
    <3>1. PICK c : retrieval' = Retrieved(c, Remembered(c))
      BY <2>1 DEF RetrieveByReference
    <3>2. \A m \in Remembered(c) : m \in items /\ requests[m.from].customer = c
      BY DEF Remembered, CustomerInv, ItemsFit
    <3> QED
      BY <1>2, <3>1, <3>2
  <2>2. CASE \E i \in Interactions : RetrieveByInteraction(i)
    <3>1. PICK i \in Interactions :
             retrieval' = Retrieved(requests[i].customer, Query(i, requests[i].customer))
      BY <2>2 DEF RetrieveByInteraction
    <3>2. \A m \in Query(i, requests[i].customer) :
             m \in items /\ requests[m.from].customer = requests[i].customer
      BY DEF Query, CustomerInv, ItemsFit
    <3> QED
      BY <1>2, <3>1, <3>2
  <2> QED
    BY <2>1, <2>2
<1> QED
  BY <1>1, <1>3 DEF PageInv, AnswersSettle, WordsSpoken

LEMMA PageStep == CustomerInv /\ PageInv /\ [Next]_vars => PageInv'
<1> SUFFICES ASSUME CustomerInv, PageInv, [Next]_vars PROVE PageInv'
  OBVIOUS
<1>1. CASE Identify
  BY <1>1, PageIdentify
<1>2. CASE \E i \in Interactions, refs \in References, remember \in BOOLEAN :
              CreateRequest(i, refs, remember)
  BY <1>2, PageCreate
<1>3. CASE \E i \in Interactions, answer \in Decisions, remember \in BOOLEAN :
              DecideConsent(i, answer, remember)
  BY <1>3, PageDecide
<1>4. CASE \E i \in Interactions, status \in Answers, memory \in SUBSET BOOLEAN :
              SubmitAnswer(i, status, memory)
  BY <1>4, PageAnswer
<1>5. CASE \/ \E refs \in References : RetrieveByReference(refs)
           \/ \E i \in Interactions : RetrieveByInteraction(i)
  BY <1>5, PageLook
<1>6. CASE UNCHANGED <<requests, lastWord, retrieval>>
  BY <1>6 DEF PageInv, AnswersSettle, RetrievalFits, Returned, WordsSpoken
<1>7. Expire \/ (\E chosen \in SUBSET retrieval.items : Personalize(chosen)) \/ UNCHANGED vars
      => UNCHANGED <<requests, lastWord, retrieval>>
  BY DEF Expire, Personalize, vars
<1> QED
  BY <1>1, <1>2, <1>3, <1>4, <1>5, <1>6, <1>7 DEF Next

-----------------------------------------------------------------------------
LEMMA AnswerType ==
  ASSUME CustomerInv, NEW i \in Interactions
  PROVE  requests[i].answer \in {"none", "answered", "declined", "no_relevant_context"}
BY DEF CustomerInv, TypeOK, Request, Answers

(* Each question is shown with one status, that of its answer if it has one.  *)
LEMMA StatusIs ==
  ASSUME CustomerInv, NEW i \in Interactions
  PROVE  /\ ResponseStatus(i) = "answered" <=> requests[i].answer = "answered"
         /\ ResponseStatus(i) = "declined" <=> Outcome(i) = "declined"
         /\ ResponseStatus(i) = "no_relevant_context" <=> Outcome(i) = "no_relevant_context"
         /\ ResponseStatus(i) = "awaiting_answer" <=>
               /\ requests[i].answer = "none"
               /\ requests[i].state \notin {"declined", "no_relevant_context"}
         /\ ResponseStatus(i) \in {"answered", "declined", "no_relevant_context", "awaiting_answer"}
<1>1. CASE requests[i].answer = "answered"
  BY <1>1 DEF ResponseStatus, Outcome
<1>2. CASE requests[i].answer # "answered"
           /\ Outcome(i) \in {"declined", "no_relevant_context"}
  <2>1. ResponseStatus(i) = Outcome(i)
    BY <1>2 DEF ResponseStatus
  <2> QED
    BY <1>2, <2>1 DEF Outcome
<1>3. CASE requests[i].answer # "answered"
           /\ Outcome(i) \notin {"declined", "no_relevant_context"}
  <2>1. ResponseStatus(i) = "awaiting_answer"
    BY <1>3 DEF ResponseStatus
  <2> QED
    BY <1>3, <2>1, AnswerType DEF Outcome
<1> QED
  BY <1>1, <1>2, <1>3

LEMMA FourParts ==
  ASSUME NEW S, IsFiniteSet(S), NEW A, NEW B, NEW C, NEW D, S = A \cup B \cup C \cup D,
         A \cap B = {}, A \cap C = {}, A \cap D = {}, B \cap C = {}, B \cap D = {}, C \cap D = {}
  PROVE  Cardinality(S) - Cardinality(A) - Cardinality(B) - Cardinality(C) = Cardinality(D)
<1>1. IsFiniteSet(A) /\ IsFiniteSet(B) /\ IsFiniteSet(C) /\ IsFiniteSet(D)
  BY FS_Subset
<1>2. /\ IsFiniteSet(A \cup B)
      /\ Cardinality(A \cup B) = Cardinality(A) + Cardinality(B) - Cardinality(A \cap B)
  BY <1>1, FS_Union
<1>3. /\ IsFiniteSet(C \cup D)
      /\ Cardinality(C \cup D) = Cardinality(C) + Cardinality(D) - Cardinality(C \cap D)
  BY <1>1, FS_Union
<1>4. (A \cup B) \cap (C \cup D) = {} /\ (A \cup B) \cup (C \cup D) = S
  OBVIOUS
<1>5. Cardinality(S) =
         Cardinality(A \cup B) + Cardinality(C \cup D) - Cardinality((A \cup B) \cap (C \cup D))
  BY <1>2, <1>3, <1>4, FS_Union
<1>6. Cardinality({}) = 0
  BY FS_EmptySet
<1>7. /\ Cardinality(A) \in Nat /\ Cardinality(B) \in Nat
      /\ Cardinality(C) \in Nat /\ Cardinality(D) \in Nat
  BY <1>1, FS_CardinalityType
<1>8. Cardinality(A \cap B) = 0 /\ Cardinality(C \cap D) = 0
      /\ Cardinality((A \cup B) \cap (C \cup D)) = 0
  BY <1>4, <1>6
<1> QED
  BY ONLY <1>2, <1>3, <1>5, <1>7, <1>8

LEMMA ResponsesFollow == CustomerInv /\ PageInv => ResponsesAddUp
<1> SUFFICES ASSUME CustomerInv, PageInv PROVE ResponsesAddUp
  OBVIOUS
<1>1. /\ Shown("answered") = {i \in Questions : requests[i].answer = "answered"}
      /\ Shown("awaiting_answer") =
            {i \in Questions : /\ requests[i].answer = "none"
                               /\ requests[i].state \notin {"declined", "no_relevant_context"}}
      /\ Shown("declined") = {i \in Questions : Outcome(i) = "declined"}
  BY StatusIs DEF Shown, Questions
<1>2. /\ Rollup.questions = Cardinality(Questions)
      /\ Rollup.answered = Cardinality(Shown("answered"))
      /\ Rollup.awaiting = Cardinality(Shown("awaiting_answer"))
      /\ Rollup.declined = Cardinality(Shown("declined"))
  <2>1. /\ Rollup.questions = Cardinality(Questions)
        /\ Rollup.answered = Cardinality({i \in Questions : requests[i].answer = "answered"})
        /\ Rollup.awaiting =
              Cardinality({i \in Questions : /\ requests[i].answer = "none"
                                             /\ requests[i].state \notin
                                                  {"declined", "no_relevant_context"}})
        /\ Rollup.declined = Cardinality({i \in Questions : Outcome(i) = "declined"})
    BY DEF Rollup
  <2> QED
    BY <1>1, <2>1
<1>3. Rollup.questions - Rollup.answered - Rollup.awaiting - Rollup.declined =
        Cardinality(Shown("no_relevant_context"))
  <2>1. IsFiniteSet(Questions)
    BY ConstantsAssumption, FS_Subset DEF Questions
  <2>2. Questions = Shown("answered") \cup Shown("awaiting_answer") \cup Shown("declined")
                      \cup Shown("no_relevant_context")
    BY StatusIs DEF Shown, Questions
  <2>3. \A a, b : a # b => Shown(a) \cap Shown(b) = {}
    BY DEF Shown
  <2>4. /\ Shown("answered") \cap Shown("awaiting_answer") = {}
        /\ Shown("answered") \cap Shown("declined") = {}
        /\ Shown("answered") \cap Shown("no_relevant_context") = {}
        /\ Shown("awaiting_answer") \cap Shown("declined") = {}
        /\ Shown("awaiting_answer") \cap Shown("no_relevant_context") = {}
        /\ Shown("declined") \cap Shown("no_relevant_context") = {}
    BY <2>3
  <2>5. Cardinality(Questions) - Cardinality(Shown("answered"))
          - Cardinality(Shown("awaiting_answer")) - Cardinality(Shown("declined")) =
        Cardinality(Shown("no_relevant_context"))
    BY ONLY <2>1, <2>2, <2>4, FourParts
  <2> QED
    BY <1>2, <2>5
<1>4. \A m \in items : m.from \in Shown("answered")
  <2> SUFFICES ASSUME NEW m \in items PROVE m.from \in Shown("answered")
    OBVIOUS
  <2>1. m.from \in Interactions /\ requests[m.from].state = "answered"
    BY DEF CustomerInv, ItemsFit, TypeOK, Item
  <2>2. requests[m.from].answer = "answered"
    BY <2>1 DEF PageInv, AnswersSettle, Completed
  <2> QED
    BY <1>1, <2>1, <2>2 DEF Questions
<1>5. \A i \in Questions : ResponseCustomer(i) = requests[i].customer
  BY DEF Questions, ResponseCustomer, Merged, CustomerInv, RequestsFit, RequestFits, Made, Gone
<1>6. ASSUME NEW i \in Interactions
      PROVE  /\ requests[i].answer = "answered" <=> requests[i].state = "answered"
             /\ requests[i].answer = "no_relevant_context" <=>
                   requests[i].state = "no_relevant_context"
  BY DEF PageInv, AnswersSettle, Completed
<1>7. ASSUME NEW i \in Unanswered
      PROVE  i \in Shown("declined") \cup Shown("no_relevant_context")
  <2>1. i \in Questions /\ i \in Interactions /\ requests[i].answer # "answered"
    BY <1>6 DEF Unanswered, Questions
  <2>2. Outcome(i) \in {"declined", "no_relevant_context"}
    BY <2>1, <1>6, AnswerType DEF Outcome, Unanswered
  <2> QED
    BY <2>1, <2>2, StatusIs DEF Shown
<1>8. ASSUME NEW i \in (Shown("declined") \cup Shown("no_relevant_context")) \ Unanswered
      PROVE  requests[i].answer = "declined"
  <2>1. /\ i \in Interactions /\ Outcome(i) \in {"declined", "no_relevant_context"}
        /\ requests[i].state \notin {"declined", "no_relevant_context"}
    BY StatusIs DEF Shown, Questions, Unanswered
  <2> QED
    BY <2>1, <1>6, AnswerType DEF Outcome
<1>9. /\ Unanswered \subseteq Shown("declined") \cup Shown("no_relevant_context")
      /\ \A i \in (Shown("declined") \cup Shown("no_relevant_context")) \ Unanswered :
            requests[i].answer = "declined"
  BY <1>7, <1>8
<1> QED
  BY <1>2, <1>3, <1>4, <1>5, <1>9 DEF ResponsesAddUp

LEMMA ReadyFollows == CustomerInv => ReadyIsServed
<1> SUFFICES ASSUME CustomerInv PROVE ReadyIsServed
  OBVIOUS
<1>1. MergeLeavesNothing
  BY NothingLeft
<1>2. ASSUME NEW c \in ReadyCustomers
      PROVE  ~Merged(c) /\ Remembered(c) = {m \in EligibleContext : m.customer = c}
  <2>1. PICK m \in EligibleContext : c = m.customer
    BY DEF ReadyCustomers
  <2>2. ~Merged(c)
    BY <1>1, <2>1 DEF EligibleContext, Merged, MergeLeavesNothing
  <2>3. c # Nobody
    BY <2>1 DEF EligibleContext
  <2> QED
    BY <2>2, <2>3 DEF Remembered, Permitted, EligibleContext
<1>3. ASSUME NEW c \in Customers, Remembered(c) # {} PROVE c \in ReadyCustomers
  BY <1>3, Cast DEF Remembered, ReadyCustomers, EligibleContext, Permitted
<1> QED
  BY <1>2, <1>3 DEF ReadyIsServed

LEMMA UseFollows == CustomerInv /\ PageInv => UseIsShown
<1> SUFFICES ASSUME CustomerInv, PageInv PROVE UseIsShown
  OBVIOUS
<1>1. ASSUME NEW k \in retrieval.items, NEW m \in items, m.from = k.from, m.customer # Nobody
      PROVE  ReturnShownTo(m.customer)
  <2>1. Returned(k.from)
    BY DEF PageInv, RetrievalFits
  <2>2. m.customer = requests[m.from].customer
    BY DEF CustomerInv, ItemsFit
  <2> QED
    BY <1>1, <2>1, <2>2 DEF Returned, ReturnShownTo
<1>2. ASSUME NEW c \in Customers, lastWord[c].at > 0, ~Merged(c)
      PROVE  \E p \in PermissionsOf(c) : /\ grants[p[1]][p[2]].decided = lastWord[c].at
                                         /\ grants[p[1]][p[2]].state = lastWord[c].answer
  <2>1. lastWord[c].answer # "none"
    BY <1>2 DEF PageInv, WordsSpoken
  <2>2. WordKept(c)
    BY <1>2 DEF CustomerInv, WordsKept, Gone, Merged
  <2>3. PICK s \in Subjects : \E sc \in Scopes :
              /\ grants[s][sc].customer = c
              /\ grants[s][sc].state = lastWord[c].answer
              /\ grants[s][sc].decided = lastWord[c].at
    BY <2>1, <2>2 DEF WordKept
  <2>4. PICK sc \in Scopes :
              /\ grants[s][sc].customer = c
              /\ grants[s][sc].state = lastWord[c].answer
              /\ grants[s][sc].decided = lastWord[c].at
    BY <2>3
  <2>5. PICK p : p = <<s, sc>>
    OBVIOUS
  <2>6. p \in PermissionsOf(c)
    BY <2>1, <2>4, <2>5 DEF PermissionsOf
  <2> QED
    BY <2>4, <2>5, <2>6
<1> QED
  BY <1>1, <1>2 DEF UseIsShown

LEMMA PagesFollow == CustomerInv /\ PageInv => ContextShown
BY ResponsesFollow, ReadyFollows, UseFollows DEF ContextShown

-----------------------------------------------------------------------------
(* What a product tells of its use.  Decisions are numbered as they are       *)
(* stored and keep what they were sent with, and a reply tells it.           *)

(* What a decision and an outcome were sent as.                              *)
SentDecision == [retrieval : Int, signals : SUBSET Signals, variant : Variants]

SentOutcome == [decision : Int, kind : Kinds, occurred : Int]

RetrievalRow == [at : Int, signals : SUBSET Signals]

DecisionRow ==
    [name : DecisionNames, of : SentDecision, signals : SUBSET Signals, at : Int]

OutcomeRow == [of : SentOutcome, at : Int]

RowsTyped ==
    /\ decided \in Nat
    /\ \A n \in DOMAIN retrievals : n \in Int /\ retrievals[n] \in RetrievalRow
    /\ \A n \in DOMAIN decisions :
          /\ n \in 1 .. decided /\ decisions[n] \in DecisionRow
          /\ decisions[n].signals \subseteq decisions[n].of.signals
    /\ \A o \in DOMAIN outcomes : outcomes[o] \in OutcomeRow
    /\ IsFiniteSet(DOMAIN outcomes)

(* No two stored decisions have one name.                                    *)
NamesDiffer ==
    \A m, n \in DOMAIN decisions : decisions[m].name = decisions[n].name => m = n

(* A reply tells the stored decision as it was sent.                         *)
Replied(n) ==
    [decision |-> n, sent |-> decisions[n].of, signals |-> decisions[n].of.signals,
     at |-> decisions[n].at]

RepliesFit ==
    \A reply \in replies : \E n \in DOMAIN decisions : reply = Replied(n)

ActivationInv == ActivationTypeOK /\ RowsTyped /\ NamesDiffer /\ RepliesFit

-----------------------------------------------------------------------------
LEMMA WithFacts ==
  ASSUME NEW rows, NEW n, NEW row
  PROVE  /\ DOMAIN With(rows, n, row) = DOMAIN rows \cup {n}
         /\ With(rows, n, row)[n] = row
         /\ \A m \in DOMAIN rows : m # n => With(rows, n, row)[m] = rows[m]
BY DEF With

LEMMA WithoutFacts ==
  ASSUME NEW rows, NEW gone
  PROVE  /\ DOMAIN Without(rows, gone) = DOMAIN rows \ gone
         /\ \A m \in DOMAIN rows \ gone : Without(rows, gone)[m] = rows[m]
BY DEF Without

LEMMA ActivationBegins == ActivationInit => ActivationInv
<1> SUFFICES ASSUME ActivationInit PROVE ActivationInv
  OBVIOUS
<1>1. DOMAIN NoRow = {} /\ IsFiniteSet({})
  BY FS_EmptySet DEF NoRow
<1>2. ActivationTypeOK
  BY <1>1, ActivationAssumption DEF ActivationInit, ActivationTypeOK
<1>3. RowsTyped
  BY <1>1 DEF ActivationInit, RowsTyped
<1>4. NamesDiffer /\ RepliesFit
  BY <1>1 DEF ActivationInit, NamesDiffer, RepliesFit
<1> QED
  BY <1>2, <1>3, <1>4 DEF ActivationInv

LEMMA TodayType ==
  ASSUME ActivationInv
  PROVE  today \in Nat /\ LastDayOfUse \in Nat /\ UseRetained \in Nat
BY ActivationAssumption DEF ActivationInv, ActivationTypeOK

(* Decisions, outcomes and replies stay as they are.                         *)
LEMMA RepliesStay ==
  ASSUME ActivationInv, UNCHANGED <<decisions, replies>>
  PROVE  NamesDiffer' /\ RepliesFit'
BY DEF ActivationInv, NamesDiffer, RepliesFit, Replied

LEMMA RetrieveStep ==
  ASSUME ActivationInv, Retrieve
  PROVE  ActivationInv'
<1> USE DEF ActivationInv
<1>1. PICK row : row = [at |-> today, signals |-> allowed]
  OBVIOUS
<1>2. /\ retrievals' = With(retrievals, today, row)
      /\ UNCHANGED <<today, stored, allowed, decisions, decided, outcomes, replies>>
      /\ today \notin DOMAIN retrievals
  BY <1>1 DEF Retrieve
<1>3. /\ DOMAIN retrievals' = DOMAIN retrievals \cup {today} /\ retrievals'[today] = row
      /\ \A m \in DOMAIN retrievals : retrievals'[m] = retrievals[m]
  BY <1>2 DEF With
<1>4. row \in RetrievalRow /\ row.signals = allowed /\ today \in Int
  BY <1>1, TodayType DEF RetrievalRow, ActivationTypeOK
<1>5. ActivationTypeOK'
  BY <1>2, <1>3, <1>4 DEF ActivationTypeOK
<1>6. RowsTyped'
  BY <1>2, <1>3, <1>4 DEF RowsTyped
<1> QED
  BY <1>2, <1>5, <1>6, RepliesStay

LEMMA OutcomeStep ==
  ASSUME ActivationInv, NEW name \in OutcomeNames, NEW n \in DOMAIN decisions, NEW kind \in Kinds,
         NEW occurred \in 1 .. today \cup {NotSent},
         RecordOutcome(name, [decision |-> n, kind |-> kind, occurred |-> occurred])
  PROVE  ActivationInv'
<1> USE DEF ActivationInv
<1>1. PICK of : of = [decision |-> n, kind |-> kind, occurred |-> occurred]
  OBVIOUS
<1>2. PICK at : at = IF of.occurred = NotSent THEN today ELSE of.occurred
  OBVIOUS
<1>3. PICK row : row = [of |-> of, at |-> at]
  OBVIOUS
<1>4. /\ outcomes' = With(outcomes, name, row) /\ name \notin DOMAIN outcomes
      /\ UNCHANGED <<today, stored, allowed, retrievals, decisions, decided, replies>>
  BY <1>1, <1>2, <1>3 DEF RecordOutcome
<1>5. /\ DOMAIN outcomes' = DOMAIN outcomes \cup {name} /\ outcomes'[name] = row
      /\ \A o \in DOMAIN outcomes : outcomes'[o] = outcomes[o]
  BY <1>4 DEF With
<1>6. occurred \in Int /\ n \in Int /\ today \in Int
  BY TodayType, ActivationAssumption DEF RowsTyped
<1>7. row \in OutcomeRow /\ row.of.decision = n
  BY <1>1, <1>2, <1>3, <1>6 DEF OutcomeRow, SentOutcome
<1>8. ActivationTypeOK'
  BY <1>4, <1>5, <1>7 DEF ActivationTypeOK
<1>9. IsFiniteSet(DOMAIN outcomes \cup {name})
  BY FS_AddElement DEF RowsTyped
<1>10. RowsTyped'
  BY <1>4, <1>5, <1>7, <1>9 DEF RowsTyped
<1> QED
  BY <1>4, <1>8, <1>10, RepliesStay

LEMMA QuietSteps ==
  ASSUME ActivationInv, (\E now \in SUBSET stored : ChangePermission(now)) \/ NextDay
  PROVE  ActivationInv'
<1> USE DEF ActivationInv
<1>1. /\ UNCHANGED <<stored, retrievals, decisions, decided, outcomes, replies>>
      /\ allowed' \subseteq stored /\ today' \in 1 .. LastDayOfUse
  BY TodayType DEF ChangePermission, NextDay, ActivationTypeOK
<1>2. ActivationTypeOK'
  BY <1>1 DEF ActivationTypeOK
<1>3. RowsTyped'
  BY <1>1 DEF RowsTyped
<1> QED
  BY <1>1, <1>2, <1>3, RepliesStay

(* The decisions with one recorded, or recorded again.                       *)
SentFirst(name, of) ==
    With(decisions, decided + 1,
         [name |-> name, of |-> of, signals |-> of.signals, at |-> today])

SentAgain(name, of) ==
    [n \in DOMAIN decisions |->
        IF n \in RecordedAs(name, of)
        THEN [decisions[n] EXCEPT !.signals = @ \cup of.signals] ELSE decisions[n]]

LEMMA NewDecision ==
  ASSUME ActivationInv, NEW name \in DecisionNames, NEW of \in SentDecision,
         of.retrieval \in DOMAIN retrievals, of.signals \subseteq allowed,
         Named(name) = {}, decided' = decided + 1,
         decisions' = SentFirst(name, of)
  PROVE  /\ UNCHANGED <<retrievals, outcomes>> => RowsTyped'
         /\ DOMAIN decisions \subseteq DOMAIN decisions'
         /\ \A n \in DOMAIN decisions' :
               /\ n <= decided' /\ decisions'[n].signals \subseteq stored
               /\ decisions'[n].of.retrieval \in DOMAIN retrievals
               /\ decisions'[n].name = name =>
                     decisions'[n].of = of /\ decisions'[n].signals = of.signals
         /\ \A n \in DOMAIN decisions : /\ decisions'[n].of = decisions[n].of
                                        /\ decisions'[n].at = decisions[n].at
         /\ NamesDiffer'
<1> USE DEF ActivationInv
<1> DEFINE new == decided + 1
<1>1. PICK row : row = [name |-> name, of |-> of, signals |-> of.signals, at |-> today]
  OBVIOUS
<1>2. decided \in Nat /\ new \notin DOMAIN decisions /\ new \in 1 .. decided' /\ decided' \in Nat
  BY DEF RowsTyped
<1>3. /\ DOMAIN decisions' = DOMAIN decisions \cup {new} /\ decisions'[new] = row
      /\ \A n \in DOMAIN decisions : decisions'[n] = decisions[n]
  BY <1>1, <1>2 DEF SentFirst, With
<1>4. /\ row \in DecisionRow /\ row.of = of /\ row.signals = of.signals /\ row.name = name
      /\ of.signals \subseteq stored
  BY <1>1, TodayType DEF DecisionRow, SentDecision, ActivationTypeOK
<1>5. \A n \in DOMAIN decisions : n \in 1 .. decided /\ n \in 1 .. decided'
  BY <1>2 DEF RowsTyped
<1> HIDE DEF new
<1>6. ASSUME UNCHANGED <<retrievals, outcomes>> PROVE RowsTyped'
  BY <1>2, <1>3, <1>4, <1>5, <1>6 DEF RowsTyped
<1>7. \A n \in DOMAIN decisions : decisions[n].name # name
  BY DEF Named
<1>8. ASSUME NEW n \in DOMAIN decisions'
      PROVE  /\ n <= decided' /\ decisions'[n].signals \subseteq stored
             /\ decisions'[n].of.retrieval \in DOMAIN retrievals
             /\ decisions'[n].name = name =>
                   decisions'[n].of = of /\ decisions'[n].signals = of.signals
  <2>1. CASE n = new
    BY <2>1, <1>2, <1>3, <1>4
  <2>2. CASE n \in DOMAIN decisions
    BY <2>2, <1>2, <1>3, <1>5, <1>7 DEF ActivationTypeOK
  <2> QED
    BY <1>3, <2>1, <2>2
<1>9. NamesDiffer'
  BY <1>3, <1>4, <1>7 DEF NamesDiffer
<1> QED
  BY <1>3, <1>6, <1>8, <1>9

LEMMA SameDecision ==
  ASSUME ActivationInv, NEW name \in DecisionNames, NEW of \in SentDecision,
         of.retrieval \in DOMAIN retrievals, of.signals \subseteq allowed,
         RecordedAs(name, of) # {}, decided' = decided,
         decisions' = SentAgain(name, of)
  PROVE  /\ UNCHANGED <<retrievals, outcomes>> => RowsTyped'
         /\ DOMAIN decisions \subseteq DOMAIN decisions'
         /\ \A n \in DOMAIN decisions' :
               /\ n <= decided' /\ decisions'[n].signals \subseteq stored
               /\ decisions'[n].of.retrieval \in DOMAIN retrievals
               /\ decisions'[n].name = name =>
                     decisions'[n].of = of /\ decisions'[n].signals = of.signals
         /\ \A n \in DOMAIN decisions : /\ decisions'[n].of = decisions[n].of
                                        /\ decisions'[n].at = decisions[n].at
         /\ NamesDiffer'
<1> USE DEF ActivationInv
<1>1. DOMAIN decisions' = DOMAIN decisions
  BY DEF SentAgain
<1>2. ASSUME NEW n \in DOMAIN decisions
      PROVE  /\ decisions'[n] \in DecisionRow
             /\ decisions'[n].name = decisions[n].name /\ decisions'[n].of = decisions[n].of
             /\ decisions'[n].at = decisions[n].at
             /\ decisions'[n].signals =
                   IF n \in RecordedAs(name, of) THEN of.signals ELSE decisions[n].signals
  <2>1. /\ decisions[n] \in DecisionRow /\ decisions[n].signals \subseteq decisions[n].of.signals
        /\ of.signals \in SUBSET Signals
    BY DEF RowsTyped, SentDecision
  <2>2. CASE n \in RecordedAs(name, of)
    <3>1. decisions[n].of = of
      BY <2>2 DEF RecordedAs
    <3>2. PICK all : all = decisions[n].signals \cup of.signals
      OBVIOUS
    <3>3. decisions'[n] = [decisions[n] EXCEPT !.signals = all] /\ all = of.signals
      BY <2>1, <2>2, <3>1, <3>2 DEF SentAgain
    <3> QED
      BY <2>1, <2>2, <3>3 DEF DecisionRow
  <2>3. CASE n \notin RecordedAs(name, of)
    BY <2>1, <2>3 DEF SentAgain
  <2> QED
    BY <2>2, <2>3
<1>3. NamesDiffer'
  BY <1>1, <1>2 DEF NamesDiffer
<1>4. ASSUME NEW n \in DOMAIN decisions
      PROVE  /\ n <= decided' /\ n \in 1 .. decided' /\ decisions'[n].signals \subseteq stored
             /\ decisions'[n].signals \subseteq decisions'[n].of.signals
             /\ decisions'[n].of.retrieval \in DOMAIN retrievals
  <2>1. n <= decided' /\ n \in 1 .. decided'
    BY DEF RowsTyped
  <2>2. of.signals \subseteq stored
    BY DEF ActivationTypeOK
  <2>3. n \in RecordedAs(name, of) => decisions[n].of = of
    BY DEF RecordedAs
  <2> QED
    BY <1>2, <2>1, <2>2, <2>3 DEF ActivationTypeOK, RowsTyped
<1>5. ASSUME NEW n \in DOMAIN decisions, decisions'[n].name = name
      PROVE  decisions'[n].of = of /\ decisions'[n].signals = of.signals
  <2>1. PICK m \in DOMAIN decisions : m \in RecordedAs(name, of)
    BY DEF RecordedAs
  <2>2. m = n
    BY <1>2, <1>5, <2>1 DEF RecordedAs, NamesDiffer
  <2> QED
    BY <1>2, <2>1, <2>2 DEF RecordedAs
<1>6. ASSUME UNCHANGED <<retrievals, outcomes>> PROVE RowsTyped'
  BY <1>1, <1>2, <1>4, <1>6 DEF RowsTyped
<1> QED
  BY <1>1, <1>2, <1>3, <1>4, <1>5, <1>6

LEMMA DecisionStep ==
  ASSUME ActivationInv, NEW name \in DecisionNames, NEW r \in DOMAIN retrievals,
         NEW chosen \in SUBSET Signals, NEW v \in Variants,
         RecordDecision(name, [retrieval |-> r, signals |-> chosen, variant |-> v])
  PROVE  ActivationInv'
<1>1. PICK of : of = [retrieval |-> r, signals |-> chosen, variant |-> v]
  OBVIOUS
<1>2. of \in SentDecision /\ of.retrieval = r
  BY <1>1 DEF SentDecision, ActivationInv, RowsTyped
<1>3. RecordDecision(name, of)
  BY <1>1
<1>4. /\ of.signals \subseteq allowed
      /\ UNCHANGED <<today, stored, allowed, retrievals, outcomes>>
  BY <1>3 DEF RecordDecision
<1>5. \/ /\ Named(name) = {} /\ decided' = decided + 1
         /\ decisions' = SentFirst(name, of)
      \/ /\ RecordedAs(name, of) # {} /\ decided' = decided
         /\ decisions' = SentAgain(name, of)
  BY <1>3 DEF RecordDecision, SentFirst, SentAgain
<1>6. /\ RowsTyped'
      /\ DOMAIN decisions \subseteq DOMAIN decisions'
      /\ \A n \in DOMAIN decisions' :
            /\ n <= decided' /\ decisions'[n].signals \subseteq stored
            /\ decisions'[n].of.retrieval \in DOMAIN retrievals
            /\ decisions'[n].name = name =>
                  decisions'[n].of = of /\ decisions'[n].signals = of.signals
      /\ \A n \in DOMAIN decisions : /\ decisions'[n].of = decisions[n].of
                                     /\ decisions'[n].at = decisions[n].at
      /\ NamesDiffer'
  <2>1. CASE Named(name) = {} /\ decided' = decided + 1
         /\ decisions' = SentFirst(name, of)
    BY <1>2, <1>4, <2>1, NewDecision DEF ActivationInv
  <2>2. CASE RecordedAs(name, of) # {} /\ decided' = decided
         /\ decisions' = SentAgain(name, of)
    BY <1>2, <1>4, <2>2, SameDecision
  <2> QED
    BY <1>5, <2>1, <2>2
<1>7. ActivationTypeOK'
  BY <1>4, <1>6 DEF ActivationInv, ActivationTypeOK
<1>8. RepliesFit'
  <2> SUFFICES ASSUME NEW reply \in replies' PROVE \E n \in DOMAIN decisions' : reply = Replied(n)'
    BY DEF RepliesFit
  <2>1. CASE reply \in replies
    <3>1. PICK n \in DOMAIN decisions : reply = Replied(n)
      BY <2>1 DEF ActivationInv, RepliesFit
    <3> QED
      BY <1>6, <3>1 DEF Replied
  <2>2. CASE reply \notin replies
    <3>1. PICK n \in DOMAIN decisions' :
             /\ decisions'[n].name = name
             /\ reply = [decision |-> n, sent |-> of, signals |-> decisions'[n].signals,
                         at |-> decisions'[n].at]
      BY <1>3, <2>2 DEF RecordDecision
    <3>2. decisions'[n].of = of /\ decisions'[n].signals = of.signals
      BY <1>6, <3>1
    <3> QED
      BY <3>1, <3>2 DEF Replied
  <2> QED
    BY <2>1, <2>2
<1> QED
  BY <1>6, <1>7, <1>8 DEF ActivationInv

LEMMA PurgeSignalStep ==
  ASSUME ActivationInv, NEW s \in Signals, PurgeSignal(s)
  PROVE  ActivationInv'
<1> USE DEF ActivationInv
<1>1. /\ s \notin allowed /\ stored' = stored \ {s}
      /\ retrievals' = [n \in DOMAIN retrievals |-> [retrievals[n] EXCEPT !.signals = @ \ {s}]]
      /\ decisions' = [n \in DOMAIN decisions |-> [decisions[n] EXCEPT !.signals = @ \ {s}]]
      /\ UNCHANGED <<today, allowed, decided, outcomes, replies>>
  BY DEF PurgeSignal
<1>2. DOMAIN retrievals' = DOMAIN retrievals /\ DOMAIN decisions' = DOMAIN decisions
  BY <1>1
<1>3. ASSUME NEW n \in DOMAIN retrievals
      PROVE  /\ retrievals'[n] \in RetrievalRow
             /\ retrievals'[n].signals = retrievals[n].signals \ {s}
  <2>1. PICK left : left = retrievals[n].signals \ {s}
    OBVIOUS
  <2>2. retrievals'[n] = [retrievals[n] EXCEPT !.signals = left]
    BY <1>1, <2>1
  <2> QED
    BY <2>1, <2>2 DEF RowsTyped, RetrievalRow
<1>4. ASSUME NEW n \in DOMAIN decisions
      PROVE  /\ decisions'[n] \in DecisionRow
             /\ decisions'[n].signals = decisions[n].signals \ {s}
             /\ decisions'[n].of = decisions[n].of /\ decisions'[n].name = decisions[n].name
             /\ decisions'[n].at = decisions[n].at
  <2>1. PICK left : left = decisions[n].signals \ {s}
    OBVIOUS
  <2>2. decisions'[n] = [decisions[n] EXCEPT !.signals = left]
    BY <1>1, <2>1
  <2> QED
    BY <2>1, <2>2 DEF RowsTyped, DecisionRow
<1>5. ActivationTypeOK'
  <2>1. today' \in 1 .. LastDayOfUse /\ allowed' \subseteq stored' /\ stored' \subseteq Signals
    BY <1>1 DEF ActivationTypeOK
  <2>2. \A n \in DOMAIN retrievals' : retrievals'[n].signals \subseteq stored'
    BY <1>1, <1>2, <1>3 DEF ActivationTypeOK
  <2>3. \A n \in DOMAIN decisions' :
           /\ n <= decided' /\ decisions'[n].signals \subseteq stored'
           /\ decisions'[n].of.retrieval \in DOMAIN retrievals'
    <3> SUFFICES ASSUME NEW n \in DOMAIN decisions
                 PROVE  /\ n <= decided' /\ decisions'[n].signals \subseteq stored'
                        /\ decisions'[n].of.retrieval \in DOMAIN retrievals'
      BY <1>2
    <3>1. /\ n <= decided /\ decisions[n].signals \subseteq stored
          /\ decisions[n].of.retrieval \in DOMAIN retrievals
      BY DEF ActivationTypeOK
    <3>2. /\ decisions'[n].signals = decisions[n].signals \ {s}
          /\ decisions'[n].of = decisions[n].of
      BY <1>4
    <3> QED
      BY <1>1, <1>2, <3>1, <3>2
  <2>4. \A o \in DOMAIN outcomes' : outcomes'[o].of.decision \in DOMAIN decisions'
    BY <1>1, <1>2 DEF ActivationTypeOK
  <2> QED
    BY <2>1, <2>2, <2>3, <2>4 DEF ActivationTypeOK
<1>6. RowsTyped'
  <2>1. \A n \in DOMAIN retrievals' : n \in Int /\ retrievals'[n] \in RetrievalRow
    BY <1>2, <1>3 DEF RowsTyped
  <2>2. \A n \in DOMAIN decisions' :
           /\ n \in 1 .. decided' /\ decisions'[n] \in DecisionRow
           /\ decisions'[n].signals \subseteq decisions'[n].of.signals
    BY <1>1, <1>2, <1>4 DEF RowsTyped
  <2> QED
    BY <1>1, <2>1, <2>2 DEF RowsTyped
<1>7. NamesDiffer'
  BY <1>2, <1>4 DEF NamesDiffer
<1>8. RepliesFit'
  <2> SUFFICES ASSUME NEW reply \in replies' PROVE \E n \in DOMAIN decisions' : reply = Replied(n)'
    BY DEF RepliesFit
  <2>1. PICK n \in DOMAIN decisions : reply = Replied(n)
    BY <1>1 DEF RepliesFit
  <2> QED
    BY <1>2, <1>4, <2>1 DEF Replied
<1> QED
  BY <1>5, <1>6, <1>7, <1>8

LEMMA PurgeRetrievalsStep ==
  ASSUME ActivationInv, PurgeRetrievals
  PROVE  ActivationInv'
<1> USE DEF ActivationInv
<1>1. PICK gone : /\ retrievals' = Without(retrievals, gone) /\ Cascade(gone)
                  /\ UNCHANGED <<today, stored, allowed, decided>>
  BY DEF PurgeRetrievals
<1>2. PICK lost : lost = {n \in DOMAIN decisions : decisions[n].of.retrieval \in gone}
  OBVIOUS
<1>3. PICK unheard : unheard = {o \in DOMAIN outcomes : outcomes[o].of.decision \in lost}
  OBVIOUS
<1>4. /\ decisions' = Without(decisions, lost) /\ outcomes' = Without(outcomes, unheard)
      /\ replies' = {reply \in replies : reply.decision \notin lost}
  BY <1>1, <1>2, <1>3 DEF Cascade
<1>5. /\ DOMAIN retrievals' = DOMAIN retrievals \ gone
      /\ \A n \in DOMAIN retrievals' : retrievals'[n] = retrievals[n]
      /\ DOMAIN decisions' = DOMAIN decisions \ lost
      /\ \A n \in DOMAIN decisions' : decisions'[n] = decisions[n]
      /\ DOMAIN outcomes' = DOMAIN outcomes \ unheard
      /\ \A o \in DOMAIN outcomes' : outcomes'[o] = outcomes[o]
  BY <1>1, <1>4 DEF Without
<1>6. ActivationTypeOK'
  BY <1>1, <1>2, <1>3, <1>5 DEF ActivationTypeOK
<1>7. IsFiniteSet(DOMAIN outcomes')
  BY <1>5, FS_Subset DEF RowsTyped
<1>8. RowsTyped'
  BY <1>1, <1>5, <1>7 DEF RowsTyped
<1>9. NamesDiffer'
  BY <1>5 DEF NamesDiffer
<1>10. RepliesFit'
  <2> SUFFICES ASSUME NEW reply \in replies' PROVE \E n \in DOMAIN decisions' : reply = Replied(n)'
    BY DEF RepliesFit
  <2>1. PICK n \in DOMAIN decisions : reply = Replied(n)
    BY <1>4 DEF RepliesFit
  <2>2. n \in DOMAIN decisions'
    BY <1>4, <1>5, <2>1 DEF Replied
  <2> QED
    BY <1>5, <2>1, <2>2 DEF Replied
<1> QED
  BY <1>6, <1>8, <1>9, <1>10

LEMMA UsageStep == ActivationInv /\ [ActivationNext]_activationVars => ActivationInv'
<1> SUFFICES ASSUME ActivationInv, [ActivationNext]_activationVars PROVE ActivationInv'
  OBVIOUS
<1>1. CASE Retrieve
  BY <1>1, RetrieveStep
<1>2. CASE \E name \in DecisionNames, n \in DOMAIN retrievals, chosen \in SUBSET Signals,
              v \in Variants :
              RecordDecision(name, [retrieval |-> n, signals |-> chosen, variant |-> v])
  BY <1>2, DecisionStep
<1>3. CASE \E name \in OutcomeNames, n \in DOMAIN decisions, kind \in Kinds,
              occurred \in 1 .. today \cup {NotSent} :
              RecordOutcome(name, [decision |-> n, kind |-> kind, occurred |-> occurred])
  BY <1>3, OutcomeStep
<1>4. CASE (\E now \in SUBSET stored : ChangePermission(now)) \/ NextDay
  BY <1>4, QuietSteps
<1>5. CASE \E s \in Signals : PurgeSignal(s)
  BY <1>5, PurgeSignalStep
<1>6. CASE PurgeRetrievals
  BY <1>6, PurgeRetrievalsStep
<1>7. CASE UNCHANGED activationVars
  <2>1. UNCHANGED <<today, stored, allowed, retrievals, decisions, decided, outcomes, replies>>
    BY <1>7 DEF activationVars
  <2> QED
    BY <2>1, RepliesStay DEF ActivationInv, ActivationTypeOK, RowsTyped
<1> QED
  BY <1>1, <1>2, <1>3, <1>4, <1>5, <1>6, <1>7 DEF ActivationNext

LEMMA AnswersAlike == ActivationInv => AnsweredAlike
<1> SUFFICES ASSUME ActivationInv PROVE AnsweredAlike
  OBVIOUS
<1>1. ASSUME NEW a \in replies
      PROVE  a.decision \in DOMAIN decisions /\ a = Replied(a.decision)
  BY DEF ActivationInv, RepliesFit, Replied
<1>2. ASSUME NEW a \in replies, NEW b \in replies, a.decision = b.decision PROVE a = b
  BY <1>1, <1>2
<1>3. ASSUME NEW a \in replies PROVE a.signals = a.sent.signals
  <2>1. PICK n : n = a.decision
    OBVIOUS
  <2>2. a = Replied(n)
    BY <1>1, <2>1
  <2> QED
    BY ONLY <2>2 DEF Replied
<1> QED
  BY <1>2, <1>3 DEF AnsweredAlike, ActivationInv, NamesDiffer

-----------------------------------------------------------------------------
(* What the insights count is what the page shows.                           *)

OutcomesOn(n) == {o \in DOMAIN outcomes : outcomes[o].of.decision = n}

(* A decision as the page shows it.                                          *)
ShownAs(n) == [decision |-> n, signals |-> decisions[n].signals, outcomes |-> OutcomesOn(n)]

AllShown == \A n \in DOMAIN retrievals : retrievals[n].at >= today - UseRetained

DecisionsOf(day) == {n \in DOMAIN decisions : decisions[n].at >= day}

(* Those of them with a signal of a label.                                   *)
Labelled(label, day) ==
    {n \in DecisionsOf(day) : \E s \in decisions[n].signals : LabelOf[s] = label}

LEMMA PageIsWhole ==
  ASSUME ActivationInv, AllShown
  PROVE  DecisionsShown(today - UseRetained) = {ShownAs(n) : n \in DOMAIN decisions}
<1> DEFINE first == today - UseRetained
           ofRetrieval(r) == {n \in DOMAIN decisions : decisions[n].of.retrieval = r}
           rows == {m \in DOMAIN retrievals : retrievals[m].at >= first}
           row(r) == [retrieval |-> r, decisions |-> {ShownAs(n) : n \in ofRetrieval(r)}]
<1>1. PageSince(first) = {row(r) : r \in rows}
  BY DEF PageSince, ShownAs, OutcomesOn
<1>2. rows = DOMAIN retrievals
  BY DEF AllShown
<1>3. \A x : x \in DecisionsShown(first) <=>
                 \E r \in DOMAIN retrievals : x \in row(r).decisions
  <2>1. DecisionsShown(first) = UNION {w.decisions : w \in {row(r) : r \in DOMAIN retrievals}}
    BY <1>1, <1>2 DEF DecisionsShown
  <2> HIDE DEF row, rows
  <2> QED
    BY <2>1
<1>4. ASSUME NEW n \in DOMAIN decisions
      PROVE  \E r \in DOMAIN retrievals : n \in ofRetrieval(r)
  BY DEF ActivationInv, ActivationTypeOK
<1>5. \A r : row(r).decisions = {ShownAs(n) : n \in ofRetrieval(r)}
  OBVIOUS
<1> HIDE DEF row, rows
<1>6. \A x : x \in DecisionsShown(first) <=> \E n \in DOMAIN decisions : x = ShownAs(n)
  BY <1>3, <1>4, <1>5
<1> QED
  BY <1>6

LEMMA AsManyShown ==
  ASSUME NEW D, IsFiniteSet(D)
  PROVE  Cardinality({ShownAs(n) : n \in D}) = Cardinality(D)
<1> DEFINE T == {ShownAs(n) : n \in D}
           f == [n \in D |-> ShownAs(n)]
<1>1. \A m, n \in D : ShownAs(m) = ShownAs(n) => m = n
  BY DEF ShownAs
<1>2. f \in Bijection(D, T)
  BY <1>1 DEF Bijection, Injection, Surjection, IsInjective
<1>3. ExistsBijection(D, T)
  BY <1>2 DEF ExistsBijection
<1> QED
  BY <1>3, FS_Bijection

LEMMA DecisionsFinite ==
  ASSUME ActivationInv
  PROVE  IsFiniteSet(DOMAIN decisions)
<1>1. decided \in Nat /\ DOMAIN decisions \subseteq 1 .. decided
  BY DEF ActivationInv, RowsTyped
<1>2. IsFiniteSet(1 .. decided)
  BY <1>1, FS_Interval
<1> QED
  BY <1>1, <1>2, FS_Subset

LEMMA LinksAre ==
  ASSUME ActivationInv, NEW label, NEW day
  PROVE  /\ \A link \in LinksSince(label, day) :
              /\ link = <<link[1], link[2]>>
              /\ link[1] \in Labelled(label, day)
              /\ link[2] \in decisions[link[1]].signals /\ LabelOf[link[2]] = label
         /\ \A n \in DecisionsOf(day) : \A s \in decisions[n].signals :
              LabelOf[s] = label => <<n, s>> \in LinksSince(label, day)
         /\ IsFiniteSet(LinksSince(label, day))
<1> DEFINE links == LinksSince(label, day)
<1>1. \A link : link \in links <=>
         \E n \in DecisionsOf(day) : \E s \in decisions[n].signals :
            LabelOf[s] = label /\ link = <<n, s>>
  BY DEF LinksSince, DecisionsOf
<1>2. ASSUME NEW link \in links
      PROVE  /\ link = <<link[1], link[2]>>
             /\ link[1] \in Labelled(label, day)
             /\ link[2] \in decisions[link[1]].signals /\ LabelOf[link[2]] = label
  <2>1. PICK n \in DecisionsOf(day) : \E s \in decisions[n].signals :
           LabelOf[s] = label /\ link = <<n, s>>
    BY <1>1
  <2>2. PICK s \in decisions[n].signals : LabelOf[s] = label /\ link = <<n, s>>
    BY <2>1
  <2> QED
    BY <2>2 DEF Labelled
<1>3. links \subseteq (DOMAIN decisions) \X Signals
  <2> SUFFICES ASSUME NEW link \in links PROVE link \in (DOMAIN decisions) \X Signals
    OBVIOUS
  <2>1. link[1] \in DOMAIN decisions
    BY <1>2 DEF Labelled, DecisionsOf
  <2>2. link[2] \in Signals
    BY <1>2, <2>1 DEF ActivationInv, RowsTyped, DecisionRow
  <2> QED
    BY <1>2, <2>1, <2>2
<1>4. IsFiniteSet((DOMAIN decisions) \X Signals)
  BY DecisionsFinite, FS_Product, ActivationAssumption
<1>5. IsFiniteSet(links)
  BY <1>3, <1>4, FS_Subset
<1> HIDE DEF links
<1> QED
  BY <1>1, <1>2, <1>5 DEF links

LEMMA FunnelAddsUp ==
  ASSUME ActivationInv, AllShown, NEW day
  PROVE  LET shown == DecisionsShown(today - UseRetained)
             since == {d \in shown : decisions[d.decision].at >= day}
             all == UNION {d.outcomes : d \in shown}
         IN  /\ since = {ShownAs(n) : n \in DecisionsOf(day)}
             /\ FunnelSince(day).decisions = Cardinality(since)
             /\ FunnelSince(day).outcomes = Cardinality({o \in all : outcomes[o].at >= day})
<1> DEFINE shown == DecisionsShown(today - UseRetained)
           since == {d \in shown : decisions[d.decision].at >= day}
           all == UNION {d.outcomes : d \in shown}
<1>1. shown = {ShownAs(n) : n \in DOMAIN decisions}
  BY PageIsWhole
<1> HIDE DEF shown
<1>2. \A n : ShownAs(n).decision = n /\ ShownAs(n).outcomes = OutcomesOn(n)
  BY DEF ShownAs
<1>3. since = {ShownAs(n) : n \in DecisionsOf(day)}
  BY <1>1, <1>2 DEF DecisionsOf
<1>4. IsFiniteSet(DecisionsOf(day))
  BY DecisionsFinite, FS_Subset DEF DecisionsOf
<1>5. Cardinality(since) = Cardinality(DecisionsOf(day))
  BY <1>3, <1>4, AsManyShown
<1>6. all = DOMAIN outcomes
  <2>1. ASSUME NEW o \in all PROVE o \in DOMAIN outcomes
    BY <1>1, <1>2 DEF OutcomesOn
  <2>2. ASSUME NEW o \in DOMAIN outcomes PROVE o \in all
    <3>1. outcomes[o].of.decision \in DOMAIN decisions
      BY DEF ActivationInv, ActivationTypeOK
    <3>2. o \in ShownAs(outcomes[o].of.decision).outcomes
      BY <1>2 DEF OutcomesOn
    <3> QED
      BY <1>1, <3>1, <3>2
  <2> QED
    BY <2>1, <2>2
<1> HIDE DEF since, all
<1>7. /\ FunnelSince(day).decisions = Cardinality(DecisionsOf(day))
      /\ FunnelSince(day).outcomes = Cardinality({o \in DOMAIN outcomes : outcomes[o].at >= day})
  BY DEF FunnelSince, DecisionsOf
<1>8. {o \in DOMAIN outcomes : outcomes[o].at >= day} = {o \in all : outcomes[o].at >= day}
  BY <1>6
<1> QED
  BY <1>3, <1>5, <1>7, <1>8 DEF since, all, shown

(* The pairs of a link and an outcome that the query by signal counts.        *)
PairsOf(label, day) ==
    {pair \in LinksSince(label, day) \X DOMAIN outcomes :
        outcomes[pair[2]].of.decision = pair[1][1]}

(* The outcomes of the decisions it counts them for.                         *)
HeardOf(label, day) ==
    {o \in DOMAIN outcomes : outcomes[o].of.decision \in Labelled(label, day)}

LEMMA PairsCover ==
  ASSUME ActivationInv, NEW label, NEW day
  PROVE  /\ IsFiniteSet(PairsOf(label, day))
         /\ IsFiniteSet(HeardOf(label, day))
         /\ Cardinality(PairsOf(label, day)) \in Nat
         /\ Cardinality(HeardOf(label, day)) \in Nat
         /\ Cardinality(HeardOf(label, day)) <= Cardinality(PairsOf(label, day))
         /\ (\A n \in Labelled(label, day) :
                Cardinality({s \in decisions[n].signals : LabelOf[s] = label}) = 1)
            => Cardinality(PairsOf(label, day)) = Cardinality(HeardOf(label, day))
<1> DEFINE P == PairsOf(label, day)
           O == HeardOf(label, day)
           f == [p \in P |-> p[2]]
           signalsOf(n) == {s \in decisions[n].signals : LabelOf[s] = label}
<1>1. IsFiniteSet(P)
  <2>1. IsFiniteSet(LinksSince(label, day) \X DOMAIN outcomes)
    BY LinksAre, FS_Product DEF ActivationInv, RowsTyped
  <2> QED
    BY <2>1, FS_Subset DEF PairsOf
<1>2. ASSUME NEW p \in P
      PROVE  /\ p = <<<<p[1][1], p[1][2]>>, p[2]>> /\ p[2] \in O
             /\ outcomes[p[2]].of.decision = p[1][1] /\ p[1][1] \in Labelled(label, day)
             /\ p[1][2] \in signalsOf(p[1][1])
  <2>1. /\ p[1] \in LinksSince(label, day) /\ p[2] \in DOMAIN outcomes /\ p = <<p[1], p[2]>>
        /\ outcomes[p[2]].of.decision = p[1][1]
    BY DEF PairsOf
  <2>2. /\ p[1] = <<p[1][1], p[1][2]>> /\ p[1][1] \in Labelled(label, day)
        /\ p[1][2] \in decisions[p[1][1]].signals /\ LabelOf[p[1][2]] = label
    BY <2>1, LinksAre
  <2> QED
    BY <2>1, <2>2 DEF HeardOf
<1>3. ASSUME NEW o \in O PROVE \E p \in P : p[2] = o
  <2>1. PICK n \in Labelled(label, day) : outcomes[o].of.decision = n /\ o \in DOMAIN outcomes
    BY DEF HeardOf
  <2>2. PICK s \in decisions[n].signals : LabelOf[s] = label
    BY DEF Labelled
  <2>3. <<n, s>> \in LinksSince(label, day)
    BY <2>2, LinksAre DEF Labelled
  <2>4. <<<<n, s>>, o>> \in P
    BY <2>1, <2>3 DEF PairsOf
  <2> QED
    BY <2>4
<1>4. f \in Surjection(P, O)
  <2>1. f \in [P -> O]
    BY <1>2
  <2>2. \A o \in O : \E p \in P : f[p] = o
    BY <1>3
  <2> HIDE DEF f, P, O
  <2> QED
    BY <2>1, <2>2 DEF Surjection
<1>5. IsFiniteSet(O) /\ Cardinality(O) <= Cardinality(P)
  BY <1>1, <1>4, FS_Surjection
<1>6. Cardinality(O) \in Nat /\ Cardinality(P) \in Nat
  BY <1>1, <1>5, FS_CardinalityType
<1>7. ASSUME \A n \in Labelled(label, day) : Cardinality(signalsOf(n)) = 1
      PROVE  Cardinality(P) = Cardinality(O)
  <2>1. ASSUME NEW n \in Labelled(label, day), NEW s \in signalsOf(n), NEW t \in signalsOf(n)
        PROVE  s = t
    <3>1. signalsOf(n) \in SUBSET Signals
      BY DEF Labelled, DecisionsOf, ActivationInv, RowsTyped, DecisionRow
    <3>2. IsFiniteSet(signalsOf(n))
      BY <3>1, ActivationAssumption, FS_Subset
    <3>3. \E x : signalsOf(n) = {x}
      <4> DEFINE S == signalsOf(n)
      <4>1. Cardinality(S) = 1 /\ IsFiniteSet(S)
        BY <1>7, <3>2
      <4> HIDE DEF S
      <4>2. \E x : S = {x}
        BY <4>1, FS_Singleton
      <4> QED
        BY <4>2 DEF S
    <3> QED
      BY <3>3
  <2>2. ASSUME NEW p \in P, NEW q \in P, p[2] = q[2] PROVE p = q
    <3>1. p[1][1] = q[1][1]
      BY <1>2, <2>2
    <3>2. p[1][2] = q[1][2]
      BY <1>2, <2>1, <3>1
    <3> QED
      BY <1>2, <2>2, <3>1, <3>2
  <2>3. f \in Injection(P, O)
    <3>1. f \in [P -> O]
      BY <1>2
    <3>2. \A p, q \in P : f[p] = f[q] => p = q
      BY <2>2
    <3> HIDE DEF f, P, O
    <3> QED
      BY <3>1, <3>2 DEF Injection, IsInjective
  <2> QED
    BY <1>1, <1>4, <2>3, FS_Surjection
<1> QED
  BY <1>1, <1>5, <1>6, <1>7

LEMMA SignalsAddUp ==
  ASSUME ActivationInv, NEW label, NEW day
  PROVE  /\ OutcomesOf(label, day).decisions = Cardinality(Labelled(label, day))
         /\ OutcomesOf(label, day).outcomes = Cardinality(PairsOf(label, day))
         /\ OutcomesOf(label, day).conversions <= Cardinality(PairsOf(label, day))
<1> DEFINE links == LinksSince(label, day)
           converted == {pair \in links \X DOMAIN outcomes :
                            /\ outcomes[pair[2]].of.decision = pair[1][1]
                            /\ outcomes[pair[2]].of.kind = "conversion"}
<1>1. {link[1] : link \in links} = Labelled(label, day)
  <2>1. ASSUME NEW n \in Labelled(label, day) PROVE n \in {link[1] : link \in links}
    <3>1. PICK s \in decisions[n].signals : LabelOf[s] = label
      BY DEF Labelled
    <3>2. <<n, s>> \in links /\ <<n, s>>[1] = n
      BY <3>1, LinksAre DEF Labelled
    <3> QED
      BY <3>2
  <2> QED
    BY <2>1, LinksAre
<1>2. Cardinality(converted) <= Cardinality(PairsOf(label, day))
  <2>1. converted \in SUBSET PairsOf(label, day)
    BY DEF PairsOf
  <2> QED
    BY <2>1, PairsCover, FS_Subset
<1>3. PairsOf(label, day) =
         {pair \in links \X DOMAIN outcomes : outcomes[pair[2]].of.decision = pair[1][1]}
  BY DEF PairsOf
<1>4. /\ OutcomesOf(label, day).decisions = Cardinality({link[1] : link \in links})
      /\ OutcomesOf(label, day).outcomes =
            Cardinality({pair \in links \X DOMAIN outcomes :
                            outcomes[pair[2]].of.decision = pair[1][1]})
      /\ OutcomesOf(label, day).conversions = Cardinality(converted)
  BY DEF OutcomesOf
<1> QED
  BY <1>1, <1>2, <1>3, <1>4

LEMMA FiguresAddUp == ActivationInv => UseAddsUp
<1> SUFFICES ASSUME ActivationInv, AllShown, NEW day \in today - UseRetained .. today
             PROVE
        LET shown == DecisionsShown(today - UseRetained)
            since == {d \in shown : decisions[d.decision].at >= day}
            all == UNION {d.outcomes : d \in shown}
        IN  /\ FunnelSince(day).decisions = Cardinality(since)
            /\ FunnelSince(day).outcomes = Cardinality({o \in all : outcomes[o].at >= day})
            /\ \A label \in {LabelOf[s] : s \in Signals} :
                  LET naming == {d \in since : \E s \in d.signals : LabelOf[s] = label}
                      counted == OutcomesOf(label, day)
                      once == Cardinality(UNION {d.outcomes : d \in naming})
                  IN  /\ counted.decisions = Cardinality(naming)
                      /\ counted.conversions <= counted.outcomes
                      /\ counted.outcomes >= once
                      /\ (\A d \in naming :
                              Cardinality({s \in d.signals : LabelOf[s] = label}) = 1)
                          => counted.outcomes = once
  BY DEF UseAddsUp, AllShown
<1> DEFINE shown == DecisionsShown(today - UseRetained)
           since == {d \in shown : decisions[d.decision].at >= day}
           all == UNION {d.outcomes : d \in shown}
           naming(label) == {d \in since : \E s \in d.signals : LabelOf[s] = label}
           once(label) == UNION {d.outcomes : d \in naming(label)}
<1>1. /\ since = {ShownAs(n) : n \in DecisionsOf(day)}
      /\ FunnelSince(day).decisions = Cardinality(since)
      /\ FunnelSince(day).outcomes = Cardinality({o \in all : outcomes[o].at >= day})
  BY FunnelAddsUp
<1>2. ASSUME NEW label
      PROVE  /\ OutcomesOf(label, day).decisions = Cardinality(naming(label))
             /\ OutcomesOf(label, day).conversions <= OutcomesOf(label, day).outcomes
             /\ OutcomesOf(label, day).outcomes >= Cardinality(once(label))
             /\ (\A d \in naming(label) :
                    Cardinality({s \in d.signals : LabelOf[s] = label}) = 1)
                => OutcomesOf(label, day).outcomes = Cardinality(once(label))
  <2> HIDE DEF since
  <2>1. \A n : /\ ShownAs(n).signals = decisions[n].signals
               /\ ShownAs(n).outcomes = OutcomesOn(n)
    BY DEF ShownAs
  <2>2. naming(label) = {ShownAs(n) : n \in Labelled(label, day)}
    BY <1>1, <2>1 DEF Labelled
  <2> HIDE DEF naming
  <2>3. once(label) = HeardOf(label, day)
    BY <2>1, <2>2 DEF OutcomesOn, HeardOf
  <2>4. IsFiniteSet(Labelled(label, day))
    <3>1. Labelled(label, day) \in SUBSET DOMAIN decisions
      BY DEF Labelled, DecisionsOf
    <3> QED
      BY <3>1, DecisionsFinite, FS_Subset
  <2>5. Cardinality(naming(label)) = Cardinality(Labelled(label, day))
    BY <2>2, <2>4, AsManyShown
  <2>6. ASSUME \A d \in naming(label) : Cardinality({s \in d.signals : LabelOf[s] = label}) = 1
        PROVE  Cardinality(PairsOf(label, day)) = Cardinality(HeardOf(label, day))
    <3>1. ASSUME NEW n \in Labelled(label, day)
          PROVE  Cardinality({s \in decisions[n].signals : LabelOf[s] = label}) = 1
      <4>1. PICK d \in naming(label) : d = ShownAs(n)
        BY <2>2
      <4>2. Cardinality({s \in d.signals : LabelOf[s] = label}) = 1
        BY <2>6
      <4> QED
        BY <4>1, <4>2, <2>1
    <3> QED
      BY <3>1, PairsCover
  <2>7. Cardinality(HeardOf(label, day)) \in Nat /\ Cardinality(PairsOf(label, day)) \in Nat
        /\ Cardinality(HeardOf(label, day)) <= Cardinality(PairsOf(label, day))
    BY PairsCover
  <2> HIDE DEF once
  <2> QED
    BY <2>3, <2>5, <2>6, <2>7, SignalsAddUp
<1> QED
  BY <1>1, <1>2, Zenon

-----------------------------------------------------------------------------
(* All sides.                                                                *)

SystemInv ==
    /\ side \in {"consent", "contract", "activation"}
    /\ CustomerInv /\ PageInv /\ ContractInv /\ ActivationInv

LEMMA SystemBegins == ContextInit => SystemInv
BY CustomerInit, PageInit, ContractBegins, ActivationBegins DEF ContextInit, SystemInv

(* A step of the system is a step of each side, or leaves it alone.          *)
LEMMA SidesMove ==
  ASSUME [ContextNext]_<<side, vars, contractVars, activationVars>>
  PROVE  /\ side' = side
         /\ [Next]_vars
         /\ [ContractNext]_contractVars
         /\ [ActivationNext]_activationVars
BY DEF ContextNext

LEMMA SystemStep ==
  SystemInv /\ [ContextNext]_<<side, vars, contractVars, activationVars>> => SystemInv'
<1> SUFFICES ASSUME SystemInv, [ContextNext]_<<side, vars, contractVars, activationVars>>
             PROVE  SystemInv'
  OBVIOUS
<1>1. CustomerInv' /\ PageInv'
  BY SidesMove, CustomerStep, PageStep DEF SystemInv
<1>2. ContractInv' /\ ActivationInv'
  BY SidesMove, ContractStep, UsageStep DEF SystemInv
<1> QED
  BY <1>1, <1>2, SidesMove DEF SystemInv

LEMMA SystemAlways == ContextSpec => []SystemInv
BY SystemBegins, SystemStep, PTL DEF ContextSpec

(* Whatever is stored keeps its shape: requests with their grants and items,  *)
(* catalogues with what they froze, and decisions and outcomes with the rows  *)
(* they refer to, across merges, expiry and the cascades of retention.       *)
THEOREM ContextTyped == ContextSpec => []ContextTypeOK
<1>1. SystemInv => ContextTypeOK
  BY DEF SystemInv, CustomerInv, ContractInv, ActivationInv, ContextTypeOK
<1> QED
  BY <1>1, SystemAlways, PTL

(* The responses page, its rollup, the customer's page and the insights tell  *)
(* one story of what was asked, permitted, returned and used, and the product *)
(* is answered alike however often it reports a decision.                    *)
THEOREM PagesAreTrue == ContextSpec => []PagesTellTheTruth
<1>1. SystemInv => PagesTellTheTruth
  BY PagesFollow, FiguresAddUp, AnswersAlike DEF SystemInv, PagesTellTheTruth
<1> QED
  BY <1>1, SystemAlways, PTL

=============================================================================
