---------------------------- MODULE ContextReads ----------------------------
(***************************************************************************)
(* What the dashboard shows of customer context: the page of the answers    *)
(* customer agents returned with its rollup, the context figures of the     *)
(* insights, and the permissions and returned context on a customer's page. *)
(* Each reads the rows of CustomerContext with a selection of its own.       *)
(***************************************************************************)
EXTENDS CustomerContext

Questions == {i \in Interactions : requests[i].state # "none"}

Merged(c) == c = Visitor /\ merged

-----------------------------------------------------------------------------
(* The responses page.                                                       *)

(* COALESCE(answer.status, request.state)                                    *)
Outcome(i) == IF requests[i].answer = "none" THEN requests[i].state ELSE requests[i].answer

ResponseStatus(i) ==
    CASE requests[i].answer = "answered" -> "answered"
      [] requests[i].answer # "answered" /\ Outcome(i) \in {"declined", "no_relevant_context"}
         -> Outcome(i)
      [] OTHER -> "awaiting_answer"

(* The customer a response is shown under, the survivor of a merge.          *)
ResponseCustomer(i) ==
    IF Merged(requests[i].customer) THEN Known ELSE requests[i].customer

Rollup ==
    [questions |-> Cardinality(Questions),
     answered |-> Cardinality({i \in Questions : requests[i].answer = "answered"}),
     awaiting |-> Cardinality({i \in Questions : /\ requests[i].answer = "none"
                                                 /\ requests[i].state \notin
                                                      {"declined", "no_relevant_context"}}),
     declined |-> Cardinality({i \in Questions : Outcome(i) = "declined"})]

Shown(status) == {i \in Questions : ResponseStatus(i) = status}

-----------------------------------------------------------------------------
(* Context figures of the insights.                                          *)

EligibleContext == {m \in items : m.customer # Nobody /\ m.remembered /\ ~OptedOut(m)}

ReadyCustomers == {m.customer : m \in EligibleContext}

(* Questions without an answer, by the state of their request alone.         *)
Unanswered == {i \in Interactions : requests[i].state \in {"declined", "no_relevant_context"}}

-----------------------------------------------------------------------------
(* A customer's page.                                                        *)

(* dashboard_customer_context_returns                                        *)
ReturnShownTo(c) == retrieval.customer = c

PermissionsOf(c) ==
    {p \in Subjects \X Scopes : grants[p[1]][p[2]].state # "none"
                                /\ grants[p[1]][p[2]].customer = c}

-----------------------------------------------------------------------------
(* Properties.                                                               *)

(* The rollup counts what the page shows, answers are shown with answered    *)
(* questions alone and under a customer that still is one, and the insights  *)
(* count as unanswered what the page shows so, but for an answer that        *)
(* declined before a later permission put its request back to ready.         *)
ResponsesAddUp ==
    /\ Rollup.answered = Cardinality(Shown("answered"))
    /\ Rollup.awaiting = Cardinality(Shown("awaiting_answer"))
    /\ Rollup.declined = Cardinality(Shown("declined"))
    /\ Rollup.questions - Rollup.answered - Rollup.awaiting - Rollup.declined =
        Cardinality(Shown("no_relevant_context"))
    /\ \A m \in items : m.from \in Shown("answered")
    /\ \A i \in Questions : ResponseCustomer(i) = requests[i].customer
    /\ Unanswered \subseteq Shown("declined") \cup Shown("no_relevant_context")
    /\ \A i \in (Shown("declined") \cup Shown("no_relevant_context")) \ Unanswered :
        requests[i].answer = "declined"

(* A customer counted as ready for personalization is served what was        *)
(* counted, and is no merged visitor.                                        *)
ReadyIsServed ==
    /\ \A c \in ReadyCustomers :
        ~Merged(c) /\ Remembered(c) = {m \in EligibleContext : m.customer = c}
    /\ \A c \in Customers : Remembered(c) # {} => c \in ReadyCustomers

(* Nothing is used behind a customer's back: context that was returned is on *)
(* the page of the customer it is of, and so is what the customer decided    *)
(* last, also when it was decided by a visitor merged since.                 *)
UseIsShown ==
    /\ \A k \in retrieval.items, m \in items :
        m.from = k.from /\ m.remembered = k.remembered /\ m.customer # Nobody
        => ReturnShownTo(m.customer)
    /\ \A c \in Customers :
        lastWord[c].at > 0 /\ ~Merged(c) =>
            \E p \in PermissionsOf(c) : /\ grants[p[1]][p[2]].decided = lastWord[c].at
                                        /\ grants[p[1]][p[2]].state = lastWord[c].answer

ContextShown == ResponsesAddUp /\ ReadyIsServed /\ UseIsShown

=============================================================================
