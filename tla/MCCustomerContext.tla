-------------------------- MODULE MCCustomerContext --------------------------
(* Customer context on small sets.                                           *)
EXTENDS ContextSystem, TLC

CONSTANTS i3, f1, f2, w1

MCSymmetry == Permutations(Interactions)

MCBuiltIn == {[field |-> f1, values |-> {1, 2}, safe |-> FALSE]}

MCDefinitions ==
    LET defined(values, safe, operations, enabled) ==
            [values |-> values, safe |-> safe, operations |-> operations, enabled |-> enabled]
    IN  {defined({1}, TRUE, {"read", "pay"}, TRUE), defined({2}, FALSE, {}, TRUE),
         defined({2, Bad}, FALSE, {}, TRUE)}

(* Calls of one interaction that may meet: with and without a status, a       *)
(* session or headers, of two operations and surfaces, to remember or not, by  *)
(* someone or no one, for all fields or for some; the last is no good call.    *)
MCCalls ==
    LET calling(operation, surface, purpose, status, remember, select) ==
            [interaction |-> i3, operation |-> operation, surface |-> surface,
             owner |-> "default", session |-> Absent, headers |-> "blank", identified |-> TRUE,
             purpose |-> purpose, status |-> status, remember |-> remember, select |-> select]
        plain == calling("read", "html", "targeted_advertising", 0, FALSE, {})
    IN  {[calling("read", "html", "personalization", 1, TRUE, {}) EXCEPT
             !.session = w1, !.headers = "sent"],
         plain,
         [calling("pay", "mcp", "personalization", 0, TRUE, {f1}) EXCEPT
             !.owner = "company_mcp", !.session = w1, !.headers = "none", !.identified = FALSE],
         calling("read", "html", "targeted_advertising", 1, TRUE, {f1, f2}),
         [plain EXCEPT !.owner = "company_mcp", !.session = Bad]}

(* Two signals of one label: what one customer likes, asked twice.            *)
MCLabels == [s \in Signals |-> "likes"]

(* What tells two states apart: the side that moves, without the decision     *)
(* just recorded, which no step reads: every decision possible in a state is  *)
(* checked on the step that records it.                                      *)
SideView ==
    <<side,
      CASE side = "consent" -> <<merged, requests, live, grants, items, words, lastWord, retrieval>>
        [] side = "contract" -> contractVars
        [] side = "activation" -> activationVars>>

=============================================================================
