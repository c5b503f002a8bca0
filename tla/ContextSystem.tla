---------------------------- MODULE ContextSystem ----------------------------
(***************************************************************************)
(* The sides of customer context, which share no state: who is asked and    *)
(* what they permit, with the pages that show it; what a request may        *)
(* collect; and what a product tells of its use.                            *)
(***************************************************************************)
EXTENDS ContextReads, ContextContract, Activation

VARIABLE side   \* the side that moves

ContextInit ==
    side \in {"consent", "contract", "activation"} /\ Init /\ ContractInit /\ ActivationInit

ContextNext ==
    \/ side = "consent" /\ Next /\ UNCHANGED <<side, contractVars, activationVars>>
    \/ side = "contract" /\ ContractNext /\ UNCHANGED <<side, vars, activationVars>>
    \/ side = "activation" /\ ActivationNext /\ UNCHANGED <<side, vars, contractVars>>

ContextSpec == ContextInit /\ [][ContextNext]_<<side, vars, contractVars, activationVars>>

-----------------------------------------------------------------------------
(* The types of the side that moves.                                         *)
ContextTypeOK ==
    CASE side = "consent" -> TypeOK
      [] side = "contract" -> ContractTypeOK
      [] side = "activation" -> ActivationTypeOK

(* What the pages and the insights say of context and its use is so, and      *)
(* agrees; the product is answered alike whenever it reports its use again.  *)
PagesTellTheTruth == ContextShown /\ UseAddsUp /\ AnsweredAlike

=============================================================================
