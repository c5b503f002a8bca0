----------------------------- MODULE MCSdkConsent -----------------------------
(* Three parts that share no state here: the handlers that record a consent   *)
(* decision, the middleware that answers agents from what it last looked up, *)
(* and the groups of the reports that consent admits.  A behaviour is one of  *)
(* either.                                                                   *)
EXTENDS MCFeedbackConsent, SdkMiddleware, ReportGroups

CONSTANTS c1, c2

VARIABLE side

(* An object a shared cache may keep, an object that is enveloped already, and *)
(* a page with and without a content encoding.                               *)
MCPages ==
    LET page(kind, encoded, policy) ==
            [kind |-> kind, whole |-> TRUE, encoded |-> encoded, policy |-> policy]
    IN  {page("object", FALSE, "shared"), page("enveloped", FALSE, "none"),
         page("html", TRUE, "none"), page("html", FALSE, "none")}

Found(severity, kind, topic) == [severity |-> severity, kind |-> kind, topic |-> topic]

(* A minor defect below an observation and beside another of its rank; a      *)
(* blocking friction, with its topic spelled in another way; one on nothing.  *)
MCSent ==
    {<<Found(0, 6, 2), Found(1, 7, 1), Found(1, 7, 3)>>,
     <<Found(3, 6, 4)>>,
     <<Found(3, 6, 5)>>}

MCTopicOf == <<1, 2, 3, 2, NoTopic>>

SidesInit ==
    side \in {"handlers", "middleware", "groups"} /\ Init /\ MiddlewareInit /\ GroupsInit

(* The side that does not move stays where it began: one of its beginnings is *)
(* as good as another.                                                       *)
SidesNext ==
    \/ side = "handlers" /\ Next /\ UNCHANGED <<side, middlewareVars, groupsVars>>
    \/ side = "middleware" /\ MiddlewareNext /\ UNCHANGED <<side, vars, groupsVars>>
    \/ side = "groups" /\ GroupsNext /\ UNCHANGED <<side, vars, middlewareVars>>

SidesSpec == SidesInit /\ [][SidesNext]_<<side, vars, middlewareVars, groupsVars>>

(* What tells two states apart: the side that moves.                         *)
SideView ==
    <<side, CASE side = "handlers" -> vars
              [] side = "middleware" -> middlewareVars
              [] side = "groups" -> groupsVars>>

=============================================================================
