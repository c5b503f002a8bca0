------------------------------ MODULE MCConsole ------------------------------
(* ConsoleSystem for three people, two requests, calls, editors and callbacks *)
(* at a time, a visitor, its user and their account, and four migrations.     *)
EXTENDS ConsoleSystem, TLC

CONSTANTS creator, alice, bob, r1, r2

(* Requests and people are alike; the teams of the GitHub side are those of   *)
(* alice and bob.                                                            *)
MCPeople == Permutations({r1, r2}) \cup Permutations({alice, bob})

Plain == [id |-> 1, user |-> NoOne, account |-> NoOne, visitor |-> NoOne, session |-> 1,
          link |-> FALSE]

(* The account, its member after a visit, the visit, and activity nobody     *)
(* owns.                                                                     *)
MCTelemetry ==
    {[Plain EXCEPT !.account = 2],
     [Plain EXCEPT !.id = 2, !.visitor = 3, !.link = TRUE],
     [Plain EXCEPT !.id = 2, !.user = 1, !.account = 2, !.visitor = 3, !.session = NoSession]}

(* A blocked report with a finding, a report without one, and one whose      *)
(* finding competes with its outcome.                                        *)
MCContents ==
    LET says(impact, kinds, above) ==
            [impact |-> impact, kinds |-> kinds, topic |-> Least(Topics), above |-> above]
    IN  {says("blocked", {"friction"}, FALSE), says("helped", {}, FALSE),
         says("helped", {"other"}, TRUE)}

MCHop ==
    [i \in Interactions |->
        CASE i = 1 -> {"vendor", "graph", "needs", "missing"}
          [] i = 2 -> {"page", "link"}
          [] OTHER -> {"machine", "decision", "mcp"}]

MCResembles == {<<t, t>> : t \in Topics} \cup {<<Least(Topics), Greatest(Topics)>>}

(* Bound: two invitations while there is one member, one once there are two   *)
(* or three; what comes after the steps that go beyond is not looked at.     *)
SmallTeam ==
    LET many == Cardinality({u \in People : members[u] # "none"})
    IN  Cardinality(InviteIds) <= IF many = 1 THEN 2 ELSE 1

(* What tells two states apart: the side that moves.                         *)
SideView ==
    <<side, CASE side = "team" -> teamVars
              [] side = "reads" -> vars
              [] side = "sign_in" -> signInVars
              [] side = "keys" -> keysVars
              [] side = "github" -> installVars
              [] side = "rollout" -> rolloutVars>>

=============================================================================
