----------------------------- MODULE ConsoleSystem -----------------------------
(***************************************************************************)
(* The sides of the dashboard, which share no state: who may use it, what it  *)
(* shows, how its user stays signed in, how a team sets up its products and   *)
(* keys, and its GitHub installation; and the releases of the service behind  *)
(* it.  A behaviour is one of either.                                        *)
(***************************************************************************)
EXTENDS TeamAccess, DashboardOverview, SignIn, ApiKeys, GithubInstall, Rollout

VARIABLE side

Sides == {"team", "reads", "sign_in", "keys", "github", "rollout"}

ConsoleInit ==
    side \in Sides /\ TeamInit /\ Init /\ SignInInit /\ KeysInit /\ InstallInit
    /\ RolloutInit

Of(one, step) == side = one /\ step /\ UNCHANGED side

ConsoleNext ==
    \/ Of("team", TeamNext) /\ UNCHANGED <<vars, signInVars, keysVars, installVars, rolloutVars>>
    \/ Of("reads", Next) /\ UNCHANGED <<teamVars, signInVars, keysVars, installVars, rolloutVars>>
    \/ Of("sign_in", SignInNext) /\ UNCHANGED <<vars, teamVars, keysVars, installVars, rolloutVars>>
    \/ Of("keys", KeysNext) /\ UNCHANGED <<vars, teamVars, signInVars, installVars, rolloutVars>>
    \/ Of("github", InstallNext) /\ UNCHANGED <<vars, teamVars, signInVars, keysVars, rolloutVars>>
    \/ Of("rollout", RolloutNext) /\ UNCHANGED <<vars, teamVars, signInVars, keysVars, installVars>>

consoleVars == <<side, vars, teamVars, signInVars, keysVars, installVars, rolloutVars>>

ConsoleSpec == ConsoleInit /\ [][ConsoleNext]_consoleVars

(* The types of the side that moves.                                         *)
ConsoleTypeOK ==
    CASE side = "team" -> TeamTypeOK
      [] side = "reads" -> TypeOK
      [] side = "sign_in" -> SignInTypeOK
      [] side = "keys" -> KeysTypeOK
      [] side = "github" -> InstallTypeOK
      [] side = "rollout" -> RolloutTypeOK

==============================================================================
