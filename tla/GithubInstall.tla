----------------------------- MODULE GithubInstall -----------------------------
(***************************************************************************)
(* How a team comes to its GitHub installation and keeps it: a browser goes  *)
(* to GitHub and returns with an installation, and GitHub reports what       *)
(* becomes of it by webhooks that come late, twice or out of order.          *)
(* There is one installation, which each team might claim, one browser of a  *)
(* user of all teams, and one product in each team.                         *)
(***************************************************************************)
EXTENDS Naturals, FiniteSets

CONSTANTS
    Teams,
    NoTeam,
    Callbacks,      \* callbacks of the browser in flight
    NoCallback,
    MaxFlows,       \* bound: flows the browser starts
    MaxVersion      \* bound: changes of the installation at GitHub

ASSUME InstallAssumption == NoTeam \notin Teams /\ MaxFlows \in Nat /\ MaxVersion \in Nat

VARIABLES
    flows,          \* the team of each flow that was started
    flow,           \* the flow in the cookies, 0 for none
    editors,        \* teams the user may configure
    github,         \* the installation at GitHub: its state, and how often it changed
    returning,      \* callbacks that have looked the installation up
    deliveries,     \* webhooks, and whether they have been accepted
    row,            \* github_installations
    mapped          \* teams whose product maps a repository of it

installVars == <<flows, flow, editors, github, returning, deliveries, row, mapped>>

FlowIds == DOMAIN flows

Versions == 0 .. MaxVersion

Revocations == {"deleted", "suspend"}

Delivery == [version : Versions, action : {"created", "unsuspend"} \cup Revocations, done : BOOLEAN]

(* What the last write of the row knew of GitHub, whether it was a callback's, *)
(* and the newest change this service has heard of.                          *)
Row ==
    [team : Teams \cup {NoTeam}, active : BOOLEAN, known : Versions, newest : Versions,
     callback : BOOLEAN]

Callback == [flow : 1 .. MaxFlows, team : Teams, known : Versions]

InstallTypeOK ==
    /\ \E n \in 0 .. MaxFlows : flows \in [1 .. n -> Teams]
    /\ flow \in 0 .. MaxFlows
    /\ editors \subseteq Teams
    /\ github \in [state : {"none", "active", "suspended", "deleted"}, version : Versions]
    /\ returning \in [Callbacks -> Callback \cup {NoCallback}]
    /\ deliveries \subseteq Delivery
    /\ row \in Row
    /\ mapped \subseteq Teams

InstallInit ==
    /\ flows = <<>>
    /\ flow = 0
    /\ editors = Teams
    /\ github = [state |-> "none", version |-> 0]
    /\ returning = [c \in Callbacks |-> NoCallback]
    /\ deliveries = {}
    /\ row = [team |-> NoTeam, active |-> FALSE, known |-> 0, newest |-> 0, callback |-> FALSE]
    /\ mapped = {}

-----------------------------------------------------------------------------
(* GitHub.                                                                   *)

(* Each change is announced.                                                 *)
Becomes(state, action) ==
    /\ github.version < MaxVersion
    /\ github' = [state |-> state, version |-> github.version + 1]
    /\ deliveries' = deliveries \cup
          {[version |-> github.version + 1, action |-> action, done |-> FALSE]}
    /\ UNCHANGED <<flows, flow, editors, returning, row, mapped>>

Install == github.state = "none" /\ FlowIds # {} /\ Becomes("active", "created")

Suspend == github.state = "active" /\ Becomes("suspended", "suspend")

Unsuspend == github.state = "suspended" /\ Becomes("active", "unsuspend")

Uninstall == github.state \in {"active", "suspended"} /\ Becomes("deleted", "deleted")

-----------------------------------------------------------------------------
(* The row.                                                                  *)

NewestHeard(known) == IF known > row.newest THEN known ELSE row.newest

Heard(known) == [row EXCEPT !.newest = NewestHeard(known)]

(* upsert_github_installation: a conflict with the team it belongs to changes *)
(* nothing.                                                                  *)
Bind(team, known, callback) ==
    row' = IF row.team \in {NoTeam, team}
           THEN [team |-> team, active |-> TRUE, known |-> known, newest |-> NewestHeard(known),
                 callback |-> callback]
           ELSE row

(* revoke_github_installation, of an installation that is known.             *)
Unbind(known) ==
    row' = IF row.team = NoTeam THEN Heard(known)
           ELSE [team |-> row.team, active |-> FALSE, known |-> known, newest |-> NewestHeard(known),
                 callback |-> FALSE]

-----------------------------------------------------------------------------
(* The browser.                                                              *)

(* github_install_handler: the cookies of the flow replace those of another.  *)
StartInstall(team) ==
    LET n == Cardinality(FlowIds) + 1
    IN  /\ team \in editors
        /\ n <= MaxFlows
        /\ flows' = [i \in 1 .. n |-> IF i = n THEN team ELSE flows[i]]
        /\ flow' = n
        /\ UNCHANGED <<editors, github, returning, deliveries, row, mapped>>

(* Mutant: the state that GitHub returns is not compared.                    *)
ReturnUnchecked(c, f) ==
    /\ returning[c] = NoCallback
    /\ github.state # "none"
    /\ flow # 0
    /\ returning' = IF flows[flow] \in editors /\ github.state # "deleted"
                    THEN [returning EXCEPT ![c] = [flow |-> f, team |-> flows[flow],
                                                   known |-> github.version]]
                    ELSE returning
    /\ UNCHANGED <<flows, flow, editors, github, deliveries, row, mapped>>

(* github_callback_handler, up to the answer of GitHub, which also shows an   *)
(* installation that is suspended.  The browser may return from an old flow,  *)
(* or twice; the cookies that arrive name a team.                            *)
ReturnFromGithub(c, f) ==
    /\ returning[c] = NoCallback
    /\ github.state # "none"
    /\ IF flow = f /\ flows[f] \in editors /\ github.state # "deleted"
       THEN /\ returning' = [returning EXCEPT ![c] = [flow |-> f, team |-> flows[f],
                                                      known |-> github.version]]
            /\ UNCHANGED flow
       ELSE flow' = 0 /\ UNCHANGED returning
    /\ UNCHANGED <<flows, editors, github, deliveries, row, mapped>>

(* The rest of it; the answer clears the cookies.                            *)
FinishCallback(c) ==
    /\ returning[c] # NoCallback
    /\ Bind(returning[c].team, returning[c].known, TRUE)
    /\ returning' = [returning EXCEPT ![c] = NoCallback]
    /\ flow' = 0
    /\ UNCHANGED <<flows, editors, github, deliveries, mapped>>

CallbackFails(c) ==
    /\ returning[c] # NoCallback
    /\ returning' = [returning EXCEPT ![c] = NoCallback]
    /\ UNCHANGED <<flows, flow, editors, github, deliveries, row, mapped>>

(* The user is made a member of a team, or an editor again.                  *)
ChangeEditor(team) ==
    /\ editors' = IF team \in editors THEN editors \ {team} ELSE editors \cup {team}
    /\ UNCHANGED <<flows, flow, github, returning, deliveries, row, mapped>>

-----------------------------------------------------------------------------
(* Webhooks.                                                                 *)

(* handle_github_installation_webhook: a team never changes, so the lookup    *)
(* and the upsert of a restored installation are one step; an installation    *)
(* nobody has is ignored.  GitHub may send the same one again.               *)
Deliver(d) ==
    /\ IF d.action \in Revocations THEN Unbind(d.version)
       ELSE IF row.team # NoTeam THEN Bind(row.team, d.version, FALSE)
       ELSE row' = Heard(d.version)
    /\ deliveries' = (deliveries \ {d}) \cup {[d EXCEPT !.done = TRUE]}
    /\ UNCHANGED <<flows, flow, editors, github, returning, mapped>>

-----------------------------------------------------------------------------
(* Repositories.                                                             *)

(* set_product_github_repo: its last statement looks the installation up      *)
(* once more.                                                                *)
MapRepository(team) ==
    /\ team \in editors
    /\ row.team = team /\ row.active
    /\ mapped' = mapped \cup {team}
    /\ UNCHANGED <<flows, flow, editors, github, returning, deliveries, row>>

ClearRepository(team) ==
    /\ team \in editors
    /\ team \in mapped
    /\ mapped' = mapped \ {team}
    /\ UNCHANGED <<flows, flow, editors, github, returning, deliveries, row>>

-----------------------------------------------------------------------------
InstallNext ==
    \/ Install \/ Suspend \/ Unsuspend \/ Uninstall
    \/ \E team \in Teams :
          StartInstall(team) \/ ChangeEditor(team) \/ MapRepository(team) \/ ClearRepository(team)
    \/ \E c \in Callbacks, f \in FlowIds : ReturnFromGithub(c, f)
    \/ \E c \in Callbacks : FinishCallback(c) \/ CallbackFails(c)
    \/ \E d \in deliveries : Deliver(d)

InstallSpec == InstallInit /\ [][InstallNext]_installVars

-----------------------------------------------------------------------------
(* The row says what GitHub says, unless GitHub has more to tell, something   *)
(* older came after something newer, or a callback, which looked earlier or   *)
(* does not see a suspension, came last.                                     *)
FollowsGithub ==
    row.team # NoTeam /\ ~row.callback /\ row.known = row.newest =>
        \/ row.active <=> github.state = "active"
        \/ \E d \in deliveries : ~d.done /\ d.version > row.known

(* What a product maps belongs to its team.                                  *)
MapsOwn == \A team \in mapped : row.team = team

(* The installation goes to the team whose flow it came back from, once.      *)
BindsFlowsTeam ==
    row'.team # row.team =>
        /\ row.team = NoTeam
        /\ \E c \in Callbacks :
              /\ returning[c] # NoCallback /\ returning'[c] = NoCallback
              /\ flows[returning[c].flow] = row'.team

(* An installation stays with the team that installed it and follows GitHub.  *)
InstallationIsOurs == [](FollowsGithub /\ MapsOwn) /\ [][BindsFlowsTeam]_installVars

=============================================================================
