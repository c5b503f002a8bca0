------------------------------ MODULE TeamAccess ------------------------------
(***************************************************************************)
(* Who may do what in a team: every dashboard request enters through the    *)
(* creator's own membership and the invitations that wait for its user,     *)
(* reads the role it acts with once, and then changes members and           *)
(* invitations in statements of their own, while other requests do the same.*)
(***************************************************************************)
EXTENDS Integers, FiniteSets

CONSTANTS
    People,         \* OS Accounts users, each with an email address of its own
    Creator,        \* the user the team's workspace was created for
    Link,           \* the invitee of a shareable link
    Requests,       \* dashboard requests in flight
    NoRequest,      \* nobody asks
    MaxInvites      \* bound: invitations ever created

ASSUME TeamAssumption ==
    /\ Creator \in People
    /\ Link \notin People
    /\ MaxInvites \in Nat

VARIABLES
    members,        \* workspace_members: the role of each user, or none
    invites,        \* workspace_invitations, in the order they were created
    requests        \* the requests in flight

teamVars == <<members, invites, requests>>

Roles == {"owner", "admin", "member"}

Editors == {"owner", "admin"}

(* An invitation that was accepted or revoked is over; a link stays open when *)
(* it is used.                                                               *)
Invite ==
    [for : People \cup {Link}, role : Roles \ {"owner"},
     status : {"open", "expired", "over"}]

(* What a request does next: accept an invitation (and go on, or return to    *)
(* the dashboard), read its role, act, or carry out what it has checked.      *)
Request ==
    [pc : {"accept", "accept_and_return", "resolve", "act", "invite", "change", "remove"},
     user : People, role : Roles \cup {"none"}, invite : 0 .. MaxInvites,
     target : People, to : Roles]

InviteIds == DOMAIN invites

TeamTypeOK ==
    /\ members \in [People -> Roles \cup {"none"}]
    /\ \E n \in 0 .. MaxInvites : invites \in [1 .. n -> Invite]
    /\ requests \in [Requests -> Request \cup {NoRequest}]

TeamInit ==
    /\ members = [u \in People |-> IF u = Creator THEN "owner" ELSE "none"]
    /\ invites = <<>>
    /\ requests = [r \in Requests |-> NoRequest]

-----------------------------------------------------------------------------
(* Requests.                                                                 *)

At(r, pc) == requests[r] # NoRequest /\ requests[r].pc = pc

Step(r, request) == requests' = [requests EXCEPT ![r] = request]

End(r) == Step(r, NoRequest)

(* get_or_create_workspace: the creator is a member of its workspace, as      *)
(* owner when it was none.                                                   *)
WithCreator(u) ==
    IF u = Creator /\ members[u] = "none" THEN [members EXCEPT ![u] = "owner"] ELSE members

Waiting(u) == {i \in InviteIds : invites[i].status = "open" /\ invites[i].for = u}

(* resolve_workspace_access, up to the invitations that wait for the user;    *)
(* there is one at most.                                                     *)
Enter(r, u) ==
    /\ requests[r] = NoRequest
    /\ members' = WithCreator(u)
    /\ \E i \in IF Waiting(u) = {} THEN {0} ELSE Waiting(u) :
          Step(r, [pc |-> IF i = 0 THEN "resolve" ELSE "accept", user |-> u, role |-> "none",
                   invite |-> i, target |-> u, to |-> "member"])
    /\ UNCHANGED invites

(* The login callback with an invitation in its cookie.                      *)
FollowInvite(r, u, i) ==
    /\ requests[r] = NoRequest
    /\ members' = WithCreator(u)
    /\ IF invites[i].status = "open" /\ invites[i].for \in {u, Link}
       THEN Step(r, [pc |-> "accept_and_return", user |-> u, role |-> "none", invite |-> i,
                     target |-> u, to |-> "member"])
       ELSE UNCHANGED requests
    /\ UNCHANGED invites

(* An owner or admin keeps the role.                                         *)
AcceptedRole(old, role) == IF old \in Editors THEN old ELSE role

(* accept_invitation: one transaction, undone when the invitation that was    *)
(* read is not available any more, and with it the whole request.            *)
Accept(r) ==
    LET q == requests[r]
        invite == invites[q.invite]
    IN  /\ At(r, "accept") \/ At(r, "accept_and_return")
        /\ IF invite.status = "open"
           THEN /\ members' = [members EXCEPT ![q.user] = AcceptedRole(@, invite.role)]
                /\ invites' = IF invite.for = Link THEN invites
                              ELSE [invites EXCEPT ![q.invite].status = "over"]
                /\ IF q.pc = "accept" THEN Step(r, [q EXCEPT !.pc = "resolve"]) ELSE End(r)
           ELSE End(r) /\ UNCHANGED <<members, invites>>

(* The role the request acts with from now on.                               *)
ReadRole(r) ==
    LET q == requests[r]
    IN  /\ At(r, "resolve")
        /\ IF members[q.user] = "none" THEN End(r)
           ELSE Step(r, [q EXCEPT !.pc = "act", !.role = members[q.user], !.invite = 0])
        /\ UNCHANGED <<members, invites>>

(* A request that only reads, is refused, fails or is dropped.               *)
Return(r) ==
    /\ requests[r] # NoRequest
    /\ End(r)
    /\ UNCHANGED <<members, invites>>

-----------------------------------------------------------------------------
(* Invitations.                                                              *)

Pending(i) == invites[i].status \in {"open", "expired"}

(* A new invitation for invitee: an expired one makes room for it, an open    *)
(* one is in its way.                                                        *)
Invited(invitee, role) ==
    LET swept == [i \in InviteIds |->
                     IF invites[i].for = invitee /\ invites[i].status = "expired"
                     THEN [invites[i] EXCEPT !.status = "over"] ELSE invites[i]]
        new == [for |-> invitee, role |-> role, status |-> "open"]
    IN  IF \E i \in InviteIds : invites[i].for = invitee /\ invites[i].status = "open"
        THEN invites
        ELSE [i \in 1 .. Cardinality(InviteIds) + 1 |->
                 IF i \in InviteIds THEN swept[i] ELSE new]

(* Mutant: anyone may invite a member.                                       *)
AnyoneInvitesMembers(role, to) == role = "owner" \/ to = "member"

MayInvite(role, to) == role = "owner" \/ (role = "admin" /\ to = "member")

CheckInvite(r, v, to) ==
    /\ At(r, "act")
    /\ MayInvite(requests[r].role, to)
    /\ members[v] = "none"
    /\ Step(r, [requests[r] EXCEPT !.pc = "invite", !.target = v, !.to = to])
    /\ UNCHANGED <<members, invites>>

InviteByEmail(r) ==
    LET q == requests[r]
    IN  /\ At(r, "invite")
        /\ Cardinality(InviteIds) < MaxInvites
        /\ invites' = Invited(q.target, q.to)
        /\ End(r)
        /\ UNCHANGED members

ShareLink(r) ==
    /\ At(r, "act")
    /\ requests[r].role \in Editors
    /\ Cardinality(InviteIds) < MaxInvites
    /\ invites' = Invited(Link, "member")
    /\ End(r)
    /\ UNCHANGED members

(* What the revocation reads of the invitation never changes while it is      *)
(* pending, and revoking a spent one has no effect: one step.                *)
Revoke(r, i) ==
    /\ At(r, "act")
    /\ MayInvite(requests[r].role, invites[i].role)
    /\ Pending(i)
    /\ invites' = [invites EXCEPT ![i].status = "over"]
    /\ End(r)
    /\ UNCHANGED members

Expire(i) ==
    /\ invites[i].status = "open"
    /\ invites' = [invites EXCEPT ![i].status = "expired"]
    /\ UNCHANGED <<members, requests>>

-----------------------------------------------------------------------------
(* Members: the target is read in one statement and written in the next.     *)

CheckChange(r, v, to) ==
    /\ At(r, "act")
    /\ requests[r].role = "owner"
    /\ members[v] \notin {"none", "owner"}
    /\ Step(r, [requests[r] EXCEPT !.pc = "change", !.target = v, !.to = to])
    /\ UNCHANGED <<members, invites>>

ChangeRole(r) ==
    LET q == requests[r]
    IN  /\ At(r, "change")
        /\ members' = IF members[q.target] = "none" THEN members
                      ELSE [members EXCEPT ![q.target] = q.to]
        /\ End(r)
        /\ UNCHANGED invites

CheckRemove(r, v) ==
    LET q == requests[r]
    IN  /\ At(r, "act")
        /\ members[v] \notin {"none", "owner"}
        /\ q.role = "owner" \/ (q.role = "admin" /\ members[v] = "member")
        /\ v # q.user
        /\ Step(r, [q EXCEPT !.pc = "remove", !.target = v])
        /\ UNCHANGED <<members, invites>>

RemoveMember(r) ==
    /\ At(r, "remove")
    /\ members' = [members EXCEPT ![requests[r].target] = "none"]
    /\ End(r)
    /\ UNCHANGED invites

(* One transaction under the locks of both rows.                             *)
Transfer(r, v) ==
    LET u == requests[r].user
    IN  /\ At(r, "act")
        /\ requests[r].role = "owner" /\ v # u
        /\ members[v] \notin {"none", "owner"}
        /\ members[u] = "owner"
        /\ members' = [members EXCEPT ![v] = "owner", ![u] = "admin"]
        /\ End(r)
        /\ UNCHANGED invites

-----------------------------------------------------------------------------
TeamNext ==
    \/ \E r \in Requests, u \in People : Enter(r, u)
    \/ \E r \in Requests, u \in People, i \in InviteIds : FollowInvite(r, u, i)
    \/ \E r \in Requests : Accept(r) \/ ReadRole(r) \/ Return(r)
    \/ \E r \in Requests, v \in People, to \in {"admin", "member"} :
          CheckInvite(r, v, to) \/ CheckChange(r, v, to)
    \/ \E r \in Requests : InviteByEmail(r) \/ ShareLink(r) \/ ChangeRole(r) \/ RemoveMember(r)
    \/ \E r \in Requests, v \in People : CheckRemove(r, v) \/ Transfer(r, v)
    \/ \E r \in Requests, i \in InviteIds : Revoke(r, i)
    \/ \E i \in InviteIds : Expire(i)

TeamSpec == TeamInit /\ [][TeamNext]_teamVars

-----------------------------------------------------------------------------
TeamOwners == {u \in People : members[u] = "owner"}

Rank(role) == CASE role = "none" -> 0 [] role = "member" -> 1 [] role = "admin" -> 2
                [] role = "owner" -> 3

Rises(u) == Rank(members'[u]) > Rank(members[u])

Falls(u) == Rank(members'[u]) < Rank(members[u])

(* Nobody rises but by the hand of those who may raise: the creator to its    *)
(* own team, others by an invitation that is open in that very step, a change *)
(* an owner made, or a transfer from one.  Invitations that are over bring    *)
(* nobody back.                                                              *)
RisesByAuthority ==
    \A u \in People : Rises(u) =>
       \/ u = Creator /\ members[u] = "none"
       \/ \E i \in InviteIds :
             /\ invites[i].status = "open" /\ invites[i].for \in {u, Link}
             /\ invites[i].role = members'[u]
       \/ \E r \in Requests :
             At(r, "change") /\ requests[r].role = "owner" /\ requests[r].target = u
       \/ members'[u] = "owner" /\ \E v \in People : members[v] = "owner" /\ Falls(v)

(* An admin is invited by an owner, a member by an owner or an admin.         *)
InvitedByAuthority ==
    \A i \in DOMAIN invites' \ InviteIds :
       \E r \in Requests :
          /\ At(r, "invite") \/ At(r, "act")
          /\ \/ requests[r].role = "owner"
             \/ requests[r].role = "admin" /\ invites'[i].role = "member"

(* Nobody falls by an accident: an owner to a transfer that makes another     *)
(* one, anyone else to a change or removal that was checked for them.  (An    *)
(* owner, too, when the check was made before the transfer to them.)          *)
FallsDeliberately ==
    \A u \in People : Falls(u) =>
       \/ \E r \in Requests :
             (At(r, "change") \/ At(r, "remove")) /\ requests[r].target = u
       \/ /\ members[u] = "owner" /\ members'[u] = "admin"
          /\ \E v \in People : members[v] # "owner" /\ members'[v] = "owner"

(* There is one owner, until a creator that was removed comes back as one     *)
(* too, or a change or removal checked before a transfer hits the new owner.  *)
OwnersStay ==
    Cardinality(TeamOwners') # Cardinality(TeamOwners) =>
       \/ members[Creator] = "none" /\ members'[Creator] = "owner"
       \/ \E r \in Requests :
             /\ At(r, "change") \/ At(r, "remove")
             /\ members[requests[r].target] = "owner"

MovesDeliberately ==
    RisesByAuthority /\ InvitedByAuthority /\ FallsDeliberately /\ OwnersStay

(* Roles are raised and lowered by those who may, on purpose, and a team      *)
(* keeps its owner.                                                          *)
RolesMoveDeliberately == [][MovesDeliberately]_teamVars

=============================================================================
