------------------------------ MODULE Members ------------------------------
(***************************************************************************)
(* The members and invites of one organization: app/services/members.py,   *)
(* the resolution and bootstrap of app/services/organizations.py that runs *)
(* before every handler, and the SSO sign-in of app/services/sso.py as far *)
(* as it makes members.                                                    *)
(*                                                                         *)
(* All of it runs on pool threads (the SSO endpoint on the event loop) of  *)
(* any number of processes, and every store call is a separate RPC: so     *)
(* every call is an action and all requests interleave.  The role a request*)
(* acts with is the one it read at its start.                              *)
(***************************************************************************)
EXTENDS Naturals, FiniteSets

CONSTANTS
    Users,         \* identified with their email addresses and Firebase accounts
    Founders,      \* users whose workspace name slugs to the id of this organization
    Requests,      \* requests in flight; one that has been answered may be made anew
    Invites,       \* bound: ids of invites, uuids
    RequestedRoles,\* roles that requests ask for and SSO gives by default
    MaxFaults,     \* bound: requests cut short by a raising store call or a crash
    NoUser, NoInvite

ASSUME FoundersAssumption == Founders \subseteq Users
ASSUME NullsAssumption == NoUser \notin Users /\ NoInvite \notin Invites
ASSUME FaultsAssumption == MaxFaults \in Nat

Roles == {"owner", "admin", "security_admin", "auditor", "viewer"}
Absent == "none"

\* The owner role is rejected by every request model.
ASSUME RolesAssumption == RequestedRoles \subseteq Roles \ {"owner"}

\* _invitable_roles and _manageable_roles; empty for those who may not manage.
Invitable(role) ==
    CASE role \in {"owner", "admin"} -> {"admin", "security_admin", "auditor", "viewer"}
      [] role = "security_admin" -> {"auditor", "viewer"}
      [] OTHER -> {}
Manageable(role) == IF role = "owner" THEN Roles ELSE Invitable(role)

Labels == {"idle", "listInvites", "accept", "join", "markAccepted", "resolve", "recheck",
           "provision", "lookupOrg", "createOrg", "addOwner", "handler", "checkPending", "lookupUser",
           "checkMember", "addMember", "writeInvite", "writeRevoked", "countToChange",
           "countToRemove", "writeRole", "delete"}

VARIABLES
    org,       \* Firestore organizations: the document exists
    role,      \* Firestore organization_members, by user
    invite,    \* Firestore organization_invites, by id
    pc, via,   \* a request: where it is, and how its user signs in
    actor, mine,    \* who makes it, and the role he acts with
    target, grant,  \* whom it is about, and the role it gives
    todo, picked,   \* the pending invites it listed, and the one in hand
    founded,   \* history: users who founded the organization
    raced,     \* history: users two requests were about at the same time
    faults

documents == <<org, role, invite>>
request == <<pc, via, actor, mine, target, grant, todo, picked>>
history == <<founded, raced, faults>>
vars == <<org, role, invite, pc, via, actor, mine, target, grant, todo, picked,
          founded, raced, faults>>

Invite == [status : {"unused", "pending", "accepted", "revoked"},
           user : Users \cup {NoUser}, role : Roles \cup {Absent}]
Unused == [status |-> "unused", user |-> NoUser, role |-> Absent]

TypeOK ==
    /\ org \in BOOLEAN
    /\ role \in [Users -> Roles \cup {Absent}]
    /\ invite \in [Invites -> Invite]
    /\ \A i \in Invites : invite[i].status # "unused" =>
          invite[i].user \in Users /\ invite[i].role \in Roles \ {"owner"}
    /\ pc \in [Requests -> Labels]
    /\ via \in [Requests -> {"token", "sso"}]
    /\ actor \in [Requests -> Users \cup {NoUser}]
    /\ mine \in [Requests -> Roles \cup {Absent}]
    /\ target \in [Requests -> Users \cup {NoUser}]
    /\ grant \in [Requests -> Roles \cup {Absent}]
    /\ todo \in [Requests -> SUBSET Invites]
    /\ picked \in [Requests -> Invites \cup {NoInvite}]
    /\ founded \in SUBSET Founders
    /\ raced \in SUBSET Users
    /\ faults \in Nat

Init ==
    /\ org = FALSE
    /\ role = [u \in Users |-> Absent]
    /\ invite = [i \in Invites |-> Unused]
    /\ pc = [r \in Requests |-> "idle"]
    /\ via = [r \in Requests |-> "token"]
    /\ actor = [r \in Requests |-> NoUser]
    /\ mine = [r \in Requests |-> Absent]
    /\ target = [r \in Requests |-> NoUser]
    /\ grant = [r \in Requests |-> Absent]
    /\ todo = [r \in Requests |-> {}]
    /\ picked = [r \in Requests |-> NoInvite]
    /\ founded = {}
    /\ raced = {}
    /\ faults = 0

-----------------------------------------------------------------------------
(* The user a request is about: its own, while it signs in, then its target. *)

Subject(r) ==
    IF pc[r] \in {"idle", "handler"} THEN NoUser
    ELSE IF target[r] # NoUser THEN target[r] ELSE actor[r]

\* Request r turns to the users us.
TurnsTo(r, us) == raced' = raced \cup {u \in us : \E q \in Requests \ {r} : Subject(q) = u}

\* A request that takes the ownership of one owner is about all of them.
Counting == {"countToChange", "countToRemove"}
Owners == {u \in Users : role[u] = "owner"}

Goto(r, label) ==
    /\ pc' = [pc EXCEPT ![r] = label]
    /\ UNCHANGED <<via, actor, mine, target, grant, todo, picked>>

\* The response is sent, or the handlers this module leaves out run.
Finish(r) ==
    /\ pc' = [pc EXCEPT ![r] = "idle"]
    /\ via' = [via EXCEPT ![r] = "token"]
    /\ actor' = [actor EXCEPT ![r] = NoUser]
    /\ mine' = [mine EXCEPT ![r] = Absent]
    /\ target' = [target EXCEPT ![r] = NoUser]
    /\ grant' = [grant EXCEPT ![r] = Absent]
    /\ todo' = [todo EXCEPT ![r] = {}]
    /\ picked' = [picked EXCEPT ![r] = NoInvite]

-----------------------------------------------------------------------------
(* accept_pending_invites, at the start of every request and SSO sign-in.  *)

\* SSO is configured by a member.
Begin(r) ==
    /\ pc[r] = "idle"
    /\ \E u \in Users, how \in {"token", "sso"} :
        /\ how = "sso" => founded # {}
        /\ actor' = [actor EXCEPT ![r] = u]
        /\ via' = [via EXCEPT ![r] = how]
        /\ TurnsTo(r, {u})
    /\ pc' = [pc EXCEPT ![r] = "listInvites"]
    /\ UNCHANGED <<documents, mine, target, grant, todo, picked, founded, faults>>

ListInvites(r) ==
    /\ pc[r] = "listInvites"
    /\ todo' = [todo EXCEPT ![r] =
                  {i \in Invites : invite[i].status = "pending" /\ invite[i].user = actor[r]}]
    /\ pc' = [pc EXCEPT ![r] = "accept"]
    /\ UNCHANGED <<documents, via, actor, mine, target, grant, picked, history>>

\* The loop: a member's invite is only marked.
Accept(r) ==
    /\ pc[r] = "accept"
    /\ \E i \in todo[r] :
        /\ picked' = [picked EXCEPT ![r] = i]
        /\ todo' = [todo EXCEPT ![r] = @ \ {i}]
    /\ pc' = [pc EXCEPT ![r] = IF role[actor[r]] = Absent THEN "join" ELSE "markAccepted"]
    /\ UNCHANGED <<documents, via, actor, mine, target, grant, history>>

Join(r) ==
    /\ pc[r] = "join"
    /\ role' = [role EXCEPT ![actor[r]] = invite[picked[r]].role]
    /\ Goto(r, "markAccepted")
    /\ UNCHANGED <<org, invite, history>>

\* Mutant: the loop appends the member and forgets to save the invite.
MarkNothing(r) ==
    /\ pc[r] = "markAccepted"
    /\ Goto(r, "accept")
    /\ UNCHANGED <<documents, history>>

\* The whole document, from the copy that was listed.
MarkAccepted(r) ==
    /\ pc[r] = "markAccepted"
    /\ invite' = [invite EXCEPT ![picked[r]].status = "accepted"]
    /\ Goto(r, "accept")
    /\ UNCHANGED <<org, role, history>>

AcceptedAll(r) ==
    /\ pc[r] = "accept" /\ todo[r] = {}
    /\ Goto(r, IF via[r] = "sso" THEN "provision" ELSE "resolve")
    /\ UNCHANGED <<documents, history>>

\* Mutant: the membership is written whether or not there is one.
ProvisionAnyone(r) ==
    /\ pc[r] = "provision"
    /\ \E given \in RequestedRoles : grant' = [grant EXCEPT ![r] = given]
    /\ target' = [target EXCEPT ![r] = actor[r]]
    /\ pc' = [pc EXCEPT ![r] = "addMember"]
    /\ UNCHANGED <<via, actor, mine, todo, picked>>
    /\ UNCHANGED <<documents, history>>

\* _ensure_org_membership, with just-in-time provisioning on or off.
Provision(r) ==
    /\ pc[r] = "provision"
    /\ \/ Finish(r)
       \/ /\ role[actor[r]] = Absent
          /\ \E given \in RequestedRoles : grant' = [grant EXCEPT ![r] = given]
          /\ target' = [target EXCEPT ![r] = actor[r]]
          /\ pc' = [pc EXCEPT ![r] = "addMember"]
          /\ UNCHANGED <<via, actor, mine, todo, picked>>
    /\ UNCHANGED <<documents, history>>

-----------------------------------------------------------------------------
(* resolve_organization_for_actor and the founding of an organization.     *)

\* The request may be for another organization of the user.  Before it founds one
\* the bootstrap lists his memberships again.
Resolve(r) ==
    /\ pc[r] \in {"resolve", "recheck"}
    /\ \/ Finish(r)
       \/ /\ role[actor[r]] # Absent
          /\ mine' = [mine EXCEPT ![r] = role[actor[r]]]
          /\ pc' = [pc EXCEPT ![r] = "handler"]
          /\ UNCHANGED <<via, actor, target, grant, todo, picked>>
       \/ /\ role[actor[r]] = Absent /\ actor[r] \in Founders
          /\ Goto(r, IF pc[r] = "resolve" THEN "recheck" ELSE "lookupOrg")
    /\ UNCHANGED <<documents, history>>

\* _unique_org_id: the id is taken only if it is free; else a random suffix
\* makes it another organization.
LookupOrg(r) ==
    /\ pc[r] = "lookupOrg"
    /\ IF org THEN Finish(r) ELSE Goto(r, "createOrg")
    /\ UNCHANGED <<documents, history>>

CreateOrg(r) ==
    /\ pc[r] = "createOrg"
    /\ org' = TRUE
    /\ Goto(r, "addOwner")
    /\ UNCHANGED <<role, invite, history>>

\* A bootstrapped user's request goes on as the owner's; create_organization
\* answers.
AddOwner(r) ==
    /\ pc[r] = "addOwner"
    /\ role' = [role EXCEPT ![actor[r]] = "owner"]
    /\ founded' = founded \cup {actor[r]}
    /\ \/ target[r] # NoUser /\ Finish(r)
       \/ /\ target[r] = NoUser
          /\ mine' = [mine EXCEPT ![r] = "owner"]
          /\ pc' = [pc EXCEPT ![r] = "handler"]
          /\ UNCHANGED <<via, actor, target, grant, todo, picked>>
    /\ UNCHANGED <<org, invite, raced, faults>>

\* A handler of another component, or one that refuses the actor's role.
OtherHandler(r) ==
    /\ pc[r] = "handler"
    /\ Finish(r)
    /\ UNCHANGED <<documents, history>>

\* create_organization: an administrator of this organization or another one
\* founds one more, by the same lookup.
CreateOrganization(r) ==
    /\ pc[r] \in {"resolve", "handler"} /\ actor[r] \in Founders
    /\ pc' = [pc EXCEPT ![r] = "lookupOrg"]
    /\ target' = [target EXCEPT ![r] = actor[r]]
    /\ TurnsTo(r, {actor[r]})
    /\ UNCHANGED <<documents, via, actor, mine, grant, todo, picked, founded, faults>>

-----------------------------------------------------------------------------
(* The handlers.  Each starts with its checks and its first read.          *)

About(r, u, label) ==
    /\ target' = [target EXCEPT ![r] = u]
    /\ pc' = [pc EXCEPT ![r] = label]
    /\ TurnsTo(r, IF label \in Counting THEN {u} \cup Owners ELSE {u})
    /\ UNCHANGED <<documents, via, actor, mine, todo, founded, faults>>

\* Bound: an id for every invite about to be written.
InvitesLeft ==
    Cardinality({i \in Invites : invite[i] = Unused})
        > Cardinality({q \in Requests : pc[q] = "writeInvite"})

\* invite_member: get_organization_member_by_email found nobody.
InviteMember(r) ==
    /\ pc[r] = "handler"
    /\ \E u \in Users \ {actor[r]}, given \in RequestedRoles \cap Invitable(mine[r]) :
        /\ role[u] = Absent
        /\ grant' = [grant EXCEPT ![r] = given]
        /\ About(r, u, "checkPending")
    /\ UNCHANGED picked

CheckPending(r) ==
    /\ pc[r] = "checkPending"
    /\ IF \E i \in Invites : invite[i].status = "pending" /\ invite[i].user = target[r]
       THEN Finish(r) ELSE Goto(r, "lookupUser")
    /\ UNCHANGED <<documents, history>>

\* The user has an account, or he has none, or Firebase raises.
LookupUser(r) ==
    /\ pc[r] = "lookupUser"
    /\ \/ Goto(r, "checkMember")
       \/ InvitesLeft /\ Goto(r, "writeInvite")
    /\ UNCHANGED <<documents, history>>

CheckMember(r) ==
    /\ pc[r] = "checkMember"
    /\ IF role[target[r]] # Absent THEN Finish(r) ELSE Goto(r, "addMember")
    /\ UNCHANGED <<documents, history>>

AddMember(r) ==
    /\ pc[r] = "addMember"
    /\ role' = [role EXCEPT ![target[r]] = grant[r]]
    /\ Finish(r)
    /\ UNCHANGED <<org, invite, history>>

\* Mutant: the inviter's role in place of the invited one's.
WriteInviteOwnRole(r) ==
    /\ pc[r] = "writeInvite"
    /\ \E i \in Invites :
        /\ invite[i] = Unused
        /\ invite' = [invite EXCEPT ![i] =
                        [status |-> "pending", user |-> target[r], role |-> mine[r]]]
    /\ Finish(r)
    /\ UNCHANGED <<org, role, history>>

WriteInvite(r) ==
    /\ pc[r] = "writeInvite"
    /\ \E i \in Invites :
        /\ invite[i] = Unused
        /\ invite' = [invite EXCEPT ![i] =
                        [status |-> "pending", user |-> target[r], role |-> grant[r]]]
    /\ Finish(r)
    /\ UNCHANGED <<org, role, history>>

\* revoke_invite.
RevokeInvite(r) ==
    /\ pc[r] = "handler" /\ Invitable(mine[r]) # {}
    /\ \E i \in Invites :
        /\ invite[i].status = "pending"
        /\ picked' = [picked EXCEPT ![r] = i]
        /\ About(r, invite[i].user, "writeRevoked")
    /\ UNCHANGED grant

WriteRevoked(r) ==
    /\ pc[r] = "writeRevoked"
    /\ invite' = [invite EXCEPT ![picked[r]].status = "revoked"]
    /\ Finish(r)
    /\ UNCHANGED <<org, role, history>>

\* _ensure_can_manage_target.
Manages(r, u) == u # actor[r] /\ role[u] \in Manageable(mine[r])

\* update_member_role.
UpdateRole(r) ==
    /\ pc[r] = "handler"
    /\ \E u \in Users, given \in RequestedRoles \cap Invitable(mine[r]) :
        /\ Manages(r, u) /\ role[u] # given
        /\ grant' = [grant EXCEPT ![r] = given]
        /\ About(r, u, IF role[u] = "owner" THEN "countToChange" ELSE "writeRole")
    /\ UNCHANGED picked

\* remove_member.
RemoveMember(r) ==
    /\ pc[r] = "handler"
    /\ \E u \in Users :
        /\ Manages(r, u)
        /\ About(r, u, IF role[u] = "owner" THEN "countToRemove" ELSE "delete")
    /\ UNCHANGED <<grant, picked>>

\* Mutant: off by one.
CountNobody(r) ==
    /\ pc[r] \in Counting
    /\ IF Cardinality(Owners) < 1 THEN Finish(r)
       ELSE Goto(r, IF pc[r] = "countToChange" THEN "writeRole" ELSE "delete")
    /\ UNCHANGED <<documents, history>>

\* _ensure_not_last_owner.
CountOwners(r) ==
    /\ pc[r] \in Counting
    /\ IF Cardinality(Owners) <= 1 THEN Finish(r)
       ELSE Goto(r, IF pc[r] = "countToChange" THEN "writeRole" ELSE "delete")
    /\ UNCHANGED <<documents, history>>

WriteRole(r) ==
    /\ pc[r] = "writeRole"
    /\ role' = [role EXCEPT ![target[r]] = grant[r]]
    /\ Finish(r)
    /\ UNCHANGED <<org, invite, history>>

Delete(r) ==
    /\ pc[r] = "delete"
    /\ role' = [role EXCEPT ![target[r]] = Absent]
    /\ Finish(r)
    /\ UNCHANGED <<org, invite, history>>

\* A store call raises (the audit record's too), or the process dies.
Abort(r) ==
    /\ pc[r] # "idle"
    /\ faults < MaxFaults /\ faults' = faults + 1
    /\ Finish(r)
    /\ UNCHANGED <<documents, founded, raced>>

Next ==
    \E r \in Requests :
        \/ Begin(r) \/ ListInvites(r) \/ Accept(r) \/ Join(r) \/ MarkAccepted(r)
        \/ AcceptedAll(r) \/ Provision(r)
        \/ Resolve(r) \/ LookupOrg(r) \/ CreateOrg(r) \/ AddOwner(r)
        \/ OtherHandler(r) \/ CreateOrganization(r)
        \/ InviteMember(r) \/ CheckPending(r) \/ LookupUser(r) \/ CheckMember(r)
        \/ AddMember(r) \/ WriteInvite(r) \/ RevokeInvite(r) \/ WriteRevoked(r)
        \/ UpdateRole(r) \/ RemoveMember(r) \/ CountOwners(r) \/ WriteRole(r) \/ Delete(r)
        \/ Abort(r)

Spec == Init /\ [][Next]_vars

-----------------------------------------------------------------------------
(* Properties.                                                             *)

\* Whatever overlaps, the founder of an organization stays its owner, as long
\* as nobody else founded the same one: no invite, provisioning, role change or
\* removal reaches him.
FounderStaysOwner ==
    Cardinality(founded) = 1 => \A u \in founded : role[u] = "owner"

\* Without faults and overlapping requests about the same user, a member has no
\* pending invite, so that one who is removed does not come back by himself.
NoStandingInvite ==
    faults = 0 =>
        \A u \in Users \ raced :
            role[u] # Absent /\ (\A r \in Requests : Subject(r) # u) =>
                \A i \in Invites : invite[i].user = u => invite[i].status # "pending"

\* Nor do several founders leave the organization without one, though the role
\* a request acts with may be stale, unless requests about them overlapped.
OwnersLeaveOneByOne ==
    founded # {} /\ founded \cap raced = {} => Owners # {}

\* What the refusal in members.py says: the last owner can be neither demoted
\* nor removed.
KeepsAnOwner == founded # {} => Owners # {}

=============================================================================
