--------------------------- MODULE MembersProofs ---------------------------
(***************************************************************************)
(* Theorems about Members, for any users, founders, invites and number of  *)
(* requests.                                                               *)
(***************************************************************************)
EXTENDS Members, FiniteSetTheorems, TLAPS

\* Labels of a request that is about its target, of those that give a role, of
\* those with an invite in hand, and of those that found the organization.
Targeting == {"checkPending", "lookupUser", "checkMember", "addMember", "writeInvite",
              "writeRole", "delete"}
Granting == (Targeting \ {"delete"}) \cup {"countToChange"}
Holding == {"join", "markAccepted", "writeRevoked"}
Founding == {"recheck", "lookupOrg", "createOrg", "addOwner"}

\* A request past its start has an actor, one about somebody has a target, one
\* that gives a role has one, and the invites in its hands exist.
RequestOK(r) ==
    /\ pc[r] # "idle" => actor[r] \in Users
    /\ pc[r] \in Founding => actor[r] \in Founders
    /\ pc[r] \in Targeting \cup Counting => target[r] \in Users
    /\ pc[r] \in Granting => grant[r] \in RequestedRoles
    /\ pc[r] \in Holding => picked[r] \in Invites /\ invite[picked[r]].status # "unused"
    /\ \A i \in todo[r] : invite[i].status # "unused"
RequestInv == \A r \in Requests : RequestOK(r)

TInv == TypeOK /\ RequestInv

\* The conjuncts of TypeOK on the documents and the history.
SharedTypes ==
    /\ org \in BOOLEAN
    /\ role \in [Users -> Roles \cup {Absent}]
    /\ invite \in [Invites -> Invite]
    /\ \A i \in Invites : invite[i].status # "unused" =>
          invite[i].user \in Users /\ invite[i].role \in Roles \ {"owner"}
    /\ founded \in SUBSET Founders
    /\ raced \in SUBSET Users
    /\ faults \in Nat

\* No invite is deleted.
InvitesStay == \A i \in Invites : invite[i].status # "unused" => invite'[i].status # "unused"

\* Before the organization is founded it has no member and no invite; only founders
\* are owners; and the only one is an owner.
DocumentsOK ==
    /\ founded = {} =>
          /\ \A u \in Users : role[u] = Absent
          /\ \A i \in Invites : invite[i].status = "unused"
    /\ \A u \in Users : role[u] = "owner" => u \in founded
    /\ \A f \in Users : founded = {f} => role[f] = "owner"

\* Before the organization is founded no request acts in it; only founders act as
\* owners; a request that counts the owners is one founder's about another; and no
\* request is about to write the membership of the only founder.
Early == {"idle", "listInvites", "accept", "resolve", "recheck", "lookupOrg", "createOrg",
          "addOwner"}
ApartFromOwner(r) ==
    /\ founded = {} => pc[r] \in Early /\ via[r] = "token" /\ todo[r] = {}
    /\ mine[r] = "owner" => actor[r] \in founded /\ pc[r] # "idle"
    /\ pc[r] \in Counting =>
          target[r] \in founded /\ actor[r] \in founded /\ target[r] # actor[r]
    /\ \A f \in Users : founded = {f} => /\ pc[r] = "join" => actor[r] # f
                                         /\ pc[r] \in Targeting => target[r] # f

OInv == DocumentsOK /\ \A r \in Requests : ApartFromOwner(r)
IInv == TInv /\ OInv /\ IsFiniteSet(founded)

-----------------------------------------------------------------------------
(* Type correctness.                                                       *)

\* The initial state is well typed.
LEMMA TInit == Init => TInv
<1> SUFFICES ASSUME Init PROVE TInv
  OBVIOUS
<1>1. TypeOK
  BY NullsAssumption DEF Init, TypeOK, Invite, Unused, Labels
<1>2. RequestInv
  BY DEF Init, RequestInv, RequestOK, Targeting, Granting, Counting, Founding, Holding
<1> QED  BY <1>1, <1>2 DEF TInv

\* A request that ends keeps the types, whatever it wrote last.
LEMMA FinishTypes ==
    ASSUME TInv, NEW r \in Requests, Finish(r), SharedTypes', InvitesStay
    PROVE  TInv'
<1> USE DEF TInv, TypeOK, Finish
<1>1. TypeOK'
  BY NullsAssumption DEF SharedTypes, Labels
<1>2. RequestOK(r)'
  BY <1>1 DEF RequestOK, Targeting, Granting, Counting, Founding, Holding
<1>3. ASSUME NEW q \in Requests \ {r} PROVE RequestOK(q)'
  <2>1. /\ pc'[q] = pc[q] /\ actor'[q] = actor[q] /\ target'[q] = target[q]
        /\ grant'[q] = grant[q] /\ picked'[q] = picked[q] /\ todo'[q] = todo[q]
    OBVIOUS
  <2>2. RequestOK(q) /\ todo[q] \subseteq Invites
    BY DEF RequestInv
  <2> QED  BY <2>1, <2>2 DEF RequestOK, InvitesStay
<1> QED  BY <1>1, <1>2, <1>3 DEF RequestInv

\* So does one that goes on with what it has.
LEMMA GotoTypes ==
    ASSUME TInv, NEW r \in Requests, NEW label \in Labels, Goto(r, label),
           SharedTypes', InvitesStay, actor[r] \in Users,
           label \in Founding => actor[r] \in Founders,
           label \in Targeting \cup Counting => target[r] \in Users,
           label \in Granting => grant[r] \in RequestedRoles,
           label \in Holding => picked[r] \in Invites /\ invite[picked[r]].status # "unused"
    PROVE  TInv'
<1> USE DEF TInv, TypeOK, Goto
<1>1. TypeOK'
  BY DEF SharedTypes
<1>2. ASSUME NEW q \in Requests PROVE RequestOK(q)'
  <2>1. RequestOK(q) /\ todo[q] \subseteq Invites
    BY DEF RequestInv
  <2> QED  BY <2>1 DEF RequestOK, InvitesStay
<1> QED  BY <1>1, <1>2 DEF RequestInv

\* A handler that turns to a user whom it may give a role, or an invite of whom
\* it has in hand, keeps the types.
LEMMA AboutTypes ==
    ASSUME TInv, NEW r \in Requests, NEW u \in Users,
           NEW label \in Targeting \cup Counting \cup {"writeRevoked"}, About(r, u, label),
           pc[r] = "handler", grant' \in [Requests -> Roles \cup {Absent}],
           picked' \in [Requests -> Invites \cup {NoInvite}],
           label \in Granting => grant'[r] \in RequestedRoles,
           label \in Holding => picked'[r] \in Invites /\ invite[picked'[r]].status # "unused",
           \A q \in Requests \ {r} : grant'[q] = grant[q] /\ picked'[q] = picked[q]
    PROVE  TInv'
<1> USE DEF TInv, TypeOK, About, documents
<1>1. raced' \in SUBSET Users
  BY DEF TurnsTo, Owners
<1>2. TypeOK'
  BY <1>1 DEF Labels, Targeting, Counting
<1>3. RequestOK(r)'
  BY DEF RequestOK, RequestInv, Targeting, Counting, Founding
<1>4. ASSUME NEW q \in Requests \ {r} PROVE RequestOK(q)'
  <2>1. RequestOK(q) /\ pc'[q] = pc[q] /\ target'[q] = target[q]
    BY DEF RequestInv
  <2> QED  BY <2>1 DEF RequestOK
<1> QED  BY <1>2, <1>3, <1>4 DEF RequestInv

\* Every step keeps the types and what a request knows of itself.
LEMMA TStep == TInv /\ [Next]_vars => TInv'
<1> SUFFICES ASSUME TInv, [Next]_vars PROVE TInv'
  OBVIOUS
<1>labels. /\ Targeting \cup Counting \cup Holding \subseteq Labels
           /\ Targeting \cap Counting = {} /\ Holding \cap (Targeting \cup Counting) = {}
  BY DEF Targeting, Counting, Founding, Holding, Labels
<1>shared. SharedTypes
  BY DEF TInv, TypeOK, SharedTypes
<1>same. UNCHANGED <<documents, history>> => SharedTypes' /\ InvitesStay
  BY <1>shared DEF SharedTypes, InvitesStay, documents, history
<1>own. ASSUME NEW r \in Requests PROVE RequestOK(r)
  BY DEF TInv, RequestInv
<1>1. ASSUME NEW r \in Requests, Begin(r) PROVE TInv'
  BY <1>1 DEF TInv, TypeOK, RequestInv, RequestOK, Labels, Targeting, Counting, Founding, Granting, Holding, documents, history, Begin, TurnsTo
<1>2. ASSUME NEW r \in Requests, ListInvites(r) PROVE TInv'
  BY <1>2 DEF TInv, TypeOK, RequestInv, RequestOK, Labels, Targeting, Counting, Founding, Granting, Holding, documents, history, ListInvites
<1>3. ASSUME NEW r \in Requests, Accept(r) PROVE TInv'
  BY <1>3 DEF TInv, TypeOK, RequestInv, RequestOK, Labels, Targeting, Counting, Founding, Granting, Holding, documents, history, Accept
<1>4. ASSUME NEW r \in Requests, Join(r) PROVE TInv'
  <2>1. picked[r] \in Invites /\ invite[picked[r]].status # "unused"
    BY <1>4, <1>own DEF Join, RequestOK, Holding
  <2>2. SharedTypes' /\ InvitesStay
    BY <1>4, <1>shared, <2>1 DEF Join, SharedTypes, InvitesStay, history
  <2> QED
    BY <1>4, <1>own, <2>1, <2>2, GotoTypes DEF Join, RequestOK, Labels, Targeting, Counting, Founding, Granting, Holding
<1>5. ASSUME NEW r \in Requests, MarkAccepted(r) PROVE TInv'
  <2>1. picked[r] \in Invites /\ invite[picked[r]].status # "unused"
    BY <1>5, <1>own DEF MarkAccepted, RequestOK, Holding
  <2>2. SharedTypes' /\ InvitesStay
    BY <1>5, <1>shared, <2>1 DEF MarkAccepted, SharedTypes, InvitesStay, Invite, history
  <2> QED
    BY <1>5, <1>own, <2>1, <2>2, GotoTypes DEF MarkAccepted, RequestOK, Labels, Targeting, Counting, Founding, Granting, Holding
<1>6. ASSUME NEW r \in Requests, AcceptedAll(r) PROVE TInv'
  <2>1. \E label \in {"provision", "resolve"} : Goto(r, label)
    BY <1>6 DEF AcceptedAll
  <2> QED
    BY <1>6, <2>1, <1>same, <1>own, GotoTypes DEF AcceptedAll, RequestOK, Labels, Targeting, Counting, Founding, Granting, Holding
<1>7. ASSUME NEW r \in Requests, Provision(r) PROVE TInv'
  <2>1. CASE Finish(r)
    BY <1>7, <1>same, <2>1, FinishTypes DEF Provision
  <2>2. CASE ~Finish(r)
    <3>1. PICK given \in RequestedRoles : grant' = [grant EXCEPT ![r] = given]
      BY <1>7, <2>2 DEF Provision
    <3> QED
      BY <1>7, <2>2, <3>1, RolesAssumption
         DEF TInv, TypeOK, RequestInv, RequestOK, Labels, Targeting, Counting, Founding, Granting, Holding, documents, history, Provision
  <2> QED
    BY <2>1, <2>2
<1>8. ASSUME NEW r \in Requests, Resolve(r) PROVE TInv'
  <2>1. CASE Finish(r)
    BY <1>8, <1>same, <2>1, FinishTypes DEF Resolve
  <2>2. CASE actor[r] \in Founders /\ \E label \in {"recheck", "lookupOrg"} : Goto(r, label)
    BY <1>8, <2>2, <1>same, <1>own, GotoTypes DEF Resolve, RequestOK, Labels, Targeting, Counting, Founding, Granting, Holding
  <2>3. CASE /\ ~Finish(r)
            /\ ~(actor[r] \in Founders /\ \E label \in {"recheck", "lookupOrg"} : Goto(r, label))
    BY <1>8, <2>3 DEF TInv, TypeOK, RequestInv, RequestOK, Labels, Targeting, Counting, Founding, Granting, Holding, documents, history, Resolve
  <2> QED
    BY <2>1, <2>2, <2>3
<1>9. ASSUME NEW r \in Requests, LookupOrg(r) PROVE TInv'
  <2>1. CASE Finish(r)
    BY <1>9, <1>same, <2>1, FinishTypes DEF LookupOrg
  <2>2. CASE Goto(r, "createOrg")
    BY <1>9, <2>2, <1>same, <1>own, GotoTypes DEF LookupOrg, RequestOK, Labels, Targeting, Counting, Founding, Granting, Holding
  <2> QED
    BY <1>9, <2>1, <2>2 DEF LookupOrg
<1>10. ASSUME NEW r \in Requests, CreateOrg(r) PROVE TInv'
  <2>1. SharedTypes' /\ InvitesStay
    BY <1>10, <1>shared DEF CreateOrg, SharedTypes, InvitesStay, history
  <2> QED
    BY <1>10, <1>own, <2>1, GotoTypes DEF CreateOrg, RequestOK, Labels, Targeting, Counting, Founding, Granting, Holding
<1>11. ASSUME NEW r \in Requests, AddOwner(r) PROVE TInv'
  <2>1. actor[r] \in Founders
    BY <1>11, <1>own DEF AddOwner, RequestOK, Founding
  <2>2. SharedTypes' /\ InvitesStay
    BY <1>11, <1>shared, <2>1 DEF AddOwner, SharedTypes, InvitesStay, Roles
  <2>3. CASE Finish(r)
    BY <2>2, <2>3, FinishTypes
  <2>4. CASE ~Finish(r)
    BY <1>11, <2>2, <2>4 DEF TInv, TypeOK, RequestInv, RequestOK, Labels, Targeting, Counting, Founding, Granting, Holding, documents, history, SharedTypes, Roles, AddOwner
  <2> QED
    BY <2>3, <2>4
<1>12. ASSUME NEW r \in Requests, OtherHandler(r) PROVE TInv'
  BY <1>12, <1>same, FinishTypes DEF OtherHandler
<1>13. ASSUME NEW r \in Requests, CreateOrganization(r) PROVE TInv'
  BY <1>13 DEF TInv, TypeOK, RequestInv, RequestOK, Labels, Targeting, Counting, Founding, Granting, Holding, documents, history, CreateOrganization, TurnsTo
<1>14. ASSUME NEW r \in Requests, InviteMember(r) PROVE TInv'
  <2>1. PICK u \in Users, given \in RequestedRoles :
          grant' = [grant EXCEPT ![r] = given] /\ About(r, u, "checkPending")
    BY <1>14 DEF InviteMember
  <2> QED
    BY <1>14, <2>1, RolesAssumption, AboutTypes
       DEF InviteMember, TInv, TypeOK, Targeting, Counting, Founding, Holding
<1>15. ASSUME NEW r \in Requests, CheckPending(r) PROVE TInv'
  <2>1. CASE Finish(r)
    BY <1>15, <1>same, <2>1, FinishTypes DEF CheckPending
  <2>2. CASE Goto(r, "lookupUser")
    BY <1>15, <2>2, <1>same, <1>own, GotoTypes DEF CheckPending, RequestOK, Labels, Targeting, Counting, Founding, Granting, Holding
  <2> QED
    BY <1>15, <2>1, <2>2 DEF CheckPending
<1>16. ASSUME NEW r \in Requests, LookupUser(r) PROVE TInv'
  <2>1. PICK label \in {"checkMember", "writeInvite"} : Goto(r, label)
    BY <1>16 DEF LookupUser
  <2> QED
    BY <1>16, <2>1, <1>same, <1>own, GotoTypes DEF LookupUser, RequestOK, Labels, Targeting, Counting, Founding, Granting, Holding
<1>17. ASSUME NEW r \in Requests, CheckMember(r) PROVE TInv'
  <2>1. CASE Finish(r)
    BY <1>17, <1>same, <2>1, FinishTypes DEF CheckMember
  <2>2. CASE Goto(r, "addMember")
    BY <1>17, <2>2, <1>same, <1>own, GotoTypes DEF CheckMember, RequestOK, Labels, Targeting, Counting, Founding, Granting, Holding
  <2> QED
    BY <1>17, <2>1, <2>2 DEF CheckMember
<1>18. ASSUME NEW r \in Requests, AddMember(r) PROVE TInv'
  <2>1. SharedTypes' /\ InvitesStay
    BY <1>18, <1>shared, <1>own, RolesAssumption
       DEF AddMember, SharedTypes, InvitesStay, RequestOK, Labels, Targeting, Counting, Founding, Granting, Holding, Invite, history
  <2> QED
    BY <1>18, <2>1, FinishTypes DEF AddMember
<1>19. ASSUME NEW r \in Requests, WriteInvite(r) PROVE TInv'
  <2>1. SharedTypes' /\ InvitesStay
    BY <1>19, <1>shared, <1>own, RolesAssumption
       DEF WriteInvite, SharedTypes, InvitesStay, RequestOK, Labels, Targeting, Counting, Founding, Granting, Holding, Invite, history, Unused
  <2> QED
    BY <1>19, <2>1, FinishTypes DEF WriteInvite
<1>20. ASSUME NEW r \in Requests, RevokeInvite(r) PROVE TInv'
  <2>1. PICK i \in Invites : /\ invite[i].status = "pending"
                           /\ picked' = [picked EXCEPT ![r] = i]
                           /\ About(r, invite[i].user, "writeRevoked")
    BY <1>20 DEF RevokeInvite
  <2> QED
    BY <1>20, <2>1, AboutTypes
       DEF RevokeInvite, TInv, TypeOK, Targeting, Counting, Founding, Granting, Holding
<1>21. ASSUME NEW r \in Requests, WriteRevoked(r) PROVE TInv'
  <2>1. SharedTypes' /\ InvitesStay
    BY <1>21, <1>shared, <1>own, RolesAssumption
       DEF WriteRevoked, SharedTypes, InvitesStay, RequestOK, Labels, Targeting, Counting, Founding, Granting, Holding, Invite, history
  <2> QED
    BY <1>21, <2>1, FinishTypes DEF WriteRevoked
<1>22. ASSUME NEW r \in Requests, UpdateRole(r) PROVE TInv'
  <2>1. PICK u \in Users, given \in RequestedRoles, label \in {"countToChange", "writeRole"} :
          grant' = [grant EXCEPT ![r] = given] /\ About(r, u, label)
    BY <1>22 DEF UpdateRole
  <2> QED
    BY <1>22, <2>1, RolesAssumption, AboutTypes
       DEF UpdateRole, TInv, TypeOK, Targeting, Counting, Founding, Holding
<1>23. ASSUME NEW r \in Requests, RemoveMember(r) PROVE TInv'
  <2>1. PICK u \in Users, label \in {"countToRemove", "delete"} : About(r, u, label)
    BY <1>23 DEF RemoveMember
  <2> QED
    BY <1>23, <2>1, AboutTypes
       DEF RemoveMember, TInv, TypeOK, Targeting, Counting, Founding, Granting, Holding
<1>24. ASSUME NEW r \in Requests, CountOwners(r) PROVE TInv'
  <2>1. CASE Finish(r)
    BY <1>24, <1>same, <2>1, FinishTypes DEF CountOwners
  <2>2. CASE pc[r] = "countToChange" /\ Goto(r, "writeRole")
    BY <1>24, <2>2, <1>same, <1>own, GotoTypes DEF CountOwners, RequestOK, Labels, Targeting, Counting, Founding, Granting, Holding
  <2>3. CASE pc[r] = "countToRemove" /\ Goto(r, "delete")
    BY <1>24, <2>3, <1>same, <1>own, GotoTypes DEF CountOwners, RequestOK, Labels, Targeting, Counting, Founding, Granting, Holding
  <2> QED
    BY <1>24, <2>1, <2>2, <2>3 DEF CountOwners, Counting
<1>25. ASSUME NEW r \in Requests, WriteRole(r) PROVE TInv'
  <2>1. SharedTypes' /\ InvitesStay
    BY <1>25, <1>shared, <1>own, RolesAssumption
       DEF WriteRole, SharedTypes, InvitesStay, RequestOK, Labels, Targeting, Counting, Founding, Granting, Holding, Invite, history
  <2> QED
    BY <1>25, <2>1, FinishTypes DEF WriteRole
<1>26. ASSUME NEW r \in Requests, Delete(r) PROVE TInv'
  <2>1. SharedTypes' /\ InvitesStay
    BY <1>26, <1>shared, <1>own, RolesAssumption
       DEF Delete, SharedTypes, InvitesStay, RequestOK, Labels, Targeting, Counting, Founding, Granting, Holding, Invite, history
  <2> QED
    BY <1>26, <2>1, FinishTypes DEF Delete
<1>27. ASSUME NEW r \in Requests, Abort(r) PROVE TInv'
  <2>1. SharedTypes' /\ InvitesStay
    BY <1>27, <1>shared, FaultsAssumption DEF Abort, SharedTypes, InvitesStay, documents
  <2> QED
    BY <1>27, <2>1, FinishTypes DEF Abort
<1>28. CASE UNCHANGED vars
  BY <1>28 DEF vars, TInv, TypeOK, RequestInv, RequestOK
<1> QED
  BY <1>1, <1>2, <1>3, <1>4, <1>5, <1>6, <1>7, <1>8, <1>9, <1>10, <1>11, <1>12, <1>13, <1>14, <1>15, <1>16, <1>17, <1>18, <1>19, <1>20, <1>21, <1>22, <1>23, <1>24, <1>25, <1>26, <1>27, <1>28 DEF Next

-----------------------------------------------------------------------------
(* The founder's ownership.                                                *)

\* Nobody has founded the organization yet.
LEMMA OInit == Init => OInv
  BY DEF Init, OInv, DocumentsOK, ApartFromOwner, Unused, Early, Absent, Counting, Targeting

\* A step that founds nothing leaves the other requests as they were.
LEMMA OthersApart ==
    ASSUME OInv, founded' = founded, NEW r \in Requests,
           \A q \in Requests \ {r} :
              /\ pc'[q] = pc[q] /\ via'[q] = via[q] /\ actor'[q] = actor[q]
              /\ mine'[q] = mine[q] /\ target'[q] = target[q] /\ todo'[q] = todo[q],
           ApartFromOwner(r)'
    PROVE  \A q \in Requests : ApartFromOwner(q)'
  BY DEF OInv, ApartFromOwner

\* Nor does one that ends a request, or takes it on to another of its own labels.
LEMMA FinishApart ==
    ASSUME TInv, OInv, founded' = founded, NEW r \in Requests, Finish(r), DocumentsOK'
    PROVE  OInv'
<1>1. ApartFromOwner(r)'
  BY NullsAssumption DEF TInv, TypeOK, Finish, ApartFromOwner, Early, Counting, Targeting, Absent
<1>2. \A q \in Requests \ {r} :
        /\ pc'[q] = pc[q] /\ via'[q] = via[q] /\ actor'[q] = actor[q]
        /\ mine'[q] = mine[q] /\ target'[q] = target[q] /\ todo'[q] = todo[q]
  BY DEF TInv, TypeOK, Finish
<1> QED  BY <1>1, <1>2, OthersApart DEF OInv

\* Nor one that takes a request on with what it has.
LEMMA GotoApart ==
    ASSUME TInv, OInv, founded' = founded, NEW r \in Requests, NEW label, Goto(r, label),
           DocumentsOK', founded = {} => label \in Early, label \notin Counting \cup {"idle"},
           label = "join" => \A f \in Users : founded = {f} => actor[r] # f,
           label \in Targeting => \A f \in Users : founded = {f} => target[r] # f
    PROVE  OInv'
<1>1. ApartFromOwner(r)'
  BY DEF TInv, TypeOK, OInv, Goto, ApartFromOwner
<1>2. \A q \in Requests \ {r} :
        /\ pc'[q] = pc[q] /\ via'[q] = via[q] /\ actor'[q] = actor[q]
        /\ mine'[q] = mine[q] /\ target'[q] = target[q] /\ todo'[q] = todo[q]
  BY DEF TInv, TypeOK, Goto
<1> QED  BY <1>1, <1>2, OthersApart DEF OInv

\* A handler turns to the only founder for nothing but a revocation.
LEMMA AboutApart ==
    ASSUME TInv, OInv, NEW r \in Requests, NEW u \in Users, NEW label,
           About(r, u, label), pc[r] = "handler", label \notin {"join", "idle"},
           label \in Counting => u \in founded /\ actor[r] \in founded /\ u # actor[r],
           label \in Targeting => \A f \in Users : founded = {f} => u # f
    PROVE  OInv'
<1>1. founded # {}
  BY DEF OInv, ApartFromOwner, Early
<1>2. ApartFromOwner(r)'
  BY <1>1 DEF TInv, TypeOK, OInv, About, ApartFromOwner, documents
<1>3. \A q \in Requests \ {r} :
        /\ pc'[q] = pc[q] /\ via'[q] = via[q] /\ actor'[q] = actor[q]
        /\ mine'[q] = mine[q] /\ target'[q] = target[q] /\ todo'[q] = todo[q]
  BY DEF TInv, TypeOK, About
<1>4. DocumentsOK'
  BY DEF OInv, DocumentsOK, About, documents
<1> QED  BY <1>2, <1>3, <1>4, OthersApart DEF OInv, About

\* Every step keeps the founder's ownership out of reach.
LEMMA OStep == TInv /\ OInv /\ [Next]_vars => OInv'
<1> SUFFICES ASSUME TInv, OInv, [Next]_vars PROVE OInv'
  OBVIOUS
<1>docs. DocumentsOK
  BY DEF OInv
<1>own. ASSUME NEW r \in Requests PROVE ApartFromOwner(r) /\ RequestOK(r)
  BY DEF OInv, TInv, RequestInv
<1>same. UNCHANGED <<documents, history>> => DocumentsOK' /\ founded' = founded
  BY <1>docs DEF DocumentsOK, documents, history
<1>others. TypeOK
  BY DEF TInv
<1>1. ASSUME NEW r \in Requests, Begin(r) PROVE OInv'
  <2>1. ApartFromOwner(r)'
    BY <1>1, <1>own, <1>others DEF Begin, ApartFromOwner, Early, Targeting, Counting, documents, history
  <2>2. \A q \in Requests \ {r} :
          /\ pc'[q] = pc[q] /\ via'[q] = via[q] /\ actor'[q] = actor[q]
          /\ mine'[q] = mine[q] /\ target'[q] = target[q] /\ todo'[q] = todo[q]
    BY <1>1, <1>others DEF Begin, TypeOK
  <2>3. DocumentsOK' /\ founded' = founded
    BY <1>1, <1>docs DEF Begin, DocumentsOK, documents, history
  <2> QED
    BY <2>1, <2>2, <2>3, OthersApart DEF OInv
<1>2. ASSUME NEW r \in Requests, ListInvites(r) PROVE OInv'
  <2>1. ApartFromOwner(r)'
    BY <1>2, <1>docs, <1>own, <1>others DEF ListInvites, DocumentsOK, ApartFromOwner, Early, Targeting, Counting, documents, history
  <2>2. \A q \in Requests \ {r} :
          /\ pc'[q] = pc[q] /\ via'[q] = via[q] /\ actor'[q] = actor[q]
          /\ mine'[q] = mine[q] /\ target'[q] = target[q] /\ todo'[q] = todo[q]
    BY <1>2, <1>others DEF ListInvites, TypeOK
  <2>3. DocumentsOK' /\ founded' = founded
    BY <1>2, <1>docs DEF ListInvites, DocumentsOK, documents, history
  <2> QED
    BY <2>1, <2>2, <2>3, OthersApart DEF OInv
<1>3. ASSUME NEW r \in Requests, Accept(r) PROVE OInv'
  <2>1. ApartFromOwner(r)'
    BY <1>3, <1>docs, <1>own, <1>others DEF Accept, DocumentsOK, RequestOK, Absent, ApartFromOwner, Early, Targeting, Counting, documents, history
  <2>2. \A q \in Requests \ {r} :
          /\ pc'[q] = pc[q] /\ via'[q] = via[q] /\ actor'[q] = actor[q]
          /\ mine'[q] = mine[q] /\ target'[q] = target[q] /\ todo'[q] = todo[q]
    BY <1>3, <1>others DEF Accept, TypeOK
  <2>3. DocumentsOK' /\ founded' = founded
    BY <1>3, <1>docs DEF Accept, DocumentsOK, documents, history
  <2> QED
    BY <2>1, <2>2, <2>3, OthersApart DEF OInv
<1>4. ASSUME NEW r \in Requests, Join(r) PROVE OInv'
  <2>1. picked[r] \in Invites /\ invite[picked[r]].status # "unused" /\ actor[r] \in Users
    BY <1>4, <1>own DEF Join, RequestOK, Holding
  <2>2. founded # {} /\ \A f \in Users : founded = {f} => actor[r] # f
    BY <1>4, <1>own DEF Join, ApartFromOwner, Early
  <2>3. DocumentsOK' /\ founded' = founded
    BY <1>4, <1>docs, <1>others, <2>1, <2>2 DEF Join, DocumentsOK, TypeOK, history
  <2> QED
    BY <1>4, <2>2, <2>3, GotoApart DEF Join, Early, Targeting, Counting
<1>5. ASSUME NEW r \in Requests, MarkAccepted(r) PROVE OInv'
  <2>1. founded # {}
    BY <1>5, <1>own DEF MarkAccepted, ApartFromOwner, Early
  <2>2. DocumentsOK' /\ founded' = founded
    BY <1>5, <1>docs, <2>1 DEF MarkAccepted, DocumentsOK, history
  <2> QED
    BY <1>5, <2>1, <2>2, GotoApart DEF MarkAccepted, Early, Targeting, Counting
<1>6. ASSUME NEW r \in Requests, AcceptedAll(r) PROVE OInv'
  <2>1. PICK label \in {"provision", "resolve"} :
          Goto(r, label) /\ (label = "provision" => via[r] = "sso")
    BY <1>6 DEF AcceptedAll
  <2>2. founded = {} => label \in Early
    BY <1>own, <2>1 DEF ApartFromOwner, Early
  <2> QED
    BY <1>6, <1>same, <2>1, <2>2, GotoApart DEF AcceptedAll, Targeting, Counting
<1>7. ASSUME NEW r \in Requests, Provision(r) PROVE OInv'
  <2>1. CASE Finish(r)
    BY <1>7, <1>same, <2>1, FinishApart DEF Provision
  <2>2. CASE ~Finish(r)
    <3>1. /\ target' = [target EXCEPT ![r] = actor[r]] /\ pc' = [pc EXCEPT ![r] = "addMember"]
          /\ UNCHANGED <<via, actor, mine, todo>> /\ UNCHANGED <<documents, history>>
      BY <1>7, <2>2 DEF Provision
    <3>2. role[actor[r]] = Absent /\ founded # {} /\ actor[r] \in Users
      BY <1>7, <1>own, <2>2 DEF Provision, ApartFromOwner, Early, RequestOK
    <3>3. ApartFromOwner(r)'
      BY <1>own, <1>docs, <1>others, <1>same, <3>1, <3>2
         DEF ApartFromOwner, DocumentsOK, TypeOK, Absent, Early, Targeting, Counting
    <3> QED
      BY <1>others, <1>same, <3>1, <3>3, OthersApart DEF OInv, TypeOK
  <2> QED
    BY <2>1, <2>2
<1>8. ASSUME NEW r \in Requests, Resolve(r) PROVE OInv'
  <2>1. CASE Finish(r)
    BY <1>8, <1>same, <2>1, FinishApart DEF Resolve
  <2>2. CASE role[actor[r]] = Absent /\ \E label \in {"recheck", "lookupOrg"} : Goto(r, label)
    BY <1>8, <2>2, <1>same, GotoApart DEF Resolve, Early, Targeting, Counting
  <2>3. CASE /\ ~Finish(r)
            /\ ~(role[actor[r]] = Absent /\ \E label \in {"recheck", "lookupOrg"} : Goto(r, label))
    <3>1. /\ mine' = [mine EXCEPT ![r] = role[actor[r]]] /\ pc' = [pc EXCEPT ![r] = "handler"]
          /\ UNCHANGED <<via, actor, target, todo>> /\ UNCHANGED <<documents, history>>
      BY <1>8, <2>3 DEF Resolve
    <3>2. role[actor[r]] # Absent /\ actor[r] \in Users
      BY <1>8, <1>own, <2>3 DEF Resolve, RequestOK
    <3>3. founded # {}
      BY <1>docs, <3>2 DEF DocumentsOK
    <3>4. ApartFromOwner(r)'
      BY <1>own, <1>docs, <1>others, <1>same, <3>1, <3>2, <3>3
         DEF ApartFromOwner, DocumentsOK, TypeOK, Early, Targeting, Counting
    <3> QED
      BY <1>others, <1>same, <3>1, <3>4, OthersApart DEF OInv, TypeOK
  <2> QED
    BY <2>1, <2>2, <2>3
<1>9. ASSUME NEW r \in Requests, LookupOrg(r) PROVE OInv'
  <2>1. CASE Finish(r)
    BY <1>9, <1>same, <2>1, FinishApart DEF LookupOrg
  <2>2. CASE Goto(r, "createOrg")
    BY <1>9, <2>2, <1>same, GotoApart DEF LookupOrg, Early, Targeting, Counting
  <2> QED
    BY <1>9, <2>1, <2>2 DEF LookupOrg
<1>10. ASSUME NEW r \in Requests, CreateOrg(r) PROVE OInv'
  <2>1. DocumentsOK' /\ founded' = founded
    BY <1>10, <1>docs DEF CreateOrg, DocumentsOK, history
  <2> QED
    BY <1>10, <2>1, GotoApart DEF CreateOrg, Early, Targeting, Counting
<1>11. ASSUME NEW r \in Requests, AddOwner(r) PROVE OInv'
  <2>1. actor[r] \in Users /\ founded' = founded \cup {actor[r]}
    BY <1>11, <1>own, FoundersAssumption DEF AddOwner, RequestOK
  <2>2. role' = [role EXCEPT ![actor[r]] = "owner"] /\ UNCHANGED invite
    BY <1>11 DEF AddOwner
  <2>3. DocumentsOK'
    <3>1. \A u \in Users : role'[u] = IF u = actor[r] THEN "owner" ELSE role[u]
      BY <1>others, <2>2 DEF TypeOK
    <3>2. founded' # {}
      BY <2>1
    <3>3. \A u \in Users : role'[u] = "owner" => u \in founded'
      BY <1>docs, <2>1, <3>1 DEF DocumentsOK
    <3>4. \A f \in Users : founded' = {f} => f = actor[r]
      BY <2>1
    <3> QED
      BY <3>1, <3>2, <3>3, <3>4 DEF DocumentsOK
  <2>4. ASSUME NEW q \in Requests \ {r} PROVE ApartFromOwner(q)'
    <3>1. /\ pc'[q] = pc[q] /\ via'[q] = via[q] /\ actor'[q] = actor[q]
          /\ mine'[q] = mine[q] /\ target'[q] = target[q] /\ todo'[q] = todo[q]
      BY <1>11, <1>others DEF AddOwner, Finish, TypeOK
    <3>2. founded = {} \/ \A f \in Users : founded' = {f} => founded = {f}
      BY <2>1
    <3>3. ApartFromOwner(q)
      BY <1>own
    <3> QED
      BY <2>1, <3>1, <3>2, <3>3 DEF ApartFromOwner, Early, Targeting, Counting
  <2>5. ApartFromOwner(r)'
    <3>1. /\ pc'[r] \in {"idle", "handler"}
          /\ mine'[r] = "owner" => actor'[r] = actor[r] /\ pc'[r] = "handler"
      BY <1>11, <1>others DEF AddOwner, Finish, TypeOK, Absent
    <3> QED
      BY <2>1, <3>1 DEF ApartFromOwner, Counting, Targeting
  <2> QED
    BY <2>3, <2>4, <2>5 DEF OInv
<1>12. ASSUME NEW r \in Requests, OtherHandler(r) PROVE OInv'
  BY <1>12, <1>same, FinishApart DEF OtherHandler
<1>13. ASSUME NEW r \in Requests, CreateOrganization(r) PROVE OInv'
  <2>1. ApartFromOwner(r)'
    BY <1>13, <1>own, <1>others DEF CreateOrganization, ApartFromOwner, Early, Targeting, Counting, documents, history
  <2>2. \A q \in Requests \ {r} :
          /\ pc'[q] = pc[q] /\ via'[q] = via[q] /\ actor'[q] = actor[q]
          /\ mine'[q] = mine[q] /\ target'[q] = target[q] /\ todo'[q] = todo[q]
    BY <1>13, <1>others DEF CreateOrganization, TypeOK
  <2>3. DocumentsOK' /\ founded' = founded
    BY <1>13, <1>docs DEF CreateOrganization, DocumentsOK, documents, history
  <2> QED
    BY <2>1, <2>2, <2>3, OthersApart DEF OInv
<1>14. ASSUME NEW r \in Requests, InviteMember(r) PROVE OInv'
  <2>1. PICK u \in Users : role[u] = Absent /\ About(r, u, "checkPending")
    BY <1>14 DEF InviteMember
  <2>2. \A f \in Users : founded = {f} => u # f
    BY <1>docs, <2>1 DEF DocumentsOK, Absent
  <2> QED
    BY <1>14, <2>1, <2>2, AboutApart DEF InviteMember, Counting
<1>15. ASSUME NEW r \in Requests, CheckPending(r) PROVE OInv'
  <2>1. founded # {} /\ \A f \in Users : founded = {f} => target[r] # f
    BY <1>15, <1>own DEF CheckPending, ApartFromOwner, Early, Targeting, Counting
  <2>2. CASE Finish(r)
    BY <1>15, <1>same, <2>2, FinishApart DEF CheckPending
  <2>3. CASE Goto(r, "lookupUser")
    BY <1>15, <1>same, <2>1, <2>3, GotoApart DEF CheckPending, Early, Targeting, Counting
  <2> QED
    BY <1>15, <2>2, <2>3 DEF CheckPending
<1>16. ASSUME NEW r \in Requests, LookupUser(r) PROVE OInv'
  <2>1. founded # {} /\ \A f \in Users : founded = {f} => target[r] # f
    BY <1>16, <1>own DEF LookupUser, ApartFromOwner, Early, Targeting, Counting
  <2>2. PICK label \in {"checkMember", "writeInvite"} : Goto(r, label)
    BY <1>16 DEF LookupUser
  <2> QED
    BY <1>16, <1>same, <2>1, <2>2, GotoApart DEF LookupUser, Early, Targeting, Counting
<1>17. ASSUME NEW r \in Requests, CheckMember(r) PROVE OInv'
  <2>1. founded # {} /\ \A f \in Users : founded = {f} => target[r] # f
    BY <1>17, <1>own DEF CheckMember, ApartFromOwner, Early, Targeting, Counting
  <2>2. CASE Finish(r)
    BY <1>17, <1>same, <2>2, FinishApart DEF CheckMember
  <2>3. CASE Goto(r, "addMember")
    BY <1>17, <1>same, <2>1, <2>3, GotoApart DEF CheckMember, Early, Targeting, Counting
  <2> QED
    BY <1>17, <2>2, <2>3 DEF CheckMember
<1>18. ASSUME NEW r \in Requests, AddMember(r) PROVE OInv'
  <2>1. founded # {} /\ \A f \in Users : founded = {f} => target[r] # f
    BY <1>18, <1>own DEF AddMember, ApartFromOwner, Early, Targeting, Counting
  <2>2. target[r] \in Users /\ grant[r] # "owner"
    BY <1>18, <1>own, RolesAssumption DEF AddMember, RequestOK, Targeting, Granting
  <2>3. DocumentsOK' /\ founded' = founded
    BY <1>18, <1>docs, <1>others, <2>1, <2>2 DEF AddMember, DocumentsOK, TypeOK, history
  <2> QED
    BY <1>18, <2>3, FinishApart DEF AddMember
<1>19. ASSUME NEW r \in Requests, WriteInvite(r) PROVE OInv'
  <2>1. founded # {}
    BY <1>19, <1>own DEF WriteInvite, ApartFromOwner, Early
  <2>2. DocumentsOK' /\ founded' = founded
    BY <1>19, <1>docs, <2>1 DEF WriteInvite, DocumentsOK, history
  <2> QED
    BY <1>19, <2>2, FinishApart DEF WriteInvite
<1>20. ASSUME NEW r \in Requests, RevokeInvite(r) PROVE OInv'
  <2>1. PICK i \in Invites :
          invite[i].status = "pending" /\ About(r, invite[i].user, "writeRevoked")
    BY <1>20 DEF RevokeInvite
  <2>2. invite[i].user \in Users
    BY <1>others, <2>1 DEF TypeOK
  <2> QED
    BY <1>20, <2>1, <2>2, AboutApart DEF RevokeInvite, Counting, Targeting
<1>21. ASSUME NEW r \in Requests, WriteRevoked(r) PROVE OInv'
  <2>1. founded # {}
    BY <1>21, <1>own DEF WriteRevoked, ApartFromOwner, Early
  <2>2. DocumentsOK' /\ founded' = founded
    BY <1>21, <1>docs, <2>1 DEF WriteRevoked, DocumentsOK, history
  <2> QED
    BY <1>21, <2>2, FinishApart DEF WriteRevoked
<1>22. ASSUME NEW r \in Requests, UpdateRole(r) PROVE OInv'
  <2>1. PICK u \in Users :
          /\ Manages(r, u)
          /\ About(r, u, IF role[u] = "owner" THEN "countToChange" ELSE "writeRole")
    BY <1>22 DEF UpdateRole
  <2>2. CASE role[u] = "owner"
    <3>1. mine[r] = "owner" /\ u # actor[r]
      BY <2>1, <2>2 DEF Manages, Manageable, Invitable
    <3>2. u \in founded /\ actor[r] \in founded
      BY <1>docs, <1>own, <2>2, <3>1 DEF DocumentsOK, ApartFromOwner
    <3>3. About(r, u, "countToChange")
      BY <2>1, <2>2
    <3> QED
      BY <1>22, <3>1, <3>2, <3>3, AboutApart DEF UpdateRole, Counting, Targeting
  <2>3. CASE role[u] # "owner"
    <3>1. \A f \in Users : founded = {f} => u # f
      BY <1>docs, <2>3 DEF DocumentsOK
    <3>2. About(r, u, "writeRole")
      BY <2>1, <2>3
    <3> QED
      BY <1>22, <3>1, <3>2, AboutApart DEF UpdateRole, Counting, Targeting
  <2> QED
    BY <2>2, <2>3
<1>23. ASSUME NEW r \in Requests, RemoveMember(r) PROVE OInv'
  <2>1. PICK u \in Users :
          /\ Manages(r, u)
          /\ About(r, u, IF role[u] = "owner" THEN "countToRemove" ELSE "delete")
    BY <1>23 DEF RemoveMember
  <2>2. CASE role[u] = "owner"
    <3>1. mine[r] = "owner" /\ u # actor[r]
      BY <2>1, <2>2 DEF Manages, Manageable, Invitable
    <3>2. u \in founded /\ actor[r] \in founded
      BY <1>docs, <1>own, <2>2, <3>1 DEF DocumentsOK, ApartFromOwner
    <3>3. About(r, u, "countToRemove")
      BY <2>1, <2>2
    <3> QED
      BY <1>23, <3>1, <3>2, <3>3, AboutApart DEF RemoveMember, Counting, Targeting
  <2>3. CASE role[u] # "owner"
    <3>1. \A f \in Users : founded = {f} => u # f
      BY <1>docs, <2>3 DEF DocumentsOK
    <3>2. About(r, u, "delete")
      BY <2>1, <2>3
    <3> QED
      BY <1>23, <3>1, <3>2, AboutApart DEF RemoveMember, Counting, Targeting
  <2> QED
    BY <2>2, <2>3
<1>24. ASSUME NEW r \in Requests, CountOwners(r) PROVE OInv'
  <2>1. CASE Finish(r)
    BY <1>24, <1>same, <2>1, FinishApart DEF CountOwners
  <2>2. /\ founded # {}
        /\ target[r] \in founded /\ actor[r] \in founded /\ target[r] # actor[r]
    BY <1>24, <1>own DEF CountOwners, ApartFromOwner
  <2>3. \A f \in Users : founded = {f} => target[r] # f
    BY <2>2
  <2>4. CASE \E label \in {"writeRole", "delete"} : Goto(r, label)
    BY <1>24, <1>same, <2>2, <2>3, <2>4, GotoApart DEF CountOwners, Early, Targeting, Counting
  <2> QED
    BY <1>24, <2>1, <2>4 DEF CountOwners
<1>25. ASSUME NEW r \in Requests, WriteRole(r) PROVE OInv'
  <2>1. founded # {} /\ \A f \in Users : founded = {f} => target[r] # f
    BY <1>25, <1>own DEF WriteRole, ApartFromOwner, Early, Targeting, Counting
  <2>2. target[r] \in Users /\ grant[r] # "owner"
    BY <1>25, <1>own, RolesAssumption DEF WriteRole, RequestOK, Targeting, Granting
  <2>3. DocumentsOK' /\ founded' = founded
    BY <1>25, <1>docs, <1>others, <2>1, <2>2 DEF WriteRole, DocumentsOK, TypeOK, history
  <2> QED
    BY <1>25, <2>3, FinishApart DEF WriteRole
<1>26. ASSUME NEW r \in Requests, Delete(r) PROVE OInv'
  <2>1. founded # {} /\ \A f \in Users : founded = {f} => target[r] # f
    BY <1>26, <1>own DEF Delete, ApartFromOwner, Early, Targeting, Counting
  <2>2. target[r] \in Users
    BY <1>26, <1>own DEF Delete, RequestOK, Targeting
  <2>3. DocumentsOK' /\ founded' = founded
    BY <1>26, <1>docs, <1>others, <2>1, <2>2 DEF Delete, DocumentsOK, TypeOK, Absent, history
  <2> QED
    BY <1>26, <2>3, FinishApart DEF Delete
<1>27. ASSUME NEW r \in Requests, Abort(r) PROVE OInv'
  <2>1. DocumentsOK' /\ founded' = founded
    BY <1>27, <1>docs DEF Abort, DocumentsOK, documents
  <2> QED
    BY <1>27, <2>1, FinishApart DEF Abort
<1>28. CASE UNCHANGED vars
  BY <1>28 DEF vars, OInv, DocumentsOK, ApartFromOwner
<1> QED
  BY <1>1, <1>2, <1>3, <1>4, <1>5, <1>6, <1>7, <1>8, <1>9, <1>10, <1>11, <1>12, <1>13, <1>14, <1>15, <1>16, <1>17, <1>18, <1>19, <1>20, <1>21, <1>22, <1>23, <1>24, <1>25, <1>26, <1>27, <1>28 DEF Next

-----------------------------------------------------------------------------
(* Requests about one user.                                                *)

\* While it signs in, a request is about its actor alone, and so it is while it
\* founds an organization; one that revokes an invite is about the invited user.
Starting == {"listInvites", "accept", "join", "markAccepted", "provision", "resolve", "recheck"}
SubjectOK(r) ==
    /\ pc[r] \in {"idle", "handler"} \cup Starting => target[r] = NoUser
    /\ pc[r] \in {"lookupOrg", "createOrg", "addOwner"} => target[r] \in {NoUser, actor[r]}
    /\ pc[r] = "writeRevoked" => target[r] \in Users

\* Two requests about one user are remembered.
Alone ==
    \A q, r \in Requests :
        q # r /\ Subject(q) = Subject(r) /\ Subject(r) \in Users => Subject(r) \in raced

SInv == Alone /\ \A r \in Requests : SubjectOK(r)

\* The pending invites of a user.
Pending(u) == {i \in Invites : invite[i].user = u /\ invite[i].status = "pending"}

\* What a step of a request may do: it disturbs no other one, writes of no user but its
\* own, and when it turns to another it is noticed whether somebody is there.
Moves(r) ==
    /\ \A q \in Requests \ {r} :
          /\ pc'[q] = pc[q] /\ actor'[q] = actor[q] /\ target'[q] = target[q]
          /\ todo'[q] = todo[q] /\ picked'[q] = picked[q]
    /\ raced \subseteq raced'
    /\ \A u \in Users : u # Subject(r) => role'[u] = role[u] /\ Pending(u)' \subseteq Pending(u)
    /\ \/ Subject(r)' \in {NoUser, Subject(r)}
       \/ \A q \in Requests \ {r} : Subject(q) = Subject(r)' => Subject(r)' \in raced'

\* What request r may do.
Acts(r) ==
    \/ Begin(r) \/ ListInvites(r) \/ Accept(r) \/ Join(r) \/ MarkAccepted(r)
    \/ AcceptedAll(r) \/ Provision(r)
    \/ Resolve(r) \/ LookupOrg(r) \/ CreateOrg(r) \/ AddOwner(r)
    \/ OtherHandler(r) \/ CreateOrganization(r)
    \/ InviteMember(r) \/ CheckPending(r) \/ LookupUser(r) \/ CheckMember(r)
    \/ AddMember(r) \/ WriteInvite(r) \/ RevokeInvite(r) \/ WriteRevoked(r)
    \/ UpdateRole(r) \/ RemoveMember(r) \/ CountOwners(r) \/ WriteRole(r) \/ Delete(r)
    \/ Abort(r)

\* A request that ends, whatever it wrote last.
LEMMA FinishMoves ==
    ASSUME TInv, NEW r \in Requests, Finish(r), raced' = raced,
           \A u \in Users : u # Subject(r) => role'[u] = role[u] /\ Pending(u)' \subseteq Pending(u)
    PROVE  Moves(r) /\ SubjectOK(r)'
<1>1. pc'[r] = "idle" /\ target'[r] = NoUser
  BY DEF Finish, TInv, TypeOK
<1>2. \A q \in Requests \ {r} :
          /\ pc'[q] = pc[q] /\ actor'[q] = actor[q] /\ target'[q] = target[q]
          /\ todo'[q] = todo[q] /\ picked'[q] = picked[q]
  BY DEF Finish, TInv, TypeOK
<1> QED  BY <1>1, <1>2 DEF Moves, Subject, SubjectOK, Starting

\* One that goes on with what it has.
LEMMA GotoMoves ==
    ASSUME TInv, NEW r \in Requests, NEW label \in Labels \ {"idle", "handler"}, Goto(r, label),
           pc[r] \notin {"idle", "handler"}, SubjectOK(r), raced' = raced,
           label \in Starting => pc[r] \in Starting,
           label \in {"lookupOrg", "createOrg", "addOwner"} =>
               pc[r] \in Starting \cup {"lookupOrg", "createOrg"},
           label # "writeRevoked",
           \A u \in Users : u # Subject(r) => role'[u] = role[u] /\ Pending(u)' \subseteq Pending(u)
    PROVE  Moves(r) /\ SubjectOK(r)' /\ Subject(r)' = Subject(r)
<1>1. pc'[r] = label /\ target'[r] = target[r] /\ actor'[r] = actor[r]
  BY DEF Goto, TInv, TypeOK
<1>2. \A q \in Requests \ {r} :
          /\ pc'[q] = pc[q] /\ actor'[q] = actor[q] /\ target'[q] = target[q]
          /\ todo'[q] = todo[q] /\ picked'[q] = picked[q]
  BY DEF Goto, TInv, TypeOK
<1>3. Subject(r)' = Subject(r)
  BY <1>1 DEF Subject
<1> QED  BY <1>1, <1>2, <1>3 DEF Moves, SubjectOK, Starting

\* One that turns to a user.
LEMMA AboutMoves ==
    ASSUME TInv, NEW r \in Requests, NEW u \in Users,
           NEW label \in Targeting \cup Counting \cup {"writeRevoked"}, About(r, u, label),
           \A q \in Requests \ {r} : picked'[q] = picked[q]
    PROVE  Moves(r) /\ SubjectOK(r)' /\ Subject(r)' = u
<1>1. pc'[r] = label /\ target'[r] = u
  BY DEF About, TInv, TypeOK
<1>2. \A q \in Requests \ {r} :
          /\ pc'[q] = pc[q] /\ actor'[q] = actor[q] /\ target'[q] = target[q]
          /\ todo'[q] = todo[q] /\ picked'[q] = picked[q]
  BY DEF About, TInv, TypeOK
<1>3. Subject(r)' = u
  BY <1>1, NullsAssumption DEF Subject, Targeting, Counting
<1>4. raced \subseteq raced' /\ \A q \in Requests \ {r} : Subject(q) = u => u \in raced'
  BY DEF About, TurnsTo, Owners
<1>5. role' = role /\ invite' = invite
  BY DEF About, documents
<1>6. \A v : Pending(v)' = Pending(v)
  BY <1>5 DEF Pending
<1>7. SubjectOK(r)'
  BY <1>1 DEF SubjectOK, Starting, Targeting, Counting
<1> QED  BY <1>2, <1>3, <1>4, <1>5, <1>6, <1>7 DEF Moves

\* Every step of a request is such a step.
LEMMA StepMoves ==
    ASSUME TInv, SInv, NEW r \in Requests, Acts(r)
    PROVE  Moves(r) /\ SubjectOK(r)'
<1>same. /\ UNCHANGED role /\ UNCHANGED invite => \A u \in Users : role'[u] = role[u] /\ Pending(u)' \subseteq Pending(u)
  BY DEF Pending
<1>own. /\ RequestOK(r) /\ SubjectOK(r) /\ NoUser \notin Users
        /\ pc[r] = "idle" \/ (actor[r] \in Users /\ actor[r] # NoUser)
  BY NullsAssumption DEF TInv, RequestInv, RequestOK, SInv
<1>types. TypeOK
  BY DEF TInv
<1>turn. ASSUME NEW us, TurnsTo(r, us), NEW u \in us
         PROVE  raced \subseteq raced' /\ \A q \in Requests \ {r} : Subject(q) = u => u \in raced'
  BY <1>turn DEF TurnsTo
<1>1. ASSUME Begin(r) PROVE Moves(r) /\ SubjectOK(r)'
  <2>1. PICK u \in Users : actor' = [actor EXCEPT ![r] = u] /\ TurnsTo(r, {u})
    BY <1>1 DEF Begin
  <2>2. pc[r] = "idle" /\ pc' = [pc EXCEPT ![r] = "listInvites"] /\ UNCHANGED <<role, invite, target, todo, picked>>
    BY <1>1 DEF Begin, documents
  <2>3. Subject(r)' = u
    BY <1>own, <1>types, <2>1, <2>2 DEF Subject, SubjectOK, Starting, TypeOK
  <2> QED
    BY <1>own, <1>types, <1>same, <1>turn, <2>1, <2>2, <2>3 DEF Moves, SubjectOK, Starting, TypeOK
<1>2. ASSUME ListInvites(r) PROVE Moves(r) /\ SubjectOK(r)'
  <2>1. pc' = [pc EXCEPT ![r] = pc'[r]] /\ pc[r] \in Starting /\ pc'[r] \in Starting
    BY <1>2, <1>types DEF ListInvites, Starting, TypeOK
  <2>2. UNCHANGED <<role, invite, target, actor, raced>>
    BY <1>2 DEF ListInvites, documents, history
  <2>3. \A q \in Requests \ {r} : todo'[q] = todo[q] /\ picked'[q] = picked[q]
    BY <1>2, <1>types DEF ListInvites, TypeOK
  <2> QED
    BY <1>own, <1>types, <1>same, <2>1, <2>2, <2>3 DEF Moves, Subject, SubjectOK, Starting, TypeOK
<1>3. ASSUME Accept(r) PROVE Moves(r) /\ SubjectOK(r)'
  <2>1. pc' = [pc EXCEPT ![r] = pc'[r]] /\ pc[r] \in Starting /\ pc'[r] \in Starting
    BY <1>3, <1>types DEF Accept, Starting, TypeOK
  <2>2. UNCHANGED <<role, invite, target, actor, raced>>
    BY <1>3 DEF Accept, documents, history
  <2>3. \A q \in Requests \ {r} : todo'[q] = todo[q] /\ picked'[q] = picked[q]
    BY <1>3, <1>types DEF Accept, TypeOK
  <2> QED
    BY <1>own, <1>types, <1>same, <2>1, <2>2, <2>3 DEF Moves, Subject, SubjectOK, Starting, TypeOK
<1>4. ASSUME Join(r) PROVE Moves(r) /\ SubjectOK(r)'
  <2>1. Subject(r) = actor[r] /\ role' = [role EXCEPT ![actor[r]] = role'[actor[r]]] /\ invite' = invite
    BY <1>4, <1>own, <1>types DEF Join, Subject, SubjectOK, Starting, TypeOK
  <2>2. \A u \in Users : u # Subject(r) => role'[u] = role[u] /\ Pending(u)' \subseteq Pending(u)
    BY <1>types, <2>1 DEF Pending, TypeOK
  <2> QED
    BY <1>4, <1>own, <2>2, GotoMoves DEF Join, Labels, Starting, history
<1>5. ASSUME MarkAccepted(r) PROVE Moves(r) /\ SubjectOK(r)'
  <2>1. \A u \in Users : role'[u] = role[u] /\ Pending(u)' \subseteq Pending(u)
    BY <1>5, <1>types DEF MarkAccepted, Pending, TypeOK, Invite
  <2> QED
    BY <1>5, <1>own, <2>1, GotoMoves DEF MarkAccepted, Labels, Starting, history
<1>6. ASSUME AcceptedAll(r) PROVE Moves(r) /\ SubjectOK(r)'
  BY <1>6, <1>own, <1>same, GotoMoves DEF AcceptedAll, Labels, Starting, Counting, documents, history
<1>7. ASSUME Provision(r) PROVE Moves(r) /\ SubjectOK(r)'
  <2>1. CASE Finish(r)
    BY <1>7, <1>same, <2>1, FinishMoves DEF Provision, documents, history
  <2>2. CASE ~Finish(r)
    <3>1. /\ pc[r] = "provision" /\ pc' = [pc EXCEPT ![r] = "addMember"]
          /\ target' = [target EXCEPT ![r] = actor[r]]
          /\ UNCHANGED <<role, invite, actor, todo, picked, raced>>
      BY <1>7, <2>2 DEF Provision, documents, history
    <3>2. Subject(r) = actor[r] /\ Subject(r)' = actor[r]
      BY <1>own, <1>types, <3>1 DEF Subject, SubjectOK, Starting, TypeOK
    <3> QED
      BY <1>own, <1>types, <1>same, <3>1, <3>2 DEF Moves, SubjectOK, Starting, TypeOK
  <2> QED
    BY <2>1, <2>2
<1>8. ASSUME Resolve(r) PROVE Moves(r) /\ SubjectOK(r)'
  <2>1. CASE Finish(r)
    BY <1>8, <1>same, <2>1, FinishMoves DEF Resolve, documents, history
  <2>2. CASE \E label \in {"recheck", "lookupOrg"} : Goto(r, label)
    BY <1>8, <1>own, <1>same, <2>2, GotoMoves DEF Resolve, Labels, Starting, documents, history
  <2>3. CASE pc' = [pc EXCEPT ![r] = "handler"] /\ UNCHANGED <<actor, target, todo, picked>>
    <3>1. UNCHANGED <<role, invite, raced>> /\ pc[r] \in Starting
      BY <1>8 DEF Resolve, documents, history, Starting
    <3>2. Subject(r)' = NoUser
      BY <1>types, <2>3 DEF Subject, TypeOK
    <3> QED
      BY <1>own, <1>types, <1>same, <2>3, <3>1, <3>2 DEF Moves, SubjectOK, Starting, TypeOK
  <2> QED
    BY <1>8, <2>1, <2>2, <2>3 DEF Resolve
<1>9. ASSUME LookupOrg(r) PROVE Moves(r) /\ SubjectOK(r)'
  <2>1. CASE Finish(r)
    BY <1>9, <1>same, <2>1, FinishMoves DEF LookupOrg, documents, history
  <2>2. CASE ~Finish(r)
    BY <1>9, <1>own, <1>same, <2>2, GotoMoves DEF LookupOrg, Labels, Starting, Counting, documents, history
  <2> QED
    BY <2>1, <2>2
<1>10. ASSUME CreateOrg(r) PROVE Moves(r) /\ SubjectOK(r)'
  BY <1>10, <1>own, <1>same, GotoMoves DEF CreateOrg, Labels, Starting, Counting, documents, history
<1>11. ASSUME AddOwner(r) PROVE Moves(r) /\ SubjectOK(r)'
  <2>1. Subject(r) = actor[r] /\ role' = [role EXCEPT ![actor[r]] = "owner"] /\ invite' = invite /\ raced' = raced
    BY <1>11, <1>own DEF AddOwner, Subject, SubjectOK
  <2>2. \A u \in Users : u # Subject(r) => role'[u] = role[u] /\ Pending(u)' \subseteq Pending(u)
    BY <1>types, <2>1 DEF Pending, TypeOK
  <2>3. CASE Finish(r)
    BY <2>1, <2>2, <2>3, FinishMoves
  <2>4. CASE ~Finish(r)
    <3>1. target[r] = NoUser /\ pc' = [pc EXCEPT ![r] = "handler"] /\ UNCHANGED <<actor, target, todo, picked>>
      BY <1>11, <2>4 DEF AddOwner
    <3>2. Subject(r)' = NoUser
      BY <1>types, <3>1 DEF Subject, TypeOK
    <3> QED
      BY <1>types, <2>1, <2>2, <3>1, <3>2 DEF Moves, SubjectOK, Starting, TypeOK
  <2> QED
    BY <2>3, <2>4
<1>12. ASSUME OtherHandler(r) PROVE Moves(r) /\ SubjectOK(r)'
  BY <1>12, <1>same, FinishMoves DEF OtherHandler, documents, history
<1>13. ASSUME CreateOrganization(r) PROVE Moves(r) /\ SubjectOK(r)'
  <2>1. /\ pc' = [pc EXCEPT ![r] = "lookupOrg"] /\ target' = [target EXCEPT ![r] = actor[r]]
        /\ UNCHANGED <<role, invite, actor, todo, picked>> /\ TurnsTo(r, {actor[r]}) /\ pc[r] # "idle"
    BY <1>13 DEF CreateOrganization, documents
  <2>2. Subject(r)' = actor[r]
    BY <1>own, <1>types, <2>1 DEF Subject, TypeOK
  <2> QED
    BY <1>own, <1>types, <1>same, <1>turn, <2>1, <2>2 DEF Moves, SubjectOK, Starting, TypeOK
<1>14. ASSUME InviteMember(r) PROVE Moves(r) /\ SubjectOK(r)'
  <2>1. PICK u \in Users : About(r, u, "checkPending")
    BY <1>14 DEF InviteMember
  <2> QED
    BY <1>14, <2>1, AboutMoves DEF InviteMember, Targeting
<1>15. ASSUME CheckPending(r) PROVE Moves(r) /\ SubjectOK(r)'
  <2>1. CASE Finish(r)
    BY <1>15, <1>same, <2>1, FinishMoves DEF CheckPending, documents, history
  <2>2. CASE ~Finish(r)
    BY <1>15, <1>own, <1>same, <2>2, GotoMoves DEF CheckPending, Labels, Starting, Counting, documents, history
  <2> QED
    BY <2>1, <2>2
<1>16. ASSUME LookupUser(r) PROVE Moves(r) /\ SubjectOK(r)'
  BY <1>16, <1>own, <1>same, GotoMoves DEF LookupUser, Labels, Starting, Counting, documents, history
<1>17. ASSUME CheckMember(r) PROVE Moves(r) /\ SubjectOK(r)'
  <2>1. CASE Finish(r)
    BY <1>17, <1>same, <2>1, FinishMoves DEF CheckMember, documents, history
  <2>2. CASE ~Finish(r)
    BY <1>17, <1>own, <1>same, <2>2, GotoMoves DEF CheckMember, Labels, Starting, Counting, documents, history
  <2> QED
    BY <2>1, <2>2
<1>18. ASSUME AddMember(r) PROVE Moves(r) /\ SubjectOK(r)'
  <2>1. Subject(r) = target[r] /\ role' = [role EXCEPT ![target[r]] = role'[target[r]]] /\ invite' = invite /\ raced' = raced
    BY <1>18, <1>own, <1>types DEF AddMember, Subject, RequestOK, Targeting, TypeOK, history
  <2>2. \A u \in Users : u # Subject(r) => role'[u] = role[u] /\ Pending(u)' \subseteq Pending(u)
    BY <1>types, <2>1 DEF Pending, TypeOK
  <2> QED
    BY <1>18, <2>1, <2>2, FinishMoves DEF AddMember
<1>19. ASSUME WriteInvite(r) PROVE Moves(r) /\ SubjectOK(r)'
  <2>1. Subject(r) = target[r] /\ role' = role /\ raced' = raced
    BY <1>19, <1>own DEF WriteInvite, Subject, RequestOK, Targeting, history
  <2>2. PICK i \in Invites : invite' = [invite EXCEPT ![i] =
                [status |-> "pending", user |-> target[r], role |-> grant[r]]]
    BY <1>19 DEF WriteInvite
  <2>3. \A u \in Users : u # Subject(r) => role'[u] = role[u] /\ Pending(u)' \subseteq Pending(u)
    BY <1>types, <2>1, <2>2 DEF Pending, TypeOK
  <2> QED
    BY <1>19, <2>1, <2>3, FinishMoves DEF WriteInvite
<1>20. ASSUME RevokeInvite(r) PROVE Moves(r) /\ SubjectOK(r)'
  <2>1. PICK i \in Invites : /\ invite[i].status = "pending"
                           /\ picked' = [picked EXCEPT ![r] = i]
                           /\ About(r, invite[i].user, "writeRevoked")
    BY <1>20 DEF RevokeInvite
  <2>2. invite[i].user \in Users /\ \A q \in Requests \ {r} : picked'[q] = picked[q]
    BY <1>types, <2>1 DEF TypeOK
  <2> QED
    BY <2>1, <2>2, AboutMoves
<1>21. ASSUME WriteRevoked(r) PROVE Moves(r) /\ SubjectOK(r)'
  <2>1. \A u \in Users : role'[u] = role[u] /\ Pending(u)' \subseteq Pending(u)
    BY <1>21, <1>types DEF WriteRevoked, Pending, TypeOK, Invite
  <2> QED
    BY <1>21, <2>1, FinishMoves DEF WriteRevoked, history
<1>22. ASSUME UpdateRole(r) PROVE Moves(r) /\ SubjectOK(r)'
  <2>1. PICK u \in Users, label \in {"countToChange", "writeRole"} : About(r, u, label)
    BY <1>22 DEF UpdateRole
  <2> QED
    BY <1>22, <2>1, AboutMoves DEF UpdateRole, Targeting, Counting
<1>23. ASSUME RemoveMember(r) PROVE Moves(r) /\ SubjectOK(r)'
  <2>1. PICK u \in Users, label \in {"countToRemove", "delete"} : About(r, u, label)
    BY <1>23 DEF RemoveMember
  <2> QED
    BY <1>23, <2>1, AboutMoves DEF RemoveMember, Targeting, Counting
<1>24. ASSUME CountOwners(r) PROVE Moves(r) /\ SubjectOK(r)'
  <2>1. CASE Finish(r)
    BY <1>24, <1>same, <2>1, FinishMoves DEF CountOwners, documents, history
  <2>2. CASE ~Finish(r)
    BY <1>24, <1>own, <1>same, <2>2, GotoMoves DEF CountOwners, Labels, Starting, Counting, documents, history
  <2> QED
    BY <2>1, <2>2
<1>25. ASSUME WriteRole(r) PROVE Moves(r) /\ SubjectOK(r)'
  <2>1. Subject(r) = target[r] /\ role' = [role EXCEPT ![target[r]] = role'[target[r]]] /\ invite' = invite /\ raced' = raced
    BY <1>25, <1>own, <1>types DEF WriteRole, Subject, RequestOK, Targeting, TypeOK, history
  <2>2. \A u \in Users : u # Subject(r) => role'[u] = role[u] /\ Pending(u)' \subseteq Pending(u)
    BY <1>types, <2>1 DEF Pending, TypeOK
  <2> QED
    BY <1>25, <2>1, <2>2, FinishMoves DEF WriteRole
<1>26. ASSUME Delete(r) PROVE Moves(r) /\ SubjectOK(r)'
  <2>1. Subject(r) = target[r] /\ role' = [role EXCEPT ![target[r]] = role'[target[r]]] /\ invite' = invite /\ raced' = raced
    BY <1>26, <1>own, <1>types DEF Delete, Subject, RequestOK, Targeting, TypeOK, history
  <2>2. \A u \in Users : u # Subject(r) => role'[u] = role[u] /\ Pending(u)' \subseteq Pending(u)
    BY <1>types, <2>1 DEF Pending, TypeOK
  <2> QED
    BY <1>26, <2>1, <2>2, FinishMoves DEF Delete
<1>27. ASSUME Abort(r) PROVE Moves(r) /\ SubjectOK(r)'
  <2>1. raced' = raced
    BY <1>27 DEF Abort
  <2> QED
    BY <1>27, <1>same, <2>1, FinishMoves DEF Abort, documents
<1> QED
  BY <1>1, <1>2, <1>3, <1>4, <1>5, <1>6, <1>7, <1>8, <1>9, <1>10, <1>11, <1>12, <1>13, <1>14, <1>15, <1>16, <1>17, <1>18, <1>19, <1>20, <1>21, <1>22, <1>23, <1>24, <1>25, <1>26, <1>27 DEF Acts

\* So those who are about one user stay known.
LEMMA SStep == TInv /\ SInv /\ [Next]_vars => SInv'
<1> SUFFICES ASSUME TInv, SInv, [Next]_vars PROVE SInv'
  OBVIOUS
<1>1. CASE UNCHANGED vars
  BY <1>1 DEF vars, SInv, Alone, SubjectOK, Subject
<1>2. ASSUME NEW r \in Requests, Acts(r) PROVE SInv'
  <2>1. Moves(r) /\ SubjectOK(r)'
    BY <1>2, StepMoves
  <2>2. ASSUME NEW q \in Requests \ {r} PROVE SubjectOK(q)' /\ Subject(q)' = Subject(q)
    BY <2>1, <2>2 DEF Moves, SInv, SubjectOK, Subject
  <2>3. ASSUME NEW q \in Requests, NEW p \in Requests, q # p,
               Subject(q)' = Subject(p)', Subject(p)' \in Users
        PROVE  Subject(p)' \in raced'
    <3>1. CASE q # r /\ p # r
      BY <2>1, <2>2, <2>3, <3>1 DEF Moves, SInv, Alone
    <3>2. ASSUME NEW o \in Requests \ {r}, Subject(o) = Subject(r)', Subject(r)' \in Users
          PROVE  Subject(r)' \in raced'
      BY <2>1, <3>2, NullsAssumption DEF Moves, SInv, Alone
    <3> QED  BY <2>2, <2>3, <3>1, <3>2
  <2> QED  BY <2>1, <2>2, <2>3 DEF SInv, Alone
<1> QED  BY <1>1, <1>2 DEF Next, Acts

-----------------------------------------------------------------------------
(* Owners who leave.                                                       *)

\* Labels of a request about to take a role from its target.
Taking == {"writeRole", "delete"}
Entering == {"join", "addMember"}

\* A founder has been the subject of two requests at once.
Contested == founded \cap raced # {}

\* Nobody is given a role who has one, two requests take ownerships only from owners one of
\* whom was the subject of both, and who loses his leaves another owner.
Checked(r) == pc[r] \in Entering /\ Subject(r) \notin raced => role[Subject(r)] = Absent
OneTakes(q, r) ==
    /\ pc[q] \in Taking \cup Counting /\ role[target[q]] = "owner"
    /\ pc[r] \in Taking \cup Counting /\ role[target[r]] = "owner"
    => target[q] \in raced \/ target[r] \in raced
AnotherOwner(r) ==
    pc[r] \in Taking /\ role[target[r]] = "owner" =>
        Contested \/ \E w \in Owners : w # target[r]

WInv ==
    /\ \A r \in Requests : Checked(r) /\ AnotherOwner(r)
    /\ \A q, r \in Requests : q # r => OneTakes(q, r)
    /\ OwnersLeaveOneByOne

\* How a step of a request changes roles, and how it comes to give or to take one.
Keeps(r) == UNCHANGED <<role, founded>>
Reassigns(r) ==
    /\ pc[r] \in Entering \cup Taking
    /\ pc'[r] \notin Entering \cup Taking \cup Counting
    /\ UNCHANGED <<founded, raced>>
    /\ \A u \in Users : role'[u] = "owner" => role[u] = "owner"
Founds(r) ==
    /\ pc'[r] \notin Entering \cup Taking \cup Counting
    /\ Subject(r) \in Users /\ founded' = founded \cup {Subject(r)}
    /\ role'[Subject(r)] = "owner"
RoleStep(r) ==
    /\ Keeps(r) \/ Reassigns(r) \/ Founds(r)
    /\ pc'[r] \in Entering => Keeps(r) /\ role[Subject(r)'] = Absent
    /\ pc'[r] \in Counting =>
          /\ Keeps(r)
          /\ \A q \in Requests \ {r} :
                Subject(q) \in Users /\ role[Subject(q)] = "owner" => Subject(q) \in raced'
    /\ pc'[r] \in Taking =>
          /\ Keeps(r)
          /\ \/ role[target'[r]] # "owner"
             \/ pc[r] \in Counting /\ target'[r] = target[r] /\ ~(Cardinality(Owners) <= 1)

LEMMA StepRoles ==
    ASSUME TInv, SInv, NEW r \in Requests, Acts(r)
    PROVE  RoleStep(r)
<1>own. /\ RequestOK(r) /\ SubjectOK(r) /\ NoUser \notin Users
        /\ pc[r] = "idle" \/ (actor[r] \in Users /\ actor[r] # NoUser)
  BY NullsAssumption DEF TInv, RequestInv, RequestOK, SInv
<1>types. TypeOK
  BY DEF TInv
<1> USE DEF Keeps, Entering, Taking, Counting
<1>1. ASSUME Begin(r) PROVE RoleStep(r)
  BY <1>1, <1>own, <1>types DEF Begin, Goto, Finish, RoleStep, documents, history, TypeOK
<1>2. ASSUME ListInvites(r) PROVE RoleStep(r)
  BY <1>2, <1>own, <1>types DEF ListInvites, Goto, Finish, RoleStep, documents, history, TypeOK
<1>3. ASSUME Accept(r) PROVE RoleStep(r)
  <2>1. /\ UNCHANGED <<role, founded>> /\ target' = target /\ actor' = actor /\ target[r] = NoUser
        /\ pc' = [pc EXCEPT ![r] = IF role[actor[r]] = Absent THEN "join" ELSE "markAccepted"]
    BY <1>3, <1>own DEF Accept, SubjectOK, Starting, documents, history
  <2>2. pc'[r] = "join" => Subject(r)' = actor[r] /\ role[actor[r]] = Absent
    BY <1>types, <2>1 DEF Subject, TypeOK
  <2> QED
    BY <1>types, <2>1, <2>2 DEF RoleStep, TypeOK
<1>4. ASSUME Join(r) PROVE RoleStep(r)
  <2>1. /\ pc[r] = "join" /\ pc' = [pc EXCEPT ![r] = "markAccepted"] /\ UNCHANGED <<founded, raced>>
        /\ role' = [role EXCEPT ![actor[r]] = invite[picked[r]].role]
    BY <1>4 DEF Join, Goto, history
  <2>2. invite[picked[r]].role # "owner"
    BY <1>own, <1>types, <2>1 DEF RequestOK, Holding, TypeOK
  <2>3. Reassigns(r)
    BY <1>types, <2>1, <2>2 DEF Reassigns, TypeOK
  <2> QED
    BY <1>types, <2>1, <2>3 DEF RoleStep, TypeOK
<1>5. ASSUME MarkAccepted(r) PROVE RoleStep(r)
  BY <1>5, <1>own, <1>types DEF MarkAccepted, Goto, Finish, RoleStep, documents, history, TypeOK
<1>6. ASSUME AcceptedAll(r) PROVE RoleStep(r)
  BY <1>6, <1>own, <1>types DEF AcceptedAll, Goto, Finish, RoleStep, documents, history, TypeOK
<1>7. ASSUME Provision(r) PROVE RoleStep(r)
  <2>1. CASE Finish(r)
    BY <1>7, <1>types, <2>1 DEF Provision, Finish, RoleStep, documents, history, TypeOK
  <2>2. CASE ~Finish(r)
    <3>1. /\ UNCHANGED <<role, founded>> /\ role[actor[r]] = Absent
          /\ target' = [target EXCEPT ![r] = actor[r]] /\ pc' = [pc EXCEPT ![r] = "addMember"]
          /\ pc[r] = "provision" /\ actor' = actor
      BY <1>7, <2>2 DEF Provision, documents, history
    <3>2. Subject(r)' = actor[r]
      BY <1>own, <1>types, <3>1 DEF Subject, TypeOK
    <3> QED
      BY <1>types, <3>1, <3>2 DEF RoleStep, TypeOK
  <2> QED
    BY <2>1, <2>2
<1>8. ASSUME Resolve(r) PROVE RoleStep(r)
  BY <1>8, <1>own, <1>types DEF Resolve, Goto, Finish, RoleStep, documents, history, TypeOK
<1>9. ASSUME LookupOrg(r) PROVE RoleStep(r)
  BY <1>9, <1>own, <1>types DEF LookupOrg, Goto, Finish, RoleStep, documents, history, TypeOK
<1>10. ASSUME CreateOrg(r) PROVE RoleStep(r)
  BY <1>10, <1>own, <1>types DEF CreateOrg, Goto, Finish, RoleStep, documents, history, TypeOK
<1>11. ASSUME AddOwner(r) PROVE RoleStep(r)
  <2>1. /\ role' = [role EXCEPT ![actor[r]] = "owner"] /\ founded' = founded \cup {actor[r]}
        /\ pc[r] = "addOwner" /\ pc'[r] \in {"idle", "handler"}
    BY <1>11, <1>types DEF AddOwner, Finish, TypeOK
  <2>2. Subject(r) = actor[r] /\ actor[r] \in Users
    BY <1>own, <2>1 DEF Subject, SubjectOK
  <2>3. Founds(r)
    BY <1>types, <2>1, <2>2 DEF Founds, TypeOK
  <2> QED
    BY <2>1, <2>3 DEF RoleStep
<1>12. ASSUME OtherHandler(r) PROVE RoleStep(r)
  BY <1>12, <1>own, <1>types DEF OtherHandler, Goto, Finish, RoleStep, documents, history, TypeOK
<1>13. ASSUME CreateOrganization(r) PROVE RoleStep(r)
  BY <1>13, <1>own, <1>types DEF CreateOrganization, Goto, Finish, RoleStep, documents, history, TypeOK
<1>14. ASSUME InviteMember(r) PROVE RoleStep(r)
  <2>1. UNCHANGED <<role, founded>> /\ pc'[r] = "checkPending"
    BY <1>14, <1>types DEF InviteMember, About, documents, TypeOK
  <2> QED
    BY <2>1 DEF RoleStep
<1>15. ASSUME CheckPending(r) PROVE RoleStep(r)
  BY <1>15, <1>own, <1>types DEF CheckPending, Goto, Finish, RoleStep, documents, history, TypeOK
<1>16. ASSUME LookupUser(r) PROVE RoleStep(r)
  BY <1>16, <1>own, <1>types DEF LookupUser, Goto, Finish, RoleStep, documents, history, TypeOK
<1>17. ASSUME CheckMember(r) PROVE RoleStep(r)
  <2>1. /\ UNCHANGED <<role, founded>> /\ target[r] \in Users /\ target[r] # NoUser
    BY <1>17, <1>own DEF CheckMember, RequestOK, Targeting, documents, history
  <2>2. pc'[r] = "addMember" => role[target[r]] = Absent /\ target'[r] = target[r]
    BY <1>17, <1>types DEF CheckMember, Finish, Goto, TypeOK
  <2>3. pc'[r] \in {"idle", "addMember"}
    BY <1>17, <1>types DEF CheckMember, Finish, Goto, TypeOK
  <2>4. pc'[r] = "addMember" => Subject(r)' = target[r]
    BY <2>1, <2>2 DEF Subject
  <2> QED
    BY <2>1, <2>2, <2>3, <2>4 DEF RoleStep
<1>18. ASSUME AddMember(r) PROVE RoleStep(r)
  <2>1. /\ role' = [role EXCEPT ![target[r]] = grant[r]] /\ UNCHANGED <<founded, raced>>
        /\ pc[r] \in Entering \cup Taking /\ pc'[r] = "idle"
    BY <1>18, <1>types DEF AddMember, Finish, history, TypeOK
  <2>2. grant[r] # "owner"
    BY <1>18, <1>own, RolesAssumption DEF AddMember, RequestOK, Granting, Targeting
  <2>3. Reassigns(r)
    BY <1>types, <2>1, <2>2 DEF Reassigns, TypeOK
  <2> QED
    BY <2>1, <2>3 DEF RoleStep
<1>19. ASSUME WriteInvite(r) PROVE RoleStep(r)
  BY <1>19, <1>own, <1>types DEF WriteInvite, Goto, Finish, RoleStep, documents, history, TypeOK
<1>20. ASSUME RevokeInvite(r) PROVE RoleStep(r)
  <2>1. UNCHANGED <<role, founded>> /\ pc'[r] = "writeRevoked"
    BY <1>20, <1>types DEF RevokeInvite, About, documents, TypeOK
  <2> QED
    BY <2>1 DEF RoleStep
<1>21. ASSUME WriteRevoked(r) PROVE RoleStep(r)
  BY <1>21, <1>own, <1>types DEF WriteRevoked, Goto, Finish, RoleStep, documents, history, TypeOK
<1>22. ASSUME UpdateRole(r) PROVE RoleStep(r)
  <2>1. PICK u \in Users :
          About(r, u, IF role[u] = "owner" THEN "countToChange" ELSE "writeRole")
    BY <1>22 DEF UpdateRole
  <2>2. UNCHANGED <<role, founded>> /\ target'[r] = u
    BY <1>types, <2>1 DEF About, documents, TypeOK
  <2>3. CASE role[u] = "owner"
    <3>1. pc'[r] = "countToChange" /\ TurnsTo(r, {u} \cup Owners)
      BY <1>types, <2>1, <2>3 DEF About, TypeOK
    <3>2. \A q \in Requests \ {r} :
            Subject(q) \in Users /\ role[Subject(q)] = "owner" => Subject(q) \in raced'
      BY <3>1 DEF TurnsTo, Owners
    <3> QED
      BY <2>2, <3>1, <3>2 DEF RoleStep
  <2>4. CASE role[u] # "owner"
    <3>1. pc'[r] = "writeRole"
      BY <1>types, <2>1, <2>4 DEF About, TypeOK
    <3> QED
      BY <2>2, <2>4, <3>1 DEF RoleStep
  <2> QED
    BY <2>3, <2>4
<1>23. ASSUME RemoveMember(r) PROVE RoleStep(r)
  <2>1. PICK u \in Users :
          About(r, u, IF role[u] = "owner" THEN "countToRemove" ELSE "delete")
    BY <1>23 DEF RemoveMember
  <2>2. UNCHANGED <<role, founded>> /\ target'[r] = u
    BY <1>types, <2>1 DEF About, documents, TypeOK
  <2>3. CASE role[u] = "owner"
    <3>1. pc'[r] = "countToRemove" /\ TurnsTo(r, {u} \cup Owners)
      BY <1>types, <2>1, <2>3 DEF About, TypeOK
    <3>2. \A q \in Requests \ {r} :
            Subject(q) \in Users /\ role[Subject(q)] = "owner" => Subject(q) \in raced'
      BY <3>1 DEF TurnsTo, Owners
    <3> QED
      BY <2>2, <3>1, <3>2 DEF RoleStep
  <2>4. CASE role[u] # "owner"
    <3>1. pc'[r] = "delete"
      BY <1>types, <2>1, <2>4 DEF About, TypeOK
    <3> QED
      BY <2>2, <2>4, <3>1 DEF RoleStep
  <2> QED
    BY <2>3, <2>4
<1>24. ASSUME CountOwners(r) PROVE RoleStep(r)
  BY <1>24, <1>own, <1>types DEF CountOwners, Goto, Finish, RoleStep, documents, history, TypeOK
<1>25. ASSUME WriteRole(r) PROVE RoleStep(r)
  <2>1. /\ role' = [role EXCEPT ![target[r]] = grant[r]] /\ UNCHANGED <<founded, raced>>
        /\ pc[r] \in Entering \cup Taking /\ pc'[r] = "idle"
    BY <1>25, <1>types DEF WriteRole, Finish, history, TypeOK
  <2>2. grant[r] # "owner"
    BY <1>25, <1>own, RolesAssumption DEF WriteRole, RequestOK, Granting, Targeting
  <2>3. Reassigns(r)
    BY <1>types, <2>1, <2>2 DEF Reassigns, TypeOK
  <2> QED
    BY <2>1, <2>3 DEF RoleStep
<1>26. ASSUME Delete(r) PROVE RoleStep(r)
  <2>1. /\ role' = [role EXCEPT ![target[r]] = Absent] /\ UNCHANGED <<founded, raced>>
        /\ pc[r] = "delete" /\ pc'[r] = "idle"
    BY <1>26, <1>types DEF Delete, Finish, history, TypeOK
  <2>2. Reassigns(r)
    BY <1>types, <2>1 DEF Reassigns, TypeOK, Absent
  <2> QED
    BY <2>1, <2>2 DEF RoleStep
<1>27. ASSUME Abort(r) PROVE RoleStep(r)
  BY <1>27, <1>own, <1>types DEF Abort, Goto, Finish, RoleStep, documents, history, TypeOK
<1> QED
  BY <1>1, <1>2, <1>3, <1>4, <1>5, <1>6, <1>7, <1>8, <1>9, <1>10, <1>11, <1>12, <1>13, <1>14, <1>15, <1>16, <1>17, <1>18, <1>19, <1>20, <1>21, <1>22, <1>23, <1>24, <1>25, <1>26, <1>27 DEF Acts

\* More than one owner are an owner and another one.
LEMMA NotTheOnlyOwner ==
    ASSUME DocumentsOK, founded \in SUBSET Users, IsFiniteSet(founded),
           ~(Cardinality(Owners) <= 1), NEW t
    PROVE  \E w \in Owners : w # t
<1> SUFFICES ASSUME Owners \subseteq {t} PROVE FALSE
  OBVIOUS
<1>1. IsFiniteSet({t}) /\ Cardinality({t}) = 1
  BY FS_Singleton
<1>2. Cardinality(Owners) <= 1
  BY <1>1, FS_Subset
<1> QED  BY <1>2

\* Every step keeps an owner, or a founder becomes the subject of two requests.
LEMMA WStep == IInv /\ SInv /\ WInv /\ [Next]_vars => WInv'
<1> SUFFICES ASSUME IInv, SInv, WInv, [Next]_vars PROVE WInv'
  OBVIOUS
<1>types. TInv /\ TypeOK /\ DocumentsOK /\ DocumentsOK' /\ Absent # "owner" /\ founded \in SUBSET Users
  BY OStep, FoundersAssumption DEF IInv, TInv, OInv, TypeOK, Absent
<1>subject. ASSUME NEW q \in Requests PROVE
        /\ pc[q] \in Entering \cup Taking \cup Counting => Subject(q) \in Users
        /\ pc[q] \in Taking \cup Counting => Subject(q) = target[q]
  BY <1>types, NullsAssumption
     DEF TInv, RequestInv, RequestOK, SInv, SubjectOK, Starting, Subject, Entering, Taking,
         Counting, Targeting
<1>1. CASE UNCHANGED vars
  BY <1>1 DEF vars, WInv, Checked, AnotherOwner, OneTakes, Contested, OwnersLeaveOneByOne, Owners, Subject
<1>2. ASSUME NEW r \in Requests, Acts(r) PROVE WInv'
  <2>1. Moves(r) /\ RoleStep(r)
    BY <1>2, <1>types, StepMoves, StepRoles
  <2>2. ASSUME NEW q \in Requests \ {r}
        PROVE  pc'[q] = pc[q] /\ target'[q] = target[q] /\ Subject(q)' = Subject(q)
    BY <2>1 DEF Moves, Subject
  <2>3. raced \subseteq raced' /\ founded \subseteq founded' /\ (Contested => Contested')
    BY <2>1 DEF Moves, RoleStep, Keeps, Reassigns, Founds, Contested
  <2>4. ASSUME NEW q \in Requests \ {r}, NEW u \in Users, Subject(q) = u, role'[u] # role[u]
        PROVE  u \in raced
    BY <2>1, <2>4 DEF Moves, SInv, Alone
  <2>5. ASSUME NEW q \in Requests \ {r} PROVE Checked(q)'
    <3> SUFFICES ASSUME pc'[q] \in Entering, Subject(q)' \notin raced' PROVE role'[Subject(q)'] = Absent
      BY DEF Checked
    <3> QED  BY <1>subject, <2>2, <2>3, <2>4 DEF WInv, Checked
  <2>6. Checked(r)'
    BY <2>1 DEF RoleStep, Keeps, Checked
  <2>7. ASSUME NEW q \in Requests \ {r}, NEW p \in Requests \ {r}, q # p PROVE OneTakes(q, p)'
    <3> SUFFICES ASSUME pc[q] \in Taking \cup Counting, role'[target[q]] = "owner",
                        pc[p] \in Taking \cup Counting, role'[target[p]] = "owner"
                 PROVE  target[q] \in raced \/ target[p] \in raced
      BY <2>2, <2>3 DEF OneTakes
    <3>1. /\ role[target[q]] = "owner" \/ target[q] \in raced
          /\ role[target[p]] = "owner" \/ target[p] \in raced
      BY <1>subject, <2>4
    <3> QED  BY <2>7, <3>1 DEF WInv, OneTakes
  <2>8. ASSUME NEW q \in Requests \ {r} PROVE OneTakes(q, r)' /\ OneTakes(r, q)'
    <3> SUFFICES ASSUME pc[q] \in Taking \cup Counting, role'[target[q]] = "owner",
                        pc'[r] \in Taking \cup Counting, role'[target'[r]] = "owner"
                 PROVE  target[q] \in raced' \/ target'[r] \in raced'
      BY <2>2 DEF OneTakes
    <3>1. role' = role
      BY <2>1 DEF RoleStep, Keeps
    <3>2. CASE pc'[r] \in Counting
      BY <1>subject, <2>1, <3>1, <3>2 DEF RoleStep
    <3>3. CASE pc'[r] \in Taking
      <4>1. pc[r] \in Counting /\ target'[r] = target[r]
        BY <2>1, <3>1, <3>3 DEF RoleStep
      <4> QED  BY <2>3, <3>1, <4>1 DEF WInv, OneTakes
    <3> QED  BY <3>2, <3>3
  \* An owner whose role request r takes or replaces.
  <2>9. ASSUME NEW w \in Owners, role'[w] # "owner"
        PROVE  w = Subject(r) /\ (Contested \/ (pc[r] \in Taking /\ target[r] = w))
    <3>1. w \in Users /\ role[w] = "owner" /\ w \in founded
      BY <1>types DEF Owners, DocumentsOK
    <3>2. w = Subject(r) /\ Reassigns(r)
      BY <2>1, <2>9, <3>1 DEF Moves, RoleStep, Keeps, Founds
    <3>3. CASE pc[r] \in Entering
      BY <1>types, <3>1, <3>2, <3>3 DEF WInv, Checked, Contested
    <3>4. CASE pc[r] \in Taking
      BY <1>subject, <3>2, <3>4
    <3> QED  BY <3>2, <3>3, <3>4 DEF Reassigns
  <2>10. ASSUME NEW q \in Requests \ {r} PROVE AnotherOwner(q)'
    <3> SUFFICES ASSUME pc[q] \in Taking, role'[target[q]] = "owner", ~Contested'
                 PROVE  \E w \in Owners' : w # target[q]
      BY <2>2 DEF AnotherOwner
    <3>1. target[q] \in Users /\ Subject(q) = target[q] /\ target[q] \in founded'
      BY <1>subject, <1>types DEF DocumentsOK
    <3>2. role[target[q]] = "owner"
      BY <2>3, <2>4, <3>1 DEF Contested
    <3>3. PICK w \in Owners : w # target[q]
      BY <2>3, <3>2 DEF WInv, AnotherOwner
    <3>4. CASE role'[w] = "owner"
      BY <3>3, <3>4 DEF Owners
    <3>5. CASE role'[w] # "owner"
      <4>1. pc[r] \in Taking /\ target[r] = w /\ role[w] = "owner" /\ w \in founded
        BY <1>types, <2>3, <2>9, <3>5 DEF Owners, DocumentsOK
      <4>2. target[q] \in raced \/ w \in raced
        BY <3>2, <4>1 DEF WInv, OneTakes
      <4> QED  BY <2>3, <3>1, <4>1, <4>2 DEF Contested
    <3> QED  BY <3>4, <3>5
  <2>11. AnotherOwner(r)'
    <3> SUFFICES ASSUME pc'[r] \in Taking, role'[target'[r]] = "owner"
                 PROVE  \E w \in Owners' : w # target'[r]
      BY DEF AnotherOwner
    <3>1. role' = role /\ ~(Cardinality(Owners) <= 1)
      BY <2>1 DEF RoleStep, Keeps
    <3>2. \E w \in Owners : w # target'[r]
      BY <1>types, <3>1, NotTheOnlyOwner DEF IInv
    <3> QED  BY <3>1, <3>2 DEF Owners
  <2>12. OwnersLeaveOneByOne'
    <3> SUFFICES ASSUME founded' # {}, ~Contested' PROVE Owners' # {}
      BY DEF OwnersLeaveOneByOne, Contested
    <3>1. CASE Founds(r)
      BY <3>1 DEF Founds, Owners
    <3>2. CASE ~Founds(r)
      <4>1. PICK w \in Owners : TRUE
        BY <2>1, <2>3, <3>2 DEF WInv, OwnersLeaveOneByOne, Contested, RoleStep, Keeps, Reassigns
      <4>2. CASE role'[w] = "owner"
        BY <4>2 DEF Owners
      <4>3. CASE role'[w] # "owner"
        <5>1. w = Subject(r) /\ pc[r] \in Taking /\ target[r] = w
          BY <2>3, <2>9, <4>3
        <5>2. PICK v \in Owners : v # w
          BY <2>3, <5>1 DEF WInv, AnotherOwner, Owners
        <5>3. v \in Users /\ role'[v] = "owner"
          BY <2>1, <5>1, <5>2 DEF Moves, Owners
        <5> QED  BY <5>3 DEF Owners
      <4> QED  BY <4>2, <4>3
    <3> QED  BY <3>1, <3>2
  <2> QED
    BY <2>5, <2>6, <2>7, <2>8, <2>10, <2>11, <2>12 DEF WInv
<1> QED  BY <1>1, <1>2 DEF Next, Acts

-----------------------------------------------------------------------------
(* Invites of members.                                                     *)

\* A user nothing is going on about is no member with a pending invite.
Quiet(u) == role[u] = Absent \/ Pending(u) = {}

\* Labels of a request that knows nothing more of its subject, of those that know it to
\* be no member, and of those past the pending invites of it.
Reading == {"listInvites", "writeRevoked", "countToRemove", "delete", "lookupOrg"}
Inviting == {"checkPending", "lookupUser", "checkMember", "addMember", "writeInvite"}
Past == {"provision", "resolve", "recheck", "createOrg", "addOwner", "lookupUser",
         "checkMember", "addMember", "countToChange", "writeRole"}

\* What a request knows of its subject u while no other one is about u: a request that
\* signs in holds all of its pending invites.
Clearing(r, u) ==
    /\ pc[r] \in Reading => Quiet(u)
    /\ pc[r] = "accept" => Pending(u) \subseteq todo[r]
    /\ pc[r] \in {"join", "markAccepted"} => Pending(u) \subseteq todo[r] \cup {picked[r]}
    /\ pc[r] \in Inviting => role[u] = Absent
    /\ pc[r] \in Past => Pending(u) = {}

\* An organization that was founded is stored, and without faults no step of one request
\* at a time leaves a member with a pending invite.
VInv ==
    /\ founded # {} => org
    /\ \A r \in Requests : pc[r] = "addOwner" => org
    /\ faults = 0 =>
          /\ \A u \in Users \ raced : (\A r \in Requests : Subject(r) # u) => Quiet(u)
          /\ \A r \in Requests : Subject(r) \in Users \ raced => Clearing(r, Subject(r))

\* What a step of a request does to the user it is about, or turns to.
Clears(r) ==
    \A u \in Users :
        /\ Subject(r) = u /\ Clearing(r, u) =>
              IF Subject(r)' = u THEN Clearing(r, u)' ELSE Quiet(u)'
        /\ Subject(r) # u /\ Subject(r)' = u /\ Quiet(u) => Clearing(r, u)'

\* A request that ends leaves its user quiet.
LEMMA FinishClears ==
    ASSUME TInv, NEW r \in Requests, Finish(r),
           \A u \in Users : Subject(r) = u /\ Clearing(r, u) => Quiet(u)'
    PROVE  Clears(r)
<1>1. pc'[r] = "idle" /\ NoUser \notin Users
  BY NullsAssumption DEF Finish, TInv, TypeOK
<1> QED  BY <1>1 DEF Clears, Subject

\* One that goes on passes on what it knows.
LEMMA GotoClears ==
    ASSUME TInv, NEW r \in Requests, NEW label \in Labels \ {"idle", "handler"}, Goto(r, label),
           pc[r] \notin {"idle", "handler"},
           \A u \in Users : Subject(r) = u /\ Clearing(r, u) =>
               /\ label \in Reading => Quiet(u)'
               /\ label = "accept" => Pending(u)' \subseteq todo[r]
               /\ label \in {"join", "markAccepted"} => Pending(u)' \subseteq todo[r] \cup {picked[r]}
               /\ label \in Inviting => role'[u] = Absent
               /\ label \in Past => Pending(u)' = {}
    PROVE  Clears(r)
<1>1. pc'[r] = label /\ Subject(r)' = Subject(r) /\ todo' = todo /\ picked' = picked
  BY DEF Goto, TInv, TypeOK, Subject
<1> QED  BY <1>1 DEF Clears, Clearing

\* One that turns to somebody knows what its handler has read.
LEMMA AboutClears ==
    ASSUME TInv, SInv, NEW r \in Requests, NEW u \in Users,
           NEW label \in Targeting \cup Counting \cup {"writeRevoked"}, About(r, u, label),
           pc[r] = "handler", label \in Inviting => label = "checkPending" /\ role[u] = Absent,
           label \in Past => role[u] # Absent
    PROVE  Clears(r)
<1>1. pc'[r] = label /\ target'[r] = u /\ role' = role /\ invite' = invite
  BY DEF About, documents, TInv, TypeOK
<1>2. Subject(r)' = u /\ Subject(r) \notin Users /\ \A v : Pending(v)' = Pending(v)
  BY <1>1, NullsAssumption DEF Subject, Targeting, Counting, Pending
<1>3. label \notin {"accept", "join", "markAccepted"}
  BY DEF Targeting, Counting
<1>4. Quiet(u) => Clearing(r, u)'
  BY <1>1, <1>2, <1>3 DEF Quiet, Clearing, Inviting, Past
<1> QED  BY <1>2, <1>4 DEF Clears

\* Without faults every step is such a step.
LEMMA StepClears ==
    ASSUME TInv, SInv, DocumentsOK, founded # {} => org, NEW r \in Requests, Acts(r),
           faults' = faults
    PROVE  Clears(r)
<1>own. /\ RequestOK(r) /\ SubjectOK(r) /\ NoUser \notin Users
        /\ pc[r] = "idle" \/ (actor[r] \in Users /\ actor[r] # NoUser)
  BY NullsAssumption DEF TInv, RequestInv, RequestOK, SInv
<1>types. TypeOK
  BY DEF TInv
<1>same. UNCHANGED <<role, invite>> => \A u \in Users : role'[u] = role[u] /\ Pending(u)' = Pending(u)
  BY DEF Pending
<1>quiet. \A u \in Users : Pending(u) = {} => Quiet(u)
  BY DEF Quiet
<1> USE DEF Clearing, Quiet, Reading, Inviting, Past
<1>1. ASSUME Begin(r) PROVE Clears(r)
  <2>1. pc[r] = "idle" /\ pc'[r] = "listInvites" /\ UNCHANGED <<role, invite>>
    BY <1>1, <1>types DEF Begin, documents, TypeOK
  <2>2. Subject(r) \notin Users
    BY <1>own, <2>1 DEF Subject
  <2> QED
    BY <1>same, <2>1, <2>2 DEF Clears
<1>2. ASSUME ListInvites(r) PROVE Clears(r)
  <2>1. Subject(r) = actor[r] /\ Subject(r)' = actor[r] /\ pc'[r] = "accept" /\ UNCHANGED <<role, invite>>
    BY <1>2, <1>own, <1>types DEF ListInvites, Subject, SubjectOK, Starting, documents, TypeOK
  <2>2. todo'[r] = Pending(actor[r])
    BY <1>2, <1>types DEF ListInvites, Pending, TypeOK
  <2> QED
    BY <1>same, <2>1, <2>2 DEF Clears
<1>3. ASSUME Accept(r) PROVE Clears(r)
  <2>1. PICK i \in todo[r] : picked'[r] = i /\ todo'[r] = todo[r] \ {i}
    BY <1>3, <1>own, <1>types DEF Accept, TypeOK
  <2>2. /\ Subject(r) = actor[r] /\ Subject(r)' = actor[r] /\ pc[r] = "accept"
        /\ pc'[r] \in {"join", "markAccepted"} /\ UNCHANGED <<role, invite>>
    BY <1>3, <1>own, <1>types DEF Accept, Subject, SubjectOK, Starting, documents, TypeOK
  <2> QED
    BY <1>same, <2>1, <2>2 DEF Clears
<1>4. ASSUME Join(r) PROVE Clears(r)
  <2>1. \A u \in Users : Pending(u)' = Pending(u)
    BY <1>4 DEF Join, Pending
  <2> QED
    BY <1>4, <2>1, GotoClears DEF Join, Labels
<1>5. ASSUME MarkAccepted(r) PROVE Clears(r)
  <2>1. \A u \in Users : Pending(u)' \subseteq Pending(u) \ {picked[r]}
    BY <1>5, <1>own, <1>types DEF MarkAccepted, RequestOK, Holding, Pending, TypeOK, Invite
  <2> QED
    BY <1>5, <2>1, GotoClears DEF MarkAccepted, Labels
<1>6. ASSUME AcceptedAll(r) PROVE Clears(r)
  BY <1>6, <1>same, GotoClears DEF AcceptedAll, Labels, Counting, documents
<1>7. ASSUME Provision(r) PROVE Clears(r)
  <2>1. CASE Finish(r)
    BY <1>7, <1>same, <2>1, FinishClears DEF Provision, documents
  <2>2. CASE ~Finish(r)
    <3>1. /\ pc[r] = "provision" /\ pc' = [pc EXCEPT ![r] = "addMember"] /\ role[actor[r]] = Absent
          /\ target' = [target EXCEPT ![r] = actor[r]] /\ UNCHANGED <<role, invite, actor>>
      BY <1>7, <2>2 DEF Provision, documents
    <3>2. Subject(r) = actor[r] /\ Subject(r)' = actor[r] /\ pc'[r] = "addMember"
      BY <1>own, <1>types, <3>1 DEF Subject, SubjectOK, Starting, TypeOK
    <3> QED
      BY <1>same, <3>1, <3>2 DEF Clears
  <2> QED
    BY <2>1, <2>2
<1>8. ASSUME Resolve(r) PROVE Clears(r)
  <2>1. pc[r] \in {"resolve", "recheck"} /\ UNCHANGED <<role, invite>>
    BY <1>8 DEF Resolve, documents
  <2>2. CASE Finish(r)
    BY <1>same, <2>1, <2>2, FinishClears
  <2>3. CASE \E label \in {"recheck", "lookupOrg"} : Goto(r, label)
    BY <1>same, <2>1, <2>3, GotoClears DEF Labels
  <2>4. CASE pc' = [pc EXCEPT ![r] = "handler"]
    <3>1. Subject(r)' = NoUser
      BY <1>types, <2>4 DEF Subject, TypeOK
    <3> QED
      BY <1>own, <1>same, <2>1, <3>1 DEF Clears
  <2> QED
    BY <1>8, <2>2, <2>3, <2>4 DEF Resolve
<1>9. ASSUME LookupOrg(r) PROVE Clears(r)
  <2>1. CASE org
    BY <1>9, <1>same, <2>1, FinishClears DEF LookupOrg, documents
  <2>2. CASE ~org
    <3>1. \A i \in Invites : invite[i].status = "unused"
      BY <2>2 DEF DocumentsOK
    <3>2. \A u \in Users : Pending(u) = {}
      BY <3>1 DEF Pending
    <3> QED
      BY <1>9, <1>same, <2>2, <3>2, GotoClears DEF LookupOrg, Labels, documents
  <2> QED
    BY <2>1, <2>2
<1>10. ASSUME CreateOrg(r) PROVE Clears(r)
  BY <1>10, <1>same, GotoClears DEF CreateOrg, Labels, Counting, documents
<1>11. ASSUME AddOwner(r) PROVE Clears(r)
  <2>1. \A u \in Users : Pending(u)' = Pending(u)
    BY <1>11 DEF AddOwner, Pending
  <2>2. Subject(r)' = NoUser /\ pc[r] = "addOwner"
    BY <1>11, <1>types DEF AddOwner, Finish, Subject, TypeOK
  <2> QED
    BY <1>own, <2>1, <2>2 DEF Clears
<1>12. ASSUME OtherHandler(r) PROVE Clears(r)
  <2>1. Subject(r) \notin Users
    BY <1>12, <1>own DEF OtherHandler, Subject
  <2> QED
    BY <1>12, <2>1, FinishClears DEF OtherHandler
<1>13. ASSUME CreateOrganization(r) PROVE Clears(r)
  <2>1. /\ pc[r] \in {"resolve", "handler"} /\ pc'[r] = "lookupOrg" /\ target'[r] = actor[r]
        /\ UNCHANGED <<role, invite, actor>>
    BY <1>13, <1>types DEF CreateOrganization, documents, TypeOK
  <2>2. Subject(r) \in {NoUser, actor[r]} /\ Subject(r)' = actor[r]
    BY <1>own, <2>1 DEF Subject, SubjectOK, Starting
  <2>3. CASE pc[r] = "resolve"
    BY <1>own, <1>same, <2>1, <2>2, <2>3 DEF Clears, Subject
  <2>4. CASE pc[r] = "handler"
    <3>1. Subject(r) = NoUser
      BY <2>4 DEF Subject
    <3> QED  BY <1>own, <1>same, <2>1, <2>2, <3>1 DEF Clears
  <2> QED
    BY <2>1, <2>3, <2>4
<1>14. ASSUME InviteMember(r) PROVE Clears(r)
  <2>1. PICK u \in Users : role[u] = Absent /\ About(r, u, "checkPending")
    BY <1>14 DEF InviteMember
  <2> QED
    BY <1>14, <2>1, AboutClears DEF InviteMember, Targeting
<1>15. ASSUME CheckPending(r) PROVE Clears(r)
  <2>1. CASE Finish(r)
    BY <1>15, <1>same, <2>1, FinishClears DEF CheckPending, documents
  <2>2. CASE ~Finish(r)
    <3>1. Subject(r) = target[r]
      BY <1>15, <1>own DEF CheckPending, Subject, RequestOK, Targeting
    <3>2. Pending(target[r]) = {}
      BY <1>15, <2>2 DEF CheckPending, Pending
    <3> QED
      BY <1>15, <1>same, <2>2, <3>1, <3>2, GotoClears DEF CheckPending, Labels, documents
  <2> QED
    BY <2>1, <2>2
<1>16. ASSUME LookupUser(r) PROVE Clears(r)
  BY <1>16, <1>same, GotoClears DEF LookupUser, Labels, Counting, documents
<1>17. ASSUME CheckMember(r) PROVE Clears(r)
  <2>1. CASE Finish(r)
    BY <1>17, <1>same, <2>1, FinishClears DEF CheckMember, documents
  <2>2. CASE ~Finish(r)
    BY <1>17, <1>same, <2>2, GotoClears DEF CheckMember, Labels, Counting, documents
  <2> QED
    BY <2>1, <2>2
<1>18. ASSUME AddMember(r) PROVE Clears(r)
  <2>1. \A u \in Users : Pending(u)' = Pending(u)
    BY <1>18 DEF AddMember, Pending
  <2> QED
    BY <1>18, <2>1, FinishClears DEF AddMember
<1>19. ASSUME WriteInvite(r) PROVE Clears(r)
  BY <1>19, FinishClears DEF WriteInvite
<1>20. ASSUME RevokeInvite(r) PROVE Clears(r)
  <2>1. PICK i \in Invites : /\ invite[i].status = "pending"
                           /\ About(r, invite[i].user, "writeRevoked")
    BY <1>20 DEF RevokeInvite
  <2>2. invite[i].user \in Users
    BY <1>types, <2>1 DEF TypeOK
  <2> QED
    BY <1>20, <2>1, <2>2, AboutClears DEF RevokeInvite
<1>21. ASSUME WriteRevoked(r) PROVE Clears(r)
  <2>1. \A u \in Users : Pending(u)' \subseteq Pending(u)
    BY <1>21, <1>own, <1>types DEF WriteRevoked, RequestOK, Holding, Pending, TypeOK, Invite
  <2> QED
    BY <1>21, <2>1, FinishClears DEF WriteRevoked
<1>22. ASSUME UpdateRole(r) PROVE Clears(r)
  <2>1. PICK u \in Users, label \in {"countToChange", "writeRole"} :
          role[u] \in Manageable(mine[r]) /\ About(r, u, label)
    BY <1>22 DEF UpdateRole, Manages
  <2>2. role[u] # Absent
    BY <2>1 DEF Manageable, Invitable, Roles, Absent
  <2> QED
    BY <1>22, <2>1, <2>2, AboutClears DEF UpdateRole, Targeting, Counting
<1>23. ASSUME RemoveMember(r) PROVE Clears(r)
  <2>1. PICK u \in Users, label \in {"countToRemove", "delete"} : About(r, u, label)
    BY <1>23 DEF RemoveMember
  <2> QED
    BY <1>23, <2>1, AboutClears DEF RemoveMember, Targeting, Counting
<1>24. ASSUME CountOwners(r) PROVE Clears(r)
  <2>1. pc[r] \in {"countToChange", "countToRemove"} /\ UNCHANGED <<role, invite>>
    BY <1>24 DEF CountOwners, Counting, documents
  <2>2. CASE Finish(r)
    <3>1. ASSUME NEW u \in Users, Clearing(r, u) PROVE Quiet(u)'
      BY <1>same, <2>1, <3>1
    <3> QED  BY <2>2, <3>1, FinishClears
  <2>3. CASE ~Finish(r)
    BY <1>24, <1>same, <2>1, <2>3, GotoClears DEF CountOwners, Labels
  <2> QED
    BY <2>2, <2>3
<1>25. ASSUME WriteRole(r) PROVE Clears(r)
  <2>1. \A u \in Users : Pending(u)' = Pending(u)
    BY <1>25 DEF WriteRole, Pending
  <2> QED
    BY <1>25, <2>1, FinishClears DEF WriteRole
<1>26. ASSUME Delete(r) PROVE Clears(r)
  <2>1. Subject(r) = target[r] /\ target[r] \in Users
    BY <1>26, <1>own DEF Delete, Subject, RequestOK, Targeting
  <2>2. role'[target[r]] = Absent
    BY <1>26, <1>types, <2>1 DEF Delete, TypeOK
  <2> QED
    BY <1>26, <2>1, <2>2, FinishClears DEF Delete
<1>27. ASSUME Abort(r) PROVE Clears(r)
  BY <1>27, <1>types DEF Abort, TypeOK
<1> QED
  BY <1>1, <1>2, <1>3, <1>4, <1>5, <1>6, <1>7, <1>8, <1>9, <1>10, <1>11, <1>12, <1>13, <1>14, <1>15, <1>16, <1>17, <1>18, <1>19, <1>20, <1>21, <1>22, <1>23, <1>24, <1>25, <1>26, <1>27 DEF Acts

\* The organization stays stored, and the number of faults never falls.
Stores(r) ==
    /\ org => org'
    /\ founded' = founded \/ pc[r] = "addOwner"
    /\ pc'[r] = "addOwner" => org'
    /\ \A q \in Requests \ {r} : pc'[q] = pc[q]
    /\ faults' = faults \/ faults' = faults + 1

LEMMA StepStores ==
    ASSUME TypeOK, NEW r \in Requests, Acts(r)
    PROVE  Stores(r)
<1> USE DEF Stores, TypeOK, Finish, Goto, documents, history
<1>1. ASSUME Begin(r) \/ ListInvites(r) \/ Accept(r) PROVE Stores(r)
  BY <1>1 DEF Begin, ListInvites, Accept
<1>2. ASSUME Join(r) \/ MarkAccepted(r) \/ AcceptedAll(r) \/ Provision(r) PROVE Stores(r)
  BY <1>2 DEF Join, MarkAccepted, AcceptedAll, Provision
<1>3. ASSUME Resolve(r) \/ LookupOrg(r) \/ CreateOrg(r) PROVE Stores(r)
  BY <1>3 DEF Resolve, LookupOrg, CreateOrg
<1>4. ASSUME AddOwner(r) \/ OtherHandler(r) \/ CreateOrganization(r) PROVE Stores(r)
  BY <1>4 DEF AddOwner, OtherHandler, CreateOrganization
<1>5. ASSUME CheckPending(r) \/ LookupUser(r) \/ CheckMember(r) PROVE Stores(r)
  BY <1>5 DEF CheckPending, LookupUser, CheckMember
<1>6. ASSUME AddMember(r) \/ WriteInvite(r) \/ WriteRevoked(r) PROVE Stores(r)
  BY <1>6 DEF AddMember, WriteInvite, WriteRevoked
<1>7. ASSUME CountOwners(r) \/ WriteRole(r) \/ Delete(r) \/ Abort(r) PROVE Stores(r)
  BY <1>7 DEF CountOwners, WriteRole, Delete, Abort
<1>8. ASSUME InviteMember(r) \/ RevokeInvite(r) PROVE Stores(r)
  BY <1>8 DEF InviteMember, RevokeInvite, About, Counting
<1>9. ASSUME UpdateRole(r) \/ RemoveMember(r) PROVE Stores(r)
  BY <1>9 DEF UpdateRole, RemoveMember, About, Counting
<1> QED
  BY <1>1, <1>2, <1>3, <1>4, <1>5, <1>6, <1>7, <1>8, <1>9 DEF Acts

\* Every step leaves no member with an invite that nobody is about to clear.
LEMMA VStep == IInv /\ SInv /\ VInv /\ [Next]_vars => VInv'
<1> SUFFICES ASSUME IInv, SInv, VInv, [Next]_vars PROVE VInv'
  OBVIOUS
<1>types. TInv /\ TypeOK /\ RequestInv /\ DocumentsOK /\ NoUser \notin Users
  BY NullsAssumption DEF IInv, TInv, OInv
<1>1. CASE UNCHANGED vars
  BY <1>1 DEF vars, VInv, Clearing, Quiet, Pending, Subject
<1>2. ASSUME NEW r \in Requests, Acts(r) PROVE VInv'
  <2>1. Moves(r) /\ Stores(r)
    BY <1>2, <1>types, StepMoves, StepStores
  <2>2. /\ founded' # {} => org'
        /\ \A q \in Requests : pc'[q] = "addOwner" => org'
    BY <2>1 DEF Stores, VInv
  <2>3. ASSUME faults' = 0
        PROVE  /\ \A u \in Users \ raced' : (\A q \in Requests : Subject(q)' # u) => Quiet(u)'
               /\ \A q \in Requests : Subject(q)' \in Users \ raced' => Clearing(q, Subject(q))'
    <3>1. faults = 0 /\ faults' = faults
      BY <1>types, <2>1, <2>3 DEF Stores, TypeOK
    <3>2. Clears(r)
      BY <1>2, <1>types, <3>1, StepClears DEF VInv
    <3>3. ASSUME NEW q \in Requests \ {r}
          PROVE  /\ Subject(q)' = Subject(q) /\ pc'[q] = pc[q]
                 /\ todo'[q] = todo[q] /\ picked'[q] = picked[q]
      BY <2>1 DEF Moves, Subject
    <3>4. ASSUME NEW u \in Users, u # Subject(r)
          PROVE  role'[u] = role[u] /\ Pending(u)' \subseteq Pending(u) /\ (Quiet(u) => Quiet(u)')
      BY <2>1, <3>4 DEF Moves, Quiet
    <3>5. ASSUME NEW u \in Users \ raced', \A q \in Requests : Subject(q)' # u PROVE Quiet(u)'
      <4>1. u \notin raced /\ \A q \in Requests \ {r} : Subject(q) # u
        BY <2>1, <3>3, <3>5 DEF Moves
      <4>2. CASE Subject(r) = u
        BY <3>1, <3>2, <3>5, <4>1, <4>2 DEF VInv, Clears
      <4>3. CASE Subject(r) # u
        BY <3>1, <3>4, <4>1, <4>3 DEF VInv
      <4> QED  BY <4>2, <4>3
    <3>6. ASSUME NEW q \in Requests \ {r}, Subject(q)' \in Users \ raced'
          PROVE  Clearing(q, Subject(q))'
      <4>1. Subject(q) \in Users \ raced /\ Subject(r) # Subject(q)
        BY <2>1, <3>3, <3>6 DEF Moves, SInv, Alone
      <4>2. Clearing(q, Subject(q))
        BY <3>1, <4>1 DEF VInv
      <4> HIDE DEF Subject
      <4> QED  BY <3>3, <3>4, <4>1, <4>2 DEF Clearing
    <3>7. ASSUME Subject(r)' \in Users \ raced' PROVE Clearing(r, Subject(r))'
      <4>1. PICK u \in Users \ raced' : Subject(r)' = u
        BY <3>7
      <4>2. u \notin raced
        BY <2>1 DEF Moves
      <4>3. CASE Subject(r) = u
        BY <3>1, <3>2, <4>1, <4>2, <4>3 DEF VInv, Clears
      <4>4. CASE Subject(r) # u
        <5>1. \A q \in Requests \ {r} : Subject(q) # u
          BY <1>types, <2>1, <4>1, <4>4 DEF Moves
        <5>2. Quiet(u)
          BY <3>1, <4>2, <4>4, <5>1 DEF VInv
        <5> QED  BY <3>2, <4>1, <4>4, <5>2 DEF Clears
      <4> QED  BY <4>3, <4>4
    <3> QED  BY <3>5, <3>6, <3>7
  <2> QED  BY <2>2, <2>3 DEF VInv
<1> QED  BY <1>1, <1>2 DEF Next, Acts

-----------------------------------------------------------------------------
(* The theorems.                                                           *)

\* The organization has finitely many founders.
LEMMA FiniteFounders == IsFiniteSet(founded) /\ [Next]_vars => IsFiniteSet(founded')
<1> SUFFICES ASSUME IsFiniteSet(founded), [Next]_vars PROVE IsFiniteSet(founded')
  OBVIOUS
<1>1. ASSUME NEW r \in Requests, AddOwner(r) PROVE founded' = founded \cup {actor[r]}
  BY <1>1 DEF AddOwner
<1>2. ASSUME NEW r \in Requests,
             \/ Begin(r) \/ ListInvites(r) \/ Accept(r) \/ Join(r) \/ MarkAccepted(r)
             \/ AcceptedAll(r) \/ Provision(r) \/ Resolve(r) \/ LookupOrg(r) \/ CreateOrg(r)
             \/ OtherHandler(r) \/ CreateOrganization(r) \/ Abort(r)
      PROVE  founded' = founded
  BY <1>2 DEF Begin, ListInvites, Accept, Join, MarkAccepted, AcceptedAll, Provision, Resolve,
              LookupOrg, CreateOrg, OtherHandler, CreateOrganization, Abort, history
<1>3. ASSUME NEW r \in Requests, InviteMember(r) \/ RevokeInvite(r) \/ UpdateRole(r) \/ RemoveMember(r)
      PROVE  founded' = founded
  BY <1>3 DEF InviteMember, RevokeInvite, UpdateRole, RemoveMember, About
<1>4. ASSUME NEW r \in Requests,
             \/ CheckPending(r) \/ LookupUser(r) \/ CheckMember(r) \/ AddMember(r)
             \/ WriteInvite(r) \/ WriteRevoked(r) \/ CountOwners(r) \/ WriteRole(r) \/ Delete(r)
      PROVE  founded' = founded
  BY <1>4 DEF CheckPending, LookupUser, CheckMember, AddMember, WriteInvite, WriteRevoked,
              CountOwners, WriteRole, Delete, history
<1>5. founded' = founded \/ \E u : founded' = founded \cup {u}
  BY <1>1, <1>2, <1>3, <1>4 DEF Next, vars
<1> QED  BY <1>5, FS_AddElement

\* The inductive invariant.
LEMMA Inductive == Spec => []IInv
<1>1. Init => IInv
  BY TInit, OInit, FS_EmptySet DEF IInv, Init
<1>2. IInv /\ [Next]_vars => IInv'
  BY TStep, OStep, FiniteFounders DEF IInv
<1> QED  BY <1>1, <1>2, PTL DEF Spec

\* The documents and the requests are well typed: no request gives or writes the
\* owner role, and an invite is never of it.
THEOREM TypeCorrect == Spec => []TypeOK
<1>1. IInv => TypeOK
  BY DEF IInv, TInv
<1> QED  BY <1>1, Inductive, PTL

\* Whatever requests overlap, fail or act with a role their user has lost, the
\* founder of an organization stays its owner as long as nobody else founded it.
THEOREM FounderKeepsOwnership == Spec => []FounderStaysOwner
<1>1. IInv => FounderStaysOwner
  <2> SUFFICES ASSUME IInv, Cardinality(founded) = 1, NEW u \in founded
               PROVE  role[u] = "owner"
    BY DEF FounderStaysOwner
  <2>1. u \in Users
    BY FoundersAssumption DEF IInv, TInv, TypeOK
  <2>2. founded = {u}
    BY FS_Singleton DEF IInv
  <2> QED  BY <2>1, <2>2 DEF IInv, OInv, DocumentsOK
<1> QED  BY <1>1, Inductive, PTL

\* What is added to the inductive invariant for the two theorems that follow.
LEMMA Together == Spec => [](IInv /\ SInv /\ WInv /\ VInv)
<1>1. Init => IInv
  BY TInit, OInit, FS_EmptySet DEF IInv, Init
<1>2. ASSUME Init PROVE SInv /\ WInv /\ VInv
  <2>1. /\ founded = {} /\ Absent # "owner"
        /\ \A r \in Requests : pc[r] = "idle" /\ Subject(r) = NoUser /\ target[r] = NoUser
        /\ \A u \in Users : role[u] = Absent
    BY <1>2 DEF Init, Subject, Absent
  <2> QED
    BY <2>1, NullsAssumption
       DEF SInv, Alone, SubjectOK, Starting, WInv, Checked, AnotherOwner, OneTakes, Entering,
           Taking, Counting, OwnersLeaveOneByOne, VInv, Quiet
<1>3. IInv /\ SInv /\ [Next]_vars => IInv' /\ SInv'
  BY TStep, OStep, FiniteFounders, SStep DEF IInv
<1>4. IInv /\ SInv /\ WInv /\ VInv /\ [Next]_vars => IInv' /\ SInv' /\ WInv' /\ VInv'
  BY <1>3, WStep, VStep
<1> QED  BY <1>1, <1>2, <1>4, PTL DEF Spec

\* Several founders of one organization do not leave it without an owner, though each
\* may remove the others and two requests may count the owners at once, as long as no
\* founder was the subject of two requests at the same time.
THEOREM OwnersLeaveInTurn == Spec => []OwnersLeaveOneByOne
<1>1. WInv => OwnersLeaveOneByOne
  BY DEF WInv
<1> QED  BY <1>1, Together, PTL

\* Unless a request fails or overlaps with another one about the same user, a member
\* has no pending invite once nobody is about him: one who is removed does not come
\* back at his next request.
THEOREM InvitesCleared == Spec => []NoStandingInvite
<1>1. VInv => NoStandingInvite
  <2> SUFFICES ASSUME VInv, faults = 0, NEW u \in Users \ raced, role[u] # Absent,
                      \A r \in Requests : Subject(r) # u, NEW i \in Invites,
                      invite[i].user = u, invite[i].status = "pending"
               PROVE  FALSE
    BY DEF NoStandingInvite
  <2>1. Pending(u) = {}
    BY DEF VInv, Quiet
  <2> QED  BY <2>1 DEF Pending
<1> QED  BY <1>1, Together, PTL

=============================================================================
