-------------------------- MODULE WorkspaceProofs --------------------------
(***************************************************************************)
(* Proofs about module Workspace: its types, the organization that a       *)
(* browser names, and the data that a tab shows.                           *)
(***************************************************************************)
EXTENDS Workspace, TLAPS

-----------------------------------------------------------------------------
(* The inductive invariant.                                                *)

\* The stored organization is forgotten before the account is: so nobody is signed in, or
\* signing out, with an organization stored.
KeyInv ==
    ~entangled =>
        /\ account \in Users => key \in Member[account] \cup {NoOrg}
        /\ account = Nobody => key = NoOrg
        /\ \A t \in Tabs : leaving[t] => key = NoOrg

\* Where requests of user u lead while localStorage holds k.
Target(u, k) == [user |-> u, org |-> IF k = NoOrg THEN Primary[u] ELSE k]

\* What a signed-in tab that is not led apart has on the screen, or will have: a request that
\* the server refuses leaves the screen as it is.
Aligned(t) ==
    /\ active[t] # NoOrg => active[t] = Target(user[t], key).org
    /\ fetch[t] # NoData => Resolved(fetch[t]) = Target(user[t], key)
    /\ shown[t] # NoData /\ (fetch[t] = NoData \/ ~Accepts(fetch[t]))
           => shown[t] = Target(user[t], key)

Blank(t) == active[t] = NoOrg /\ asking[t] = {} /\ fetch[t] = NoData /\ shown[t] = NoData

TabInv(t) ==
    /\ t \notin Viewers => fetch[t] = NoData /\ shown[t] = NoData
    /\ ~apart[t] /\ user[t] \in Users => Aligned(t)
    /\ ~apart[t] /\ user[t] \notin Users => Blank(t)

IInv == TypeOK /\ KeyInv /\ \A t \in Tabs : TabInv(t)

-----------------------------------------------------------------------------
(* Types.                                                                  *)

\* Every user's primary organization is one that requests can name.
LEMMA MemberTypes ==
    ASSUME NEW u \in Users
    PROVE  Member[u] \subseteq Orgs /\ Primary[u] \in Member[u] /\ Primary[u] \in Orgs
BY MemberAssumption, PrimaryAssumption

\* What the server resolves a request to is a request that names an organization.
LEMMA ResolvedTypes ==
    ASSUME NEW r \in Request
    PROVE  Resolved(r) \in Request /\ Resolved(r) # NoData
BY MemberTypes, NoDataAssumption DEF Resolved, Request

\* A stored choice is an organization of the user.
LEMMA ChoiceTypes ==
    ASSUME NEW u \in Users
    PROVE  Choice(u) \in Member[u] /\ Choice(u) \in Orgs /\ Choice(u) # NoOrg
BY MemberTypes, NoneAssumption DEF Choice

\* The users are neither of the two other states that a tab knows.
LEMMA UserTypes ==
    /\ Nobody \notin Users /\ Loading \notin Users /\ Loading # Nobody
    /\ NoOrg \notin Orgs /\ NoData \notin Request
BY NoneAssumption, LoadingAssumption, NoDataAssumption

LEMMA InitTypeOK == Init => TypeOK
<1> SUFFICES ASSUME Init PROVE TypeOK
  OBVIOUS
<1>1. key \in Orgs \cup {NoOrg}
  BY MemberTypes DEF Init
<1> QED
  BY <1>1 DEF Init, TypeOK

\* Every step keeps the types.
LEMMA NextTypeOK == TypeOK /\ [Next]_vars => TypeOK'
<1> SUFFICES ASSUME TypeOK, [Next]_vars PROVE TypeOK'
  OBVIOUS
<1> USE DEF TypeOK, Act
<1>1. ASSUME NEW t \in Tabs, Observe(t) PROVE TypeOK'
  BY <1>1 DEF Observe, SessionStep, providerVars, queryVars, Led
<1>2. ASSUME NEW t \in Tabs, Forget(t) PROVE TypeOK'
  BY <1>2 DEF Forget, SessionStep, providerVars, queryVars, Led
<1>3. ASSUME NEW t \in Tabs, SignedOut(t) PROVE TypeOK'
  BY <1>3 DEF SignedOut, SessionStep, providerVars, queryVars, Led
<1>4. ASSUME NEW t \in Tabs, StayedIn(t) PROVE TypeOK'
  BY <1>4 DEF StayedIn, SessionStep, providerVars, queryVars, Led
<1>5. ASSUME NEW t \in Tabs, Load(t) PROVE TypeOK'
  BY <1>5 DEF Load
<1>6. ASSUME NEW t \in Tabs, Refresh(t) PROVE TypeOK'
  <2>1. user[t] # Nobody => Asked(t) \in Request
    BY <1>6 DEF Refresh, Asked, Request
  <2> QED
    BY <1>6, <2>1 DEF Refresh, sessionVars, queryVars, history
<1>7. ASSUME NEW t \in Tabs, Fetch(t) PROVE TypeOK'
  <2>1. Asked(t) \in Request
    BY <1>7 DEF Fetch, Asked, Request
  <2> QED
    BY <1>7, <2>1 DEF Fetch, sessionVars, providerVars, history
<1>8. ASSUME NEW t \in Tabs, Fetched(t) PROVE TypeOK'
  <2>1. fetch[t] \in Request /\ Resolved(fetch[t]) \in Request
    BY <1>8, ResolvedTypes DEF Fetched
  <2> QED
    BY <1>8, <2>1 DEF Fetched, sessionVars, providerVars, history
<1>9. ASSUME NEW t \in Tabs, NEW u \in Users, SignedIn(t, u) PROVE TypeOK'
  BY <1>9 DEF SignedIn, SessionStep, providerVars, queryVars, Led
<1>10. ASSUME NEW t \in Tabs, NEW o \in Orgs, Land(t, o) PROVE TypeOK'
  BY <1>10 DEF Land, SessionStep, providerVars, queryVars, Led, SigningOut
<1>11. ASSUME NEW t \in Tabs, NEW o \in Orgs, Switch(t, o) PROVE TypeOK'
  <2>1. [user |-> user[t], org |-> o] \in Request
    BY <1>11 DEF Switch, Request
  <2>2. apart' \in [Tabs -> BOOLEAN]
    BY <1>11 DEF Switch, Led, FirstLoad
  <2>3. entangled' \in BOOLEAN
    BY <1>11 DEF Switch, SigningOut
  <2> QED
    BY <1>11, <2>1, <2>2, <2>3 DEF Switch, sessionVars
<1>12. ASSUME NEW t \in Tabs, NEW r \in Request, Refreshed(t, r) PROVE TypeOK'
  <2>1. r.user \in Users /\ Choice(r.user) \in Orgs
    BY ChoiceTypes DEF Request
  <2> QED
    BY <1>12, <2>1 DEF Refreshed, sessionVars, queryVars, Led, SigningOut
<1>13. ASSUME NEW t \in Tabs, NEW r \in Request, RefreshFails(t, r) PROVE TypeOK'
  BY <1>13 DEF RefreshFails, sessionVars, queryVars, history
<1>14. CASE UNCHANGED vars
  BY <1>14 DEF vars
<1> QED
  BY <1>1, <1>2, <1>3, <1>4, <1>5, <1>6, <1>7, <1>8, <1>9, <1>10, <1>11, <1>12, <1>13, <1>14
     DEF Next

-----------------------------------------------------------------------------
(* The stored organization.                                                *)

\* Every step keeps the stored organization one of the account's.
LEMMA NextKeyInv == TypeOK /\ KeyInv /\ [Next]_vars => KeyInv'
<1> SUFFICES ASSUME TypeOK, KeyInv, [Next]_vars, ~entangled' PROVE KeyInv'
  BY DEF KeyInv
<1> USE DEF KeyInv, TypeOK
<1>1. ASSUME NEW t \in Tabs, Observe(t) PROVE KeyInv'
  BY <1>1 DEF Observe
<1>2. ASSUME NEW t \in Tabs, Forget(t) PROVE KeyInv'
  BY <1>2 DEF Forget
<1>3. ASSUME NEW t \in Tabs, SignedOut(t) PROVE KeyInv'
  BY <1>3, UserTypes DEF SignedOut
<1>4. ASSUME NEW t \in Tabs, StayedIn(t) PROVE KeyInv'
  BY <1>4 DEF StayedIn
<1>5. ASSUME NEW t \in Tabs, Load(t) PROVE KeyInv'
  BY <1>5 DEF Load
<1>6. ASSUME NEW t \in Tabs, Refresh(t) PROVE KeyInv'
  BY <1>6 DEF Refresh, sessionVars, history
<1>7. ASSUME NEW t \in Tabs, Fetch(t) PROVE KeyInv'
  BY <1>7 DEF Fetch, sessionVars, history
<1>8. ASSUME NEW t \in Tabs, Fetched(t) PROVE KeyInv'
  BY <1>8 DEF Fetched, sessionVars, history
<1>9. ASSUME NEW t \in Tabs, NEW u \in Users, SignedIn(t, u) PROVE KeyInv'
  BY <1>9, UserTypes DEF SignedIn
<1>10. ASSUME NEW t \in Tabs, NEW o \in Orgs, Land(t, o) PROVE KeyInv'
  BY <1>10, UserTypes DEF Land, SigningOut
<1>11. ASSUME NEW t \in Tabs, NEW o \in Orgs, Switch(t, o) PROVE KeyInv'
  BY <1>11, UserTypes DEF Switch, sessionVars, SigningOut
<1>12. ASSUME NEW t \in Tabs, NEW r \in Request, Refreshed(t, r) PROVE KeyInv'
  <2>1. r.user \in Users /\ Choice(r.user) \in Member[r.user]
    BY ChoiceTypes DEF Request
  <2> QED
    BY <1>12, <2>1, UserTypes DEF Refreshed, sessionVars, SigningOut
<1>13. ASSUME NEW t \in Tabs, NEW r \in Request, RefreshFails(t, r) PROVE KeyInv'
  BY <1>13 DEF RefreshFails, sessionVars, history
<1>14. CASE UNCHANGED vars
  BY <1>14 DEF vars
<1> QED
  BY <1>1, <1>2, <1>3, <1>4, <1>5, <1>6, <1>7, <1>8, <1>9, <1>10, <1>11, <1>12, <1>13, <1>14
     DEF Next

-----------------------------------------------------------------------------
(* What the tabs show.                                                     *)

\* The step leaves the provider and the cache of a tab.
Left(p) ==
    /\ asking'[p] = asking[p] /\ active'[p] = active[p]
    /\ fetch'[p] = fetch[p] /\ shown'[p] = shown[p]

\* Whatever anyone does to the stored organization or to the accounts, a tab whose requests
\* still lead where they led shows what it should.
LEMMA LedKeeps ==
    ASSUME TypeOK, NEW p \in Tabs, TabInv(p), Left(p), apart'[p] = Led(p)
    PROVE  TabInv(p)'
<1> USE DEF TypeOK
<1>1. Viewers' = Viewers /\ Primary' = Primary
  OBVIOUS
<1>2. (p \notin Viewers => fetch[p] = NoData /\ shown[p] = NoData)'
  BY DEF TabInv, Left
<1>3. ASSUME ~apart'[p], user[p] \in Users
      PROVE  user'[p] = user[p] /\ Target(user'[p], key') = Target(user[p], key)
  BY <1>3, UserTypes DEF Led, LeadsTo, Target
<1>4. CASE apart'[p]
  BY <1>2, <1>4 DEF TabInv
<1>5. CASE ~apart'[p] /\ user[p] \in Users
  <2>1. Aligned(p)
    BY <1>5 DEF TabInv, Led
  <2>2. Aligned(p)'
    BY <2>1, <1>3, <1>5 DEF Aligned, Left, Resolved, Accepts
  <2> QED
    BY <1>2, <1>3, <1>5, <2>2 DEF TabInv
<1>6. CASE ~apart'[p] /\ user[p] \notin Users
  <2>1. Blank(p)
    BY <1>6 DEF TabInv, Led
  <2>2. Blank(p)' /\ Aligned(p)'
    BY <2>1 DEF Blank, Aligned, Left
  <2> QED
    BY <1>2, <2>2 DEF TabInv
<1> QED
  BY <1>4, <1>5, <1>6

\* A tab that a step does not touch at all keeps its part of the invariant.
LEMMA UntouchedKeeps ==
    ASSUME TypeOK, NEW p \in Tabs, TabInv(p), Left(p),
           user'[p] = user[p], key' = key, apart'[p] = apart[p]
    PROVE  TabInv(p)'
<1>1. (Aligned(p)' <=> Aligned(p)) /\ (Blank(p)' <=> Blank(p))
  BY DEF Left, Aligned, Blank, Target, Resolved, Accepts
<1> QED
  BY <1>1 DEF TabInv, Left

LEMMA InitTabInv == Init => \A t \in Tabs : TabInv(t)
BY DEF Init, TabInv, Aligned, Blank

\* The choice that an answer makes is shown only where requests already led.
LEMMA RefreshedTabInv ==
    ASSUME TypeOK, NEW t \in Tabs, NEW r \in Request, Refreshed(t, r), TabInv(t)
    PROVE  TabInv(t)'
<1> USE DEF TypeOK
<1>1. /\ r \in asking[t] /\ apart'[t] = Led(t) /\ user' = user
      /\ active'[t] = Choice(r.user) /\ key' = Choice(r.user)
      /\ fetch' = fetch /\ shown' = shown
  BY DEF Refreshed, sessionVars, queryVars
<1>2. Choice(r.user) \in Orgs /\ Choice(r.user) # NoOrg
  BY ChoiceTypes DEF Request
<1>3. CASE apart'[t]
  BY <1>1, <1>3 DEF TabInv
<1>4. CASE ~apart'[t] /\ user[t] \notin Users
  BY <1>1, <1>4 DEF TabInv, Led, Blank
<1>5. CASE ~apart'[t] /\ user[t] \in Users
  <2>1. Target(user'[t], key') = Target(user[t], key)
    BY <1>1, <1>5, UserTypes DEF Led, LeadsTo, Target
  <2>2. Aligned(t)
    BY <1>1, <1>5 DEF TabInv, Led
  <2>3. active'[t] = Target(user'[t], key').org
    BY <1>1, <1>2 DEF Target
  <2>4. Aligned(t)'
    BY <1>1, <2>1, <2>2, <2>3 DEF Aligned, Resolved, Accepts
  <2> QED
    BY <1>1, <1>5, <2>4 DEF TabInv
<1> QED
  BY <1>3, <1>4, <1>5

\* A switch in the tab itself: what is on the screen is replaced by the answer of a request
\* that the server accepts.
LEMMA SwitchTabInv ==
    ASSUME TypeOK, NEW t \in Tabs, NEW o \in Orgs, Switch(t, o), TabInv(t)
    PROVE  TabInv(t)'
<1> USE DEF TypeOK
<1>1. /\ user' = user /\ key' = o /\ active'[t] = o /\ shown' = shown /\ user[t] \in Users
      /\ apart'[t] = (context[t] # user[t] \/ FirstLoad(t)) /\ o \in Member[context[t]]
      /\ fetch'[t] = IF t \in Viewers /\ ~FirstLoad(t) THEN [user |-> user[t], org |-> o] ELSE fetch[t]
  BY DEF Switch, sessionVars
<1>2. Target(user'[t], key') = [user |-> user[t], org |-> o]
  BY <1>1, UserTypes DEF Target
<1>3. CASE t \notin Viewers
  BY <1>1, <1>2, <1>3 DEF TabInv, Aligned
<1>4. CASE t \in Viewers /\ apart'[t]
  BY <1>4 DEF TabInv
<1>5. CASE t \in Viewers /\ ~apart'[t]
  <2>1. fetch'[t] = [user |-> user[t], org |-> o] /\ o \in Member[user[t]]
    BY <1>1, <1>5
  <2>2. Accepts(fetch'[t]) /\ Resolved(fetch'[t]) = fetch'[t] /\ fetch'[t] # NoData
    BY <1>1, <2>1, UserTypes DEF Accepts, Resolved, Request
  <2>3. Aligned(t)'
    BY <1>1, <1>2, <2>1, <2>2 DEF Aligned, Resolved, Accepts
  <2> QED
    BY <1>1, <1>5, <2>3 DEF TabInv
<1> QED
  BY <1>3, <1>4, <1>5

\* Every step keeps what each tab shows in line with where its requests lead.
LEMMA NextTabInv ==
    ASSUME TypeOK, \A t \in Tabs : TabInv(t), [Next]_vars, NEW p \in Tabs
    PROVE  TabInv(p)'
<1> USE DEF TypeOK
<1>1. TabInv(p)
  OBVIOUS
<1>2. ASSUME SessionStep PROVE TabInv(p)'
  BY <1>1, <1>2, LedKeeps DEF SessionStep, providerVars, queryVars, Left
<1>3. ASSUME NEW t \in Tabs, Observe(t) \/ Forget(t) \/ SignedOut(t) \/ StayedIn(t)
      PROVE  TabInv(p)'
  BY <1>2, <1>3 DEF Observe, Forget, SignedOut, StayedIn
<1>4. ASSUME NEW t \in Tabs, NEW u \in Users, SignedIn(t, u) PROVE TabInv(p)'
  BY <1>2, <1>4 DEF SignedIn
<1>5. ASSUME NEW t \in Tabs, NEW o \in Orgs, Land(t, o) PROVE TabInv(p)'
  BY <1>2, <1>5 DEF Land
<1>6. ASSUME NEW t \in Tabs, Load(t) PROVE TabInv(p)'
  <2>1. CASE p = t
    BY <1>6, <2>1, UserTypes DEF Load, TabInv, Blank
  <2>2. CASE p # t
    BY <1>1, <1>6, <2>2, UntouchedKeeps DEF Load, Left
  <2> QED
    BY <2>1, <2>2
<1>7. ASSUME NEW t \in Tabs, Refresh(t) PROVE TabInv(p)'
  <2>1. user' = user /\ key' = key /\ apart' = apart /\ fetch' = fetch /\ shown' = shown
    BY <1>7 DEF Refresh, sessionVars, queryVars, history
  <2>2. CASE p = t /\ user[t] = Nobody
    <3>1. active'[p] = NoOrg /\ asking'[p] = asking[p]
      BY <1>7, <2>2 DEF Refresh
    <3>2. (Aligned(p) => Aligned(p)') /\ (Blank(p) => Blank(p)')
      BY <2>1, <3>1 DEF Aligned, Blank, Target, Resolved, Accepts
    <3> QED
      BY <1>1, <2>1, <3>2 DEF TabInv
  <2>3. CASE p = t /\ user[t] # Nobody
    <3>1. user[p] \in Users /\ active'[p] = active[p]
      BY <1>7, <2>3 DEF Refresh
    <3>2. Aligned(p) => Aligned(p)'
      BY <2>1, <3>1 DEF Aligned, Target, Resolved, Accepts
    <3> QED
      BY <1>1, <2>1, <3>1, <3>2 DEF TabInv
  <2>4. CASE p # t
    <3>1. Left(p)
      BY <1>7, <2>1, <2>4 DEF Refresh, Left
    <3> QED
      BY <1>1, <2>1, <3>1, UntouchedKeeps
  <2> QED
    BY <2>2, <2>3, <2>4
<1>8. ASSUME NEW t \in Tabs, Fetch(t) PROVE TabInv(p)'
  <2>1. /\ user' = user /\ key' = key /\ apart' = apart /\ shown' = shown
        /\ asking' = asking /\ active' = active
        /\ t \in Viewers /\ user[t] \in Users /\ fetch[t] = NoData
        /\ fetch' = [fetch EXCEPT ![t] = Asked(t)]
    BY <1>8 DEF Fetch, sessionVars, providerVars, history
  <2>2. CASE p = t
    <3>1. Resolved(Asked(p)) = Target(user[p], key)
      BY UserTypes DEF Asked, Resolved, Target
    <3>2. Aligned(p) => Aligned(p)'
      <4>1. fetch'[p] = Asked(p)
        BY <2>1, <2>2
      <4> QED
        BY <2>1, <2>2, <3>1, <4>1 DEF Aligned, Target, Resolved, Accepts
    <3> QED
      BY <1>1, <2>1, <2>2, <3>2 DEF TabInv
  <2>3. CASE p # t
    BY <1>1, <2>1, <2>3, UntouchedKeeps DEF Left
  <2> QED
    BY <2>2, <2>3
<1>9. ASSUME NEW t \in Tabs, Fetched(t) PROVE TabInv(p)'
  <2>1. /\ user' = user /\ key' = key /\ apart' = apart
        /\ asking' = asking /\ active' = active /\ fetch[t] # NoData
        /\ fetch' = [fetch EXCEPT ![t] = NoData]
        /\ shown' = [shown EXCEPT ![t] = IF Accepts(fetch[t]) THEN Resolved(fetch[t]) ELSE @]
    BY <1>9 DEF Fetched, sessionVars, providerVars, history
  <2>2. CASE p = t
    <3>1. fetch'[p] = NoData /\ shown'[p] = IF Accepts(fetch[p]) THEN Resolved(fetch[p]) ELSE shown[p]
      BY <2>1, <2>2
    <3>2. Aligned(p) => Aligned(p)'
      BY <2>1, <2>2, <3>1 DEF Aligned, Target
    <3> QED
      BY <1>1, <2>1, <2>2, <3>1, <3>2 DEF TabInv, Blank
  <2>3. CASE p # t
    BY <1>1, <2>1, <2>3, UntouchedKeeps DEF Left
  <2> QED
    BY <2>2, <2>3
<1>10. ASSUME NEW t \in Tabs, NEW o \in Orgs, Switch(t, o) PROVE TabInv(p)'
  <2>1. CASE p = t
    BY <1>1, <1>10, <2>1, SwitchTabInv
  <2>2. CASE p # t
    <3>1. Left(p) /\ apart'[p] = Led(p)
      BY <1>10, <2>2 DEF Switch, Left
    <3> QED
      BY <1>1, <3>1, LedKeeps
  <2> QED
    BY <2>1, <2>2
<1>11. ASSUME NEW t \in Tabs, NEW r \in Request, Refreshed(t, r) PROVE TabInv(p)'
  <2>1. CASE p = t
    BY <1>1, <1>11, <2>1, RefreshedTabInv
  <2>2. CASE p # t
    <3>1. Left(p) /\ apart'[p] = Led(p)
      BY <1>11, <2>2 DEF Refreshed, queryVars, Left
    <3> QED
      BY <1>1, <3>1, LedKeeps
  <2> QED
    BY <2>1, <2>2
<1>12. ASSUME NEW t \in Tabs, NEW r \in Request, RefreshFails(t, r) PROVE TabInv(p)'
  <2>1. /\ user' = user /\ key' = key /\ apart' = apart /\ fetch' = fetch /\ shown' = shown
        /\ active' = active /\ asking' = [asking EXCEPT ![t] = @ \ {r}]
    BY <1>12 DEF RefreshFails, sessionVars, queryVars, history
  <2>2. (Aligned(p)' <=> Aligned(p)) /\ (Blank(p) => Blank(p)')
    BY <2>1 DEF Aligned, Blank, Target, Resolved, Accepts
  <2> QED
    BY <1>1, <2>1, <2>2 DEF TabInv
<1>13. CASE UNCHANGED vars
  BY <1>1, <1>13, UntouchedKeeps DEF vars, Left
<1> QED
  BY <1>3, <1>4, <1>5, <1>6, <1>7, <1>8, <1>9, <1>10, <1>11, <1>12, <1>13 DEF Next

-----------------------------------------------------------------------------
(* The theorems.                                                           *)

\* The invariant of the whole specification.
THEOREM Invariance == Spec => []IInv
<1>1. Init => IInv
  BY InitTypeOK, InitTabInv, UserTypes DEF Init, IInv, KeyInv
<1>2. IInv /\ [Next]_vars => IInv'
  BY NextTypeOK, NextKeyInv, NextTabInv DEF IInv
<1> QED
  BY <1>1, <1>2, PTL DEF Spec

\* The providers, the store they share and the requests keep their types.
THEOREM WorkspaceTypes == Spec => []TypeOK
BY Invariance, PTL DEF IInv

\* Nobody signs in to a browser that still names an organization of somebody else: logOut
\* forgets the organization before it signs out.
THEOREM KeyFollowsAccount == Spec => []KeyIsOfAccount
<1>1. IInv => KeyIsOfAccount
  BY DEF IInv, KeyInv, KeyIsOfAccount
<1> QED
  BY <1>1, Invariance, PTL

\* A tab shows data of the organization it names, and of its user.
THEOREM ShownFollowsActive == Spec => []ShownIsOfActiveOrganization
<1>1. IInv => ShownIsOfActiveOrganization
  <2> SUFFICES ASSUME IInv, NEW t \in Tabs, ~apart[t], fetch[t] = NoData, shown[t] # NoData,
                      active[t] # NoOrg
               PROVE  shown[t] = [user |-> user[t], org |-> active[t]]
    BY DEF ShownIsOfActiveOrganization
  <2>1. user[t] \in Users
    BY DEF IInv, TabInv, Blank
  <2>2. Aligned(t)
    BY <2>1 DEF IInv, TabInv
  <2> QED
    BY <2>2 DEF Aligned, Target
<1> QED
  BY <1>1, Invariance, PTL
=============================================================================
