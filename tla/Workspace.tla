----------------------------- MODULE Workspace -----------------------------
(***************************************************************************)
(* Which organization the pages of a browser work in: the provider         *)
(* OrganizationProvider.tsx, the header that lib/api.ts adds to every      *)
(* request, and the query cache of QueryProvider.tsx, in every tab.        *)
(*                                                                         *)
(* The provider keeps its choice twice: as React state, which the tab      *)
(* shows, and in localStorage, which all tabs share and every request      *)
(* reads.  A query stands for all queries of a tab whose keys name neither *)
(* user nor organization: all but those of module OrgSettings.             *)
(*                                                                         *)
(* Of the session (module Session) this module keeps who is signed in, who *)
(* each tab knows to be signed in, and that signing out takes two steps.   *)
(***************************************************************************)
EXTENDS Naturals

CONSTANTS
    Tabs, Users, Orgs,
    Member,        \* the organizations of each user
    Viewers,       \* the tabs at a page that queries; the others are at the login page or idle
    Primary,       \* the one the server takes when the header names none
    Nobody, NoOrg, NoData,
    MaxActs        \* bound: sign-ins, sign-outs, page loads, switches and faults

ASSUME NoneAssumption == Nobody \notin Users /\ NoOrg \notin Orgs
ASSUME ViewersAssumption == Viewers \subseteq Tabs
ASSUME MemberAssumption == Member \in [Users -> SUBSET Orgs]
ASSUME PrimaryAssumption == \A u \in Users : Primary[u] \in Member[u]
ASSUME ActsAssumption == MaxActs \in Nat

Loading == "loading"
ASSUME LoadingAssumption == Loading \notin Users /\ Loading # Nobody

\* A request is made with the token of a user and the header of an organization.
Request == [user : Users, org : Orgs \cup {NoOrg}]
ASSUME NoDataAssumption == NoData \notin Request

VARIABLES
    account,   \* Firebase: the user signed in in this browser, seen by all tabs
    key,       \* localStorage trustfabric_organization_id
    user,      \* AuthProvider's state, by tab
    leaving,   \* the tab is in logOut, between forgetting the organization and signing out
    refreshed, \* the user whose change last ran the provider's effect
    asking,    \* requests of organizationsApi.me in flight
    context,   \* the user whose organizations the provider holds
    active,    \* activeOrganizationId
    fetch,     \* the query in flight
    shown,     \* what the query cache holds: the user and organization it was answered for
    apart,     \* history: the tab's requests were led to another organization by anything but
               \* its own switch, or the switch came during a first load, since the tab was
               \* loaded or last switched
    entangled, \* history: an account was replaced while signed in, or the key was written
               \* during a sign-out or for somebody who is not signed in
    acts

sessionVars == <<account, user, leaving>>
providerVars == <<refreshed, asking, context, active>>
queryVars == <<fetch, shown>>
history == <<apart, entangled>>
vars == <<account, key, user, leaving, refreshed, asking, context, active, fetch, shown,
          apart, entangled, acts>>

TypeOK ==
    /\ account \in Users \cup {Nobody}
    /\ key \in Orgs \cup {NoOrg}
    /\ user \in [Tabs -> Users \cup {Nobody, Loading}]
    /\ leaving \in [Tabs -> BOOLEAN]
    /\ refreshed \in [Tabs -> Users \cup {Nobody, Loading}]
    /\ asking \in [Tabs -> SUBSET Request]
    /\ context \in [Tabs -> Users \cup {Nobody}]
    /\ active \in [Tabs -> Orgs \cup {NoOrg}]
    /\ fetch \in [Tabs -> Request \cup {NoData}]
    /\ shown \in [Tabs -> Request \cup {NoData}]
    /\ apart \in [Tabs -> BOOLEAN]
    /\ entangled \in BOOLEAN
    /\ acts \in Nat

\* The browser is opened, perhaps with what an earlier session left in it.
Init ==
    /\ account \in Users \cup {Nobody}
    /\ key \in (IF account \in Users THEN Member[account] ELSE {}) \cup {NoOrg}
    /\ user = [t \in Tabs |-> Loading]
    /\ leaving = [t \in Tabs |-> FALSE]
    /\ refreshed = [t \in Tabs |-> Loading]
    /\ asking = [t \in Tabs |-> {}]
    /\ context = [t \in Tabs |-> Nobody]
    /\ active = [t \in Tabs |-> NoOrg]
    /\ fetch = [t \in Tabs |-> NoData]
    /\ shown = [t \in Tabs |-> NoData]
    /\ apart = [t \in Tabs |-> FALSE]
    /\ entangled = FALSE
    /\ acts = 0

Act == acts < MaxActs /\ acts' = acts + 1

\* request of lib/api.ts, with whatever organization localStorage holds.
Asked(t) == [user |-> user[t], org |-> key]

\* The organization the server resolves a request to; a header that names an organization
\* the user is not a member of is refused with 403.
Accepts(r) == r.org \in Member[r.user] \cup {NoOrg}
Resolved(r) == [r EXCEPT !.org = IF @ = NoOrg THEN Primary[r.user] ELSE @]

\* Where requests of a tab lead.
LeadsTo(u, k) == <<u, IF u \in Users /\ k = NoOrg THEN Primary[u] ELSE k>>

\* What a step of anyone does to the history of tab t.
Led(t) ==
    \/ apart[t]
    \/ user[t] \in Users /\ LeadsTo(user'[t], key') # LeadsTo(user[t], key)

SigningOut == \E t \in Tabs : leaving[t]

-----------------------------------------------------------------------------
(* AuthProvider, as far as the workspace sees it.                          *)

SessionStep ==
    /\ apart' = [t \in Tabs |-> Led(t)]
    /\ UNCHANGED <<providerVars, queryVars>>

\* A tab learns who is signed in, from Firebase or from another tab.
Observe(t) ==
    /\ user[t] # account
    /\ user' = [user EXCEPT ![t] = account]
    /\ UNCHANGED <<account, key, leaving, entangled, acts>>
    /\ SessionStep

\* signIn, in a tab at the login page; with a user signed in, it is opened by hand or after
\* the cookie has expired.
SignedIn(t, u) ==
    /\ user[t] # Loading /\ ~leaving[t]
    /\ Act
    /\ account' = u
    /\ user' = [user EXCEPT ![t] = u]
    /\ entangled' = (entangled \/ account \in Users \ {u})
    /\ UNCHANGED <<key, leaving>>
    /\ SessionStep

\* The end of the SSO callback: the organization the identity provider vouched for becomes
\* the active one in localStorage, and only there.
Land(t, o) ==
    /\ user[t] \in Users /\ o \in Member[user[t]]
    /\ Act
    /\ key' = o
    /\ entangled' = (entangled \/ SigningOut \/ user[t] # account)
    /\ UNCHANGED <<account, user, leaving>>
    /\ SessionStep

\* Mutant: the organization is not forgotten.
ForgetNothing(t) ==
    /\ user[t] \in Users /\ ~leaving[t]
    /\ Act
    /\ leaving' = [leaving EXCEPT ![t] = TRUE]
    /\ UNCHANGED <<account, key, user, entangled>>
    /\ SessionStep

\* logOut up to its await ...
Forget(t) ==
    /\ user[t] \in Users /\ ~leaving[t]
    /\ Act
    /\ key' = NoOrg
    /\ leaving' = [leaving EXCEPT ![t] = TRUE]
    /\ UNCHANGED <<account, user, entangled>>
    /\ SessionStep

\* ... the account ...
SignedOut(t) ==
    /\ leaving[t]
    /\ account' = Nobody
    /\ user' = [user EXCEPT ![t] = Nobody]
    /\ leaving' = [leaving EXCEPT ![t] = FALSE]
    /\ UNCHANGED <<key, entangled, acts>>
    /\ SessionStep

\* ... unless clearing the cookie failed: logOut throws and the user stays signed in.
StayedIn(t) ==
    /\ leaving[t] /\ Act
    /\ leaving' = [leaving EXCEPT ![t] = FALSE]
    /\ UNCHANGED <<account, key, user, entangled>>
    /\ SessionStep

-----------------------------------------------------------------------------
(* OrganizationProvider.                                                   *)

\* The effect, and refresh up to its await.
Refresh(t) ==
    /\ user[t] \notin {Loading, refreshed[t]}
    /\ refreshed' = [refreshed EXCEPT ![t] = user[t]]
    /\ IF user[t] = Nobody
       THEN /\ context' = [context EXCEPT ![t] = Nobody]
            /\ active' = [active EXCEPT ![t] = NoOrg]
            /\ UNCHANGED asking
       ELSE /\ asking' = [asking EXCEPT ![t] = @ \cup {Asked(t)}]
            /\ UNCHANGED <<context, active>>
    /\ UNCHANGED <<sessionVars, key, queryVars, history, acts>>

\* The rest of refresh: the stored organization if it is one of the user's, as stored
\* when the answer arrives, and otherwise the primary one.
Choice(u) == IF key \in Member[u] THEN key ELSE Primary[u]

Refreshed(t, r) ==
    /\ r \in asking[t] /\ Accepts(r)
    /\ asking' = [asking EXCEPT ![t] = @ \ {r}]
    /\ context' = [context EXCEPT ![t] = r.user]
    /\ active' = [active EXCEPT ![t] = Choice(r.user)]
    /\ key' = Choice(r.user)
    /\ entangled' = (entangled \/ SigningOut \/ r.user # account)
    /\ UNCHANGED <<sessionVars, refreshed, queryVars, acts>>
    /\ apart' = [p \in Tabs |-> Led(p)]

\* The request is refused or fails: the catch leaves everything as it was.
RefreshFails(t, r) ==
    /\ r \in asking[t]
    /\ IF Accepts(r) THEN Act ELSE UNCHANGED acts
    /\ asking' = [asking EXCEPT ![t] = @ \ {r}]
    /\ UNCHANGED <<sessionVars, key, refreshed, context, active, queryVars, history>>

\* A query that has no data yet keeps the request it has in flight.
FirstLoad(t) == t \in Viewers /\ fetch[t] # NoData /\ shown[t] = NoData

\* Mutant: nothing is invalidated.
SwitchQuietly(t, o) ==
    /\ user[t] \in Users /\ ~leaving[t]
    /\ context[t] \in Users /\ o \in Member[context[t]] \ {active[t]}
    /\ Act
    /\ active' = [active EXCEPT ![t] = o]
    /\ key' = o
    /\ entangled' = (entangled \/ SigningOut \/ context[t] # account)
    /\ UNCHANGED <<sessionVars, refreshed, asking, context, queryVars>>
    /\ apart' = [p \in Tabs |-> IF p = t THEN context[t] # user[t] \/ FirstLoad(t) ELSE Led(p)]

\* switchOrganization: both copies, then every query is fetched anew; what was in flight
\* is cancelled, but for a first load.
Switch(t, o) ==
    /\ user[t] \in Users /\ ~leaving[t]
    /\ context[t] \in Users /\ o \in Member[context[t]] \ {active[t]}
    /\ Act
    /\ active' = [active EXCEPT ![t] = o]
    /\ key' = o
    /\ fetch' = [fetch EXCEPT ![t] = IF t \in Viewers /\ ~FirstLoad(t) THEN [user |-> user[t], org |-> o] ELSE @]
    /\ entangled' = (entangled \/ SigningOut \/ context[t] # account)
    /\ UNCHANGED <<sessionVars, refreshed, asking, context, shown>>
    /\ apart' = [p \in Tabs |-> IF p = t THEN context[t] # user[t] \/ FirstLoad(t) ELSE Led(p)]

-----------------------------------------------------------------------------
(* The query cache.                                                        *)

\* Mutant: the page is not behind the gate.
FetchUngated(t) ==
    /\ t \in Viewers /\ fetch[t] = NoData
    /\ fetch' = [fetch EXCEPT ![t] = Asked(t)]
    /\ UNCHANGED <<sessionVars, key, providerVars, shown, history, acts>>

\* A page behind AppAuthGate mounts, or finds its data stale.
Fetch(t) ==
    /\ t \in Viewers /\ user[t] \in Users /\ fetch[t] = NoData
    /\ fetch' = [fetch EXCEPT ![t] = Asked(t)]
    /\ UNCHANGED <<sessionVars, key, providerVars, shown, history, acts>>

\* The answer replaces what is shown; a refused request leaves it.
Fetched(t) ==
    /\ fetch[t] # NoData
    /\ fetch' = [fetch EXCEPT ![t] = NoData]
    /\ shown' = [shown EXCEPT ![t] = IF Accepts(fetch[t]) THEN Resolved(fetch[t]) ELSE @]
    /\ UNCHANGED <<sessionVars, key, providerVars, history, acts>>

\* A page load starts the tab's providers and cache anew.
Load(t) ==
    /\ user[t] # Loading /\ Act
    /\ user' = [user EXCEPT ![t] = Loading]
    /\ leaving' = [leaving EXCEPT ![t] = FALSE]
    /\ refreshed' = [refreshed EXCEPT ![t] = Loading]
    /\ asking' = [asking EXCEPT ![t] = {}]
    /\ context' = [context EXCEPT ![t] = Nobody]
    /\ active' = [active EXCEPT ![t] = NoOrg]
    /\ fetch' = [fetch EXCEPT ![t] = NoData]
    /\ shown' = [shown EXCEPT ![t] = NoData]
    /\ apart' = [apart EXCEPT ![t] = FALSE]
    /\ UNCHANGED <<account, key, entangled>>

Next ==
    \E t \in Tabs :
        \/ Observe(t) \/ Forget(t) \/ SignedOut(t) \/ StayedIn(t) \/ Load(t)
        \/ Refresh(t) \/ Fetch(t) \/ Fetched(t)
        \/ \E u \in Users : SignedIn(t, u)
        \/ \E o \in Orgs : Land(t, o) \/ Switch(t, o)
        \/ \E r \in Request : Refreshed(t, r) \/ RefreshFails(t, r)

Spec == Init /\ [][Next]_vars

-----------------------------------------------------------------------------
(* Properties                                                              *)

\* Data on the screen is that of the organization the tab names, and of its user, when no
\* query is under way: as long as nothing but the tab's own switch has led its requests
\* elsewhere, and it did not switch during a first load.  The two copies of the choice, the
\* server's default and the late answers of queries that a switch cancelled must fit
\* together for this.
ShownIsOfActiveOrganization ==
    \A t \in Tabs :
        ~apart[t] /\ fetch[t] = NoData /\ shown[t] # NoData /\ active[t] # NoOrg
            => shown[t] = [user |-> user[t], org |-> active[t]]

\* Nobody signs in to a browser that still names an organization of somebody else, which
\* would have every request refused, the one that could choose another included: unless
\* an account was replaced without a sign-out, or a provider wrote during one.
KeyIsOfAccount ==
    account \in Users /\ ~entangled => key \in Member[account] \cup {NoOrg}
=============================================================================
