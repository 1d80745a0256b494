------------------------------ MODULE Session ------------------------------
(***************************************************************************)
(* Who is signed in, in one browser: the provider AuthProvider.tsx of each *)
(* tab, the session cookie that app/api/auth/session/route.ts sets and     *)
(* clears, and the two gates that read them, middleware.ts on the server   *)
(* and AppAuthGate.tsx in the page.                                        *)
(*                                                                         *)
(* The tabs share the account Firebase keeps and the cookie; each has its  *)
(* own React state.  A call to the session route takes effect when its     *)
(* reply arrives, and calls in flight may arrive in any order.             *)
(*                                                                         *)
(* The build is one with a Firebase configuration; without it there is a   *)
(* stub user, no cookie and no gate.                                       *)
(***************************************************************************)
EXTENDS Naturals

CONSTANTS
    Tabs, Users,
    Nobody,        \* no user: signed out, no cookie, and the user of a DELETE
    MaxActs        \* bound: sign-ins, sign-outs, page loads, expiries and faults

Loading == "loading"           \* Firebase has not told the tab who is signed in

SessionAssumption ==
    Nobody \notin Users /\ Loading \notin Users \cup {Nobody} /\ MaxActs \in Nat

\* A call to /api/auth/session: establishAuthSession for a user, clearAuthSession for
\* nobody; the listener sends it and waits for nothing, the other two await it.
Call == [tab : Tabs, by : {"listener", "signIn", "logOut"}, user : Users \cup {Nobody}]

VARIABLES
    account,   \* Firebase: the user signed in in this browser, seen by all tabs
    cookie,    \* __tf_session: whose valid token it holds
    calls,     \* how many calls of each kind are in flight
    user,      \* AuthProvider's state, by tab
    path,      \* what the tab is at: the login page, or a page behind the gates
    step,      \* where signIn or logOut of the tab is
    disturbed, \* history: calls for different users crossed, or one was lost that mattered
    acts

browser == <<account, cookie>>
tabState == <<user, path, step>>
vars == <<account, cookie, calls, user, path, step, disturbed, acts>>

Steps == {"idle", "firebase", "establish", "push", "clear", "signOut", "leave"}

TypeOK ==
    /\ account \in Users \cup {Nobody}
    /\ cookie \in Users \cup {Nobody}
    /\ calls \in [Call -> Nat]
    /\ user \in [Tabs -> Users \cup {Nobody, Loading}]
    /\ path \in [Tabs -> {"login", "app"}]
    /\ step \in [Tabs -> Steps]
    /\ disturbed \in BOOLEAN
    /\ acts \in Nat

\* The browser is opened, perhaps with what an earlier session left in it.
Init ==
    /\ account \in Users \cup {Nobody}
    /\ cookie \in {account, Nobody}
    /\ calls = [c \in Call |-> 0]
    /\ user = [t \in Tabs |-> Loading]
    /\ path = [t \in Tabs |-> "login"]
    /\ step = [t \in Tabs |-> "idle"]
    /\ disturbed = FALSE
    /\ acts = 0

Act == acts < MaxActs /\ acts' = acts + 1

InFlight == {c \in Call : calls[c] > 0}

\* The calls cs of a tab are sent.
Send(cs) ==
    /\ calls' = [c \in Call |-> IF c \in cs THEN calls[c] + 1 ELSE calls[c]]
    /\ disturbed' = (disturbed \/ \E c \in cs, d \in InFlight : c.user # d.user)

Made(t, by, u) == [tab |-> t, by |-> by, user |-> u]

Goto(t, s) == step' = [step EXCEPT ![t] = s]

-----------------------------------------------------------------------------
(* Navigation.                                                             *)

\* middleware: a protected path needs a cookie with a token that verifies; the redirect
\* to the login page deletes the cookie.
Navigate(t) ==
    /\ path' = [path EXCEPT ![t] = IF cookie = Nobody THEN "login" ELSE "app"]
    /\ UNCHANGED cookie

\* Following a link from one page to another, or opening one from the login page.
Visit(t) ==
    /\ step[t] = "idle"
    /\ path[t] = "app" \/ user[t] # Loading
    /\ Navigate(t)
    /\ UNCHANGED <<account, calls, user, step, disturbed, acts>>

\* The page is loaded anew: the React state is lost, the calls in flight are not.
Load(t) ==
    /\ Act
    /\ IF path[t] = "app" THEN Navigate(t) ELSE UNCHANGED <<path, cookie>>
    /\ user' = [user EXCEPT ![t] = Loading]
    /\ Goto(t, "idle")
    /\ UNCHANGED <<account, calls, disturbed>>

\* AppAuthGate's effect, for a tab that knows nobody is signed in.
Gate(t) ==
    /\ path[t] = "app" /\ user[t] = Nobody
    /\ path' = [path EXCEPT ![t] = "login"]
    /\ UNCHANGED <<browser, calls, user, step, disturbed, acts>>

\* The token is valid, and the cookie lives, for an hour; nothing renews them.
Expire ==
    /\ cookie # Nobody /\ Act
    /\ cookie' = Nobody
    /\ UNCHANGED <<account, calls, tabState, disturbed>>

-----------------------------------------------------------------------------
(* AuthProvider.                                                           *)

\* The listener of onAuthStateChanged: state, then the cookie, not awaited.  It is told of
\* every change made in its own tab, and sooner or later of those made in others.
Told(t, u) == IF user[t] = u THEN {} ELSE {Made(t, "listener", u)}

Observe(t) ==
    /\ user[t] # account
    /\ user' = [user EXCEPT ![t] = account]
    /\ Send(Told(t, account))
    /\ UNCHANGED <<browser, path, step, acts>>

\* handleSubmit and signIn (or signInWithSsoToken), up to the call of Firebase.
SignIn(t) ==
    /\ path[t] = "login" /\ step[t] = "idle" /\ user[t] # Loading
    /\ Act
    /\ Goto(t, "firebase")
    /\ UNCHANGED <<browser, calls, user, path, disturbed>>

\* Firebase accepts the credentials and signIn goes on to the cookie ...
Accepted(t, u) ==
    /\ step[t] = "firebase"
    /\ account' = u
    /\ user' = [user EXCEPT ![t] = u]
    /\ Send(Told(t, u) \cup {Made(t, "signIn", u)})
    /\ Goto(t, "establish")
    /\ UNCHANGED <<cookie, path, acts>>

\* ... or refuses them: the form shows the error.
Refused(t) ==
    /\ step[t] = "firebase"
    /\ Goto(t, "idle")
    /\ UNCHANGED <<browser, calls, user, path, disturbed, acts>>

\* router.push(returnTo), after the awaits.
Push(t) ==
    /\ step[t] = "push"
    /\ Navigate(t)
    /\ Goto(t, "idle")
    /\ UNCHANGED <<account, calls, user, disturbed, acts>>

\* handleSignOut of the sidebar and logOut: the organization is forgotten (Workspace), then the
\* cookie, then the account.
LogOut(t) ==
    /\ path[t] = "app" /\ step[t] = "idle" /\ user[t] \in Users
    /\ Act
    /\ Send({Made(t, "logOut", Nobody)})
    /\ Goto(t, "clear")
    /\ UNCHANGED <<account, cookie, user, path>>

SignOut(t) ==
    /\ step[t] = "signOut"
    /\ account' = Nobody
    /\ user' = [user EXCEPT ![t] = Nobody]
    /\ Send(Told(t, Nobody))
    /\ Goto(t, "leave")
    /\ UNCHANGED <<cookie, path, acts>>

\* router.replace("/login"), after logOut.
Leave(t) ==
    /\ step[t] = "leave"
    /\ path' = [path EXCEPT ![t] = "login"]
    /\ Goto(t, "idle")
    /\ UNCHANGED <<browser, calls, user, disturbed, acts>>

-----------------------------------------------------------------------------
(* Replies of the session route.                                           *)

\* Who awaits the call goes on: signIn to the page it wanted, logOut to the account.
\* A tab that was loaded anew in between awaits nothing.
Resume(c, s) ==
    LET waits == \/ c.by = "signIn" /\ step[c.tab] = "establish"
                 \/ c.by = "logOut" /\ step[c.tab] = "clear"
    IN  IF waits THEN Goto(c.tab, s) ELSE UNCHANGED step

\* Mutant: DELETE does not reach the cookie, as when its path is another one.
ReplyKeepsCookie(c) ==
    /\ calls[c] > 0
    /\ calls' = [calls EXCEPT ![c] = @ - 1]
    /\ cookie' = IF c.user = Nobody THEN cookie ELSE c.user
    /\ Resume(c, IF c.by = "signIn" THEN "push" ELSE "signOut")
    /\ UNCHANGED <<account, user, path, disturbed, acts>>

\* POST verifies the token and sets the cookie, DELETE removes it.
Reply(c) ==
    /\ calls[c] > 0
    /\ calls' = [calls EXCEPT ![c] = @ - 1]
    /\ cookie' = c.user
    /\ Resume(c, IF c.by = "signIn" THEN "push" ELSE "signOut")
    /\ UNCHANGED <<account, user, path, disturbed, acts>>

\* The token is not verified or the network fails.  signIn and logOut throw where they
\* are; the listener swallows it.
Fail(c) ==
    /\ calls[c] > 0 /\ Act
    /\ calls' = [calls EXCEPT ![c] = @ - 1]
    /\ Resume(c, "idle")
    /\ disturbed' = (disturbed \/ cookie \notin {c.user, Nobody})
    /\ UNCHANGED <<browser, user, path>>

Next ==
    \/ \E t \in Tabs : \/ Visit(t) \/ Load(t) \/ Gate(t) \/ Observe(t)
                       \/ SignIn(t) \/ Refused(t) \/ Push(t)
                       \/ LogOut(t) \/ SignOut(t) \/ Leave(t)
                       \/ \E u \in Users : Accepted(t, u)
    \/ Expire
    \/ \E c \in Call : Reply(c) \/ Fail(c)

Spec == Init /\ [][Next]_vars

-----------------------------------------------------------------------------
(* Properties                                                              *)

Quiet == InFlight = {} /\ \A t \in Tabs : user[t] = account /\ step[t] = "idle"

\* When nothing is under way, the cookie that the middleware admits pages by is that of the
\* account the pages act for, or none: provided no two calls for different users were in
\* flight together and no reply that mattered was lost.  AuthProvider sends a call
\* from three places in every tab and orders none of them.
CookieFollowsAccount == Quiet /\ ~disturbed => cookie \in {account, Nobody}

-----------------------------------------------------------------------------
(* The inductive invariant.                                                *)

\* Some tab has still to learn who is signed in, and will then send a call.
Behind == \E t \in Tabs : user[t] # account

\* Unless calls for different users crossed: those in flight are for one user; what they set
\* is the account's cookie or none, or some tab will correct it; and a cookie of somebody else
\* will be replaced.
CallsInv ==
    ~disturbed =>
        /\ \A c, d \in InFlight : c.user = d.user
        /\ \A c \in InFlight : c.user \in {account, Nobody} \/ Behind
        /\ \/ cookie \in {account, Nobody} \/ Behind
           \/ \E c \in InFlight : c.user \in {account, Nobody}

\* A sign-out reaches the tab that signed in: it does not know yet, or knows somebody.
KnownInv == account # Nobody /\ Tabs # {} => \E t \in Tabs : user[t] # Nobody

IInv == TypeOK /\ CallsInv /\ KnownInv
=============================================================================
