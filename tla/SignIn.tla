------------------------------ MODULE SignIn ------------------------------
(***************************************************************************)
(* The two pages that sign a user in: app/(auth)/login/page.tsx, with its  *)
(* lookup of single sign-on for the address that is being typed, and       *)
(* app/(auth)/sso/callback/page.tsx, where the identity provider's visit   *)
(* ends with a one-time code.                                              *)
(*                                                                         *)
(* Both call the API through lib/api.ts, which makes no request without a  *)
(* token: Firebase's when a user is signed in, else a development token    *)
(* that production builds do not have.                                     *)
(***************************************************************************)
EXTENDS Naturals

CONSTANTS
    Addresses,     \* what the user may type, besides what is no address yet
    SsoAddresses,  \* those whose domain has single sign-on
    Enforcing,     \* those whose domain allows nothing else
    NoAddress,
    MaxTyped       \* bound: changes of the address

AddressesAssumption ==
    /\ Enforcing \subseteq SsoAddresses /\ SsoAddresses \subseteq Addresses
    /\ NoAddress \notin Addresses
    /\ MaxTyped \in Nat

\* The effect of the callback page runs when the page is mounted, when AuthProvider has
\* loaded, and when it has a new user: signInWithSsoToken is a new function each time.
Runs == 1..3

VARIABLES
    devToken,    \* the build has a development token
    page,        \* login, idp (at the identity provider), callback, app
    signedIn,    \* Firebase has a user, in this browser
    loaded,      \* AuthProvider of this page load knows whether it has
    email,
    timer,       \* the address whose lookup waits for the user to stop typing
    inquiries,   \* lookups in flight
    discovery,   \* ssoDiscovery: what the form goes by, and the address it was found for
    discovering,
    submitting,  \* loading: signIn is under way
    failed,      \* the page shows an error
    code,        \* the one-time code: none, fresh, or used
    run,         \* the runs of the callback's effect: where each is
    latest,      \* the run that has not been cancelled
    mistyped,    \* history: the address was changed while a lookup was in flight
    upset,       \* history: the effect ran anew during an exchange, or the exchange, Firebase
                 \* or the session route failed once the code was used
    typed

loginVars == <<email, timer, inquiries, discovery, discovering, submitting, mistyped, typed>>
callbackVars == <<code, run, latest, upset>>
vars == <<devToken, page, signedIn, loaded, email, timer, inquiries, discovery, discovering, submitting,
          failed, code, run, latest, mistyped, upset, typed>>

Verdicts == {"none", "optional", "enforced"}
Discovery == [address : Addresses, sso : Verdicts]
Undiscovered == [address |-> NoAddress, sso |-> "none"]

\* Where a run is: its request is on the way to the server, which has found the code to be
\* fresh, then marked it as used (granted), or the request has failed (refused); then Firebase
\* signs in and the session route is asked.
Stages == {"none", "asking", "found", "granted", "refused", "signing", "session", "over"}

TypeOK ==
    /\ devToken \in BOOLEAN
    /\ page \in {"login", "idp", "callback", "app"}
    /\ signedIn \in BOOLEAN /\ loaded \in BOOLEAN
    /\ email \in Addresses \cup {NoAddress}
    /\ timer \in Addresses \cup {NoAddress}
    /\ inquiries \in SUBSET Addresses
    /\ discovery \in Discovery \cup {Undiscovered}
    /\ discovering \in BOOLEAN /\ submitting \in BOOLEAN /\ failed \in BOOLEAN
    /\ code \in {"none", "fresh", "used"}
    /\ run \in [Runs -> Stages]
    /\ latest \in Runs \cup {0}
    /\ mistyped \in BOOLEAN /\ upset \in BOOLEAN
    /\ typed \in 0..MaxTyped

\* The login page has been opened; somebody may be signed in all the same.
Init ==
    /\ devToken \in BOOLEAN
    /\ page = "login"
    /\ signedIn \in BOOLEAN
    /\ loaded = FALSE
    /\ email = NoAddress
    /\ timer = NoAddress
    /\ inquiries = {}
    /\ discovery = Undiscovered
    /\ discovering = FALSE
    /\ submitting = FALSE
    /\ failed = FALSE
    /\ code = "none"
    /\ run = [r \in Runs |-> "none"]
    /\ latest = 0
    /\ mistyped = FALSE
    /\ upset = FALSE
    /\ typed = 0

\* getAuthHeaders finds a token.
CanAsk == (signedIn /\ loaded) \/ devToken

Verdict(a) == [address |-> a,
               sso |-> IF a \in Enforcing THEN "enforced"
                       ELSE IF a \in SsoAddresses THEN "optional" ELSE "none"]
NoSso(a) == [address |-> a, sso |-> "none"]

-----------------------------------------------------------------------------
(* The login page.                                                         *)

\* Mutant: the effect does not depend on the address.
TypeKeepsTimer(a) ==
    /\ page = "login" /\ typed < MaxTyped /\ a # email
    /\ email' = a
    /\ timer' = IF timer = NoAddress THEN a ELSE timer
    /\ discovery' = IF a = NoAddress THEN Undiscovered ELSE discovery
    /\ mistyped' = (mistyped \/ inquiries # {})
    /\ typed' = typed + 1
    /\ UNCHANGED <<devToken, page, signedIn, loaded, inquiries, discovering, submitting, failed,
                   callbackVars>>

\* The effect on the address clears the timer of the one before and sets its own.
Type(a) ==
    /\ page = "login" /\ typed < MaxTyped /\ a # email
    /\ email' = a
    /\ timer' = a
    /\ discovery' = IF a = NoAddress THEN Undiscovered ELSE discovery
    /\ mistyped' = (mistyped \/ inquiries # {})
    /\ typed' = typed + 1
    /\ UNCHANGED <<devToken, page, signedIn, loaded, inquiries, discovering, submitting, failed,
                   callbackVars>>

\* 400 ms later the address is looked up; without a token the request throws at once, and
\* the catch takes that for a domain without single sign-on.
LookUp ==
    /\ page = "login" /\ timer # NoAddress
    /\ timer' = NoAddress
    /\ IF CanAsk
       THEN /\ discovering' = TRUE
            /\ inquiries' = inquiries \cup {timer}
            /\ UNCHANGED discovery
       ELSE /\ discovery' = NoSso(timer)
            /\ discovering' = FALSE
            /\ UNCHANGED inquiries
    /\ UNCHANGED <<devToken, page, signedIn, loaded, email, submitting, failed, mistyped, typed, callbackVars>>

\* An answer, or a failed request.  Nothing asks whether the address is still the one.
Found(a, verdict) ==
    /\ page = "login" /\ a \in inquiries
    /\ inquiries' = inquiries \ {a}
    /\ discovery' = verdict
    /\ discovering' = FALSE
    /\ UNCHANGED <<devToken, page, signedIn, loaded, email, timer, submitting, failed, mistyped, typed,
                   callbackVars>>

\* The form: a password field unless single sign-on is enforced, with a second button if it
\* is on offer; both SSO buttons wait for a lookup, the Enter key does not.
SsoOffered == discovery.sso # "none"
PasswordOffered == discovery.sso # "enforced"
SsoEnabled == SsoOffered /\ (~discovering \/ ~PasswordOffered)

\* startSso, or the organization's login URL opened by hand.
GoToProvider ==
    /\ page = "login" /\ ~submitting
    /\ SsoEnabled \/ typed = 0
    /\ page' = "idp"
    /\ UNCHANGED <<devToken, signedIn, loaded, failed, loginVars, callbackVars>>

\* handleSubmit and signIn.
Submit ==
    /\ page = "login" /\ email # NoAddress /\ PasswordOffered /\ ~submitting
    /\ failed' = FALSE
    /\ submitting' = TRUE
    /\ UNCHANGED <<devToken, page, signedIn, loaded, email, timer, inquiries, discovery, discovering,
                   mistyped, typed, callbackVars>>

Submitted(accepted) ==
    /\ page = "login" /\ submitting
    /\ submitting' = FALSE
    /\ signedIn' = (signedIn \/ accepted)
    /\ page' = IF accepted THEN "app" ELSE page
    /\ failed' = ~accepted
    /\ UNCHANGED <<devToken, loaded, email, timer, inquiries, discovery, discovering, mistyped, typed,
                   callbackVars>>

-----------------------------------------------------------------------------
(* The SSO callback.                                                       *)

Live(r) == r = latest
Asking == \E r \in Runs : run[r] = "asking"

\* A run of the effect up to its first await; the one before is cancelled.  Without a token
\* it ends in the catch at once.
RunAnew(r, mayAsk) ==
    /\ latest' = r
    /\ run' = [run EXCEPT ![r] = IF mayAsk THEN "asking" ELSE "over"]
    /\ failed' = (failed \/ ~mayAsk)
    /\ upset' = (upset \/ \E q \in Runs : run[q] \in {"asking", "found", "granted"})

\* The server has verified the assertion, made a code and redirected to the callback.
Return ==
    /\ page = "idp"
    /\ page' = "callback"
    /\ code' = "fresh"
    /\ latest' = 1
    /\ run' = [run EXCEPT ![1] = IF devToken THEN "asking" ELSE "over"]
    /\ failed' = ~devToken
    /\ loaded' = FALSE
    /\ UNCHANGED <<devToken, signedIn, upset, loginVars>>

\* onAuthStateChanged: loading becomes false, every page is rendered anew, and the effect
\* of the callback with it.
Loaded ==
    /\ ~loaded
    /\ loaded' = TRUE
    /\ IF page = "callback"
       THEN RunAnew(latest + 1, signedIn \/ devToken)
       ELSE UNCHANGED <<latest, run, failed, upset>>
    /\ UNCHANGED <<devToken, page, signedIn, code, loginVars>>

\* The server looks the code up, and then marks it as used, in two calls of the store. Only
\* after that it mints the token it answers with.
Exchange(r) ==
    /\ page = "callback" /\ run[r] = "asking"
    /\ run' = [run EXCEPT ![r] = IF code = "fresh" THEN "found" ELSE "refused"]
    /\ UNCHANGED <<devToken, page, signedIn, loaded, failed, code, latest, upset, loginVars>>

Consume(r) ==
    /\ page = "callback" /\ run[r] = "found"
    /\ run' = [run EXCEPT ![r] = "granted"]
    /\ code' = "used"
    /\ UNCHANGED <<devToken, page, signedIn, loaded, failed, latest, upset, loginVars>>

\* The request is lost, the code has expired, the store or the minting raises, or the reply is
\* lost: to the page it is all one, whether the code is used by then or not.
ExchangeFails(r) ==
    /\ page = "callback" /\ run[r] \in {"asking", "found", "granted"}
    /\ run' = [run EXCEPT ![r] = "refused"]
    /\ upset' = (upset \/ run[r] = "granted")
    /\ UNCHANGED <<devToken, page, signedIn, loaded, failed, code, latest, loginVars>>

\* The reply: a run that was cancelled drops it; another one goes on to Firebase, or shows
\* the error.
Granted(r) ==
    /\ page = "callback" /\ run[r] = "granted"
    /\ run' = [run EXCEPT ![r] = IF Live(r) THEN "signing" ELSE "over"]
    /\ UNCHANGED <<devToken, page, signedIn, loaded, failed, code, latest, upset, loginVars>>

RefusedCode(r) ==
    /\ page = "callback" /\ run[r] = "refused"
    /\ run' = [run EXCEPT ![r] = "over"]
    /\ failed' = (failed \/ Live(r))
    /\ UNCHANGED <<devToken, page, signedIn, loaded, code, latest, upset, loginVars>>

\* signInWithCustomToken: when the user is a new one the provider renders, so the effect
\* runs once more, with a code that is used.
FirebaseSignsIn(r) ==
    /\ page = "callback" /\ run[r] = "signing" /\ loaded
    /\ signedIn' = TRUE
    /\ \/ /\ signedIn
          /\ run' = [run EXCEPT ![r] = "session"]
          /\ UNCHANGED latest
       \/ /\ latest + 1 \in Runs
          /\ run' = [run EXCEPT ![r] = "session", ![latest + 1] = "asking"]
          /\ latest' = latest + 1
    /\ UNCHANGED <<devToken, page, loaded, failed, code, upset, loginVars>>

\* Mutant: the sign-in is not awaited inside the try.
FirebaseRefusesUnseen(r) ==
    /\ page = "callback" /\ run[r] = "signing" /\ loaded
    /\ run' = [run EXCEPT ![r] = "over"]
    /\ upset' = TRUE
    /\ UNCHANGED <<devToken, page, signedIn, loaded, failed, code, latest, loginVars>>

\* It rejects, with the code used: the catch shows that, unless the run was cancelled.
FirebaseRefuses(r) ==
    /\ page = "callback" /\ run[r] = "signing" /\ loaded
    /\ run' = [run EXCEPT ![r] = "over"]
    /\ failed' = (failed \/ Live(r))
    /\ upset' = TRUE
    /\ UNCHANGED <<devToken, page, signedIn, loaded, code, latest, loginVars>>

\* Mutant: a run that was cancelled does not redirect.
RedirectIfLive(r) ==
    /\ page = "callback" /\ run[r] = "session"
    /\ run' = [run EXCEPT ![r] = "over"]
    /\ page' = IF Live(r) THEN "app" ELSE page
    /\ UNCHANGED <<devToken, signedIn, loaded, failed, code, latest, upset, loginVars>>

\* The session cookie is set.  What follows does not look whether the run was cancelled.
Redirect(r) ==
    /\ page = "callback" /\ run[r] = "session"
    /\ run' = [run EXCEPT ![r] = "over"]
    /\ page' = "app"
    /\ UNCHANGED <<devToken, signedIn, loaded, failed, code, latest, upset, loginVars>>

\* The session route refuses: the catch shows it, unless the run was cancelled.
NoSession(r) ==
    /\ page = "callback" /\ run[r] = "session"
    /\ run' = [run EXCEPT ![r] = "over"]
    /\ failed' = (failed \/ Live(r))
    /\ upset' = TRUE
    /\ UNCHANGED <<devToken, page, signedIn, loaded, code, latest, loginVars>>

Next ==
    \/ \E a \in Addresses \cup {NoAddress} : Type(a)
    \/ LookUp
    \/ \E a \in Addresses : Found(a, Verdict(a)) \/ Found(a, NoSso(a))
    \/ GoToProvider \/ Submit \/ \E b \in BOOLEAN : Submitted(b)
    \/ Return \/ Loaded
    \/ \E r \in Runs : \/ Exchange(r) \/ Consume(r) \/ ExchangeFails(r)
                       \/ Granted(r) \/ RefusedCode(r)
                       \/ FirebaseSignsIn(r) \/ FirebaseRefuses(r) \/ Redirect(r) \/ NoSession(r)

Spec == Init /\ [][Next]_vars

-----------------------------------------------------------------------------
(* Properties                                                              *)

\* When the user has stopped typing and no lookup is out, the form goes by a lookup of the
\* address it shows, unless that was changed while a lookup was in flight.  Only the timer
\* is cancelled by a change, so two lookups may answer in either order.
VerdictFitsAddress ==
    page = "login" /\ timer = NoAddress /\ inquiries = {} /\ ~mistyped
        => discovery.address = email

Ended == \A r \in Runs : run[r] \in {"none", "over"}

\* A code is used up and its bearer still at the page only if the effect ran anew while its
\* exchange was under way, or a step after the code was marked failed (the minting, the reply,
\* Firebase, the session): a run that is granted the code and not cancelled signs in and leaves
\* the page, even though signing in cancels it.
CodeNotWasted == page = "callback" /\ loaded /\ Ended /\ code = "used" => upset

\* Nobody is left at "Completing SSO sign-in": only cancelled runs end silently, and the run
\* that cancelled them tells how it ended, whichever of them had the code.
EndIsShown == page = "callback" /\ Ended => failed

-----------------------------------------------------------------------------
(* The inductive invariant.                                                *)

\* Unless the address was changed while a lookup was in flight, what waits for the timer, and
\* what is looked up, is the address on show; and if there is neither, the form knows it.
LookupInv ==
    page = "login" /\ ~mistyped =>
        /\ timer \in {NoAddress, email} /\ inquiries \subseteq {email}
        /\ timer = NoAddress /\ inquiries = {} => discovery.address = email

\* A run the code was granted to, which has not ended.
Holds(r) == run[r] \in {"granted", "signing", "session"}

\* Runs begin one after the other; the one that was not cancelled has not ended, or has said so.
RunsInv ==
    /\ page \in {"login", "idp"} => \A r \in Runs : run[r] = "none"
    /\ page = "callback" =>
          /\ latest \in Runs /\ (~loaded => latest = 1)
          /\ \A r \in Runs : r > latest => run[r] = "none"
          /\ ~failed => run[latest] \notin {"none", "over"}

\* The code is granted to one run. Unless something went wrong as upset says, that run was not
\* cancelled when it asked, nor before its reply, and has not ended.
CodeInv ==
    page = "callback" =>
        /\ code \in {"fresh", "used"}
        /\ code = "fresh" => \A r \in Runs : ~Holds(r)
        /\ ~upset =>
              /\ \A q, r \in Runs : Holds(q) /\ Holds(r) => q = r
              /\ code = "used" => \E r \in Runs : Holds(r)
              /\ \A r \in Runs :
                    /\ run[r] = "found" => code = "fresh"
                    /\ run[r] \in {"found", "granted"} \/ (code = "fresh" /\ run[r] = "asking")
                          => Live(r)

IInv == TypeOK /\ LookupInv /\ RunsInv /\ CodeInv
=============================================================================
