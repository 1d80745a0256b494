------------------------------- MODULE Scans -------------------------------
(***************************************************************************)
(* The GitHub part of the scans page (app/(app)/scans/page.tsx): its five  *)
(* views, the scans it starts and polls for (scansApi.trigger, pollScan),  *)
(* and the links that open it, of which ?start=run starts a scan by itself *)
(* by way of sessionStorage.                                               *)
(*                                                                         *)
(* The effect of the page runs after every render that changed what it     *)
(* reads, so that no click comes before an effect that is due.             *)
(***************************************************************************)
EXTENDS Integers

CONSTANTS
    Recent,       \* scans of the past that the list returns
    Older,        \* scans of the past beyond its limit of 50
    NoScan,
    DefaultOrg,   \* localStorage has a default organization
    MaxStarts,    \* bound: scans started
    MaxVisits     \* bound: openings of the page

Starts == 1..MaxStarts
ScanIds == Recent \cup Older \cup Starts

ScanIdsAssumption ==
    /\ MaxStarts \in Nat /\ MaxVisits \in Nat /\ DefaultOrg \in BOOLEAN
    /\ Recent \cap Older = {}
    /\ (Recent \cup Older) \cap (Starts \cup {NoScan}) = {} /\ NoScan \notin Starts
    /\ (Recent \cup Older) \cap {"none", "run", "config"} = {}

VARIABLES
    at,         \* away (at another page), hub (/scans), github (/scans?app=github)
    link,       \* what the URL asks for: none, run, config, or a scan
    handled,    \* handledDeepLink is the key of the link as it is now
    replacing,  \* the router was told to drop the link from the URL
    pending,    \* sessionStorage tf_pending_system_scan
    autoStart,  \* the start that holds autoStartInFlight, 0 for none
    status,     \* of the GitHub connection: asking, connected, absent, unknown
    policies,   \* the active ones: asking, listed, none
    history,    \* the list of scans; NoScan is in it until it has been fetched
    view,
    configOrg,  \* an organization is filled in
    chosen,     \* configPolicies: default (null), some, nothing
    current,    \* currentScan
    timer,      \* the start whose interval animates the progress, 0 for none
    starts,     \* where every start is
    gets,       \* scans a link asked for by id, in flight
    visits,
    owed,       \* history: links ?start=run that were opened, less the scans an intent started
    overlapped  \* history: a scan was started while a link, an intent or a request was under way

linkVars == <<link, handled, replacing>>
cacheVars == <<status, policies, history>>
viewVars == <<view, configOrg, chosen, current, timer>>
requestVars == <<autoStart, starts, gets>>
marks == <<visits, owed, overlapped>>
vars == <<at, linkVars, pending, cacheVars, viewVars, requestVars, marks>>

Links == {"none", "run", "config"} \cup Recent \cup Older
Views == {"main", "config", "scanning", "results", "trends"}
Stages == {"none", "flying", "orphan", "done", "failed"}

TypeOK ==
    /\ at \in {"away", "hub", "github"}
    /\ link \in Links /\ handled \in BOOLEAN /\ replacing \in BOOLEAN
    /\ pending \in BOOLEAN /\ autoStart \in Starts \cup {0}
    /\ status \in {"asking", "connected", "absent", "unknown"}
    /\ policies \in {"asking", "listed", "none"}
    /\ history \in SUBSET (ScanIds \cup {NoScan})
    /\ view \in Views /\ configOrg \in BOOLEAN /\ chosen \in {"default", "some", "nothing"}
    /\ current \in ScanIds \cup {NoScan}
    /\ timer \in Starts \cup {0}
    /\ starts \in [Starts -> Stages]
    /\ gets \in SUBSET (Recent \cup Older)
    /\ visits \in 0..MaxVisits /\ owed \in -MaxStarts..MaxVisits /\ overlapped \in BOOLEAN

\* The state of a page that has just been mounted, and of an empty query cache.
Fresh(v, o, c, s, i) == v = "main" /\ o = FALSE /\ c = "default" /\ s = NoScan /\ i = 0
Unfetched(s, p, h) == s = "asking" /\ p = "asking" /\ h = {NoScan}

Init ==
    /\ at = "away"
    /\ link = "none" /\ handled = FALSE /\ replacing = FALSE
    /\ pending = FALSE /\ autoStart = 0
    /\ Unfetched(status, policies, history)
    /\ Fresh(view, configOrg, chosen, current, timer)
    /\ starts = [s \in Starts |-> "none"]
    /\ gets = {} /\ visits = 0 /\ owed = 0 /\ overlapped = FALSE

Flying == {s \in Starts : starts[s] = "flying"}
HistoryFetched == NoScan \notin history
Listed == Recent \cup {s \in Starts : starts[s] = "done"}
ResolvesOrg == DefaultOrg \/ status = "connected"

\* selectedPolicyIds: the explicit choice, else the policies that are there to choose from.
Selected == IF chosen # "default" THEN chosen
            ELSE IF policies = "listed" THEN "all" ELSE "nothing"

\* The effect has something to do.
LinkDue ==
    /\ at = "github" /\ link # "none" /\ ~handled
    /\ link = "run" => status # "asking"
    /\ link \in Recent \cup Older => HistoryFetched
PendingDue == at = "github" /\ link = "none" /\ pending /\ autoStart = 0 /\ status # "asking"
Idle == ~LinkDue /\ ~PendingDue
AtView(v) == at = "github" /\ view = v /\ Idle

-----------------------------------------------------------------------------
(* The page is opened and left.                                            *)

\* By a link of the app, which keeps the query cache, or in a new page load, which does not.
Open(l) ==
    /\ at = "away" /\ visits < MaxVisits
    /\ at' = IF l = "none" THEN "hub" ELSE "github"
    /\ link' = l
    /\ \/ UNCHANGED cacheVars
       \/ Unfetched(status', policies', history')
    /\ visits' = visits + 1
    /\ owed' = owed + (IF l = "run" THEN 1 ELSE 0)
    /\ UNCHANGED <<handled, replacing, pending, autoStart, viewVars, starts, gets, overlapped>>

\* The page is unmounted; what it asked for goes on without it.
Leave ==
    /\ at # "away" /\ Idle
    /\ at' = "away"
    /\ link' = "none" /\ handled' = FALSE /\ replacing' = FALSE /\ autoStart' = 0
    /\ Fresh(view', configOrg', chosen', current', timer')
    /\ gets' = {}
    /\ starts' = [s \in Starts |-> IF s \in Flying THEN "orphan" ELSE starts[s]]
    /\ UNCHANGED <<pending, cacheVars, marks>>

\* goToHub, and a card of the hub: search parameters change, the page stays mounted.
GoToHub == at = "github" /\ link = "none" /\ Idle /\ at' = "hub"
OpenApp == at = "hub" /\ at' = "github"
Switch ==
    /\ GoToHub \/ OpenApp
    /\ UNCHANGED <<linkVars, pending, cacheVars, viewVars, requestVars, marks>>

-----------------------------------------------------------------------------
(* The queries: retry is off, a failure counts as fetched.                 *)

FetchStatus ==
    /\ at # "away" /\ status = "asking"
    /\ status' \in {"connected", "absent", "unknown"}
    /\ handled' = FALSE
    /\ UNCHANGED <<at, link, replacing, pending, policies, history, viewVars, requestVars, marks>>

FetchPolicies ==
    /\ at # "away" /\ policies = "asking"
    /\ policies' \in {"listed", "none"}
    /\ UNCHANGED <<at, linkVars, pending, status, history, viewVars, requestVars, marks>>

\* The first fetch, or one after invalidation.  linkKey holds the length of the list.
FetchHistory ==
    /\ at # "away" /\ history # Listed
    /\ history' \in {Listed, history \ {NoScan}} \ {history}
    /\ handled' = FALSE
    /\ UNCHANGED <<at, link, replacing, pending, status, policies, viewVars, requestVars, marks>>

-----------------------------------------------------------------------------
(* Scans.                                                                  *)

\* handleStartScan from setView("scanning") to the request.
Begin(by) ==
    \E s \in Starts :
        /\ \A t \in Starts : t < s <=> starts[t] # "none"
        /\ starts' = [starts EXCEPT ![s] = "flying"]
        /\ autoStart' = IF by = "link" THEN s ELSE autoStart
        /\ owed' = owed - (IF by = "link" THEN 1 ELSE 0)
        /\ view' = "scanning"
        /\ configOrg' = TRUE
        /\ timer' = s
        /\ overlapped' = (overlapped \/ Flying # {} \/ gets # {} \/ link # "none" \/ (by = "hand" /\ pending))
        /\ UNCHANGED <<chosen, current>>

Refuse ==
    /\ view' = "config"
    /\ UNCHANGED <<configOrg, chosen, current, timer, starts, autoStart, owed, overlapped>>

CanStart == policies # "asking" /\ Selected # "nothing"

\* An empty field is no reason to fall back on resolveGithubOrg: it is not null.
StartByHand ==
    /\ AtView("config") /\ CanStart
    /\ IF ~configOrg \/ status = "absent" THEN Refuse ELSE Begin("hand")
    /\ UNCHANGED <<at, linkVars, pending, cacheVars, gets, visits>>

\* Mutant: the interval is not cleared.
AnsweredTicking(s) ==
    /\ s \in Flying
    /\ starts' = [starts EXCEPT ![s] = "done"]
    /\ current' = s
    /\ view' = "results"
    /\ autoStart' = IF autoStart = s THEN 0 ELSE autoStart
    /\ UNCHANGED <<at, linkVars, pending, cacheVars, configOrg, chosen, timer, gets, marks>>

\* pollScan returned the completed scan.  The interval cleared is the latest, whosever.
Answered(s) ==
    /\ s \in Flying
    /\ starts' = [starts EXCEPT ![s] = "done"]
    /\ timer' = 0
    /\ current' = s
    /\ view' = "results"
    /\ autoStart' = IF autoStart = s THEN 0 ELSE autoStart
    /\ UNCHANGED <<at, linkVars, pending, cacheVars, configOrg, chosen, gets, marks>>

\* The request or a poll failed, the scan failed, or 120 polls did not see it end.
NotAnswered(s) ==
    /\ s \in Flying
    /\ starts' = [starts EXCEPT ![s] = "failed"]
    /\ timer' = 0
    /\ view' = "config"
    /\ autoStart' = IF autoStart = s THEN 0 ELSE autoStart
    /\ UNCHANGED <<at, linkVars, pending, cacheVars, configOrg, chosen, current, gets, marks>>

\* A scan whose page is gone ends on the server all the same.
OrphanEnds(s) ==
    /\ starts[s] = "orphan"
    /\ \E w \in {"done", "failed"} : starts' = [starts EXCEPT ![s] = w]
    /\ UNCHANGED <<at, linkVars, pending, autoStart, cacheVars, viewVars, gets, marks>>

-----------------------------------------------------------------------------
(* The effect.                                                             *)

\* A link with a request, once per key.
HandleLink ==
    /\ LinkDue
    /\ handled' = TRUE /\ replacing' = TRUE
    /\ CASE link = "run" ->
              /\ pending' = TRUE
              /\ UNCHANGED <<view, configOrg, current, gets>>
         [] link = "config" ->
              /\ view' = "config"
              /\ configOrg' = (configOrg \/ ResolvesOrg)
              /\ UNCHANGED <<pending, current, gets>>
         [] OTHER ->
              /\ IF link \in history
                 THEN view' = "results" /\ current' = link /\ UNCHANGED gets
                 ELSE gets' = gets \cup {link} /\ UNCHANGED <<view, current>>
              /\ UNCHANGED <<pending, configOrg>>
    /\ UNCHANGED <<at, link, autoStart, cacheVars, chosen, timer, starts, marks>>

Replaced ==
    /\ replacing
    /\ replacing' = FALSE /\ link' = "none"
    /\ UNCHANGED <<at, handled, pending, cacheVars, viewVars, requestVars, marks>>

\* Mutant: the intent stays in sessionStorage.
RecoverAgain ==
    /\ PendingDue
    /\ IF status = "connected" THEN Begin("link") ELSE Refuse
    /\ UNCHANGED <<at, linkVars, pending, cacheVars, gets, visits>>

\* The recovery branch: the intent is taken out of sessionStorage and acted on, whether
\* the policies have been fetched or not.
Recover ==
    /\ PendingDue
    /\ pending' = FALSE
    /\ IF status = "connected" THEN Begin("link") ELSE Refuse
    /\ UNCHANGED <<at, linkVars, cacheVars, gets, visits>>

\* The answer to scansApi.get.
Got(s) ==
    /\ s \in gets
    /\ gets' = gets \ {s}
    /\ \/ current' = s /\ view' = "results"
       \/ view' = "main" /\ UNCHANGED current
    /\ UNCHANGED <<at, linkVars, pending, autoStart, cacheVars, configOrg, chosen, timer, starts, marks>>

-----------------------------------------------------------------------------
(* The views and what each offers.                                         *)

Shown(v, c) == view' = v /\ current' = c /\ UNCHANGED configOrg

StartConfig ==
    /\ AtView("main") \/ (AtView("results") /\ current # NoScan)
    /\ view' = "config"
    /\ configOrg' = (configOrg \/ ResolvesOrg)
    /\ UNCHANGED current
CancelConfig == AtView("config") /\ Shown("main", current)
ViewResults(s) == AtView("main") /\ s \in history \ {NoScan} /\ Shown("results", s)
ViewTrends ==
    /\ (AtView("main") /\ history \ {NoScan} # {}) \/ (AtView("results") /\ current # NoScan)
    /\ Shown("trends", current)
BackToMain == AtView("results") /\ current # NoScan /\ Shown("main", NoScan)
\* trendSourceScanId is the current scan: nothing replaces that without leaving the trends.
BackFromTrends ==
    AtView("trends") /\ Shown(IF current \in history \ {NoScan} THEN "results" ELSE "main", current)

Navigate ==
    /\ \/ StartConfig \/ CancelConfig \/ ViewTrends \/ BackToMain \/ BackFromTrends
       \/ \E s \in ScanIds : ViewResults(s)
    /\ UNCHANGED <<at, linkVars, pending, autoStart, cacheVars, chosen, timer, starts, gets, marks>>

Configure ==
    /\ AtView("config")
    /\ \/ configOrg' \in BOOLEAN /\ UNCHANGED chosen
       \/ policies = "listed" /\ chosen' \in {"some", "nothing"} /\ UNCHANGED configOrg
    /\ UNCHANGED <<at, linkVars, pending, autoStart, cacheVars, view, current, timer, starts, gets, marks>>

Next ==
    \/ \E l \in Links : Open(l)
    \/ Leave \/ Switch
    \/ FetchStatus \/ FetchPolicies \/ FetchHistory
    \/ StartByHand \/ HandleLink \/ Replaced \/ Recover
    \/ \E s \in Starts : Answered(s) \/ NotAnswered(s) \/ OrphanEnds(s)
    \/ \E s \in Recent \cup Older : Got(s)
    \/ Navigate \/ Configure

Spec == Init /\ [][Next]_vars

-----------------------------------------------------------------------------
(* Properties.                                                             *)

\* Progress is shown only for a scan that is being made, by an interval that some scan will
\* clear; and while one is being made the page shows nothing else, unless requests overlapped.
ProgressFollowsScan ==
    /\ view = "scanning" => Flying # {}
    /\ timer # 0 => timer \in Flying
    /\ ~overlapped => (Flying # {} => view = "scanning" /\ timer \in Flying /\ gets = {})

\* A link that starts a scan starts one, however often the page is loaded, left and opened
\* between the writing of the intent to sessionStorage and its recovery.
IntentRunsOnce == owed >= (IF pending THEN 1 ELSE 0)

\* As page.tsx:127 has it, a scan without an explicit selection uses every active policy.
\* A scan that an intent starts before the policies are fetched asks for none, and the
\* engine rates a scan of no policy 100.
UnnarrowedScanCoversAll ==
    [][\A s \in Starts : starts[s] = "none" /\ starts'[s] = "flying" /\ chosen = "default"
                            => Selected = "all"]_vars

-----------------------------------------------------------------------------
(* The inductive invariant.                                                *)

\* A link that asks for a scan, or the intent it left, still has its scan to come.
OwedInv == owed \in 0..visits /\ (pending \/ link = "run" => owed > 0)

\* Unless requests overlapped, one scan is made at a time, its interval is the one that ticks,
\* and nothing that could take its place on the page is under way.
FlightInv ==
    /\ view = "scanning" => Flying # {}
    /\ timer # 0 => timer \in Flying
    /\ at = "away" => Flying = {}
    /\ ~overlapped /\ Flying # {} =>
          view = "scanning" /\ Flying = {timer} /\ gets = {} /\ link = "none" /\ ~pending

IInv == TypeOK /\ OwedInv /\ FlightInv
=============================================================================
