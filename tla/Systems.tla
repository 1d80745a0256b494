------------------------------ MODULE Systems ------------------------------
(***************************************************************************)
(* The page of AI systems (app/(app)/systems/page.tsx): the list and the   *)
(* query behind it, registration, preset packs and CSV import, a system's  *)
(* details and its compliance scan, which is computed in the page and      *)
(* stored afterwards, and recommendations of the copilot.                  *)
(*                                                                         *)
(* The server's answers are modelled from lib/api.ts; that invalidating a  *)
(* query fetches it again, and that it does not while the first fetch is   *)
(* under way, is how @tanstack/react-query works.                          *)
(***************************************************************************)
EXTENDS Naturals, FiniteSets

CONSTANTS
    Systems,       \* the systems the organization may come to have
    Registered,    \* those it has when the page is opened
    Facts,         \* what the page knows of each, a record of booleans
    NoSystem,
    NoScan,
    MaxStarts      \* bound: requests sent by hand, all kinds together

SystemsAssumption ==
    /\ Registered \subseteq Systems /\ NoSystem \notin Systems
    /\ Facts \in [Systems -> [sensitive : BOOLEAN, covered : BOOLEAN, publishes : BOOLEAN, owned : BOOLEAN]]
    /\ MaxStarts \in Nat

VARIABLES
    stored,       \* the server: the last scan of every registered system
    listed,       \* the cached list, of the same form
    fetch,        \* the query of the list: idle, sent, read
    fetched,      \* what a fetch in flight has read
    loaded,       \* some fetch has succeeded
    linked,       \* connectedProviders: the integrations are known to be connected
    view,         \* list, register, details
    details,      \* selectedSystem: id, connected and scan as they were when it was opened
    modal,        \* none, scanning, scanned, recommendation, presets
    scanItem,     \* systemScanItem
    asked,        \* scanSystemName
    recommended,  \* the system of the recommendation in scanResult
    recommends,   \* recommendations in flight: the systems
    creates,      \* requests in flight that register systems, by kind
    patches,      \* updates in flight after compliance scans
    starts,       \* counts requests sent by hand
    stale,        \* history: the server has changed, or a fetch failed, and no fetch was asked for
    crossed       \* history: two recommendations were in flight together

server == <<stored, listed, fetch, fetched, loaded, stale>>
advice == <<asked, recommended, recommends, crossed>>
vars == <<server, advice, linked, view, details, modal, scanItem, creates, patches, starts>>

One(p) == IF p THEN 1 ELSE 0

\* generateSystemScanResult: two checks fail, two only warn.
ScanOf(item) ==
    LET f == Facts[item.id]
        fails == One(f.sensitive) + One(~f.owned)
        warns == One(~item.connected) + One(f.publishes)
        deduction == 30 * fails + 15 * warns
    IN  [violations |-> fails + warns,
         score |-> IF deduction > 90 THEN 10 ELSE 100 - deduction]

Scans == {NoScan} \cup {ScanOf([id |-> s, connected |-> c]) : s \in Systems, c \in BOOLEAN}
Items == [id : Systems, connected : BOOLEAN, scan : Scans]

TypeOK ==
    /\ \A i \in {stored, listed, fetched} : DOMAIN i \subseteq Systems /\ i \in [DOMAIN i -> Scans]
    /\ fetch \in {"idle", "sent", "read"} /\ loaded \in BOOLEAN /\ linked \in BOOLEAN
    /\ view \in {"list", "register", "details"}
    /\ details \in Items \cup {NoSystem} /\ scanItem \in Items \cup {NoSystem}
    /\ view = "details" => details \in Items
    /\ modal \in {"none", "scanning", "scanned", "recommendation", "presets"}
    /\ {asked, recommended} \subseteq Systems \cup {NoSystem}
    /\ recommends \subseteq Systems
    /\ creates \in [{"form", "presets", "csv"} -> 0..MaxStarts]
    /\ patches \subseteq [id : Systems, scan : Scans, applied : BOOLEAN]
    /\ starts \in 0..MaxStarts /\ stale \in BOOLEAN /\ crossed \in BOOLEAN

Nothing == [s \in {} |-> NoScan]

Init ==
    /\ stored = [s \in Registered |-> NoScan]
    /\ listed = Nothing /\ fetched = Nothing /\ fetch = "sent" /\ loaded = FALSE /\ linked = FALSE
    /\ view = "list" /\ details = NoSystem
    /\ modal = "none" /\ scanItem = NoSystem
    /\ asked = NoSystem /\ recommended = NoSystem /\ recommends = {}
    /\ creates = [k \in {"form", "presets", "csv"} |-> 0] /\ patches = {}
    /\ starts = 0 /\ stale = FALSE /\ crossed = FALSE

-----------------------------------------------------------------------------
(* The list.                                                               *)

\* Mutant: the list is not asked for.
InvalidatedNever == UNCHANGED <<fetch, stale>>

\* invalidateQueries(["systems"]): a fetch in flight is dropped for a new one, but the first.
Invalidated ==
    /\ fetch' = IF loaded \/ fetch = "idle" THEN "sent" ELSE fetch
    /\ stale' = (stale \/ (~loaded /\ fetch = "read"))

Read ==
    /\ fetch = "sent"
    /\ fetch' = "read" /\ fetched' = stored /\ stale' = FALSE
    /\ UNCHANGED <<stored, listed, loaded, linked, advice, view, details, modal, scanItem, creates, patches, starts>>

Fetched ==
    /\ fetch = "read"
    /\ fetch' = "idle" /\ fetched' = Nothing
    /\ \/ listed' = fetched /\ loaded' = TRUE /\ UNCHANGED stale
       \/ stale' = TRUE /\ UNCHANGED <<listed, loaded>>
    /\ UNCHANGED <<stored, linked, advice, view, details, modal, scanItem, creates, patches, starts>>

\* The integrations' status arrives, and every item of the list is mapped anew.
ProvidersKnown ==
    /\ ~linked /\ linked' = TRUE
    /\ UNCHANGED <<server, advice, view, details, modal, scanItem, creates, patches, starts>>

\* mapBackendSystemToInventory and deriveSystemConnected.
Item(s) == [id |-> s, connected |-> Facts[s].covered /\ linked, scan |-> listed[s]]

-----------------------------------------------------------------------------
(* Registration: nothing keeps the form from being sent twice.             *)

\* handleRegister, handleViewDetails, handleBack.
Register ==
    /\ view = "list" /\ modal = "none"
    /\ view' = "register"
    /\ UNCHANGED <<server, advice, linked, details, modal, scanItem, creates, patches, starts>>

ViewDetails(s) ==
    /\ view = "list" /\ modal = "none" /\ s \in DOMAIN listed
    /\ view' = "details" /\ details' = Item(s)
    /\ UNCHANGED <<server, advice, linked, modal, scanItem, creates, patches, starts>>

Back ==
    /\ view # "list" /\ modal = "none"
    /\ view' = "list" /\ details' = NoSystem
    /\ UNCHANGED <<server, advice, linked, modal, scanItem, creates, patches, starts>>

Presets(open) ==
    /\ view = "list" /\ modal = (IF open THEN "none" ELSE "presets")
    /\ modal' = IF open THEN "presets" ELSE "none"
    /\ UNCHANGED <<server, advice, linked, view, details, scanItem, creates, patches, starts>>

\* Save is offered always, a pack and a file when no other is under way; a file, when the
\* list is not empty.
CanCreate(k) ==
    \/ k = "form" /\ view = "register"
    \/ k = "presets" /\ modal = "presets" /\ creates[k] = 0
    \/ k = "csv" /\ view = "list" /\ modal = "none" /\ DOMAIN listed # {} /\ creates[k] = 0

Create(k) ==
    /\ CanCreate(k) /\ starts < MaxStarts
    /\ starts' = starts + 1
    /\ creates' = [creates EXCEPT ![k] = @ + 1]
    /\ UNCHANGED <<server, advice, linked, view, details, modal, scanItem, patches>>

\* The server registers one system for a form, any number for a pack or a file, and answers;
\* handleSaveSystem goes to the list wherever the user is by then. Or the answer is an error,
\* and what the server did is not known.
Created(k) ==
    /\ creates[k] > 0
    /\ creates' = [creates EXCEPT ![k] = @ - 1]
    /\ \E new \in SUBSET (Systems \ DOMAIN stored) :
          /\ k = "form" => Cardinality(new) <= 1
          /\ stored' = [s \in DOMAIN stored \cup new |-> IF s \in new THEN NoScan ELSE stored[s]]
          /\ \/ Invalidated /\ view' = (IF k = "form" THEN "list" ELSE view)
             \/ stale' = (stale \/ new # {}) /\ UNCHANGED <<fetch, view>>
    /\ UNCHANGED <<listed, fetched, loaded, advice, linked, details, modal, scanItem, patches, starts>>

-----------------------------------------------------------------------------
(* Compliance scans.                                                       *)

RunScan ==
    /\ view = "details" /\ modal = "none" /\ starts < MaxStarts
    /\ starts' = starts + 1
    /\ modal' = "scanning" /\ scanItem' = details
    /\ UNCHANGED <<server, advice, linked, view, details, creates, patches>>

\* The timer: the result is shown, and an update sent.
ScanDone ==
    /\ modal = "scanning"
    /\ modal' = "scanned"
    /\ patches' = patches \cup {[id |-> scanItem.id, scan |-> ScanOf(scanItem), applied |-> FALSE]}
    /\ UNCHANGED <<server, advice, linked, view, details, scanItem, creates, starts>>

PatchApplied(p) ==
    /\ p \in patches /\ ~p.applied
    /\ stored' = [stored EXCEPT ![p.id] = p.scan]
    /\ patches' = (patches \ {p}) \cup {[p EXCEPT !.applied = TRUE]}
    /\ UNCHANGED <<listed, fetch, fetched, loaded, stale, advice, linked, view, details, modal, scanItem,
                   creates, starts>>

\* A failed update is only logged. The system in view, if it is this one, shows the result.
PatchEnds(p) ==
    /\ p \in patches
    /\ patches' = patches \ {p}
    /\ details' = IF details # NoSystem /\ details.id = p.id THEN [details EXCEPT !.scan = p.scan] ELSE details
    /\ \/ p.applied /\ Invalidated
       \/ stale' = (stale \/ p.applied) /\ UNCHANGED fetch
    /\ UNCHANGED <<stored, listed, fetched, loaded, advice, linked, view, modal, scanItem, creates, starts>>

CloseScan ==
    /\ modal = "scanned" /\ modal' = "none"
    /\ UNCHANGED <<server, advice, linked, view, details, scanItem, creates, patches, starts>>

-----------------------------------------------------------------------------
(* Recommendations: asked for from a row, the details or a scan's result.  *)

Subjects ==
    CASE modal = "none" /\ view = "list" -> DOMAIN listed
      [] modal = "none" /\ view = "details" -> {details.id}
      [] modal = "scanned" -> {scanItem.id}
      [] OTHER -> {}

\* Mutant: the recommendation shown last is not dropped.
RecommendOver(s) ==
    /\ s \in Subjects \ recommends /\ starts < MaxStarts
    /\ starts' = starts + 1
    /\ modal' = "recommendation"
    /\ asked' = s
    /\ recommends' = recommends \cup {s}
    /\ crossed' = (recommends # {})
    /\ UNCHANGED <<server, recommended, linked, view, details, scanItem, creates, patches>>

\* handleRunScan. A request under way for another system is not given up.
Recommend(s) ==
    /\ s \in Subjects \ recommends /\ starts < MaxStarts
    /\ starts' = starts + 1
    /\ modal' = "recommendation"
    /\ asked' = s /\ recommended' = NoSystem
    /\ recommends' = recommends \cup {s}
    /\ crossed' = (recommends # {})
    /\ UNCHANGED <<server, linked, view, details, scanItem, creates, patches>>

Recommended(s) ==
    /\ s \in recommends
    /\ recommends' = recommends \ {s}
    /\ recommended' \in {s, recommended}
    /\ UNCHANGED <<server, asked, crossed, linked, view, details, modal, scanItem, creates, patches, starts>>

CloseRecommendation ==
    /\ modal = "recommendation"
    /\ modal' = "none" /\ asked' = NoSystem /\ recommended' = NoSystem
    /\ UNCHANGED <<server, recommends, crossed, linked, view, details, scanItem, creates, patches, starts>>

Next ==
    \/ Read \/ Fetched \/ ProvidersKnown
    \/ Register \/ Back \/ \E s \in Systems : ViewDetails(s)
    \/ \E open \in BOOLEAN : Presets(open)
    \/ \E k \in DOMAIN creates : Create(k) \/ Created(k)
    \/ RunScan \/ ScanDone \/ CloseScan
    \/ \E p \in patches : PatchApplied(p) \/ PatchEnds(p)
    \/ \E s \in Systems : Recommend(s) \/ Recommended(s)
    \/ CloseRecommendation

Spec == Init /\ [][Next]_vars

-----------------------------------------------------------------------------
(* Properties.                                                             *)

\* When nothing is in flight, the list shows what the server has stored, systems and scans,
\* unless an answer was lost, a fetch failed or the first fetch was too early: every handler
\* that changes the server asks for the list again, after the change and not before.
ListFollowsServer ==
    fetch = "idle" /\ patches = {} /\ ~stale => listed = stored

\* A recommendation is shown under the name of the system it was asked for, unless two were
\* in flight together: the late answer to a closed dialog does not reach the next one.
RecommendationFits ==
    modal = "recommendation" /\ ~crossed => recommended \in {asked, NoSystem}

-----------------------------------------------------------------------------
(* The inductive invariant.                                                *)

\* Unless something was missed, and but for updates that have reached the server and will ask
\* for the list: a fetch has read what is stored, and without one the list is what is stored.
ListInv ==
    ~stale /\ (\A p \in patches : ~p.applied) =>
        /\ fetch = "read" => fetched = stored
        /\ fetch = "idle" => listed = stored

\* Unless two were in flight together, an answer under way is for the dialog that is open.
AdviceInv ==
    modal = "recommendation" /\ ~crossed =>
        recommends \subseteq {asked} /\ recommended \in {asked, NoSystem}

\* A scan is of some system, and no request is in flight that was not counted.
CountsInv ==
    /\ modal = "scanning" => scanItem \in Items
    /\ \A k \in DOMAIN creates : creates[k] <= starts

IInv == TypeOK /\ ListInv /\ AdviceInv /\ CountsInv
=============================================================================
