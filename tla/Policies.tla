------------------------------ MODULE Policies ------------------------------
(***************************************************************************)
(* The library of the policies page (app/(app)/policies/page.tsx): the     *)
(* policies of all systems, which the page reads system by system, the     *)
(* tabs that create policies, their switches, and the GitHub checks with   *)
(* theirs. The AI Generate tab is PolicyChat.                              *)
(***************************************************************************)
EXTENDS Naturals, FiniteSets

CONSTANTS
    Systems,       \* the organization's AI systems
    Library,       \* the policies it may come to have
    SystemOf,      \* the system of each
    Checks,        \* the GitHub checks
    NoCheck,
    MaxWrites      \* bound: creations and switches, of policies and of checks

LibraryAssumption ==
    SystemOf \in [Library -> Systems] /\ NoCheck \notin Checks /\ MaxWrites \in Nat

Statuses == {"draft", "active", "inactive"}
Inventories == UNION {[P -> Statuses] : P \in SUBSET Library}
Nothing == [p \in {} |-> "draft"]

VARIABLES
    stored,       \* the server: the status of every policy
    listed,       \* the cached list
    todo,         \* the systems whose policies the fetch in flight has yet to read
    got,          \* what it has read; an idle fetch has read nothing and has nothing to do
    fetching, loaded,
    writes,       \* creations and switches in flight, and what they are to store
    tab,          \* view_all, form (manual or template), github_checks
    enabled,      \* the server: the checks switched on
    shown,        \* the cached checks that are on
    checkFetch, checkGot, checksLoaded,
    flips,        \* switches of checks in flight, and whether the tab they were made in is mounted
    toggling,     \* the check whose switch is disabled
    count,        \* counts what MaxWrites bounds
    stale, staleChecks    \* history: the server changed, or a fetch failed, and none was asked for

library == <<stored, listed, todo, got, fetching, loaded, stale>>
checks == <<enabled, shown, checkFetch, checkGot, checksLoaded, flips, toggling, staleChecks>>
vars == <<library, checks, writes, tab, count>>

TypeOK ==
    /\ {stored, listed, got} \subseteq Inventories
    /\ todo \subseteq Systems /\ fetching \in BOOLEAN /\ loaded \in BOOLEAN
    /\ writes \subseteq [new : BOOLEAN, policy : Library, status : Statuses, stored : BOOLEAN]
    /\ tab \in {"view_all", "form", "github_checks"}
    /\ {enabled, shown, checkGot} \subseteq SUBSET Checks
    /\ checkFetch \in {"idle", "sent", "read"}
    /\ flips \subseteq [check : Checks, on : BOOLEAN, confirmed : BOOLEAN, mine : BOOLEAN]
    /\ checksLoaded \in BOOLEAN
    /\ toggling \in Checks \cup {NoCheck}
    /\ count \in 0..MaxWrites /\ stale \in BOOLEAN /\ staleChecks \in BOOLEAN

Init ==
    /\ stored \in {Nothing} \cup {[p \in {q} |-> "active"] : q \in Library}
    /\ listed = Nothing /\ todo = Systems /\ got = Nothing /\ fetching = TRUE /\ loaded = FALSE
    /\ writes = {} /\ tab = "view_all"
    /\ enabled = Checks /\ shown = {} /\ checkFetch = "sent" /\ checkGot = {} /\ checksLoaded = FALSE
    /\ flips = {} /\ toggling = NoCheck
    /\ count = 0 /\ stale = FALSE /\ staleChecks = FALSE

\* GitHubChecksTab, when the user takes another tab or is taken to one.
Unmounted == toggling' = NoCheck /\ flips' = {[f EXCEPT !.mine = FALSE] : f \in flips}

Tab(t) ==
    /\ t # tab /\ tab' = t
    /\ Unmounted
    /\ UNCHANGED <<library, enabled, shown, checkFetch, checkGot, checksLoaded, staleChecks, writes, count>>

-----------------------------------------------------------------------------
(* The query governance-policies.                                          *)

ReadSystem(s) ==
    /\ s \in todo
    /\ todo' = todo \ {s}
    /\ LET here == {p \in DOMAIN stored : SystemOf[p] = s}
       IN  got' = [p \in DOMAIN got \cup here |-> IF p \in here THEN stored[p] ELSE got[p]]
    /\ UNCHANGED <<stored, listed, fetching, loaded, stale, checks, writes, tab, count>>

\* One request that fails fails them all.
FetchEnds ==
    /\ fetching /\ fetching' = FALSE
    /\ \/ todo = {} /\ listed' = got /\ loaded' = TRUE /\ UNCHANGED stale
       \/ stale' = TRUE /\ UNCHANGED <<listed, loaded>>
    /\ todo' = {} /\ got' = Nothing
    /\ UNCHANGED <<stored, checks, writes, tab, count>>

\* Mutant: the fetch in flight goes on with what it has read.
InvalidatedIdle ==
    IF ~fetching
    THEN fetching' = TRUE /\ todo' = Systems /\ got' = Nothing /\ stale' = FALSE
    ELSE UNCHANGED <<fetching, todo, got, stale>>

\* invalidateQueries: the fetch in flight is given up for a new one, but the first is not.
Invalidated ==
    IF loaded \/ ~fetching
    THEN fetching' = TRUE /\ todo' = Systems /\ got' = Nothing /\ stale' = FALSE
    ELSE stale' = (stale \/ todo # Systems) /\ UNCHANGED <<fetching, todo, got>>

-----------------------------------------------------------------------------
(* Policies.                                                               *)

\* handleCreate, from a form that can be sent again, as a draft or not; and handleToggle,
\* which sends the opposite of the status the list shows.
Write(w) ==
    /\ count < MaxWrites /\ count' = count + 1
    /\ writes' = writes \cup {w}
    /\ UNCHANGED <<library, checks, tab>>

Fresh(p) == p \notin DOMAIN stored /\ \A w \in writes : w.policy # p

Create(p) ==
    /\ tab = "form" /\ Fresh(p)
    /\ \E st \in {"draft", "active"} : Write([new |-> TRUE, policy |-> p, status |-> st, stored |-> FALSE])

Toggle(p) ==
    /\ tab = "view_all" /\ p \in DOMAIN listed
    /\ Write([new |-> FALSE, policy |-> p, stored |-> FALSE,
              status |-> IF listed[p] = "active" THEN "inactive" ELSE "active"])

Store(w) == [p \in DOMAIN stored \cup {w.policy} |-> IF p = w.policy THEN w.status ELSE stored[p]]

\* Written, the list is fetched again; whoever created a policy is then taken to the list.
Written(w) ==
    /\ w \in writes /\ ~w.stored
    /\ stored' = Store(w)
    /\ writes' = IF w.new THEN (writes \ {w}) \cup {[w EXCEPT !.stored = TRUE]} ELSE writes \ {w}
    /\ Invalidated
    /\ UNCHANGED <<listed, loaded, checks, tab, count>>

Landed(w) ==
    /\ w \in writes /\ w.stored
    /\ writes' = writes \ {w}
    /\ tab' = "view_all"
    /\ Unmounted
    /\ UNCHANGED <<library, enabled, shown, checkFetch, checkGot, checksLoaded, staleChecks, count>>

\* An error reaches nobody; whether anything was written is not known.
WriteFails(w) ==
    /\ w \in writes /\ ~w.stored
    /\ writes' = writes \ {w}
    /\ \/ stored' = Store(w) /\ stale' = TRUE
       \/ UNCHANGED <<stored, stale>>
    /\ UNCHANGED <<listed, todo, got, fetching, loaded, checks, tab, count>>

-----------------------------------------------------------------------------
(* GitHub checks.                                                          *)

ReadChecks ==
    /\ checkFetch = "sent"
    /\ checkFetch' = "read" /\ checkGot' = enabled
    /\ UNCHANGED <<library, enabled, shown, checksLoaded, flips, toggling, staleChecks, writes, tab, count>>

ChecksFetched ==
    /\ checkFetch = "read"
    /\ checkFetch' = "idle" /\ checkGot' = {}
    /\ \/ shown' = checkGot /\ checksLoaded' = TRUE /\ UNCHANGED staleChecks
       \/ staleChecks' = TRUE /\ UNCHANGED <<shown, checksLoaded>>
    /\ UNCHANGED <<library, enabled, flips, toggling, writes, tab, count>>

\* handleToggle of the tab. The switch of another check that is under way is enabled again.
Flip(c) ==
    /\ tab = "github_checks" /\ checksLoaded /\ c # toggling /\ count < MaxWrites
    /\ count' = count + 1
    /\ flips' = flips \cup {[check |-> c, on |-> c \notin shown, confirmed |-> FALSE, mine |-> TRUE]}
    /\ toggling' = c
    /\ UNCHANGED <<library, enabled, shown, checkFetch, checkGot, checksLoaded, staleChecks, writes, tab>>

\* The server confirms, and refetchScanPolicies follows; or the switch fails, with or without effect.
Flipped(f) ==
    /\ f \in flips /\ ~f.confirmed
    /\ \/ /\ enabled' = IF f.on THEN enabled \cup {f.check} ELSE enabled \ {f.check}
          /\ \/ checkFetch' = "sent" /\ checkGot' = {} /\ staleChecks' = FALSE
             \/ staleChecks' = TRUE /\ UNCHANGED <<checkFetch, checkGot>>
       \/ UNCHANGED <<enabled, checkFetch, checkGot, staleChecks>>
    /\ flips' = (flips \ {f}) \cup {[f EXCEPT !.confirmed = TRUE]}
    /\ UNCHANGED <<library, shown, checksLoaded, toggling, writes, tab, count>>

\* No switch is disabled any more, whichever this one was.
FlipEnds(f) ==
    /\ f \in flips /\ f.confirmed
    /\ flips' = flips \ {f}
    /\ toggling' = IF f.mine THEN NoCheck ELSE toggling
    /\ UNCHANGED <<library, enabled, shown, checkFetch, checkGot, checksLoaded, staleChecks, writes, tab, count>>

Next ==
    \/ \E t \in {"view_all", "form", "github_checks"} : Tab(t)
    \/ \E s \in Systems : ReadSystem(s)
    \/ FetchEnds
    \/ \E p \in Library : Create(p) \/ Toggle(p)
    \/ \E w \in writes : Written(w) \/ Landed(w) \/ WriteFails(w)
    \/ ReadChecks \/ ChecksFetched
    \/ \E c \in Checks : Flip(c)
    \/ \E f \in flips : Flipped(f) \/ FlipEnds(f)

Spec == Init /\ [][Next]_vars

-----------------------------------------------------------------------------
(* Properties.                                                             *)

\* When nothing is in flight the page shows what the server has: every policy with its status,
\* though the list is put together from reads at different times, and every check; unless a
\* request failed or a policy was written while the page was still reading its first list.
LibraryFollowsServer ==
    /\ ~fetching /\ writes = {} /\ ~stale => listed = stored
    /\ checkFetch = "idle" /\ flips = {} /\ ~staleChecks => shown = enabled

-----------------------------------------------------------------------------
(* The inductive invariant.                                                *)

\* Unless something was missed: a fetch in flight has read just what is stored for the systems
\* it is done with, and without one the list is what is stored.
ReadInv ==
    ~stale =>
        /\ fetching => /\ DOMAIN got = {p \in DOMAIN stored : SystemOf[p] \notin todo}
                       /\ \A p \in DOMAIN got : got[p] = stored[p]
        /\ ~fetching => listed = stored

\* The same of the checks, which are read at once.
ChecksInv ==
    ~staleChecks =>
        /\ checkFetch = "read" => checkGot = enabled
        /\ checkFetch = "idle" => shown = enabled

IInv == TypeOK /\ ReadInv /\ ChecksInv
=============================================================================
