----------------------------- MODULE Compliance -----------------------------
(***************************************************************************)
(* Compliance frameworks: the page (app/(app)/compliance/page.tsx), where  *)
(* the evaluation of a scan is shown, refreshed, and improved by attesting *)
(* what cannot be evaluated, and its endpoints                             *)
(* (app/api/routes/compliance.py), which store an evaluation with its scan *)
(* and serve what is stored until somebody refreshes it.                   *)
(*                                                                         *)
(* Attestations belong to the organization, evaluations to a scan.  An     *)
(* evaluation is told by the attestations it counted.  Each framework has  *)
(* one item to attest.  The handlers do not await before they have stored  *)
(* what they return, so that on one instance they are atomic.              *)
(***************************************************************************)
EXTENDS Naturals

CONSTANTS
    Scans, NoScan,
    Last,          \* the frameworks are 1..Last, evaluated and stored in this order
    MaxActs        \* bound: attestations, refreshes, changes of scan and faults

ComplianceAssumption == NoScan \notin Scans /\ Last \in Nat /\ MaxActs \in Nat

Frameworks == 1..Last

VARIABLES
    attested,      \* the server: whether the item of each framework is attested
    stored,        \* the server: the frameworks' results stored under each scan
    latest,        \* the newest scan of the list
    selected,      \* selectedScanId
    cached,        \* the query cache: ["compliance", scan]
    loading,       \* the query of each scan
    refreshes,     \* refreshMutation in flight
    attests,       \* attestMutation in flight
    acts,
    at,            \* history: the scan shown since before the last attestation was made there
    raced,         \* history: the last refresh failed or was not alone, or an attestation failed
    crossed        \* history: scans the page came to while it waited for a refresh of another

server == <<attested, stored>>
page == <<latest, selected>>
requests == <<loading, refreshes, attests>>
history == <<at, raced, crossed>>
vars == <<server, page, cached, requests, acts, history>>

Results == UNION {[F -> BOOLEAN] : F \in SUBSET Frameworks}
Nothing == [f \in {} |-> FALSE]
NoData == [of |-> NoScan, res |-> Nothing]
Evaluations == [of : Scans, res : Results] \cup {NoData}

TypeOK ==
    /\ attested \in [Frameworks -> BOOLEAN]
    /\ stored \in [Scans -> Results]
    /\ latest \in Scans /\ selected \in Scans \cup {NoScan}
    /\ cached \in [Scans -> Evaluations]
    /\ loading \in [Scans -> [phase : {"idle", "sent", "served"}, res : Results]]
    /\ refreshes \subseteq [id : 1..MaxActs, of : Scans, key : Scans, watched : BOOLEAN,
                            served : BOOLEAN, res : Results]
    /\ attests \subseteq [id : 1..MaxActs, framework : Frameworks, value : BOOLEAN, saved : BOOLEAN]
    /\ acts \in 0..MaxActs
    /\ at \in Scans \cup {NoScan} /\ raced \in BOOLEAN /\ crossed \subseteq Scans

Idle == [phase |-> "idle", res |-> Nothing]
Sent == [phase |-> "sent", res |-> Nothing]

Init ==
    /\ attested = [f \in Frameworks |-> FALSE]
    /\ stored = [s \in Scans |-> Nothing]
    /\ latest \in Scans /\ selected = NoScan
    /\ cached = [s \in Scans |-> NoData]
    /\ loading = [s \in Scans |-> IF s = latest THEN Sent ELSE Idle]
    /\ refreshes = {} /\ attests = {} /\ acts = 0
    /\ at = NoScan /\ raced = FALSE /\ crossed = {}

Act == acts < MaxActs /\ acts' = acts + 1

Active == IF selected # NoScan THEN selected ELSE latest       \* activeScanId
Waits == {r \in refreshes : r.watched}

-----------------------------------------------------------------------------
(* The server.                                                             *)

\* evaluate_framework and save_framework_result, framework by framework. A process that
\* dies, or a store that fails, on the way leaves the results of those that came first.
Evaluated(done) == [f \in 1..done |-> attested[f]]
Saved(s, done) ==
    [stored EXCEPT ![s] = [f \in DOMAIN @ \cup 1..done |-> IF f <= done THEN attested[f] ELSE @[f]]]

\* evaluate_scan: whatever is stored is served, if it is only a part.
ServeEvaluation(s) ==
    /\ loading[s].phase = "sent"
    /\ IF stored[s] # Nothing
       THEN /\ loading' = [loading EXCEPT ![s] = [phase |-> "served", res |-> stored[s]]]
            /\ UNCHANGED stored
       ELSE /\ loading' = [loading EXCEPT ![s] = [phase |-> "served", res |-> Evaluated(Last)]]
            /\ stored' = Saved(s, Last)
    /\ UNCHANGED <<attested, page, cached, refreshes, attests, acts, history>>

\* The request fails on the way; react-query asks once more, then gives up.
FailEvaluation(s) ==
    /\ loading[s].phase = "sent" /\ Act
    /\ loading' = [loading EXCEPT ![s] = Idle]
    /\ \/ \E done \in 0..Last : stored[s] = Nothing /\ stored' = Saved(s, done)
       \/ UNCHANGED stored
    /\ UNCHANGED <<attested, page, cached, refreshes, attests, history>>

\* evaluate_scan_refresh.
ServeRefresh(r) ==
    /\ r \in refreshes /\ ~r.served
    /\ stored' = Saved(r.of, Last)
    /\ refreshes' = (refreshes \ {r}) \cup {[r EXCEPT !.served = TRUE, !.res = Evaluated(Last)]}
    /\ UNCHANGED <<attested, page, cached, loading, attests, acts, history>>

FailRefresh(r) ==
    /\ r \in refreshes /\ ~r.served /\ Act
    /\ \E done \in 0..Last : stored' = Saved(r.of, done)
    /\ refreshes' = refreshes \ {r}
    /\ raced' = TRUE
    /\ UNCHANGED <<attested, page, cached, loading, attests, at, crossed>>

\* submit_attestation.
SaveAttestation(a) ==
    /\ a \in attests /\ ~a.saved
    /\ attested' = [attested EXCEPT ![a.framework] = a.value]
    /\ attests' = (attests \ {a}) \cup {[a EXCEPT !.saved = TRUE]}
    /\ UNCHANGED <<stored, page, cached, loading, refreshes, acts, history>>

-----------------------------------------------------------------------------
(* The page.                                                               *)

\* The query of the scan on show is fetched if it has no data or, by the clock, old data.
Show(s) ==
    \/ loading' = [loading EXCEPT ![s] = IF @ = Idle THEN Sent ELSE @]
    \/ cached[s] # NoData /\ UNCHANGED loading

\* A mutation under way takes over the callbacks of the last rendering, and with them
\* the key of the scan that is active by then.
Rebound(s) == {IF r.watched THEN [r EXCEPT !.key = s] ELSE r : r \in refreshes}

Move(s) ==
    /\ s # Active
    /\ Show(s)
    /\ refreshes' = Rebound(s)
    /\ at' = NoScan
    /\ crossed' = IF \E r \in Waits : r.of # s THEN crossed \cup {s} ELSE crossed
    /\ UNCHANGED <<server, cached, attests, raced>>

\* The selection, and a list of scans that has another one in front.
Select(s) == Act /\ Move(s) /\ selected' = s /\ UNCHANGED latest

NewScan(s) ==
    /\ s # latest /\ Act /\ latest' = s
    /\ IF selected = NoScan
       THEN Move(s)
       ELSE UNCHANGED <<server, cached, requests, history>>
    /\ UNCHANGED selected

\* An answer to the query.
Loaded(s) ==
    /\ loading[s].phase = "served"
    /\ loading' = [loading EXCEPT ![s] = Idle]
    /\ cached' = [cached EXCEPT ![s] = [of |-> s, res |-> loading[s].res]]
    /\ UNCHANGED <<server, page, refreshes, attests, acts, history>>

\* refreshMutation.mutate, by the button or after an attestation; an earlier one is
\* watched no more and goes on.
StartRefresh(id) ==
    /\ refreshes' = {[r EXCEPT !.watched = FALSE] : r \in refreshes} \cup
                    {[id |-> id, of |-> Active, key |-> Active, watched |-> TRUE, served |-> FALSE,
                      res |-> Nothing]}
    /\ raced' = (refreshes # {} \/ \E s \in Scans : loading[s] # Idle)

Refresh ==
    /\ cached[Active] # NoData \/ loading[Active] = Idle
    /\ Waits = {} /\ Act
    /\ StartRefresh(acts')
    /\ UNCHANGED <<server, page, cached, loading, attests, at, crossed>>

\* setQueryData.
Refreshed(r) ==
    /\ r \in refreshes /\ r.served
    /\ refreshes' = refreshes \ {r}
    /\ cached' = [cached EXCEPT ![r.key] = [of |-> r.of, res |-> r.res]]
    /\ UNCHANGED <<server, page, loading, attests, acts, history>>

\* handleAttest: the opposite of what the item shows, as often as it is clicked.
Attest(f) ==
    /\ cached[Active] # NoData /\ f \in DOMAIN cached[Active].res /\ Act
    /\ attests' = attests \cup {[id |-> acts', framework |-> f, value |-> ~cached[Active].res[f], saved |-> FALSE]}
    /\ at' = Active
    /\ UNCHANGED <<server, page, cached, loading, refreshes, raced, crossed>>

\* Mutant: the scores are not refreshed.
AttestedOnly(a) ==
    /\ a \in attests /\ a.saved
    /\ attests' = attests \ {a}
    /\ UNCHANGED <<server, page, cached, loading, refreshes, acts, history>>

\* The scores that are refreshed are those of the scan that is active now.
Attested(a) ==
    /\ a \in attests /\ a.saved
    /\ attests' = attests \ {a}
    /\ StartRefresh(a.id)
    /\ UNCHANGED <<server, page, cached, loading, acts, at, crossed>>

\* Nobody is told; whether anything was saved is not known.
NotAttested(a) ==
    /\ a \in attests /\ Act
    /\ attests' = attests \ {a}
    /\ raced' = TRUE
    /\ UNCHANGED <<server, page, cached, loading, refreshes, at, crossed>>

Next ==
    \/ \E s \in Scans : ServeEvaluation(s) \/ FailEvaluation(s) \/ Loaded(s) \/ Select(s) \/ NewScan(s)
    \/ \E r \in refreshes : ServeRefresh(r) \/ FailRefresh(r) \/ Refreshed(r)
    \/ \E a \in attests : SaveAttestation(a) \/ Attested(a) \/ NotAttested(a)
    \/ Refresh
    \/ \E f \in Frameworks : Attest(f)

Spec == Init /\ [][Next]_vars

-----------------------------------------------------------------------------
(* Properties.                                                             *)

Quiet == refreshes = {} /\ attests = {} /\ \A s \in Scans : loading[s] = Idle

\* An evaluation is shown with its own scan, unless the user went from one to the other during
\* a refresh; and when all is answered, the scan at which items were attested, if it is still
\* on show, counts every attestation, although the endpoint serves what it once stored: unless
\* the refresh failed or overlapped with another request for an evaluation.
EvaluationFits ==
    /\ \A s \in Scans \ crossed : cached[s].of \in {s, NoScan}
    /\ Quiet /\ at = Active /\ ~raced => cached[at] = [of |-> at, res |-> attested]

-----------------------------------------------------------------------------
(* The inductive invariant.                                                *)

\* Another scan's evaluation is on its way, or has come, only to a scan that was crossed.
CrossedInv ==
    /\ \A r \in refreshes : r.key \in crossed \cup {r.of}
    /\ \A s \in Scans \ crossed : cached[s].of \in {s, NoScan}

\* Where items were attested and no attestation is under way, the one request for an evaluation
\* counts them all, or has done so.
CountedInv ==
    /\ at \in {NoScan, Active}
    /\ at # NoScan /\ ~raced /\ attests = {} =>
          /\ \A s \in Scans : loading[s] = Idle
          /\ \/ refreshes = {} /\ cached[at] = [of |-> at, res |-> attested]
             \/ \E r \in refreshes : /\ refreshes = {r} /\ r.of = at /\ r.key = at
                                     /\ r.served => r.res = attested

IInv == TypeOK /\ CrossedInv /\ CountedInv
=============================================================================
