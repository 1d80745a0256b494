------------------------------ MODULE Webhooks ------------------------------
(***************************************************************************)
(* The webhook endpoints of an organization: the SIEM card of the settings *)
(* page (app/(app)/settings/page.tsx) and the endpoints behind it          *)
(* (app/api/routes/webhooks.py, app/services/webhooks.py).                 *)
(*                                                                         *)
(* No button of the card waits for the others, and one slot each holds the *)
(* webhook that is tested, the result of the test, and the secret of a     *)
(* webhook that was made, which is shown once.                             *)
(***************************************************************************)
EXTENDS Naturals

CONSTANTS MaxActs      \* bound: what the user and the faults do

WebhooksAssumption == MaxActs \in Nat

Ids == 1..MaxActs      \* a webhook is named by the request that created it
None == 0

VARIABLES
    hooks,         \* the stored webhooks: whether each is enabled
    jobs,          \* requests of the card
    list,          \* the query ["webhooks"]
    fetch,
    creating,      \* webhookCreating
    secret,        \* createdSecret: the webhook it signs for
    testId,        \* webhookTestId
    result,        \* webhookTestResult
    timers,        \* the timers that will clear both, by their test
    acts,
    seen,          \* history: the webhooks whose secret was shown
    want,          \* history: whether each webhook was last asked to be enabled
    hasty,         \* history: the webhooks that were changed while a change was under way, or
                   \* whose change failed
    mixed,         \* history: a test began before the timer of an earlier one ended
    lost           \* history: an answer was lost, or came during the first fetch

query == <<list, fetch>>
card == <<creating, secret, testId, result>>
history == <<seen, want, hasty, mixed, lost>>
vars == <<hooks, jobs, query, card, timers, acts, history>>

Requests == [n : Ids, kind : {"create", "toggle", "remove", "test"}, id : Ids, enabled : BOOLEAN,
             phase : {"sent", "done", "waits", "free"}, ok : BOOLEAN]
NoList == [id \in {None} |-> FALSE]         \* webhooks = [] until they are loaded
Idle == [phase |-> "idle", res |-> NoList]
Sent == [phase |-> "sent", res |-> NoList]
NoResult == [of |-> None, says |-> ""]

TypeOK ==
    /\ DOMAIN hooks \subseteq Ids /\ hooks \in [DOMAIN hooks -> BOOLEAN]
    /\ jobs \subseteq Requests
    /\ creating \in BOOLEAN /\ secret \in Ids \cup {None} /\ testId \in Ids \cup {None}
    /\ result \in [of : Ids \cup {None}, says : {"", "ok", "error"}]
    /\ timers \subseteq Ids /\ acts \in 0..MaxActs
    /\ seen \cup hasty \subseteq Ids /\ {mixed, lost} \subseteq BOOLEAN
    /\ want \in [Ids -> BOOLEAN]

Init ==
    /\ hooks = [id \in {} |-> FALSE]
    /\ jobs = {} /\ list = NoList /\ fetch = Sent
    /\ creating = FALSE /\ secret = None /\ testId = None /\ result = NoResult /\ timers = {}
    /\ acts = 0
    /\ seen = {} /\ want = [id \in Ids |-> TRUE] /\ hasty = {} /\ mixed = FALSE /\ lost = FALSE

Act == acts < MaxActs /\ acts' = acts + 1

-----------------------------------------------------------------------------
(* The endpoints.                                                          *)

Perform(j) ==
    /\ j.phase = "sent"
    /\ hooks' = CASE j.kind = "create" -> [id \in DOMAIN hooks \cup {j.id} |-> IF id = j.id THEN TRUE ELSE hooks[id]]
                  [] j.kind = "toggle" /\ j.id \in DOMAIN hooks -> [hooks EXCEPT ![j.id] = j.enabled]
                  [] j.kind = "remove" -> [id \in DOMAIN hooks \ {j.id} |-> hooks[id]]
                  [] OTHER -> hooks
    /\ \E ok \in BOOLEAN :
        /\ CASE j.kind = "create" -> ok
             [] j.kind = "test" -> ok => j.id \in DOMAIN hooks /\ hooks[j.id]     \* and if it is reached
             [] OTHER -> ok = (j.id \in DOMAIN hooks)
        /\ jobs' = (jobs \ {j}) \cup {[j EXCEPT !.phase = "done", !.ok = ok]}
    /\ UNCHANGED <<query, card, timers, acts, history>>

\* A request fails on its way, or its answer does.
Fail(j) ==
    /\ j.phase \in {"sent", "done"} /\ j.phase = "done" => j.ok
    /\ Act
    /\ jobs' = (jobs \ {j}) \cup {[j EXCEPT !.phase = "done", !.ok = FALSE]}
    /\ hasty' = IF j.kind = "toggle" THEN hasty \cup {j.id} ELSE hasty
    /\ lost' = (lost \/ j.phase = "done")
    /\ UNCHANGED <<hooks, query, card, timers, seen, want, mixed>>

Serve ==
    /\ fetch.phase = "sent"
    /\ fetch' = [phase |-> "served", res |-> hooks]
    /\ UNCHANGED <<hooks, jobs, list, card, timers, acts, history>>

-----------------------------------------------------------------------------
(* The card.                                                               *)

Listed(id) == id \in DOMAIN list /\ id # None      \* its row has the buttons
CanCreate == ~creating

Ask(kind, id, enabled) ==
    jobs' = jobs \cup {[n |-> acts', kind |-> kind, id |-> id, enabled |-> enabled,
                        phase |-> "sent", ok |-> FALSE]}

\* Mutant: what the list says is sent, not the opposite.
ToggleShown(id) ==
    /\ Listed(id) /\ Act
    /\ Ask("toggle", id, list[id])
    /\ want' = [want EXCEPT ![id] = ~list[id]]
    /\ hasty' = IF \E j \in jobs : j.id = id /\ j.kind \in {"toggle", "remove"} THEN hasty \cup {id} ELSE hasty
    /\ UNCHANGED <<hooks, query, card, timers, seen, mixed, lost>>

\* createWebhookEndpoint: the secret that was shown before goes.
Create ==
    /\ CanCreate /\ Act
    /\ creating' = TRUE /\ secret' = None
    /\ Ask("create", acts', TRUE)
    /\ UNCHANGED <<hooks, query, testId, result, timers, history>>

Changes(id) == \E j \in jobs : j.id = id /\ j.kind \in {"toggle", "remove"}

\* toggleWebhookEnabled: the opposite of what the list says.
Toggle(id) ==
    /\ Listed(id) /\ Act
    /\ Ask("toggle", id, ~list[id])
    /\ want' = [want EXCEPT ![id] = ~list[id]]
    /\ hasty' = IF Changes(id) THEN hasty \cup {id} ELSE hasty
    /\ UNCHANGED <<hooks, query, card, timers, seen, mixed, lost>>

\* removeWebhook.
Remove(id) ==
    /\ Listed(id) /\ Act
    /\ Ask("remove", id, FALSE)
    /\ hasty' = IF Changes(id) THEN hasty \cup {id} ELSE hasty
    /\ UNCHANGED <<hooks, query, card, timers, seen, want, mixed, lost>>

\* testWebhookEndpoint: only the button of the webhook in the slot waits.
Test(id) ==
    /\ Listed(id) /\ testId # id /\ Act
    /\ testId' = id /\ result' = NoResult
    /\ Ask("test", id, FALSE)
    /\ mixed' = (mixed \/ timers # {} \/ \E j \in jobs : j.kind = "test")
    /\ UNCHANGED <<hooks, query, creating, secret, timers, seen, want, hasty, lost>>

Tested(j) ==
    /\ j.kind = "test" /\ j.phase = "done"
    /\ jobs' = jobs \ {j}
    /\ result' = [of |-> j.id, says |-> IF j.ok THEN "ok" ELSE "error"]
    /\ timers' = timers \cup {j.n}
    /\ UNCHANGED <<hooks, query, creating, secret, testId, acts, history>>

\* Three seconds later the slots are cleared, whoever holds them.
TimerEnds(n) ==
    /\ timers' = timers \ {n}
    /\ testId' = None /\ result' = NoResult
    /\ UNCHANGED <<hooks, jobs, query, creating, secret, acts, history>>

\* A fetch under way is dropped, but the first one is joined.
Answered(j) ==
    /\ j.kind \in {"create", "toggle", "remove"} /\ j.phase = "done" /\ j.ok
    /\ fetch' = IF list = NoList /\ fetch # Idle THEN fetch ELSE Sent
    /\ lost' = (lost \/ (list = NoList /\ fetch.phase = "served"))
    /\ jobs' = {[k EXCEPT !.phase = IF k = j THEN "waits" ELSE IF @ = "waits" THEN "free" ELSE @] : k \in jobs}
    /\ IF j.kind = "create"
       THEN secret' = j.id /\ seen' = seen \cup {j.id}
       ELSE UNCHANGED <<secret, seen>>
    /\ UNCHANGED <<hooks, list, creating, testId, result, timers, acts, want, hasty, mixed>>

\* The end of a handler, after its refetch or an error.
Finish(j) ==
    /\ j.kind # "test" /\ (j.phase = "free" \/ (j.phase = "done" /\ ~j.ok))
    /\ jobs' = jobs \ {j}
    /\ creating' = (creating /\ j.kind # "create")
    /\ UNCHANGED <<hooks, query, secret, testId, result, timers, acts, history>>

Fetched ==
    /\ fetch.phase = "served"
    /\ fetch' = Idle /\ list' = fetch.res
    /\ jobs' = {[k EXCEPT !.phase = IF @ = "waits" THEN "free" ELSE @] : k \in jobs}
    /\ UNCHANGED <<hooks, card, timers, acts, history>>

Next ==
    \/ \E j \in jobs : Perform(j) \/ Fail(j) \/ Tested(j) \/ Answered(j) \/ Finish(j)
    \/ \E id \in Ids : Toggle(id) \/ Remove(id) \/ Test(id)
    \/ \E n \in timers : TimerEnds(n)
    \/ Create \/ Serve \/ Fetched

Spec == Init /\ [][Next]_vars

-----------------------------------------------------------------------------
(* Properties.                                                             *)

\* A result is shown at the webhook whose test it is, unless a test began while another or
\* its timer ran, since there is one slot for all; a webhook is enabled as it was last asked
\* to be, unless it was asked while it was being changed or that failed, although an older
\* answer may be on show; the card lists what is stored when all is answered; and no webhook
\* that was made lacks a secret that was shown: the latter three as long as no answer was lost.
WebhooksFollow ==
    /\ result # NoResult /\ ~mixed => result.of = testId
    /\ jobs = {} /\ fetch = Idle /\ ~lost =>
        /\ list = hooks
        /\ DOMAIN hooks \subseteq seen
        /\ \A id \in DOMAIN hooks \ hasty : hooks[id] = want[id]

-----------------------------------------------------------------------------
(* The inductive invariant.                                                *)

\* The id of a webhook that is being created is known to nobody else, and nobody has asked
\* anything of it.
Known == DOMAIN hooks \cup DOMAIN list \cup DOMAIN fetch.res
Pending(j) == j.kind = "create" /\ j.phase = "sent"
FreshInv ==
    /\ Known \subseteq 0..acts /\ \A j \in jobs : j.id <= acts
    /\ \A id \in Ids : id > acts => want[id] = TRUE
    /\ \A j \in jobs : Pending(j) =>
        /\ j.id \notin Known /\ want[j.id] = TRUE
        /\ \A k \in jobs : k.id = j.id => k = j

\* Unless it is changed hastily, a webhook is as it was last asked to be, or will be.
WantInv ==
    /\ \A j \in jobs : j.kind = "toggle" /\ j.phase = "sent" /\ j.id \notin hasty => j.enabled = want[j.id]
    /\ \A id \in DOMAIN hooks \ hasty :
        hooks[id] = want[id] \/ \E j \in jobs : j.kind = "toggle" /\ j.phase = "sent" /\ j.id = id

\* Unless tests are mixed, there is one at a time, its timer included.
TestInv ==
    /\ result # NoResult => result.of = testId
    /\ \A j \in jobs : j.kind = "test" =>
        /\ j.id = testId /\ timers = {}
        /\ \A k \in jobs : k.kind = "test" => k = j

\* What was changed is listed, and the secrets of what was made are shown, or the answer will do so.
Unsaid == \E j \in jobs : j.kind # "test" /\ j.phase = "done" /\ j.ok
Unshown(id) == \E j \in jobs : j.kind = "create" /\ j.phase = "done" /\ j.ok /\ j.id = id
ListInv ==
    /\ fetch \in {Idle, Sent} \/ fetch.phase = "served"
    /\ ~lost =>
        /\ fetch.phase = "served" => fetch.res = hooks \/ Unsaid
        /\ fetch = Idle => list = hooks \/ Unsaid
        /\ \A id \in DOMAIN hooks : id \in seen \/ Unshown(id)

IInv == TypeOK /\ FreshInv /\ WantInv /\ (mixed \/ TestInv) /\ ListInv
=============================================================================
