# TrustFabric: models, checks and proofs

TrustFabric is a multi-tenant service for AI governance: a FastAPI backend
(`app/`) over Firestore, with a Next.js frontend (`frontend/`). This directory models
the parts of both that keep state, in TLA+. TLC checks the models on small
instances; TLAPS proves the most important properties for every instance.

    tlc -config JobQueueOne.cfg MCJobQueue     # check
    tlapm JobQueueProofs.tla                   # prove

Contents: [the system](#the-system), [how it runs](#how-the-program-runs-and-how-that-is-modelled),
[modules](#modules), [runs](#runs-and-their-bounds), [proofs](#proofs),
[what disagrees](#where-the-code-and-its-documents-disagree),
[what is left out](#what-is-not-modelled), [plan](#plan).

## The system

| Component | Source | State | Operations | What makes it correct |
| --- | --- | --- | --- | --- |
| Job queue | `services/job_queue.py` | Firestore `jobs`; an in-memory queue and one worker task per process | `start` (recover), `enqueue`, `_process_job`, `stop` | no accepted job is lost; job and scan agree; one verdict per job; reruns only after a disturbance; every job finishes |
| Scan endpoints | `api/routes/scans.py` | Firestore `scans`, `aws_scans` | trigger a GitHub or AWS scan, poll, report | every scan a client polls settles |
| Scan engines | `services/scan.py`, `aws_scan.py` | the scan record, system links | `run_scan`, `run_aws_scan` | one record per run, replaced by a rerun |
| Idempotency keys | `core/idempotency.py` | Firestore `idempotency_keys` | begin, complete, replay, expire | one effect per key; a reply names what was made; a refusal means work in progress |
| AI system registry | `services/store.py`, `api/routes/systems.py` | Firestore `systems`, `_counters` | create, update, delete, link a scan | ids unique; an update undoes nothing it did not read |
| Audit log | `services/store.py` | Firestore `audits`, `_counters` | record with every change, list, export | a record that was written stays |
| Members and invites | `services/members.py`, `organizations.py` | `organization_members`, `organization_invites` | invite, accept, revoke, change role, remove; bootstrap | an organization keeps an owner; removed and revoked stay out |
| Single sign-on | `services/sso.py`, `core/sso_state.py` | `sso_exchange_codes`, membership | login, ACS, exchange | a code is redeemed once |
| Copilot | `services/copilot*.py`, `llm_resilience.py`, providers | quota and usage documents, an in-process circuit breaker | check quota, call with retries, fall back, count | limits hold; a provider that fails is left alone, then tried again |
| MCP registry | `api/routes/mcp.py` | `organization_mcp_servers` | register, audit, authorize, callback, delete | no stale save; a verifier used once |
| Rate limiter | `core/rate_limit.py` | in-process token buckets | `hit` | no more than the limit |
| Webhooks | `services/webhooks.py` | `webhook_endpoints` | dispatch, audit export, manage | each verdict dispatched to the endpoints subscribed to it |
| Compliance | `services/frameworks.py`, `api/routes/compliance.py` | framework results, attestations | evaluate (cached), refresh, attest | results follow scan and attestations |
| Integrations | `api/routes/integrations.py` | fields of one document per organization | connect, callback, disconnect, test, choose a channel | what is stored fits together |
| Session | `providers/AuthProvider.tsx`, `middleware.ts`, `app/api/auth/session` | Firebase's account, the cookie, each tab's user | sign in, sign out, observe, navigate | the cookie is the account's |
| Workspace | `providers/OrganizationProvider.tsx`, `lib/api.ts`, `QueryProvider.tsx` | the active organization in React state and in localStorage, the query cache | refresh, switch, fetch | a tab shows data of the organization it names |
| Sign-in pages | `(auth)/login`, `(auth)/sso/callback` | the form, a lookup, a one-time code | type, look up, submit, exchange | an answer is used for its question; a code is not wasted |
| Scans page | `(app)/scans/page.tsx`, `components/scans` | view, polls, intent in sessionStorage; Figma frames and results | start, poll, open, leave; fetch and scan frames | progress and results are those of the scan on show |
| Systems page | `(app)/systems/page.tsx` | list, details, dialogs | register, import, scan, recommend | the list follows the server |
| Policies page | `(app)/policies/page.tsx` | library, checks, conversations | create, switch, ask, file | nothing said is lost; the library follows the server |
| Settings page | `(app)/settings/page.tsx` | forms, cards, query cache | save, connect, audit, test | a form is of one organization; a card shows what is stored |
| Compliance page | `(app)/compliance/page.tsx` | chosen scan, cached evaluations | choose, refresh, attest | an evaluation stands with its scan |
| Audit and events pages | `(app)/audit`, `(app)/events` | page, filter, cache | leaf, filter, refresh, generate | leafing skips nothing |

They interact in four ways. The scan endpoints begin a key, save a scan and enqueue
a job; the queue runs the engines, which write the scan and the registry; the queue
dispatches webhooks; and every change of a system, a policy or a member draws an id
from the counters and writes an audit record. All of them share Firestore, one
document at a time. There are no transactions in the code: `_next_id`'s increment is
the only atomic read-modify-write, and the id is read back in a second call.

The pages of the frontend share the session, the active organization and the query cache,
and nothing else. Each calls its endpoints through `lib/api.ts`, which adds a token and,
from localStorage, the organization.

The hard behaviours, each listed with its line under `hazards` in `PROJECT.json`:
a process that dies, or a call that raises, between two documents that belong
together; a second process that recovers what the first still runs; work that
cannot be cancelled; a document read in one call and written in another, with
other requests between; and counters shared by all of it. In the frontend: what was
asked before an `await` and is answered after the page has moved on; several requests for
one slot, one timer or one cache key; state that tabs share beside state that they do
not; and queries that are invalidated while their first answer is under way.

## How the program runs, and how that is modelled

* **One event loop per process.** `async def` handlers and the queue's worker run on
  it and interleave only at an `await`. Store calls are synchronous and block the
  loop. So a handler's stretch from one `await` to the next is atomic for the rest of
  its loop, however many store calls it makes. In `Idempotency` and `Registry` the
  variable `loop` says who holds it.
* **A thread pool per process.** `def` handlers (`create_webhook_endpoint`, all of
  members, policies and the copilot) run on it and interleave with everything at every store call.
* **Several processes.** The documents speak of several instances and of rolling
  deployments. Instances share Firestore and nothing else.
* **Crashes.** A process loses its loop, its threads, its queue. Firestore keeps every
  document that was written.
* **A browser.** Handlers and effects of a page run to their `await` and interleave there;
  answers arrive in any order, or not at all. A page load loses the state of React, not
  localStorage, the cookie or the requests that were sent. Leaving a page loses its
  component's state; answers it awaited are for nobody, but what its handler still has
  to send is sent. The query cache answers from one request per key; invalidation drops
  the request in flight and sends a new one, and who waited for the dropped one waits for
  that. A query without an answer keeps its first request, which invalidation joins: its
  answer counts as new, even if it was read before what caused the invalidation. (That is TanStack
  Query, 5.100 by the lock file, which is not part of the repository: these definitions are marked
  external. That it drops what nobody has looked at for five minutes is left out.)
* **Store faults.** Any call may raise. A call that raises did not take effect in the
  models. (One that takes effect and then raises is the same as one that succeeds
  followed by a crash of that operation, which `Crash` and `Abort` cover; inside the
  try of `_process_job`, where raising has a branch of its own, it is left out.)

Every store call is one action. In `JobQueue` handlers and worker interleave more
finely than the loop lets them: that adds orders, and no outcome, because a handler
touches only documents of a job no worker has seen. The proofs hold a fortiori.

## Modules

| Module | Models |
| --- | --- |
| `JobLifecycle` | what the queue promises of a job: absent, pending, running, then one verdict, announced at most once after it is reached; back to pending after a restart |
| `JobQueue` | the queue, the worker, recovery, the endpoints that feed it and the two engines as far as they write |
| `JobQueueProofs` | its theorems, among them that it implements `JobLifecycle` |
| `Idempotency` | a key's record and every kind of handler that uses one |
| `IdempotencyProofs` | its theorems |
| `Registry` | counters, systems and audit records and the operations on them |
| `RegistryProofs` | its theorems |
| `Members` | members and invites of one organization, its founding, and every request that reads or writes them |
| `MembersProofs` | its theorems |
| `Copilot` | quota, providers in turn, retries, circuit breakers, counting and logging |
| `CopilotProofs` | its theorems |
| `Session` | who is signed in, in every tab of a browser, and the cookie |
| `Workspace` | the organization every tab works in, and whose data it shows |
| `WorkspaceProofs` | its theorems |
| `SignIn` | the login page and the SSO callback |
| `Scans` | GitHub scans on the scans page: views, polls, links |
| `AppScans` | the other parts of that page: the hub, AWS, Figma |
| `Systems` | the page of AI systems |
| `Policies` | the library of policies and the GitHub checks |
| `PolicyChat` | the conversations that generate policies |
| `OrgSettings` | the organization's profile, its SSO configuration, and switching |
| `Compliance` | evaluations and attestations, page and endpoints |
| `McpServers` | the registry of MCP servers, card and endpoints |
| `Integrations` | the cards that connect other services, and their endpoints |
| `Webhooks` | the card of webhooks, and its endpoints |
| `EventLog` | leafing through the audit log and the activity events |
| `Frontend` | the session and the pages, `Workspace` apart, side by side |
| `FrontendSettingsProofs`, `FrontendProofs` | its theorems: the first has what they need of `McpServers`, `Integrations` and `Webhooks`, the second the rest |
| `MCJobQueue`, `MCIdempotency`, `MCRegistry`, `MCMembers`, `MCCopilot`, `MCWorkspace`, `MCFrontend` | instances for TLC |

### JobQueue

`jobDoc` and `scanDoc` are the two documents of a job; `queue`, `pc` and `cur` are
the in-memory queue, the line of `_process_job` the worker is at, and its job.
`listed` is the result of `list_pending_jobs` that `start` is working through: it is
a snapshot, and the code writes from it. `handler` is a request between `save_scan`
and `enqueue`; `threads` are AWS scans whose awaiter was cancelled and which run on.
`sent` counts dispatched verdicts. `runs`, `abandoned`, `faults` and `interruptions`
are history: what the properties need to say what excuses what.

* The query cuts at the limit and sorts afterwards, so any `RecoverLimit` of the
  active jobs may be listed.
* `_process_job` has three zones. Before the try (`load`, `claim`) a raising call
  drops the job and `_worker_loop` goes on. Inside it, everything leads to the except
  branch, notification included. In the except branch a raising call drops the job
  halfway, with scan and job as far as they got.
* Cancellation is not an `Exception`: it passes through the except branch. It
  happens at awaits only.
* `ScanRaises` needs no store fault: a missing connection or an engine's own
  error raises.
* Violation alerts (`compliance.alert`) are steps of their own because they can raise;
  they are not counted, since their number depends on results that are abstracted.

### Idempotency

A key's `record` is absent (also when expired), processing, or completed with the
resource its response names. `endpoint` says which handler a request runs:

| endpoint | handler | in the model |
| --- | --- | --- |
| `scan` | `trigger_scan`, `trigger_aws_scan` | async, may be rejected after begin |
| `attestation` | `submit_attestation` | async, no await |
| `system` | `create_system` | async, awaits Slack between effect and completion |
| `webhook` | `create_webhook_endpoint` | on a thread |

`made` and `replied` are what the requests of a key created and were told since it
was last unused. `raced` remembers the keys two requests both found unused, `failed`
those with a request that was rejected, raised or died. Expiry waits for requests in
flight: keys live for at least an hour, requests do not.

### Registry

`counter`, `systems` and `audits` are the collections, keyed as in Firestore: a
counter by organization, a document by its id alone. An operation is of one of five
kinds. `create`, `update`, `delete` and `link` (what `run_scan` does at its end) hold
the loop from first to last store call; `record` stands for the member and policy
changes that only record, and runs on a thread. A system is abstracted to its
organization, its creator, its last editor and its last linked scan: enough to see
whether a write undid another. An operation that links several systems does to each
what `link` does to one. `overtaken` remembers allocations that another one bumped
past between increment and read, `recorded` the audit records written.

### Members

`org`, `role` and `invite` are the documents of one organization: whether it exists,
the role of every member, and the invites by id. A user stands for his account and
his address. A request has a label `pc`, its `actor` and the role it acts with,
`mine`: the role read by `resolve_organization_for_actor` at its start, which may be
stale at every later step. It begins with the sign-in that all handlers share
(`ListInvites`, `Accept`, `Join`, `MarkAccepted`, `AcceptedAll`, then `Resolve` for a
token or `Provision` for SSO) and, when the user has no workspace, founds one
(`LookupOrg`, `CreateOrg`, `AddOwner`); then it is one of the handlers.

* `target` is whom the request is about, `grant` the role it gives, `todo` the
  invites it listed and `picked` the one in hand: locals, hence possibly stale.
* `Founders` are the users whose workspace name leads to the id of this
  organization. Two of them may both find the id free, because `_unique_org_id` reads
  and `create_organization` writes; both then become owners. No request model accepts
  the role `owner`, so this is how an organization gets two.
* `founded` remembers who founded the organization, `raced` the users two requests
  were about at the same time. A request is about its target and, while it signs
  somebody in or founds, about its actor (`Subject`).
* Members of other organizations are users without a role here. A user whose
  request resolves to another organization leaves the model (`Finish`).

### Copilot

`quota`, `month` and `daily` are the three documents of an organization, `circuit` and
`failures` the breaker of a process for each provider: `open_until` in the future, in
the past, or zero, and the count. `req` holds the locals of a request: its user and
operation, the `limits` it read, the provider it is `at`, the `round` (asked again when
the text is not JSON) and the `attempt` (asked again when the transport fails).

* A call is one label, `call`; `Answer` and `CallFails` end it whenever they like, so
  requests overtake each other during it. `CountFailure` and `Trip` are two steps,
  because the breaker has no lock and the clock is read between.
* Time is two actions: `Lapse` ends the time of an open circuit, `NextDay` is midnight.
  The day of the count is read when the answer has come.
* `explain` is the operation of `systems.py`: claude only, one round, and no look at
  the circuit, whose state it changes all the same.
* A limit of 0 is none, as in the code: `> 0` for the month, `or None` for the others.
  Cost is in fifths of the estimate, so that the multiplier 0.8 is 4. A quota update
  leaves what its payload omits; since any quota may be asked for next, that is no
  further behaviour.
* `owes` says that a provider has been heard of and nothing has been logged yet;
  `unlogged` that some provider was given up in that state.

### Session and Workspace

Both are about one browser with several tabs. `Session` has what Firebase keeps (`account`),
the `cookie` that `middleware.ts` admits pages by, and for every tab the user that
`AuthProvider` knows, the path and the `step` of `signIn` or `logOut` it awaits. A call to the
session route takes effect when its reply arrives (`Reply`); `calls` counts those in flight.
`disturbed` remembers that calls for different users crossed, which the code does not
prevent, or that one was lost which mattered.

`Workspace` keeps of the session who is signed in and that signing out takes two steps. `key`
is localStorage, `active` the provider's state, `asking` the requests of `refresh` (several may
be out), `fetch` and `shown` the query of a tab. A request is told by its user and
organization, as the server will resolve it. `apart` and `entangled` remember what the code
leaves open: requests of this tab led elsewhere by another one, a switch during a first load,
an account replaced without a sign-out, a write during one.

### SignIn

On the login page: `timer` is the debounce of the lookup, `inquiries` the lookups out,
`discovery` the one the form goes by. In the callback a `run` is a run of the effect; a new run
cancels the former one, but not the exchange it has sent. Runs are caused by every
render of the provider, signing in included, because the effect depends on a function
that is made anew by it. `Exchange` and `Consume` are the two store calls of the endpoint; the
token is minted after the second. Whatever goes wrong on the way (`ExchangeFails`: the request,
the code's lifetime, the store, the minting, the reply; `FirebaseRefuses`; `NoSession`) ends in
the page's catch. Once the code is marked, it is gone: `upset` remembers that, and `CodeNotWasted`
says that there is no other way to waste it but a second run during the exchange. `EndIsShown`
says that a callback that has ended without signing in tells so, although a run that was
cancelled says nothing.

### Scans and AppScans

`starts` gives each scan the page has asked for a state: asked for, polled, answered,
orphaned when the page was left. `view`, `current` and `timer` are the page's single slots for
all of them. The link `?start=run` is handled in steps (`HandleLink`, `Replaced`, `Recover`)
over `pending`, the intent in sessionStorage. Parts of the page a user reaches only from the
hub are in `AppScans`: AWS scans, the Figma panel with its frames, selection and results, and
the panel of apps without a scanner, which waits 1.2 seconds and reports a scan that was never
made.

### Systems, Policies and PolicyChat

`stored` is the server, `listed` the cached list, and a fetch reads at one moment and answers
at a later one; `Policies` reads system by system. The check of a system (`ScanOf` in
`Systems`) is computed in the page from what it knows of the system, and stored afterwards. In
`PolicyChat` a turn is a question and its answer; `pending` is what the page shows before
`persistConversation` has filed it, `filed` the server's history, `cached` the page's copy, `fetch`
and `answer` the request for it and what it has read, `loaded` and `invalid` whether there is a
copy and whether it is known to be old. A turn that is filed invalidates the history and, if it is
on show, waits until the request has ended (`wait`); then the pending messages are emptied, whatever
they hold. `disturbed` remembers what lets a message disappear: a filing that failed or was
overtaken by the user, and a request that was read before the turn was filed and counts all
the same, as a first load may.

### OrgSettings

A value is told by the organization it is of, or was typed for: that is all that
`SettledShowsActive` and `CertificateStaysHome` need. `flight[k]` is the organization in the header
of the request that will answer cache key `k`. A switch invalidates before React renders, so
that the former organization's key is asked with the new one's header; the page is right
all the same, because it looks at another key by then, and coming back invalidates again.

### Compliance, McpServers, Integrations and Webhooks

Page and endpoints in one module. `jobs` are requests with the phase they are in: sent, read
by the handler, done, and for a handler of the page that awaits a refetch, waiting. Between
`read` and its end a handler of `mcp.py` holds a document that others may change. The slots of
a card (busy server, tested webhook, notice, timers) are variables of their own. The browser
leaves the page for a provider's consent and comes back to a new one.

### EventLog

The log is a sequence of events in the order of their time, newest first; an event given an
earlier time is inserted. A page is cut by offset from the newest. `seen`, `last`, `aim` and
`straight` are the reader's history: what was there at the first page, what was read since, and
whether every page was at least as new as the one before. The log of the model only grows; a
stored one may lose a record to another organization's (`registry_append`), and of a reader of such
a log nothing is claimed.

### Frontend

The modules `Session` to `EventLog`, `Workspace` apart, have no variable in common and no
action of one needs another, so they stand side by side: `part` is chosen
initially and the part's variables stand in the slots `s1`, `s2`, and so on. It is the sum
of thirteen state spaces, not their product. Its properties name those of the parts,
grouped by what they say. `Frontend` has the constants of all parts as its own and assumes of
them what the parts do; `MCFrontend` gives it sets for TLC.

## Runs and their bounds

| Run | Question | Bounds |
| --- | --- | --- |
| `job_queue` | safety and liveness on one instance; does it implement `JobLifecycle`? | a GitHub and an AWS job, one store fault, two interruptions, recovery limit 1 |
| `job_queue_rolling` | what two instances leave of it | one job, one fault, two interruptions |
| `idempotency` | one effect per key, whatever happens; does the loop keep requests apart? | three requests, two keys, two instances, every endpoint, two faults |
| `registry` | does the loop make updates atomic and ids unique? what do threads and instances leave of the audit log? | three operations, two organizations, two instances, one fault |
| `registry_append` | a documented claim that fails | two operations, each of an organization of its own (`ApartSpec`) |
| `members` | does the founder stay owner, do used invites go, do several owners leave one by one? | three users, two of them founders, two requests at a time, one invite, one fault |
| `members_last_owner` | a documented claim that fails | two users, both founders |
| `copilot_quota` | by how much are limits passed? | two users, two requests at a time, four in all, three quotas, two days, one provider |
| `workspace` | do a tab's data, its name and its requests agree? is the stored organization the user's? | two users, two organizations, two tabs of which one queries, two acts |
| `frontend` | does the cookie follow the account, does signing in end as it says, do the pages and the cards come to show what the server has for what they name, does a reader of the log miss nothing? | those of `Frontend.cfg`, below |
| `settings_sso` | a documented claim that fails | two organizations, one tab, four acts |
| `copilot_providers` | charges, circuits, termination | two requests, two providers, one retry, circuits that open at once, one fault |

Some properties speak of the part of the system in which they hold: `UpdateSeesLatest`
and `SystemIdsDistinct` of operations that are all in one process, `AuditTrail` of one
organization, `EventLoopSerialises` of a key whose requests all go to one process,
`ImplementsLifecycle` of the time before the first fault. `at` and `org` are fixed at the start,
so one run covers these cases and the others side by side.

Why these bounds are enough to see the interesting cases: two jobs let one wait
while the other runs, and with a recovery limit of one the limit bites; two
interruptions let a recovery itself be interrupted, or a rerun be followed by another;
one fault is enough to enter every error path from every state, and two let a retry
fail too. Three requests let one race with a second and a third replay the result.
Three operations create a system and let a delete or a link fall around its update, or let
one allocation overtake another while a third reads. The bounds limit only
the environment (`MaxFaults`, `MaxInterruptions`, the finite sets of jobs, requests
and operations), never the code; the theorems drop them. Requests of `Members` and
`Copilot` are slots that are used again, so two of them are two at a time and any
number in sequence (in `Copilot`, up to `MaxAsked`); four requests are what a limit of
two and two in flight can let through, and one more than may get through when a
comparison is off by one. In `copilot_quota` circuits open at the second failure, in
`copilot_providers` at the first, so that one request meets what the other's failure did.
`idempotency`, `registry`, `members*` and `copilot_quota` use symmetry in keys, operations,
requests, invites, founders and users: Init treats those permuted alike and no property
orders them. No liveness is checked there.

In `frontend`, `Session` has two tabs, two users and two acts; `SignIn` three changes of the
address, so that two lookups are out while the address changes again; `Scans` two scans and two
visits to the page, so that it may be left between writing the intent and `Recover`, and opened
again, and one scan of the past, beyond the limit of the list, so that a link to it has to fetch it
(one that is listed is shown at once, as the page's own scans are); `AppScans` two requests in
flight, for two projects with a file in common and files that share a node; `Systems` three
requests, so that a change meets a dialog and a list; `PolicyChat` two turns and a move; `Policies`
two writes; `OrgSettings` two organizations and four acts; `Compliance` two scans, two frameworks,
three acts; the cards of MCP servers five acts, so that a server may be removed between two
registrations that overlap a third, the other cards four; `EventLog` pages of one event, on a log
of three that may grow to four, and one act. An act is what a user does or a fault; answers and
timers are not counted. The cases that need most are two requests that overlap, a change by
somebody else and an answer that is lost, and each fits.

Deadlock is not checked in `JobQueue`, `Idempotency`, `Registry` and the frontend: with all
jobs or operations finished, or all acts spent, the system rests. `Members` and `Copilot` never rest: a next request, or an update of the quota, is
always possible.

The frontend's modules state no fairness: the browser may be closed at any time, a promise
may never settle, and no liveness is claimed. Their properties say what holds once nothing
is in flight.

**Fairness** (`FairSpec`). In `Copilot`: the steps of each request together, because a
thread is scheduled again and every provider client has a timeout (`copilot_timeout_seconds`);
whether a call succeeds, fails or is garbled is not fair. Under it every request is
answered, by an error if need be. In `JobQueue`: `Start`, because the platform restarts a
process that is down; `StartWorker`, `Recover`, `Enqueue`, because a coroutine that was
started is scheduled again; and the worker as a whole, because every call it makes
returns or raises: HTTP clients have timeouts. No single outcome of a call is fair, the
two scan outcomes included, nor is any crash, stop or fault. Under it every accepted job
finishes, unless a store fault outside the try made the worker drop it or a start did
not list it.

## Proofs

All theorems hold for any sets of jobs, requests, operations, instances and any
bounds. "Single instance" is written `\A i, k \in Instances : i = k`.

**JobQueueProofs.** `IInv` is inductive on one instance. Its parts:

* `WorkerInv`: the worker has a job exactly while it is past its `get`.
* `DInv`: a job document has a scan document (`DocInv`); nothing changes a job between
  its listing and its recovery (`ListedInv`); only AWS jobs have detached threads; and
  `DocsAt`, which says for every line of `_process_job` what the two documents hold. This
  is what `JobScanAgreement` lacks: it speaks of finished jobs, and whether the worker
  can break it depends on what was true two store calls earlier.
* `VerdictInv`: without faults a job has announced nothing until it is finished and its
  dispatch has come.
* `RunInv`: a job that can still be claimed has a claim to spare.
* `NoLostJob` is inductive with them.

From these: `ScansAgree`, `NothingLost`, `OneVerdictPerJob`, `RerunsBounded`. `Refinement`
shows that up to the first store fault every step is a step of `JobLifecycle` or changes neither
status nor announcements. `TypeCorrect` needs no single instance.

With several instances a worker's job may be listed, recovered and run by another one at
any time, so that nothing like `DocsAt` holds, and each theorem has an invariant of its own:

* `KnownInv`: a job that a document, a handler or a worker knows of has a scan document.
* `RollingInv`, before any fault or interruption: the scan of a finished job is no longer
  pending, nor is that of a job whose worker has passed `begin`; and a scan that reads as running
  has a worker at the lines that settle it (`Settling`). That last part is what `RollingAgreement`
  needs and what a step of the other instance could break: it is kept because no line
  writes "running" except the one that comes before them. It gives `RollingDeploymentsAgree`.
* `ClaimsInv`: the verdicts told of a job, and the workers that still have one to tell
  (`Tellers`), are together no more than the claims of that job and the faults. Every step
  pays for itself: `StepPays` says so of the instance that takes it, and `CountOne` turns that into
  a count. It gives `VerdictsAreClaimed`.

**IdempotencyProofs.** For keys that were not raced for, `KeyInv` says at most one
request is between save and completion (`HolderInv`), and what the record says about
what was made (`RecordInv`). It gives `EffectsAreUnique` and `RepliesAreTrue` for any
number of instances, threads and failures. `StuckMeansFailure` is inductive by itself.
`LoopSerialises` uses that an async request that is past its read holds the loop of its
process (`LoopInv`).

**RegistryProofs.** An operation past its first store call holds the loop of its process
(`LoopInv`), so while one is under way no other one's turn comes there (`Alone`). From this
`UpdatesAreAtomic`, and, with `SystemIdInv` (ids in use lie below the counter that is
about to be read), `SystemIdsAreDistinct`. `AuditRecordsStay` is about threads and
instances too: `AuditIdInv` says that an id in use is no larger than the counter, that
an allocation nobody overtook is alone and above every other, and hence that an id is
shared only if one of its users was overtaken.

**MembersProofs.** `TypeCorrect` rests on `RequestInv` (what a request at each label has
in hand). It includes that no request gives, and no invite holds, the owner role: that is
what the next theorem builds on. `FounderKeepsOwnership` is not inductive: who the
founder is, is settled only by `AddOwner`, and requests act with roles they read before.
`DocumentsOK` adds that before the organization is founded nobody is a member and nothing
is invited, and that only founders are owners. `ApartFromOwner` says of every request, whatever
it holds and however stale, that before the founding it is still signing in; that a role
`owner` it acts with is a founder's; that one which counts owners is a founder's about
another founder; and that none is about to write the membership of the only one.

The other two theorems are about what requests that act on one user do to each other.
`Alone` says that two requests about one user are remembered in `raced`; it is kept because
every step `Moves` one request only. `OwnersLeaveInTurn`: as long as no founder is in
`raced`, who is given a role has none (`Checked`), no two requests take an ownership at a time
(`OneTakes`), and who is about to lose one leaves another owner (`AnotherOwner`; the count of
owners was right when it was made, and `NotTheOnlyOwner` gets the other owner out of
it). `InvitesCleared`: `Quiet` speaks of users nobody acts on; `Clearing` says for every label
what the one request that acts on a user knows: one that signs in holds all of his pending
invites, one that invites him knows that he is no member.

**CopilotProofs.** `TypeCorrect` says among others that no request asks a provider beyond
the end of the order. `MonthlyLimitHolds` and `DailyLimitHolds` are not inductive, as a count grows
long after the check. `MonthlyInv` adds to the count the requests that are `Admitted` and
uncounted: the check admits one only while the count is below the limit, when the sum is
at most limit - 1 + requests; counting moves one from the second term to the first; nothing
else adds to either. `DailyInv` does the same for each user and day, where a request may still be
counted on any day that is not over (`AdmittedOn`), and needs `DaysInv`: days to come have
no counts. Both are about every number of users, requests, providers and quotas,
under the condition that every quota, once clamped, has a limit. (With a platform maximum
of 0 the clamp would make every quota unlimited; the deployment's default is 5000.)
`Classify` sorts the steps: all but five kinds admit nobody, count nothing and end no day.

`ChargesAreTrue` is inductive with the types. It speaks of a sum over all documents of the day,
as the size of the set of numbered charges (`DailyCharges`): an increment adds one
element to it (`OneCharge`). `IdleOrCharge` sorts the steps into those that
charge and answer nothing, the two increments, the reply and the faults between them.
`OpenCircuitsAreAvoided` is an action property: `TurnsToClosed` shows of each step that a
request turns only to a provider whose circuit is not open, when the circuit is looked at after the
step, explanations apart.

**WorkspaceProofs.** `KeyIsOfAccount` needs what holds between the two steps of a sign-out:
that nothing is stored while a tab is leaving, nor when nobody is signed in (`KeyInv`).
`ShownIsOfActiveOrganization` is not inductive, since it speaks of tabs with nothing in flight:
`TabInv` adds that an answer that is under way and will be accepted is for where requests lead
now (`Aligned`), and that a tab that is not signed in, unless it was led apart, holds nothing
(`Blank`). `LedKeeps` then treats everything that other tabs and the session do to a tab at
once. The assumptions are those the module names: a user's primary organization is his own.

**FrontendProofs.** `Frontend` is one part at a time, so `FrontendInv` is "if the behaviour is
about this part, the part's `IInv`", and `PartMoves` shows that a step of `Frontend` is a step
of the part, or leaves all its variables alone. The `IInv` of each part stands at the end of the
part's module. What it adds to the promise, which speaks of moments at which nothing is in
flight, is what holds of the requests, answers and timers that are under way:

* `Session`: unless calls crossed, those in flight are all for one user, what they will set
  is right or some tab has still to learn who is signed in, and a wrong cookie will be replaced
  (`CallsInv`). A sign-out in a tab that has already heard of one sends nothing; that this is
  harmless is `KnownInv`: if somebody is signed in, some tab knows of somebody, and will send.
* `SignIn`: the timer and the lookups that are out are about the address on show
  (`LookupInv`); runs begin one after the other, and the one that is not cancelled has not ended or has
  said so (`RunsInv`, which is `EndIsShown` before the end); unless something went wrong, one run
  holds the code it was granted, and until it has the reply that run is live (`CodeInv`).
* `Scans`: a link that still starts a scan has one to come (`OwedInv`); unless requests overlapped
  one scan is made at a time and its interval is the one that ticks (`FlightInv`).
* `AppScans`: unless an answer was overtaken, results in flight and on show are of the frames
  that are listed (`PanelInv`).
* `Systems` and `Policies`: unless something was missed, a fetch in flight has read what is
  stored, and without one that is what is listed (`ListInv`, `ReadInv`, `ChecksInv`); an answer
  under way is for the dialog that is open (`AdviceInv`).
* `PolicyChat`: what each turn, at each point of its filing, has left in the stored, the cached
  and the pending messages, and in the answer that is under way (`FiledInv`, `FilingInv`,
  `ShownInv`): what a request has read when a turn's wait ends holds the turn.
* `OrgSettings`: unless the page was led astray, the request under the active organization's
  key names it, or none is out and what is cached there is its own (`KeyedInv`).
* `Compliance`: an evaluation of another scan comes only to a scan that was crossed
  (`CrossedInv`); once items are attested, the one refresh under way counts them all, or what is
  cached does (`CountedInv`).
* `McpServers`: the id of a server that is being registered is known to nobody (`FreshInv`); a
  request that has read a document nobody else has read is alone with the stored one
  (`WorkInv`), so that saving it loses nothing; a URL being registered is nobody's
  (`UrlInv`); the card has what is stored or an answer that will make it fetch (`CardInv`).
* `Integrations` and `Webhooks`: the same for the cards, with what notices, channels, tests and
  secrets wait for.
* `EventLog`: the order of two events never changes, so that a page is described by
  ranks: `DataInv` says that an event whose rank in the log the page was cut out of is beyond the
  pages before it is on the page or beyond it, and `ReadInv` that what is still to be
  read was beyond the page read last. Between two pages events only come in front, and ranks
  only grow (`LogRanks`, `LogGrows`).

The attempts to prove these found two promises that do not hold, where the bounds of the run had
kept TLC from the counterexample, and two that could not be reasoned about:

1. `McpServers` promised that a URL is registered once unless its registrations overlapped. With
   five acts it need not be: a server removed while its document is read and saved comes back, next
   to one registered meanwhile. The promise is now about servers that no two requests worked on at a
   time, and the run takes five acts instead of four.
2. `Integrations` promised that the channel belongs to the workspace that is connected, as long as
   nobody else has changed the card since the page was opened. With seven acts it need not: a
   change of channel that is asked of one workspace and performed after somebody else has connected
   another leaves the channel of the former to the latter, and opening the page again does not mend
   it. `astray` now names that case; the run, with four acts, does not reach it.
3. The types of `Integrations`, `McpServers`, `Webhooks` and `EventLog` said of fields what they
   hold, not what the records are made of, which a proof needs to say what a step leaves of them.
4. `EventLog` cut pages with `SelectSeq`, which is recursive. `Page` now counts the events up to one
   (`Upto`), which is what an offset does.

Only model-checked: liveness (`EveryJobFinishes`, `EveryRequestAnswered`), and ENABLED with it,
which is beyond the prover. Every safety property and every action property that a passing
run checks is stated by a theorem.

## Where the code and its documents disagree

Runs show three of them:

1. *Organizations overwrite each other's audit records* (`registry_append`). The counter is
   per organization (`docs/data-and-storage.md`), the document id is not. In the run's trace one
   operation of each of two organizations records a change; both records get id 1, and the second
   replaces the first. No allocation overtakes another of its organization. The same holds
   for systems, events and LLM logs. Properties about one organization (`AuditTrail`,
   and `SystemIdsDistinct` per organization) hold; across organizations they do not.
2. *An organization without an owner* (`members_last_owner`). `_ensure_not_last_owner` counts
   the owners, the role is written or the member deleted in a later call. Two owners who
   act on each other at once both count two.
3. *One organization's certificate saved for another* (`settings_sso`). The SSO form is not
   tied to an organization. A switch fills in what the other organization's query
   answers, never the certificate, and saving sends the form under the organization
   active then. In the run's trace a certificate is typed for one organization, the page
   switches to another, that one's settings arrive, and the form is saved there with the
   certificate in it. Saved before the settings arrive, the other fields are the former
   organization's too. `docs/sso-saml-setup.md:15` has it that "your configuration only affects
   your organization".

Four more are stated in the modules, each with what refutes it; to see the counterexample,
check the formula with the module's instance:

* `TerminalIsFinal` (`JobQueue`): `_notify_scan_success` runs inside the try. Slack and delivery
  errors are swallowed, the lookup of webhook endpoints is not; if it raises, a completed scan
  and job are marked failed and `scan.failed` is announced. `docs/architecture.md:86`.
* `NoDuplicateEffects` (`Idempotency`): begin reads, then writes. On one instance the event loop
  protects the async endpoints, not the threaded one; on two nothing does.
  `docs/security-overview.md:30`.
* `EveryInteractionLogged` (`Copilot`): all three policy functions raise for a text that is not
  JSON before they log it; `explain_missing_controls` logs first. `docs/security-overview.md:36`.
* `UnnarrowedScanCoversAll` (`Scans`): the comment at `scans/page.tsx:127` says that a scan without
  an explicit selection uses every active policy. The recovery branch (lines 259-296) may run
  before the policies are fetched, and then asks for none; `app/services/scan.py` rates a scan
  of no policy 100.

And `SignIn` shows that single sign-on cannot be begun in a production build: `lib/api.ts:66-80`
makes no request without a token, the lookup included, and nobody who wants to sign in has
one (`docs/sso-saml-setup.md:17` describes the flow). With a development token it works;
`devToken` is fixed at the start, either way.

The models show more gaps that no document denies. `trigger_scan` saves the scan,
then the job: a crash between them (`Crash` while `handler` holds the job) leaves a
pending scan that no recovery finds, since recovery lists jobs. A 400 or 404 after
`begin` (`Reject`) leaves the key processing for its lifetime, 24 hours by default, so that
every retry is told that a request is in progress: that is the exception for rejections in
`StuckOnlyAfterFailure`. A one-time code is marked as used before the token is minted and the browser
is signed in, so that any failure after it costs the user another round through the
identity provider (`ExchangeFails`, `FirebaseRefuses`, `NoSession` in `SignIn`). A turn of a
conversation that was filed while the first load of its history was under way may vanish
from the page: the invalidation joins that load, which may have been read before, and the pending
messages are emptied (`Invalidated` in `PolicyChat`). An SSO configuration saved as disabled is stored without looking at
the certificate, so that saving the form, whose certificate is never filled in, erases it
(`Stored` in `OrgSettings`). And every history variable of the frontend's modules names a case
the code leaves open: the condition under which its property holds is the finding.

## What is not modelled

Listed component by component in `PROJECT.json`. In short: formatting, reports, PDF,
presets, prompts and parsing of model output; clients of GitHub, AWS, Slack, Figma,
Firebase and the model providers; encryption; the declarative Firestore rules; of the
frontend what has no state of its own (dashboard, marketing, the demo, markup). Of the
frontend's modelled parts: search, sorting, exports, the wording of generated policies, members,
invites and copilot limits on the settings page (cached and fetched as SSO is). Of the
backend's modelled parts: the score of a scan (a scan completes or raises), Slack
messages, per-endpoint webhook delivery, the 4xx answers that precede any write, bulk
import (a sequence of `create`), chats, governance policies, events and LLM logs (they
allocate and store as `record` does), and the SIEM export that follows an audit record
(it swallows every error and changes nothing). Of the copilot: the breakers of other
processes (each sees only its own), the creation of a breaker's state on first use, the
change of the month, an answer of the SDK in a shape its provider's code does not expect,
and the chat that keeps a policy answer. The queue's semaphore is not modelled: one
worker takes one job at a time whatever its size.

## Plan

Done: everything in the table of modules, its runs and theorems.

What would add most next:

1. `ScanRequest`: `Idempotency`, `JobQueue` and `Scans` composed, as `trigger_scan` composes the
   first two: a retried request, one scan, one verdict, shown.
2. `Governance`: policy versions, which an update increments after reading them; the exchange
   code of single sign-on on the server; the unlocked bucket of the rate limiter.
3. Scores and derived controls as operators checked against their definitions.
4. Proofs: that two `JobQueue` instances implement `JobLifecycle` as long as neither
   is interrupted.
