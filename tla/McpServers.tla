----------------------------- MODULE McpServers -----------------------------
(***************************************************************************)
(* The registry of MCP servers: its card on the settings page              *)
(* (app/(app)/settings/page.tsx) and its endpoints                         *)
(* (app/api/routes/mcp.py), for one administrator with one tab.            *)
(*                                                                         *)
(* The endpoints that talk to a server read its document, await the        *)
(* server, and save the whole document. The card marks one server as busy, *)
(* whichever was asked for last, and the browser leaves the page for the   *)
(* provider's consent and comes back through the backend's callback.       *)
(***************************************************************************)
EXTENDS Naturals

CONSTANTS
    Urls,
    MaxActs        \* bound: requests, consents, reloads and faults

McpAssumption == Urls # {} /\ MaxActs \in Nat

Ids == 1..MaxActs         \* a server is named by the request that registered it
NoId == 0

VARIABLES
    needs,         \* whether the server at each URL asks for OAuth
    servers,       \* the stored documents by server
    jobs,          \* requests: on their way, running on the backend, or answered
    spent,         \* the codes the provider has exchanged, by the authorization they came from
    place,         \* where the browser is: the page, the consent screen, the callback
    asked,         \* the authorization that consent and callback are about, and its server
    list,          \* the query ["mcp-servers"]: what each card says
    fetch,         \* its fetch
    busy,          \* mcpBusyId
    connecting,    \* connectingMcp
    modal,         \* mcpAuditModalItem
    acts,
    removed,       \* history: the servers that were deleted
    granted,       \* history: the servers whose authorization was completed
    crossed,       \* history: the servers on which two requests overlapped
    doubled,       \* history: two registrations of one URL overlapped
    raced          \* history: the page may be behind: an answer was lost, a request outlived the
                   \* page that had made it, or an answer came during the first fetch

backend == <<needs, servers, spent>>
card == <<list, fetch, busy, connecting, modal>>
browser == <<place, asked>>
history == <<removed, granted, crossed, doubled, raced>>
vars == <<backend, jobs, card, browser, acts, history>>

Statuses == {"none", "bearer", "oauth_required", "oauth_connected", "error"}
Kinds == {"register", "audit", "remove", "authorize", "callback"}
Phases == {"sent", "read", "exchanged", "done", "failed", "waits", "free"}
Docs == [url : Urls, token : {"", "bearer", "oauth"}, client : BOOLEAN,
         verifier : 0..MaxActs, status : Statuses]
Requests == [n : 1..MaxActs, kind : Kinds, id : Ids, code : 0..MaxActs, doc : Docs,
             phase : Phases, own : BOOLEAN]
NoList == [id \in {NoId} |-> "none"]
Blank == [url |-> CHOOSE u \in Urls : TRUE, token |-> "", client |-> FALSE, verifier |-> 0, status |-> "none"]
View(s) == [id \in DOMAIN s |-> s[id].status]
Idle == [phase |-> "idle", res |-> NoList]
Sent == [phase |-> "sent", res |-> NoList]

TypeOK ==
    /\ needs \in [Urls -> BOOLEAN]
    /\ DOMAIN servers \subseteq Ids /\ servers \in [DOMAIN servers -> Docs]
    /\ jobs \subseteq Requests
    /\ spent \subseteq Ids /\ asked \in [code : 0..MaxActs, id : 0..MaxActs]
    /\ place \in {"page", "consent", "callback"} /\ (place # "page" => asked.id \in Ids)
    /\ busy \in Ids \cup {NoId} /\ connecting \in BOOLEAN /\ modal \in Statuses \cup {""}
    /\ acts \in 0..MaxActs
    /\ removed \cup granted \cup crossed \subseteq Ids /\ {doubled, raced} \subseteq BOOLEAN

Init ==
    /\ needs \in [Urls -> BOOLEAN]
    /\ servers = [id \in {} |-> NoId] /\ jobs = {} /\ spent = {}
    /\ place = "page" /\ asked = [code |-> 0, id |-> NoId]
    /\ list = NoList /\ fetch = Sent /\ busy = NoId /\ connecting = FALSE /\ modal = ""
    /\ acts = 0
    /\ removed = {} /\ granted = {} /\ crossed = {} /\ doubled = FALSE /\ raced = FALSE

Act == acts < MaxActs /\ acts' = acts + 1

-----------------------------------------------------------------------------
(* The endpoints.                                                          *)

Running(j) == j.phase \in {"read", "exchanged"}
Becomes(j, k) == jobs' = (jobs \ {j}) \cup {k}
Moves(j, phase) == Becomes(j, [j EXCEPT !.phase = phase])
Crossing(j) == IF \E k \in jobs \ {j} : k.id = j.id /\ Running(k) THEN crossed \cup {j.id} ELSE crossed

\* Mutant: nobody looks whether the URL is registered.
ReadRegisterAnyway(j) ==
    /\ j.kind = "register" /\ j.phase = "sent"
    /\ Moves(j, "read")
    /\ doubled' = (doubled \/ \E k \in jobs : k.kind = "register" /\ Running(k) /\ k.doc.url = j.doc.url)
    /\ UNCHANGED <<backend, card, browser, acts, removed, granted, crossed, raced>>

\* register_server up to its await: a URL is registered once.
ReadRegister(j) ==
    /\ j.kind = "register" /\ j.phase = "sent"
    /\ IF \E id \in DOMAIN servers : servers[id].url = j.doc.url
       THEN Moves(j, "failed")
       ELSE Moves(j, "read")
    /\ doubled' = (doubled \/ \E k \in jobs : k.kind = "register" /\ Running(k) /\ k.doc.url = j.doc.url)
    /\ UNCHANGED <<backend, card, browser, acts, removed, granted, crossed, raced>>

\* audit_server, start_oauth and oauth_callback up to theirs; the callback needs a verifier.
ReadDocument(j) ==
    /\ j.kind \in {"audit", "authorize", "callback"} /\ j.phase = "sent"
    /\ IF /\ j.id \in DOMAIN servers
          /\ j.kind = "callback" => servers[j.id].verifier # 0
       THEN Becomes(j, [j EXCEPT !.phase = "read", !.doc = servers[j.id]])
       ELSE Moves(j, "failed")
    /\ crossed' = Crossing(j)
    /\ UNCHANGED <<backend, card, browser, acts, removed, granted, doubled, raced>>

\* delete_server.
Delete(j) ==
    /\ j.kind = "remove" /\ j.phase = "sent"
    /\ IF j.id \in DOMAIN servers
       THEN /\ servers' = [id \in DOMAIN servers \ {j.id} |-> servers[id]]
            /\ removed' = removed \cup {j.id}
            /\ Moves(j, "done")
       ELSE Moves(j, "failed") /\ UNCHANGED <<servers, removed>>
    /\ crossed' = Crossing(j)
    /\ raced' = (raced \/ ~j.own)
    /\ UNCHANGED <<needs, spent, card, browser, acts, granted, doubled>>

\* exchange_code: the provider wants the verifier of the authorization the code came from,
\* and takes a code once. The verifier is cleared in memory, and stored after the audit.
Exchange(j) ==
    /\ j.kind = "callback" /\ j.phase = "read"
    /\ IF j.doc.verifier = j.code /\ j.code \notin spent
       THEN /\ spent' = spent \cup {j.code}
            /\ Becomes(j, [j EXCEPT !.phase = "exchanged", !.doc.token = "oauth", !.doc.verifier = 0])
       ELSE Moves(j, "failed") /\ UNCHANGED spent
    /\ UNCHANGED <<needs, servers, card, browser, acts, history>>

Probed(doc) == IF doc.client THEN "oauth_connected" ELSE IF doc.token # "" THEN "bearer" ELSE "none"

\* The end of _audit_server, or of start_oauth, and save_mcp_server, which makes the document
\* anew if there is none. A server is out of reach, or refuses a token, only now and then.
Save(j) ==
    /\ j.phase = IF j.kind = "callback" THEN "exchanged" ELSE "read"
    /\ \E status \in Statuses :
        LET doc == IF j.kind = "authorize"
                   THEN [j.doc EXCEPT !.client = TRUE, !.verifier = j.n, !.status = "oauth_required"]
                   ELSE [j.doc EXCEPT !.status = status]
            expected == IF needs[j.doc.url] /\ j.doc.token = "" THEN "oauth_required" ELSE Probed(j.doc)
        IN  /\ IF j.kind = "authorize" \/ status = expected
               THEN status = doc.status /\ UNCHANGED acts
               ELSE status \in {"error", "oauth_required"} /\ Act
            /\ servers' = [id \in DOMAIN servers \cup {j.id} |-> IF id = j.id THEN doc ELSE servers[id]]
            /\ Becomes(j, [j EXCEPT !.phase = "done", !.doc = doc])
    /\ granted' = IF j.kind = "callback" THEN granted \cup {j.id} ELSE granted
    /\ raced' = (raced \/ ~j.own)
    /\ UNCHANGED <<needs, spent, card, browser, removed, crossed, doubled>>

\* Discovery, registration of a client or exchange fails, or the request never arrives, or
\* its answer is lost.
Fail(j) ==
    /\ j.phase \in {"sent", "read", "done"} /\ Act
    /\ j.phase = "read" => j.kind \in {"authorize", "callback"}
    /\ Moves(j, "failed")
    /\ raced' = (raced \/ j.phase = "done")
    /\ UNCHANGED <<backend, card, browser, removed, granted, crossed, doubled>>

-----------------------------------------------------------------------------
(* The card.                                                               *)

Request(kind, id, doc) ==
    [n |-> acts', kind |-> kind, id |-> id, code |-> 0, doc |-> doc, phase |-> "sent", own |-> TRUE]

CanRegister == place = "page" /\ ~connecting
CanClick(kind, id) ==
    /\ place = "page" /\ id \in DOMAIN list /\ id # NoId /\ busy # id
    /\ kind = "authorize" => list[id] = "oauth_required"

\* handleConnectMcp.
Register(url) ==
    /\ CanRegister /\ Act
    /\ connecting' = TRUE
    /\ \E token \in {"", "bearer"} :
        jobs' = jobs \cup {Request("register", acts', [Blank EXCEPT !.url = url, !.token = token])}
    /\ UNCHANGED <<backend, list, fetch, busy, modal, browser, history>>

\* handleAuditMcp, handleDisconnectMcp and handleAuthorizeMcp.
Click(kind, id) ==
    /\ CanClick(kind, id) /\ Act
    /\ busy' = id
    /\ jobs' = jobs \cup {Request(kind, id, Blank)}
    /\ UNCHANGED <<backend, list, fetch, connecting, modal, browser, history>>

\* refetchMcp: a fetch under way is dropped, but the first one is joined.
Refetching(j) ==
    /\ fetch' = IF list = NoList /\ fetch # Idle THEN fetch ELSE Sent
    /\ raced' = (raced \/ (list = NoList /\ fetch.phase = "served"))
    /\ jobs' = {[k EXCEPT !.phase = IF k = j THEN "waits" ELSE IF k.phase = "waits" THEN "free" ELSE @]
                   : k \in jobs}

Answered(j) ==
    /\ j.own /\ j.phase = "done" /\ j.kind \in {"register", "audit", "remove"}
    /\ Refetching(j)
    /\ UNCHANGED <<backend, list, busy, connecting, modal, browser, acts, removed, granted, crossed, doubled>>

\* After the refetch, or at once after an error, the card is idle: whatever it is busy with.
Finish(j) ==
    /\ j.own /\ j.kind # "callback" /\ j.phase \in {"free", "failed"}
    /\ jobs' = jobs \ {j}
    /\ IF j.kind = "register"
       THEN connecting' = FALSE /\ UNCHANGED busy
       ELSE busy' = NoId /\ UNCHANGED connecting
    /\ modal' = IF j.kind = "audit" /\ j.phase = "free" THEN j.doc.status ELSE modal
    /\ UNCHANGED <<backend, list, fetch, browser, acts, history>>

CloseModal ==
    /\ modal # "" /\ modal' = ""
    /\ UNCHANGED <<backend, jobs, list, fetch, busy, connecting, browser, acts, history>>

Serve ==
    /\ fetch.phase = "sent"
    /\ fetch' = [phase |-> "served", res |-> View(servers)]
    /\ UNCHANGED <<backend, jobs, list, busy, connecting, modal, browser, acts, history>>

Fetched ==
    /\ fetch.phase = "served"
    /\ fetch' = Idle /\ list' = fetch.res
    /\ jobs' = {[k EXCEPT !.phase = IF @ = "waits" THEN "free" ELSE @] : k \in jobs}
    /\ UNCHANGED <<backend, busy, connecting, modal, browser, acts, history>>

-----------------------------------------------------------------------------
(* The browser.                                                            *)

Orphans == {[j EXCEPT !.own = FALSE] : j \in {k \in jobs : k.phase \in {"sent", "read", "exchanged"}}}

\* A document is unloaded; what the backend works on goes on.
Unload(to) ==
    /\ place' = to
    /\ list' = NoList /\ busy' = NoId /\ connecting' = FALSE /\ modal' = ""
    /\ fetch' = IF to = "page" THEN Sent ELSE Idle
    /\ raced' = (Orphans # {})

\* window.location.assign(authorization_url).
Authorize(j) ==
    /\ j.own /\ j.kind = "authorize" /\ j.phase = "done"
    /\ Unload("consent") /\ asked' = [code |-> j.n, id |-> j.id]
    /\ jobs' = Orphans
    /\ UNCHANGED <<backend, acts, removed, granted, crossed, doubled>>

Reload ==
    /\ place = "page" /\ Act
    /\ Unload("page") /\ jobs' = Orphans
    /\ UNCHANGED <<backend, asked, removed, granted, crossed, doubled>>

\* The state parameter names the server. A callback that is under way may be loaded again.
Consent ==
    /\ place \in {"consent", "callback"} /\ Act
    /\ place' = "callback"
    /\ jobs' = Orphans \cup {[Request("callback", asked.id, Blank) EXCEPT !.code = asked.code]}
    /\ UNCHANGED <<backend, card, asked, history>>

Deny ==
    /\ place = "consent" /\ Unload("page")
    /\ UNCHANGED <<backend, jobs, asked, acts, removed, granted, crossed, doubled>>

\* The redirect to the settings page.
Redirected(j) ==
    /\ j.own /\ j.kind = "callback" /\ j.phase \in {"done", "failed"}
    /\ Unload("page") /\ jobs' = Orphans
    /\ UNCHANGED <<backend, asked, acts, removed, granted, crossed, doubled>>

\* Nobody waits for the answer any more.
Drop(j) ==
    /\ ~j.own /\ j.phase \in {"done", "failed"}
    /\ jobs' = jobs \ {j}
    /\ UNCHANGED <<backend, card, browser, acts, history>>

Next ==
    \/ \E j \in jobs : \/ ReadRegister(j) \/ ReadDocument(j) \/ Delete(j) \/ Exchange(j) \/ Save(j) \/ Fail(j)
                       \/ Answered(j) \/ Finish(j) \/ Authorize(j) \/ Redirected(j) \/ Drop(j)
    \/ \E url \in Urls : Register(url)
    \/ \E kind \in {"audit", "remove", "authorize"}, id \in Ids : Click(kind, id)
    \/ Serve \/ Fetched \/ CloseModal \/ Consent \/ Reload \/ Deny

Spec == Init /\ [][Next]_vars

-----------------------------------------------------------------------------
(* Properties.                                                             *)

\* What was done to a server lasts: one that was removed does not come back, and one whose
\* authorization was completed keeps its token, although requests save whole documents they
\* read before an await: as long as no two requests for the server overlapped. Nor does a URL
\* have two such servers, unless registrations of it overlapped. And when all is answered, the card
\* shows what is stored, unless answers were lost or came too early.
RegistryKeepsWork ==
    /\ \A id \in DOMAIN servers \ crossed :
        /\ id \notin removed
        /\ id \in granted => servers[id].token = "oauth"
    /\ doubled \/ \A i, j \in DOMAIN servers \ crossed : servers[i].url = servers[j].url => i = j
    /\ place = "page" /\ fetch = Idle /\ jobs = {} /\ ~raced => list = View(servers)

-----------------------------------------------------------------------------
(* The inductive invariant.                                                *)

\* The id of a server that is being registered is known to nobody else.
Known == DOMAIN servers \cup removed \cup granted \cup DOMAIN list \cup DOMAIN fetch.res \cup {asked.id}
Pending(j) == j.kind = "register" /\ j.phase \in {"sent", "read"}
FreshInv ==
    /\ Known \subseteq 0..acts
    /\ \A j \in jobs : j.id <= acts
    /\ \A j \in jobs : Pending(j) => j.id \notin Known /\ \A k \in jobs : k.id = j.id => k = j

\* A request that has read a document which no other has read is about the one that is stored.
Alone(j) == Running(j) /\ j.id \notin crossed
WorkInv ==
    /\ \A id \in DOMAIN servers \ crossed :
        /\ id \notin removed
        /\ id \in granted => servers[id].token = "oauth"
    /\ \A j, k \in jobs : Alone(j) /\ Running(k) /\ k.id = j.id => k = j
    /\ \A j \in jobs : Alone(j) /\ j.kind # "register" =>
        /\ j.id \in DOMAIN servers /\ servers[j.id].url = j.doc.url
        /\ servers[j.id].token = "oauth" => j.doc.token = "oauth"
    /\ \A j \in jobs : j.kind = "callback" =>
        /\ j.phase = "read" => j.doc.verifier # 0
        /\ j.phase = "exchanged" => j.doc.token = "oauth"

\* A URL that is being registered is nobody's.
Registering(j) == j.kind = "register" /\ Running(j)
UrlInv ==
    /\ \A i, k \in DOMAIN servers \ crossed : servers[i].url = servers[k].url => i = k
    /\ \A j \in jobs : Registering(j) =>
        /\ \A id \in DOMAIN servers \ crossed : servers[id].url # j.doc.url
        /\ \A k \in jobs : Registering(k) /\ k.doc.url = j.doc.url => k = j

\* What the page has fetched is what is stored, or an answer is there which the page has not read.
Unsaid == \E j \in jobs : j.own /\ j.phase = "done"
CardInv ==
    /\ fetch \in {Idle, Sent} \/ fetch.phase = "served"
    /\ place = "page" /\ ~raced =>
        /\ fetch.phase = "served" => fetch.res = View(servers) \/ Unsaid
        /\ fetch = Idle => list = View(servers) \/ Unsaid

IInv == TypeOK /\ FreshInv /\ WorkInv /\ (doubled \/ UrlInv) /\ CardInv
=============================================================================
