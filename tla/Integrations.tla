---------------------------- MODULE Integrations ----------------------------
(***************************************************************************)
(* The cards of the settings page (app/(app)/settings/page.tsx) that       *)
(* connect an organization with GitHub, Slack, AWS, Figma, Substack and a  *)
(* model gateway, and their endpoints (app/api/routes/integrations.py).    *)
(*                                                                         *)
(* A card connects by a form, or sends the browser to the provider and     *)
(* back through the backend; some test their connection, and Slack's has   *)
(* the channels of the workspace to choose from. A connection is told by   *)
(* the request that made it; the organization's connections are fields of  *)
(* one document that are written one by one.                               *)
(***************************************************************************)
EXTENDS Naturals

CONSTANTS
    Cards,
    Redirects,     \* the cards that connect through the provider's site
    Tested,        \* the cards with a test
    Slack,         \* the card with channels
    NoCard,
    MaxActs        \* bound: what the user, the other administrator and the faults do

IntegrationsAssumption ==
    /\ Redirects \cup Tested \subseteq Cards /\ Slack \in Redirects
    /\ NoCard \notin Cards /\ MaxActs \in Nat

VARIABLES
    conn,          \* the stored connection of each card, 0 for none
    channel,       \* the workspace, by its connection, of the stored Slack channel
    jobs,          \* requests the page has made
    place,         \* the card whose provider the browser is at
    address,       \* what the ?slack= or ?github= of the page's address says
    notice,        \* githubNotice, slackNotice
    shown,         \* the queries: the connection each card shows
    fetch,         \* their fetches
    busy,          \* githubConnecting and so on
    testing,       \* slackTestSending, awsTesting
    result,        \* slackTestResult, awsTestResult: the test, and how it went
    timers,        \* the timers that will clear a result, by their test
    channels,      \* slackChannels: the workspace they are of
    acts,
    elsewhere,     \* history: the cards that somebody else changed since the page was opened
    raced,         \* history: an answer was lost, came during a first fetch, or belongs to a request
                   \* that outlived its page
    reread,        \* history: the page was opened again with an old address
    astray         \* history: the channel was changed by a page although somebody else had changed
                   \* Slack since it was opened

backend == <<conn, channel>>
view == <<shown, fetch, channels>>
test == <<testing, result, timers>>
browser == <<place, address, notice>>
history == <<elsewhere, raced, reread, astray>>
vars == <<backend, jobs, browser, view, busy, test, acts, history>>

Values == 0..MaxActs
Requests == [n : 1..MaxActs, kind : {"connect", "url", "disconnect", "test", "channel", "channels"},
             card : Cards, val : Values, phase : {"sent", "done", "waits", "free"}, ok : BOOLEAN]
NoData == [known |-> FALSE, conn |-> 0]
Idle == [phase |-> "idle", conn |-> 0]
Sent == [phase |-> "sent", conn |-> 0]
NoNotice == [card |-> NoCard, says |-> ""]
NoResult == [of |-> 0, says |-> ""]

TypeOK ==
    /\ conn \in [Cards -> Values] /\ channel \in Values
    /\ jobs \subseteq Requests
    /\ place \in Cards \cup {NoCard}
    /\ {address, notice} \subseteq [card : Cards \cup {NoCard}, says : {"", "connected", "error"}]
    /\ shown \in [Cards -> [known : BOOLEAN, conn : Values]]
    /\ fetch \in [Cards -> [phase : {"idle", "sent", "served"}, conn : Values]]
    /\ busy \in [Cards -> BOOLEAN] /\ testing \in [Cards -> BOOLEAN]
    /\ result \in [Cards -> [of : Values, says : {"", "ok", "error"}]]
    /\ timers \in [Cards -> SUBSET Values]
    /\ channels \in Values /\ acts \in Values
    /\ elsewhere \subseteq Cards /\ {raced, reread, astray} \subseteq BOOLEAN

Init ==
    /\ conn = [c \in Cards |-> 0] /\ channel = 0 /\ jobs = {}
    /\ place = NoCard /\ address = NoNotice /\ notice = NoNotice
    /\ shown = [c \in Cards |-> NoData] /\ fetch = [c \in Cards |-> Sent]
    /\ busy = [c \in Cards |-> FALSE]
    /\ testing = [c \in Cards |-> FALSE] /\ result = [c \in Cards |-> NoResult]
    /\ timers = [c \in Cards |-> {}] /\ channels = 0
    /\ acts = 0 /\ elsewhere = {} /\ raced = FALSE /\ reread = FALSE /\ astray = FALSE

Act == acts < MaxActs /\ acts' = acts + 1

AtPage == place = NoCard
Connected(c) == shown[c].conn # 0
Job(kind, c, val) == [n |-> acts', kind |-> kind, card |-> c, val |-> val, phase |-> "sent", ok |-> FALSE]
Becomes(j, k) == jobs' = (jobs \ {j}) \cup {k}

-----------------------------------------------------------------------------
(* The endpoints. What a provider refuses, or is not reached, fails.       *)

Reply(j, ok, val) == Becomes(j, [j EXCEPT !.phase = "done", !.ok = ok, !.val = val])

\* Mutant: disconnecting leaves the channel.
PerformKeepingChannel(j) ==
    /\ j.phase = "sent"
    /\ \/ /\ j.kind = "connect"
          /\ conn' = [conn EXCEPT ![j.card] = j.n] /\ UNCHANGED channel
          /\ Reply(j, TRUE, 0)
       \/ /\ j.kind = "disconnect"
          /\ conn' = [conn EXCEPT ![j.card] = 0] /\ UNCHANGED channel
          /\ Reply(j, TRUE, 0)
       \/ /\ j.kind = "channel"
          /\ channel' = IF conn[Slack] # 0 THEN j.val ELSE channel
          /\ Reply(j, conn[Slack] # 0, 0)
          /\ UNCHANGED conn
       \/ /\ j.kind \in {"url", "test", "channels"}
          /\ Reply(j, j.kind = "url" \/ conn[j.card] # 0, conn[j.card])
          /\ UNCHANGED <<conn, channel>>
    /\ raced' = (raced \/ ~AtPage)
    /\ astray' = (astray \/ (j.kind = "channel" /\ Slack \in elsewhere))
    /\ UNCHANGED <<browser, view, busy, test, acts, elsewhere, reread>>

Perform(j) ==
    /\ j.phase = "sent"
    /\ \/ /\ j.kind = "connect"
          /\ conn' = [conn EXCEPT ![j.card] = j.n] /\ UNCHANGED channel
          /\ Reply(j, TRUE, 0)
       \/ /\ j.kind = "disconnect"
          /\ conn' = [conn EXCEPT ![j.card] = 0]
          /\ channel' = IF j.card = Slack THEN 0 ELSE channel
          /\ Reply(j, TRUE, 0)
       \/ /\ j.kind = "channel"
          /\ channel' = IF conn[Slack] # 0 THEN j.val ELSE channel
          /\ Reply(j, conn[Slack] # 0, 0)
          /\ UNCHANGED conn
       \/ /\ j.kind \in {"url", "test", "channels"}
          /\ Reply(j, j.kind = "url" \/ conn[j.card] # 0, conn[j.card])
          /\ UNCHANGED <<conn, channel>>
    /\ raced' = (raced \/ ~AtPage)
    /\ astray' = (astray \/ (j.kind = "channel" /\ Slack \in elsewhere))
    /\ UNCHANGED <<browser, view, busy, test, acts, elsewhere, reread>>

Fail(j) ==
    /\ j.phase \in {"sent", "done"} /\ Act
    /\ j.phase = "done" => j.ok
    /\ Reply(j, FALSE, 0)
    /\ raced' = (raced \/ j.phase = "done")
    /\ UNCHANGED <<backend, browser, view, busy, test, elsewhere, reread, astray>>

\* Another administrator, or this one in another tab.
Elsewhere(c) ==
    /\ Act
    /\ \/ conn[c] = 0 /\ conn' = [conn EXCEPT ![c] = acts']
       \/ conn[c] # 0 /\ conn' = [conn EXCEPT ![c] = 0]
    /\ channel' = IF c = Slack THEN conn'[c] ELSE channel
    /\ elsewhere' = elsewhere \cup {c}
    /\ UNCHANGED <<jobs, browser, view, busy, test, raced, reread, astray>>

Serve(c) ==
    /\ fetch[c].phase = "sent"
    /\ fetch' = [fetch EXCEPT ![c] = [phase |-> "served", conn |-> conn[c]]]
    /\ UNCHANGED <<backend, jobs, browser, shown, channels, busy, test, acts, history>>

-----------------------------------------------------------------------------
(* The cards. A card that is not loaded has no buttons.                    *)

CanConnect(c) == AtPage /\ ~Connected(c) /\ ~busy[c] /\ (fetch[c] = Idle \/ shown[c].known)
CanDisconnect(c) == AtPage /\ Connected(c)
CanTest(c) == AtPage /\ c \in Tested /\ Connected(c) /\ ~testing[c]
CanChooseChannel == AtPage /\ Connected(Slack) /\ channels # 0 /\ ~\E j \in jobs : j.kind = "channels"

\* connectAws and the other forms, and connectGitHub and connectSlack.
Connect(c) ==
    /\ CanConnect(c) /\ Act
    /\ busy' = [busy EXCEPT ![c] = TRUE]
    /\ jobs' = jobs \cup {Job(IF c \in Redirects THEN "url" ELSE "connect", c, 0)}
    /\ UNCHANGED <<backend, browser, view, test, history>>

\* Nothing marks the card; the button may be pressed again.
Disconnect(c) ==
    /\ CanDisconnect(c) /\ Act
    /\ jobs' = jobs \cup {Job("disconnect", c, 0)}
    /\ UNCHANGED <<backend, browser, view, busy, test, history>>

\* changeSlackChannel.
ChangeChannel ==
    /\ CanChooseChannel /\ Act
    /\ jobs' = jobs \cup {Job("channel", Slack, channels)}
    /\ UNCHANGED <<backend, browser, view, busy, test, history>>

\* testSlack and testAws.
Test(c) ==
    /\ CanTest(c) /\ Act
    /\ testing' = [testing EXCEPT ![c] = TRUE]
    /\ result' = [result EXCEPT ![c] = NoResult]
    /\ jobs' = jobs \cup {Job("test", c, 0)}
    /\ UNCHANGED <<backend, browser, view, busy, timers, history>>

TestEnds(j) ==
    /\ AtPage /\ j.kind = "test" /\ j.phase = "done"
    /\ testing' = [testing EXCEPT ![j.card] = FALSE]
    /\ result' = [result EXCEPT ![j.card] = [of |-> j.n, says |-> IF j.ok THEN "ok" ELSE "error"]]
    /\ timers' = [timers EXCEPT ![j.card] = @ \cup {j.n}]
    /\ jobs' = jobs \ {j}
    /\ UNCHANGED <<backend, browser, view, busy, acts, history>>

\* Three seconds later, whatever result is there.
TimerEnds(c, n) ==
    /\ n \in timers[c]
    /\ timers' = [timers EXCEPT ![c] = @ \ {n}]
    /\ result' = [result EXCEPT ![c] = NoResult]
    /\ UNCHANGED <<backend, jobs, browser, view, busy, testing, acts, history>>

\* A fetch under way is dropped, but the first one is joined.
Refetching(c) ==
    fetch' = [fetch EXCEPT ![c] = IF ~shown[c].known /\ @ # Idle THEN @ ELSE Sent]

Answered(j) ==
    /\ AtPage /\ j.kind \in {"connect", "disconnect", "channel"} /\ j.phase = "done" /\ j.ok
    /\ Refetching(j.card)
    /\ raced' = (raced \/ (~shown[j.card].known /\ fetch[j.card].phase = "served"))
    /\ jobs' = {[k EXCEPT !.phase = IF k = j THEN "waits"
                                    ELSE IF @ = "waits" /\ k.card = j.card THEN "free" ELSE @] : k \in jobs}
    /\ UNCHANGED <<backend, browser, shown, channels, busy, test, acts, elsewhere, reread, astray>>

\* The end of a handler, after its refetch or an error. Disconnecting ends the notice.
Finish(j) ==
    /\ AtPage /\ j.kind \in {"connect", "url", "disconnect", "channel"}
    /\ j.phase = "free" \/ (j.phase = "done" /\ ~j.ok)
    /\ jobs' = jobs \ {j}
    /\ busy' = [busy EXCEPT ![j.card] = @ /\ j.kind \notin {"connect", "url"}]
    /\ notice' = IF j.kind = "disconnect" /\ j.phase = "free" /\ notice.card = j.card THEN NoNotice ELSE notice
    /\ UNCHANGED <<backend, place, address, view, test, acts, history>>

\* The status arrives; loadSlackChannels runs when Slack becomes connected.
Fetched(c) ==
    /\ fetch[c].phase = "served"
    /\ fetch' = [fetch EXCEPT ![c] = Idle]
    /\ shown' = [shown EXCEPT ![c] = [known |-> TRUE, conn |-> fetch[c].conn]]
    /\ LET rest == {[k EXCEPT !.phase = IF @ = "waits" /\ k.card = c THEN "free" ELSE @] : k \in jobs}
       IN  IF c = Slack /\ fetch[c].conn # 0 /\ ~Connected(c)
           THEN Act /\ jobs' = rest \cup {Job("channels", c, 0)}
           ELSE jobs' = rest /\ UNCHANGED acts
    /\ UNCHANGED <<backend, browser, channels, busy, test, history>>

\* A failure leaves the channels there were.
ChannelsLoaded(j) ==
    /\ AtPage /\ j.kind = "channels" /\ j.phase = "done"
    /\ channels' = IF j.ok THEN j.val ELSE channels
    /\ jobs' = jobs \ {j}
    /\ UNCHANGED <<backend, browser, shown, fetch, busy, test, acts, history>>

\* The queries are asked again, as when the window is focused.
Focus ==
    /\ AtPage /\ Act
    /\ \A c \in Cards : fetch[c] = Idle
    /\ fetch' = [c \in Cards |-> Sent]
    /\ UNCHANGED <<backend, jobs, browser, shown, channels, busy, test, history>>

CloseNotice ==
    /\ notice # NoNotice /\ notice' = NoNotice
    /\ UNCHANGED <<backend, jobs, place, address, view, busy, test, acts, history>>

-----------------------------------------------------------------------------
(* The browser.                                                            *)

Blank ==
    /\ shown' = [c \in Cards |-> NoData] /\ busy' = [c \in Cards |-> FALSE]
    /\ testing' = [c \in Cards |-> FALSE] /\ result' = [c \in Cards |-> NoResult]
    /\ timers' = [c \in Cards |-> {}] /\ channels' = 0

\* Requests that change something and have not been performed outlive the page.
Orphans == {j \in jobs : j.phase = "sent" /\ j.kind \in {"connect", "disconnect", "channel"}}

\* window.location.href = url.
Leave(j) ==
    /\ AtPage /\ j.kind = "url" /\ j.phase = "done" /\ j.ok
    /\ place' = j.card /\ Blank /\ fetch' = [c \in Cards |-> Idle]
    /\ notice' = NoNotice /\ jobs' = Orphans
    /\ UNCHANGED <<backend, address, acts, history>>

Open(a) ==
    /\ place' = NoCard /\ address' = a /\ notice' = a
    /\ Blank /\ fetch' = [c \in Cards |-> Sent]
    /\ jobs' = {} /\ elsewhere' = {}

\* github_callback and slack_callback, which choose a first channel, and the settings page.
Return ==
    /\ ~AtPage /\ Orphans = {} /\ Act
    /\ \/ /\ conn' = [conn EXCEPT ![place] = acts']
          /\ channel' = IF place = Slack THEN acts' ELSE channel
          /\ Open([card |-> place, says |-> "connected"])
       \/ Open([card |-> place, says |-> "error"]) /\ UNCHANGED backend
    /\ raced' = FALSE /\ reread' = FALSE /\ UNCHANGED astray

Reload ==
    /\ AtPage /\ Orphans = {} /\ Act
    /\ Open(address) /\ reread' = TRUE /\ raced' = FALSE
    /\ UNCHANGED <<backend, astray>>

Next ==
    \/ \E j \in jobs : \/ Perform(j) \/ Fail(j) \/ TestEnds(j) \/ Answered(j) \/ Finish(j)
                       \/ ChannelsLoaded(j) \/ Leave(j)
    \/ \E c \in Cards : \/ Elsewhere(c) \/ Serve(c) \/ Fetched(c) \/ Connect(c) \/ Disconnect(c) \/ Test(c)
                        \/ \E n \in timers[c] : TimerEnds(c, n)
    \/ ChangeChannel \/ Focus \/ CloseNotice \/ Return \/ Reload

Spec == Init /\ [][Next]_vars

-----------------------------------------------------------------------------
(* Properties.                                                             *)

\* When all is answered, a card shows the connection that is stored, and the notice of a
\* connection stands only where there is one: as long as nobody else changed the card, no answer
\* was lost or came too early, and, for the notice, the page was not opened again with its old
\* address. The channel that is stored belongs to the workspace that is connected, although the
\* page keeps its channels from one workspace to the next, unless a page changed it after
\* somebody else had changed the connection. And the result of a test has a timer.
CardsFollowServer ==
    /\ \A c \in Cards : result[c] # NoResult => result[c].of \in timers[c]
    /\ AtPage /\ jobs = {} /\ ~raced =>
           \A c \in Cards \ elsewhere : fetch[c] = Idle =>
               /\ shown[c].conn = conn[c]
               /\ notice = [card |-> c, says |-> "connected"] /\ ~reread => conn[c] # 0
    /\ astray \/ channel = conn[Slack]

-----------------------------------------------------------------------------
(* The inductive invariant.                                                *)

\* A change of a card that is stored, and that the page has not read.
Unsaid(c) == \E j \in jobs : j.card = c /\ j.kind \in {"connect", "disconnect"} /\ j.phase = "done" /\ j.ok

\* What the page has fetched of a card is what is stored, or a change is unsaid.
ShownInv ==
    /\ \A c \in Cards : fetch[c] \in {Idle, Sent} \/ fetch[c].phase = "served"
    /\ AtPage /\ ~raced => \A c \in Cards \ elsewhere :
        /\ fetch[c].phase = "served" => fetch[c].conn = conn[c] \/ Unsaid(c)
        /\ fetch[c] = Idle => shown[c].conn = conn[c] \/ Unsaid(c)

\* A notice without its connection is about to be closed.
Disconnected(c) ==
    \E j \in jobs : /\ j.card = c /\ j.kind = "disconnect"
                    /\ j.phase \in {"waits", "free"} \/ (j.phase = "done" /\ j.ok)
NoticeInv ==
    AtPage /\ ~raced /\ ~reread => \A c \in Cards \ elsewhere :
        notice = [card |-> c, says |-> "connected"] => conn[c] # 0 \/ Disconnected(c)

\* A page that has seen one workspace connected has no channels of another.
ChannelInv ==
    /\ \A j \in jobs : /\ j.kind = "connect" => j.card \notin Redirects
                       /\ j.kind \in {"channel", "channels"} => j.card = Slack
    /\ Slack \notin elsewhere /\ conn[Slack] # 0 =>
        /\ channels \in {0, conn[Slack]}
        /\ \A j \in jobs : (j.kind = "channel" /\ j.phase = "sent" => j.val = conn[Slack])
        /\ \A j \in jobs : (j.kind = "channels" /\ j.phase = "done" /\ j.ok => j.val = conn[Slack])
    /\ astray \/ channel = conn[Slack]

ResultInv == \A c \in Cards : result[c] # NoResult => result[c].of \in timers[c]

IInv == TypeOK /\ ShownInv /\ NoticeInv /\ ChannelInv /\ ResultInv
=============================================================================
