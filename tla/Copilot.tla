------------------------------ MODULE Copilot ------------------------------
(***************************************************************************)
(* Copilot requests of one organization: the admission by quota            *)
(* (app/services/copilot_quota.py), the providers in turn                  *)
(* (app/services/copilot.py, openai_provider.py, gemini.py, claude.py), the*)
(* retries and circuit breakers around a call (app/services/               *)
(* llm_resilience.py), and the counting of what was answered.              *)
(*                                                                         *)
(* The handlers run on the threads of a process.  They share its circuit   *)
(* breakers, without a lock, and the usage documents of the organization.  *)
(* A provider call lasts as long as the action that ends it is not taken.  *)
(***************************************************************************)
EXTENDS Integers, Sequences, FiniteSets

CONSTANTS
    Users, Requests,  \* requests in flight; one that has been answered may be made anew
    Order,            \* _provider_order(), a sequence of provider names
    Configured,       \* providers with an API key
    Quotas,           \* quotas that administrators ask for; a limit of 0 is none
    PlatformMonthly, PlatformCap,  \* the most they may ask for
    Retries, Threshold,            \* settings: transport retries, failures that open a circuit
    MaxAsked, MaxDay, MaxFaults,   \* bounds: requests ever made, days of the month, faults
    NoUser

Providers == {"openai", "gemini", "claude"}
Limits == [enabled : BOOLEAN, monthly : Nat, cap : Nat, daily : Nat]

ASSUME OrderAssumption == Order \in Seq(Providers) /\ Configured \subseteq Providers
ASSUME QuotasAssumption == Quotas \subseteq Limits /\ PlatformMonthly \in Nat /\ PlatformCap \in Nat
ASSUME SettingsAssumption == Retries \in Nat /\ Threshold \in Nat /\ Threshold > 0
ASSUME BoundsAssumption == MaxAsked \in Nat /\ MaxDay \in Nat /\ MaxDay > 0 /\ MaxFaults \in Nat
ASSUME RequestsAssumption == IsFiniteSet(Requests)
ASSUME NoUserAssumption == NoUser \notin Users

\* What a request asks for: recommendations for a system, a policy, or an
\* explanation of missing controls, which is claude's alone.
Operations == {"system", "policy", "explain"}

\* _OPERATION_COST_MULTIPLIER, in fifths of the cost of a request.
Cost(operation) == IF operation = "explain" THEN 4 ELSE 5

\* How often a provider is asked for valid JSON.
Rounds(operation, p) ==
    IF operation = "explain" \/ (operation = "policy" /\ p = "claude") THEN 1 ELSE 2

\* _clamp_quota_update.
Lesser(a, b) == IF a < b THEN a ELSE b
Clamp(q) == [q EXCEPT !.monthly = Lesser(@, PlatformMonthly), !.cap = Lesser(@, PlatformCap)]

Labels == {"idle", "quota", "usage", "daily", "next", "lookup", "call", "count", "trip",
           "logFailure", "garbled", "giveUp", "log", "countMonth", "countDay", "reply"}

\* Labels of a request that is at a provider.
Calling == {"lookup", "call", "count", "trip", "logFailure", "garbled", "giveUp", "log"}

VARIABLES
    quota,            \* Firestore organization_copilot_quotas
    month,            \* Firestore organization_copilot_usage: requests and cost
    daily,            \* Firestore organization_copilot_user_daily, by user and day
    circuit, failures,\* a _CircuitState: open_until against the clock, consecutive_failures
    pc, req,          \* a request: where it is, and the locals of its handler
    day,
    unlogged,         \* history: a provider that was called was left without a log
    asked, answered, faults  \* history

documents == <<quota, month, daily>>
breakers == <<circuit, failures>>
history == <<day, unlogged, asked, answered, faults>>
vars == <<quota, month, daily, circuit, failures, pc, req, day, unlogged, asked, answered,
          faults>>

Days == 1..MaxDay
NoQuota == [enabled |-> FALSE, monthly |-> 0, cap |-> 0, daily |-> 0]

\* limits: the quota it read.  at, round, attempt: which provider, for the how
\* manieth time, it asks.  owes: it has heard of the provider and not logged it.
Request == [user : Users \cup {NoUser}, op : Operations, limits : Limits,
            at : 1..Len(Order) + 1, round : 1..2, attempt : 0..Retries, owes : BOOLEAN,
            day : Days]
NoRequest == [user |-> NoUser, op |-> "system", limits |-> NoQuota, at |-> 1, round |-> 1,
              attempt |-> 0, owes |-> FALSE, day |-> 1]

TypeOK ==
    /\ quota \in Limits
    /\ month \in [requests : Nat, cost : Nat]
    /\ daily \in [Users -> [Days -> Nat]]
    /\ circuit \in [Providers -> {"closed", "open", "lapsed"}]
    /\ failures \in [Providers -> Nat]
    /\ pc \in [Requests -> Labels]
    /\ req \in [Requests -> Request]
    /\ \A r \in Requests : pc[r] # "idle" => req[r].user \in Users
    /\ \A r \in Requests : pc[r] \in Calling /\ req[r].op # "explain" => req[r].at <= Len(Order)
    /\ day \in Days
    /\ unlogged \in BOOLEAN
    /\ asked \in Nat /\ answered \in Nat /\ faults \in Nat

Init ==
    /\ quota \in {Clamp(q) : q \in Quotas}
    /\ month = [requests |-> 0, cost |-> 0]
    /\ daily = [u \in Users |-> [d \in Days |-> 0]]
    /\ circuit = [p \in Providers |-> "closed"]
    /\ failures = [p \in Providers |-> 0]
    /\ pc = [r \in Requests |-> "idle"]
    /\ req = [r \in Requests |-> NoRequest]
    /\ day = 1
    /\ unlogged = FALSE
    /\ asked = 0 /\ answered = 0 /\ faults = 0

-----------------------------------------------------------------------------

Goto(r, label) == pc' = [pc EXCEPT ![r] = label] /\ UNCHANGED req

\* The response is sent, or an error.
Finish(r) ==
    /\ pc' = [pc EXCEPT ![r] = "idle"]
    /\ req' = [req EXCEPT ![r] = NoRequest]

\* The provider that request r is at.
ProviderOf(r) == IF req[r].op = "explain" THEN "claude" ELSE Order[req[r].at]

\* The key is looked up; without one the provider raises 503 at once.
Approach(r) == Goto(r, IF ProviderOf(r) \in Configured THEN "call" ELSE "giveUp")

-----------------------------------------------------------------------------
(* Admission: assert_copilot_allowed.                                      *)

Ask(r) ==
    /\ pc[r] = "idle" /\ asked < MaxAsked
    /\ \E u \in Users, operation \in Operations :
         req' = [req EXCEPT ![r] = [NoRequest EXCEPT !.user = u, !.op = operation]]
    /\ pc' = [pc EXCEPT ![r] = "quota"]
    /\ asked' = asked + 1
    /\ UNCHANGED <<documents, breakers, day, unlogged, answered, faults>>

ReadQuota(r) ==
    /\ pc[r] = "quota"
    /\ IF quota.enabled
       THEN /\ req' = [req EXCEPT ![r].limits = quota]
            /\ pc' = [pc EXCEPT ![r] = "usage"]
       ELSE Finish(r)
    /\ UNCHANGED <<documents, breakers, history>>

Begin(operation) == IF operation = "explain" THEN "lookup" ELSE "next"

ReadUsage(r) ==
    /\ pc[r] = "usage"
    /\ LET limits == req[r].limits IN
       IF \/ limits.monthly > 0 /\ month.requests >= limits.monthly
          \/ limits.cap > 0 /\ month.cost >= limits.cap
       THEN Finish(r)
       ELSE Goto(r, IF limits.daily > 0 THEN "daily" ELSE Begin(req[r].op))
    /\ UNCHANGED <<documents, breakers, history>>

\* Mutant: > for >=.
ReadDailyBeyond(r) ==
    /\ pc[r] = "daily"
    /\ IF daily[req[r].user][day] > req[r].limits.daily THEN Finish(r)
       ELSE Goto(r, Begin(req[r].op))
    /\ UNCHANGED <<documents, breakers, history>>

ReadDaily(r) ==
    /\ pc[r] = "daily"
    /\ IF daily[req[r].user][day] >= req[r].limits.daily THEN Finish(r)
       ELSE Goto(r, Begin(req[r].op))
    /\ UNCHANGED <<documents, breakers, history>>

-----------------------------------------------------------------------------
(* The providers in turn.                                                  *)

\* Mutant: only the clock is read; a circuit that opens stays out of it.
NextProviderBlind(r) ==
    /\ pc[r] = "next"
    /\ IF req[r].at > Len(Order) THEN Finish(r)
       ELSE IF req[r].op = "system" THEN Goto(r, "lookup") ELSE Approach(r)
    /\ UNCHANGED <<documents, breakers, history>>

\* The head of the loop, and is_open.
NextProvider(r) ==
    /\ pc[r] = "next"
    /\ IF req[r].at > Len(Order) THEN Finish(r) /\ UNCHANGED breakers
       ELSE LET p == Order[req[r].at] IN
            IF circuit[p] = "open"
            THEN /\ req' = [req EXCEPT ![r].at = @ + 1]
                 /\ UNCHANGED <<pc, breakers>>
            ELSE /\ circuit' = [circuit EXCEPT ![p] = "closed"]
                 /\ failures' = IF circuit[p] = "lapsed" THEN [failures EXCEPT ![p] = 0]
                                ELSE failures
                 /\ IF req[r].op = "system" THEN Goto(r, "lookup") ELSE Approach(r)
    /\ UNCHANGED <<documents, history>>

\* Every provider function reads the system again, unless it got a draft; a
\* 404 ends the request.
Lookup(r) ==
    /\ pc[r] = "lookup"
    /\ Approach(r) \/ Finish(r)
    /\ UNCHANGED <<documents, breakers, history>>

\* The call returns: record_success, and the text parses or it does not.
Answer(r) ==
    /\ pc[r] = "call"
    /\ LET p == ProviderOf(r) IN
       /\ circuit' = [circuit EXCEPT ![p] = "closed"]
       /\ failures' = [failures EXCEPT ![p] = 0]
       /\ \/ /\ req' = [req EXCEPT ![r].owes = TRUE]
             /\ pc' = [pc EXCEPT ![r] = "log"]
          \/ /\ req[r].round < Rounds(req[r].op, p)
             /\ req' = [req EXCEPT ![r].round = @ + 1, ![r].attempt = 0, ![r].owes = TRUE]
             /\ UNCHANGED pc
          \/ /\ req[r].round = Rounds(req[r].op, p)
             /\ req' = [req EXCEPT ![r].owes = TRUE]
             /\ pc' = [pc EXCEPT ![r] = "garbled"]
    /\ UNCHANGED <<documents, history>>

\* Mutant: one attempt too many.
CallFailsOnceMore(r) ==
    /\ pc[r] = "call"
    /\ \/ /\ req[r].attempt <= Retries
          /\ req' = [req EXCEPT ![r].attempt = @ + 1]
          /\ UNCHANGED pc
       \/ /\ req' = [req EXCEPT ![r].owes = TRUE]
          /\ pc' = [pc EXCEPT ![r] = "count"]
    /\ UNCHANGED <<documents, breakers, history>>

\* The call raises: it is retried if the error is one of transport.
CallFails(r) ==
    /\ pc[r] = "call"
    /\ \/ /\ req[r].attempt < Retries
          /\ req' = [req EXCEPT ![r].attempt = @ + 1]
          /\ UNCHANGED pc
       \/ /\ req' = [req EXCEPT ![r].owes = TRUE]
          /\ pc' = [pc EXCEPT ![r] = "count"]
    /\ UNCHANGED <<documents, breakers, history>>

\* record_failure: the count and the comparison; the clock is read, then the
\* circuit opens.
CountFailure(r) ==
    /\ pc[r] = "count"
    /\ failures' = [failures EXCEPT ![ProviderOf(r)] = @ + 1]
    /\ Goto(r, IF failures'[ProviderOf(r)] >= Threshold THEN "trip" ELSE "logFailure")
    /\ UNCHANGED <<documents, circuit, history>>

Trip(r) ==
    /\ pc[r] = "trip"
    /\ circuit' = [circuit EXCEPT ![ProviderOf(r)] = "open"]
    /\ Goto(r, "logFailure")
    /\ UNCHANGED <<documents, failures, history>>

\* The time of an open circuit is over.
Lapse(p) ==
    /\ circuit[p] = "open"
    /\ circuit' = [circuit EXCEPT ![p] = "lapsed"]
    /\ UNCHANGED <<documents, failures, pc, req, history>>

\* The failed call is logged, then raised as 502 or 503.
LogFailure(r) ==
    /\ pc[r] = "logFailure"
    /\ req' = [req EXCEPT ![r].owes = FALSE]
    /\ pc' = [pc EXCEPT ![r] = "giveUp"]
    /\ UNCHANGED <<documents, breakers, history>>

\* Mutant: the fallback is returned at once, like an error.
GarbledUncounted(r) ==
    /\ pc[r] = "garbled"
    /\ req' = [req EXCEPT ![r].owes = @ /\ req[r].op = "policy"]
    /\ pc' = [pc EXCEPT ![r] = IF req[r].op = "system" THEN "reply" ELSE "giveUp"]
    /\ UNCHANGED <<documents, breakers, history>>

\* A text that is not JSON: a system gets a fallback, and both are logged; for a
\* policy the provider raises before it logs; an explanation raises after it.
Garbled(r) ==
    /\ pc[r] = "garbled"
    /\ req' = [req EXCEPT ![r].owes = @ /\ req[r].op = "policy"]
    /\ pc' = [pc EXCEPT ![r] = IF req[r].op = "system" THEN "log" ELSE "giveUp"]
    /\ UNCHANGED <<documents, breakers, history>>

\* Provider i is asked anew.
TurnTo(q, i) == [q EXCEPT !.at = i, !.round = 1, !.attempt = 0, !.owes = FALSE]

\* Mutant: the provider is asked again.
GiveUpAgain(r) ==
    /\ pc[r] = "giveUp"
    /\ unlogged' = (unlogged \/ req[r].owes)
    /\ IF req[r].op = "explain" THEN Finish(r)
       ELSE /\ req' = [req EXCEPT ![r] = TurnTo(@, @.at)]
            /\ pc' = [pc EXCEPT ![r] = "next"]
    /\ UNCHANGED <<documents, breakers, day, asked, answered, faults>>

\* The except clause of the loop: the next provider.  An explanation has none.
GiveUp(r) ==
    /\ pc[r] = "giveUp"
    /\ unlogged' = (unlogged \/ req[r].owes)
    /\ IF req[r].op = "explain" THEN Finish(r)
       ELSE /\ req' = [req EXCEPT ![r] = TurnTo(@, @.at + 1)]
            /\ pc' = [pc EXCEPT ![r] = "next"]
    /\ UNCHANGED <<documents, breakers, day, asked, answered, faults>>

Log(r) ==
    /\ pc[r] = "log"
    /\ req' = [req EXCEPT ![r].owes = FALSE]
    /\ pc' = [pc EXCEPT ![r] = "countMonth"]
    /\ UNCHANGED <<documents, breakers, history>>

-----------------------------------------------------------------------------
(* record_copilot_usage: two increments, each atomic, then a read.         *)

\* The day is the one on which the answer came.
CountMonth(r) ==
    /\ pc[r] = "countMonth"
    /\ month' = [month EXCEPT !.requests = @ + 1, !.cost = @ + Cost(req[r].op)]
    /\ req' = [req EXCEPT ![r].day = day]
    /\ pc' = [pc EXCEPT ![r] = "countDay"]
    /\ UNCHANGED <<quota, daily, breakers, history>>

\* Mutant: the month is counted once more instead.
CountMonthAgain(r) ==
    /\ pc[r] = "countDay"
    /\ month' = [month EXCEPT !.requests = @ + 1]
    /\ Goto(r, "reply")
    /\ UNCHANGED <<quota, daily, breakers, history>>

CountDay(r) ==
    /\ pc[r] = "countDay"
    /\ daily' = [daily EXCEPT ![req[r].user][req[r].day] = @ + 1]
    /\ Goto(r, "reply")
    /\ UNCHANGED <<quota, month, breakers, history>>

Reply(r) ==
    /\ pc[r] = "reply"
    /\ answered' = answered + 1
    /\ Finish(r)
    /\ UNCHANGED <<documents, breakers, day, unlogged, asked, faults>>

-----------------------------------------------------------------------------

\* update_quota.  A payload may leave fields as they are stored, so any quota in
\* Quotas may result.
UpdateQuota ==
    /\ \E q \in Quotas : quota' = Clamp(q)
    /\ UNCHANGED <<month, daily, breakers, pc, req, history>>

NextDay ==
    /\ day < MaxDay
    /\ day' = day + 1
    /\ UNCHANGED <<documents, breakers, pc, req, unlogged, asked, answered, faults>>

\* A store call raises: the handler answers 500 with what it has done so far.
Abort(r) ==
    /\ pc[r] \in Labels \ {"idle", "next", "call", "trip", "count", "giveUp"}
    /\ faults < MaxFaults /\ faults' = faults + 1
    /\ Finish(r)
    /\ UNCHANGED <<documents, breakers, day, unlogged, asked, answered>>

Step(r) ==
    \/ ReadQuota(r) \/ ReadUsage(r) \/ ReadDaily(r) \/ NextProvider(r) \/ Lookup(r)
    \/ Answer(r) \/ CallFails(r) \/ CountFailure(r) \/ Trip(r)
    \/ LogFailure(r) \/ Garbled(r) \/ GiveUp(r) \/ Log(r)
    \/ CountMonth(r) \/ CountDay(r) \/ Reply(r)

Next ==
    \/ \E r \in Requests : Ask(r) \/ Step(r) \/ Abort(r)
    \/ \E p \in Providers : Lapse(p)
    \/ UpdateQuota \/ NextDay

Spec == Init /\ [][Next]_vars

\* A thread is scheduled and a call ends, in an answer or a timeout.
FairSpec == Spec /\ \A r \in Requests : WF_vars(Step(r))

-----------------------------------------------------------------------------
(* Properties.                                                             *)

\* The check and the count are two steps with a provider call between, so a
\* limit can be passed; but by no more than the other requests in flight, while
\* every quota has one once it is clamped.
MonthlyOvershoot ==
    \A n \in {Clamp(q).monthly : q \in Quotas} :
        (\A q \in Quotas : Clamp(q).monthly \in 1..n) => month.requests < n + Cardinality(Requests)

\* The same of the daily limit of each user, on each day: an answer that comes
\* after midnight counts on the new day, which it was not admitted on.
DailyOvershoot ==
    \A n \in {Clamp(q).daily : q \in Quotas} :
        (\A q \in Quotas : Clamp(q).daily \in 1..n) =>
            \A u \in Users, d \in Days : daily[u][d] < n + Cardinality(Requests)

\* Whatever providers were tried, overtook each other or fell back, no failure
\* is charged, no answer is free and none is charged twice: the documents agree
\* with each other and with the answers given.  A store fault after the first
\* increment leaves one charge without its answer, and maybe without its day.
At(labels) == Cardinality({r \in Requests : pc[r] \in labels})
DailyCharges == UNION {{<<u, d, n>> : n \in 1..daily[u][d]} : u \in Users, d \in Days}
ChargesAgree ==
    /\ month.requests - answered - At({"countDay", "reply"}) \in 0..faults
    /\ month.requests - Cardinality(DailyCharges) - At({"countDay"}) \in 0..faults

\* While a circuit stays open no request turns to its provider, though those
\* already there go on; explanations do not look at the circuit.
Asks(r, p) == pc[r] \in Calling /\ ProviderOf(r) = p
NoCallWhileOpen ==
    [][\A r \in Requests, p \in Providers :
         circuit[p] = "open" /\ circuit'[p] = "open" /\ Asks(r, p)' =>
             Asks(r, p) \/ req'[r].op = "explain"]_vars

\* However calls fail, time out or are overtaken, every request is answered:
\* rounds, attempts and providers run out.
EveryRequestAnswered == \A r \in Requests : pc[r] # "idle" ~> pc[r] = "idle"

\* What docs/security-overview.md says: "LLM interactions are logged".
EveryInteractionLogged == ~unlogged

=============================================================================
