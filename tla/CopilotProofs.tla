--------------------------- MODULE CopilotProofs ---------------------------
(***************************************************************************)
(* Theorems about Copilot, for any users, requests, quotas and providers.  *)
(***************************************************************************)
EXTENDS Copilot, FiniteSetTheorems, TLAPS

\* Quotas that may be stored.
Stored == {Clamp(q) : q \in Quotas}

\* The quota and what requests know of it were stored once.
LimitsInv ==
    /\ quota \in Stored
    /\ \A r \in Requests : pc[r] \in {"usage", "daily"} => req[r].limits \in Stored

\* A request is counted on a day that has come, and no later day has counts.
DaysInv ==
    /\ \A r \in Requests : pc[r] = "countDay" => req[r].day <= day
    /\ \A u \in Users, d \in Days : d > day => daily[u][d] = 0

\* Labels of a request past all checks that is not counted for the month, and
\* the requests past the monthly check among those and those before the daily one.
Past == {"next", "countMonth"} \cup Calling
Admitted == {r \in Requests : pc[r] = "daily" \/ pc[r] \in Past}

\* Requests of user u past all checks that may still be counted on day d.
AdmittedOn(u, d) ==
    {r \in Requests : /\ req[r].user = u
                      /\ \/ pc[r] \in Past /\ day <= d
                         \/ pc[r] = "countDay" /\ req[r].day = d}

\* What is counted, with what may still be, stays below limit and requests.
MonthlyInv ==
    \A n \in {s.monthly : s \in Stored} :
        (\A s \in Stored : s.monthly \in 1..n) =>
            month.requests + Cardinality(Admitted) < n + Cardinality(Requests)
DailyInv ==
    \A n \in {s.daily : s \in Stored} :
        (\A s \in Stored : s.daily \in 1..n) =>
            \A u \in Users, d \in Days :
                daily[u][d] + Cardinality(AdmittedOn(u, d)) < n + Cardinality(Requests)

TInv == TypeOK /\ LimitsInv

-----------------------------------------------------------------------------
(* Type correctness.                                                       *)

\* A quota that an administrator asks for is one when it is clamped.
LEMMA ClampType == Stored \subseteq Limits
BY QuotasAssumption DEF Stored, Clamp, Lesser, Limits

\* What TInv says of the requests: of one of them, and of all.
RequestOK(r) ==
    /\ pc[r] # "idle" => req[r].user \in Users
    /\ pc[r] \in Calling /\ req[r].op # "explain" => req[r].at <= Len(Order)
    /\ pc[r] \in {"usage", "daily"} => req[r].limits \in Stored
RequestsOK ==
    /\ pc \in [Requests -> Labels]
    /\ req \in [Requests -> Request]
    /\ \A r \in Requests : RequestOK(r)

\* What it says of the rest.
SharedOK ==
    /\ quota \in Stored
    /\ month \in [requests : Nat, cost : Nat]
    /\ daily \in [Users -> [Days -> Nat]]
    /\ circuit \in [Providers -> {"closed", "open", "lapsed"}]
    /\ failures \in [Providers -> Nat]
    /\ day \in Days
    /\ unlogged \in BOOLEAN
    /\ asked \in Nat /\ answered \in Nat /\ faults \in Nat

\* TInv is these two parts.
LEMMA TSplit == TInv <=> RequestsOK /\ SharedOK
BY ClampType DEF TInv, TypeOK, LimitsInv, RequestsOK, RequestOK, SharedOK

\* In the next state too.
LEMMA TSplitNext == RequestsOK' /\ SharedOK' => TInv'
BY ClampType DEF TInv, TypeOK, LimitsInv, RequestsOK, RequestOK, SharedOK

\* A request has no locals before it is made.
LEMMA NoRequestType == NoRequest \in Request
<1>1. Len(Order) \in Nat
  BY OrderAssumption
<1>2. 1 \in 1..Len(Order) + 1
  BY <1>1
<1>3. 0 \in 0..Retries /\ 1 \in Days
  BY SettingsAssumption, BoundsAssumption DEF Days
<1>4. NoQuota \in Limits
  BY DEF NoQuota, Limits
<1> QED  BY <1>2, <1>3, <1>4 DEF NoRequest, Request, Operations

\* Locals stay well typed when a provider is asked anew.
LEMMA TurnToType ==
    ASSUME NEW q \in Request, NEW i \in 1..Len(Order) + 1
    PROVE  TurnTo(q, i) \in Request /\ TurnTo(q, i).user = q.user
<1>1. 0 \in 0..Retries
  BY SettingsAssumption
<1> DEFINE a == [q EXCEPT !.at = i]
           b == [a EXCEPT !.round = 1]
           c == [b EXCEPT !.attempt = 0]
<1>2. a \in Request /\ a.user = q.user
  BY DEF Request
<1> HIDE DEF a
<1>3. b \in Request /\ b.user = a.user
  BY <1>2 DEF Request
<1> HIDE DEF b
<1>4. c \in Request /\ c.user = b.user
  BY <1>1, <1>3 DEF Request
<1> HIDE DEF c
<1>5. [c EXCEPT !.owes = FALSE] \in Request /\ [c EXCEPT !.owes = FALSE].user = c.user
  BY <1>4 DEF Request
<1>6. TurnTo(q, i) = [c EXCEPT !.owes = FALSE]
  BY DEF TurnTo, a, b, c
<1> QED  BY <1>2, <1>3, <1>4, <1>5, <1>6

\* The initial state is well typed.
LEMMA TInit == Init => TInv
<1> SUFFICES ASSUME Init PROVE RequestsOK /\ SharedOK
  BY TSplit
<1>1. RequestsOK
  BY NoRequestType DEF Init, RequestsOK, RequestOK, Labels, Calling
<1>2. quota \in Stored /\ day \in Days
  BY BoundsAssumption DEF Init, Stored, Days
<1>3. SharedOK
  BY <1>2 DEF Init, SharedOK
<1> QED  BY <1>1, <1>3

\* A request that ends keeps the types.
LEMMA FinishTypes ==
    ASSUME RequestsOK, NEW r \in Requests, Finish(r) PROVE RequestsOK'
BY NoRequestType DEF RequestsOK, RequestOK, Finish, Labels, Calling

\* So does one whose label and locals change in any well-typed way.
LEMMA MoveTypes ==
    ASSUME RequestsOK, NEW r \in Requests, NEW label \in Labels, NEW request \in Request,
           pc' = [pc EXCEPT ![r] = label], req' = [req EXCEPT ![r] = request],
           request.user \in Users,
           label \in Calling /\ request.op # "explain" => request.at <= Len(Order),
           label \in {"usage", "daily"} => request.limits \in Stored
    PROVE  RequestsOK'
BY DEF RequestsOK, RequestOK

\* So does one that goes on with its provider.
LEMMA OnwardTypes ==
    ASSUME RequestsOK, NEW r \in Requests, pc[r] \in Calling,
           NEW label \in Labels \ {"usage", "daily"}, NEW request \in Request,
           request.user = req[r].user, request.op = req[r].op, request.at = req[r].at,
           pc' = [pc EXCEPT ![r] = label], req' = [req EXCEPT ![r] = request]
    PROVE  RequestsOK'
<1>1. request.user \in Users /\ (request.op # "explain" => request.at <= Len(Order))
  BY DEF RequestsOK, RequestOK, Calling
<1> QED  BY <1>1, MoveTypes

\* Locals stay well typed when a log is owed or written.
LEMMA OwesType ==
    ASSUME NEW q \in Request, NEW b \in BOOLEAN
    PROVE  /\ [q EXCEPT !.owes = b] \in Request /\ [q EXCEPT !.owes = b].user = q.user
           /\ [q EXCEPT !.owes = b].op = q.op /\ [q EXCEPT !.owes = b].at = q.at
BY DEF Request

\* A request that goes on with its locals as they are keeps the types.
LEMMA GotoTypes ==
    ASSUME RequestsOK, NEW r \in Requests, NEW label \in Labels, Goto(r, label), pc[r] # "idle",
           label \in Calling => pc[r] \in Calling \/ req[r].op = "explain"
                                                \/ req[r].at <= Len(Order),
           label = "daily" => pc[r] = "usage", label # "usage"
    PROVE  RequestsOK'
BY DEF RequestsOK, RequestOK, Goto

\* Every step keeps the types.
LEMMA TNext == TInv /\ [Next]_vars => TInv'
<1> SUFFICES ASSUME RequestsOK, SharedOK, [Next]_vars PROVE RequestsOK' /\ SharedOK'
  BY TSplit, TSplitNext
<1> USE DEF documents, breakers, history
<1>u. CASE UNCHANGED vars
  BY <1>u DEF vars, RequestsOK, RequestOK, SharedOK
<1>a. ASSUME NEW r \in Requests, Ask(r) PROVE RequestsOK' /\ SharedOK'
  <2>1. PICK u \in Users, operation \in Operations :
             req' = [req EXCEPT ![r] = [NoRequest EXCEPT !.user = u, !.op = operation]]
    BY <1>a DEF Ask
  <2> DEFINE request == [NoRequest EXCEPT !.user = u, !.op = operation]
  <2>2. request \in Request /\ request.user = u
    BY NoRequestType DEF NoRequest, Request
  <2>h. pc' = [pc EXCEPT ![r] = "quota"] /\ req' = [req EXCEPT ![r] = request]
    BY <1>a, <2>1 DEF Ask
  <2> HIDE DEF request
  <2>3. RequestsOK'
    BY <2>h, <2>2, MoveTypes DEF Labels, Calling
  <2>4. SharedOK'
    BY <1>a DEF Ask, SharedOK
  <2> QED  BY <2>3, <2>4
<1>b. ASSUME NEW r \in Requests, Abort(r) PROVE RequestsOK' /\ SharedOK'
  BY <1>b, FinishTypes DEF Abort, SharedOK
<1>c. ASSUME NEW p \in Providers, Lapse(p) PROVE RequestsOK' /\ SharedOK'
  BY <1>c DEF Lapse, RequestsOK, RequestOK, SharedOK
<1>d. CASE UpdateQuota
  BY <1>d DEF UpdateQuota, RequestsOK, RequestOK, SharedOK, Stored
<1>e. CASE NextDay
  BY <1>e, BoundsAssumption DEF NextDay, RequestsOK, RequestOK, SharedOK, Days
<1>s. ASSUME NEW r \in Requests, Step(r) PROVE RequestsOK' /\ SharedOK'
  <2> DEFINE q == req[r]
  <2>q. q \in Request /\ pc[r] \in Labels /\ RequestOK(r)
    BY DEF RequestsOK
  <2>n. Len(Order) \in Nat
    BY OrderAssumption
  <2>p. pc[r] \in Calling => ProviderOf(r) \in Providers
    BY <2>q, <2>n, OrderAssumption DEF ProviderOf, RequestOK, Request, Providers
  <2>l. q.limits \in Limits /\ quota \in Limits
    BY <2>q, ClampType DEF Request, SharedOK
  <2>1. CASE ReadQuota(r)
    <3>1. CASE Finish(r)
      BY <2>1, <3>1, FinishTypes DEF ReadQuota, SharedOK
    <3>2. CASE pc' = [pc EXCEPT ![r] = "usage"] /\ req' = [req EXCEPT ![r].limits = quota]
      <4>1. [q EXCEPT !.limits = quota] \in Request /\ [q EXCEPT !.limits = quota].user \in Users
        BY <2>q, <2>l, <2>1 DEF Request, RequestOK, ReadQuota
      <4>2. [q EXCEPT !.limits = quota].limits \in Stored
        BY <2>q DEF SharedOK, Request
      <4>3. RequestsOK'
        BY <3>2, <4>1, <4>2, MoveTypes DEF Labels, Calling
      <4> QED  BY <2>1, <4>3 DEF ReadQuota, SharedOK
    <3> QED  BY <2>1, <3>1, <3>2 DEF ReadQuota
  <2>2. CASE ReadUsage(r)
    <3>1. CASE Finish(r)
      BY <2>2, <3>1, FinishTypes DEF ReadUsage, SharedOK
    <3>2. CASE Goto(r, "daily") \/ Goto(r, Begin(q.op))
      BY <2>2, <3>2, <2>q, GotoTypes DEF ReadUsage, SharedOK, Begin, Labels, Calling
    <3> QED  BY <2>2, <3>1, <3>2 DEF ReadUsage
  <2>3. CASE ReadDaily(r)
    <3>1. CASE Finish(r)
      BY <2>3, <3>1, FinishTypes DEF ReadDaily, SharedOK
    <3>2. CASE Goto(r, Begin(q.op))
      BY <2>3, <3>2, <2>q, GotoTypes DEF ReadDaily, SharedOK, Begin, Labels, Calling
    <3> QED  BY <2>3, <3>1, <3>2 DEF ReadDaily
  <2>4. CASE NextProvider(r)
    <3>1. CASE q.at > Len(Order)
      BY <2>4, <3>1, FinishTypes DEF NextProvider, SharedOK
    <3>2. CASE q.at <= Len(Order)
      <4>1. Order[q.at] \in Providers
        BY <2>q, <2>n, <3>2, OrderAssumption DEF Request
      <4>2. ~ (q.at > Len(Order))
        BY <2>q, <2>n, <3>2 DEF Request
      <4>3. CASE circuit[Order[q.at]] = "open"
        <5>1. [q EXCEPT !.at = @ + 1] \in Request /\ [q EXCEPT !.at = @ + 1].user = q.user
          BY <2>q, <2>n, <3>2 DEF Request
        <5>2. pc' = [pc EXCEPT ![r] = "next"] /\ req' = [req EXCEPT ![r] = [q EXCEPT !.at = @ + 1]]
          BY <2>4, <4>2, <4>3 DEF NextProvider, RequestsOK
        <5>3. RequestsOK'
          BY <2>q, <2>4, <5>1, <5>2, MoveTypes DEF Labels, Calling, RequestOK, NextProvider
        <5> QED  BY <2>4, <4>2, <4>3, <5>3 DEF NextProvider, SharedOK
      <4>4. CASE circuit[Order[q.at]] # "open"
        <5>1. PICK label \in {"lookup", "call", "giveUp"} : Goto(r, label)
          BY <2>4, <4>2, <4>4 DEF NextProvider, Approach
        <5>2. RequestsOK'
          BY <2>4, <3>2, <5>1, GotoTypes DEF NextProvider, Labels, Calling
        <5>3. SharedOK'
          BY <2>4, <4>1, <4>2, <4>4 DEF NextProvider, SharedOK
        <5> QED  BY <5>2, <5>3
      <4> QED  BY <4>3, <4>4
    <3> QED  BY <2>q, <2>n, <3>1, <3>2 DEF Request
  <2>5. CASE Lookup(r)
    <3>1. CASE Finish(r)
      BY <2>5, <3>1, FinishTypes DEF Lookup, SharedOK
    <3>2. CASE Approach(r)
      <4>1. PICK label \in {"call", "giveUp"} : Goto(r, label)
        BY <3>2 DEF Approach
      <4>2. RequestsOK'
        BY <2>5, <4>1, GotoTypes DEF Lookup, Labels, Calling
      <4> QED  BY <2>5, <4>2 DEF Lookup, SharedOK
    <3> QED  BY <2>5, <3>1, <3>2 DEF Lookup
  <2>6. CASE Answer(r)
    <3>1. SharedOK'
      BY <2>6, <2>p DEF Answer, SharedOK, Calling
    <3>2. PICK label \in {"log", "call", "garbled"}, request \in Request :
               /\ pc' = [pc EXCEPT ![r] = label] /\ req' = [req EXCEPT ![r] = request]
               /\ request.user = q.user /\ request.op = q.op /\ request.at = q.at
      <4>1. CASE req' = [req EXCEPT ![r].owes = TRUE]
        <5>1. PICK label \in {"log", "call", "garbled"} : pc' = [pc EXCEPT ![r] = label]
          BY <2>6, <4>1 DEF Answer, RequestsOK
        <5>2. [q EXCEPT !.owes = TRUE] \in Request
          BY <2>q DEF Request
        <5> QED  BY <2>q, <4>1, <5>1, <5>2 DEF Request
      <4>2. CASE /\ q.round < Rounds(q.op, ProviderOf(r))
                 /\ req' = [req EXCEPT ![r].round = @ + 1, ![r].attempt = 0, ![r].owes = TRUE]
                 /\ UNCHANGED pc
        <5> DEFINE request == [q EXCEPT !.round = @ + 1, !.attempt = 0, !.owes = TRUE]
        <5>0. q.round + 1 \in 1..2 /\ 0 \in 0..Retries
          BY <2>q, <4>2, SettingsAssumption DEF Request, Rounds
        <5>1. request \in Request
          BY <2>q, <5>0 DEF Request
        <5>2. pc' = [pc EXCEPT ![r] = "call"]
          BY <2>6, <4>2 DEF Answer, RequestsOK
        <5>3. req' = [req EXCEPT ![r] = request]
          BY <4>2 DEF RequestsOK
        <5>4. request.user = q.user /\ request.op = q.op /\ request.at = q.at
          BY <2>q DEF Request
        <5> QED  BY <5>1, <5>2, <5>3, <5>4
      <4> QED  BY <2>6, <4>1, <4>2 DEF Answer
    <3>3. pc[r] = "call"
      BY <2>6 DEF Answer
    <3>4. RequestsOK'
      BY <3>2, <3>3, OnwardTypes DEF Labels, Calling
    <3> QED  BY <3>1, <3>4
  <2>7. CASE CallFails(r)
    <3>1. SharedOK'
      BY <2>7 DEF CallFails, SharedOK
    <3>2. CASE q.attempt < Retries /\ req' = [req EXCEPT ![r].attempt = @ + 1] /\ UNCHANGED pc
      <4> DEFINE request == [q EXCEPT !.attempt = @ + 1]
      <4>1. q.attempt + 1 \in 0..Retries
        BY <2>q, <3>2, SettingsAssumption DEF Request
      <4>2. /\ request \in Request /\ request.user = q.user /\ request.op = q.op
            /\ request.at = q.at
        BY <2>q, <4>1 DEF Request
      <4>m. /\ pc' = [pc EXCEPT ![r] = "call"] /\ req' = [req EXCEPT ![r] = request]
            /\ pc[r] \in Calling
        BY <2>7, <3>2 DEF CallFails, RequestsOK, Calling
      <4> HIDE DEF request
      <4>3. RequestsOK'
        BY <4>2, <4>m, OnwardTypes DEF Labels
      <4> QED  BY <3>1, <4>3
    <3>3. CASE req' = [req EXCEPT ![r].owes = TRUE] /\ pc' = [pc EXCEPT ![r] = "count"]
      <4>1. pc[r] \in Calling
        BY <2>7 DEF CallFails, Calling
      <4>2. RequestsOK'
        BY <2>q, <3>3, <4>1, OnwardTypes, OwesType DEF Labels
      <4> QED  BY <3>1, <4>2
    <3> QED  BY <2>7, <3>2, <3>3 DEF CallFails
  <2>8. CASE CountFailure(r)
    <3>1. SharedOK'
      BY <2>8, <2>p DEF CountFailure, SharedOK, Calling
    <3>2. PICK label \in {"trip", "logFailure"} : Goto(r, label)
      BY <2>8 DEF CountFailure
    <3>3. RequestsOK'
      BY <2>8, <3>2, GotoTypes DEF CountFailure, Labels, Calling
    <3> QED  BY <3>1, <3>3
  <2>9. CASE Trip(r)
    <3>1. RequestsOK'
      BY <2>9, GotoTypes DEF Trip, Labels, Calling
    <3> QED  BY <2>9, <3>1, <2>p DEF Trip, SharedOK, Calling
  <2>10. CASE LogFailure(r) \/ Garbled(r) \/ Log(r)
    <3>1. SharedOK'
      BY <2>10 DEF LogFailure, Garbled, Log, SharedOK
    <3>2. PICK label \in {"giveUp", "log", "countMonth"}, b \in BOOLEAN :
               /\ pc' = [pc EXCEPT ![r] = label] /\ req' = [req EXCEPT ![r].owes = b]
               /\ pc[r] \in Calling
      BY <2>10, <2>q DEF LogFailure, Garbled, Log, Request, Calling
    <3>3. RequestsOK'
      BY <2>q, <3>2, OnwardTypes, OwesType DEF Labels
    <3> QED  BY <3>1, <3>3
  <2>11. CASE GiveUp(r)
    <3>1. SharedOK'
      BY <2>11, <2>q DEF GiveUp, SharedOK, Request
    <3>2. CASE q.op = "explain"
      BY <2>11, <3>1, <3>2, FinishTypes DEF GiveUp
    <3>3. CASE q.op # "explain"
      <4> DEFINE request == TurnTo(q, q.at + 1)
      <4>1. q.at <= Len(Order)
        BY <2>q, <2>11, <3>3 DEF GiveUp, RequestOK, Calling
      <4>i. q.at + 1 \in 1..Len(Order) + 1
        BY <2>q, <2>n, <4>1 DEF Request
      <4>2. request \in Request /\ request.user = q.user
        BY <2>q, <4>i, TurnToType
      <4>3. pc' = [pc EXCEPT ![r] = "next"] /\ req' = [req EXCEPT ![r] = request]
        BY <2>11, <3>3 DEF GiveUp
      <4>4. request.user \in Users
        BY <2>q, <2>11, <4>2 DEF GiveUp, RequestOK
      <4> HIDE DEF request
      <4>5. RequestsOK'
        BY <4>2, <4>3, <4>4, MoveTypes DEF Labels, Calling
      <4> QED  BY <3>1, <4>5
    <3> QED  BY <3>2, <3>3
  <2>12. CASE CountMonth(r)
    <3>c. month' \in [requests : Nat, cost : Nat]
      <4>1. Cost(q.op) \in Nat /\ month.cost \in Nat /\ month.requests \in Nat
        BY DEF Cost, SharedOK
      <4>2. month' = [requests |-> month.requests + 1, cost |-> month.cost + Cost(q.op)]
        BY <2>12 DEF CountMonth, SharedOK
      <4> QED  BY <4>1, <4>2
    <3>1. SharedOK'
      BY <2>12, <3>c DEF CountMonth, SharedOK
    <3>2. [q EXCEPT !.day = day] \in Request
      BY <2>q DEF Request, SharedOK
    <3>m. [q EXCEPT !.day = day].user \in Users
      BY <2>q, <2>12 DEF CountMonth, RequestOK, Request
    <3>3. RequestsOK'
      BY <2>12, <3>2, <3>m, MoveTypes DEF CountMonth, Labels, Calling
    <3> QED  BY <3>1, <3>3
  <2>13. CASE CountDay(r)
    <3>1. q.user \in Users /\ q.day \in Days
      BY <2>q, <2>13 DEF CountDay, RequestOK, Request
    <3>2. SharedOK'
      BY <2>13, <3>1 DEF CountDay, SharedOK
    <3>3. RequestsOK'
      BY <2>13, GotoTypes DEF CountDay, Labels, Calling
    <3> QED  BY <3>2, <3>3
  <2>14. CASE Reply(r)
    BY <2>14, FinishTypes DEF Reply, SharedOK
  <2> QED
    BY <1>s, <2>1, <2>2, <2>3, <2>4, <2>5, <2>6, <2>7, <2>8, <2>9, <2>10, <2>11, <2>12, <2>13,
       <2>14 DEF Step
<1> QED  BY <1>u, <1>a, <1>b, <1>c, <1>d, <1>e, <1>s DEF Next

\* TypeOK holds: every stage of a request has what it needs, and no index is out
\* of range.
THEOREM TypeCorrect == Spec => []TypeOK
<1>1. TInv => TypeOK
  BY DEF TInv
<1> QED  BY TInit, TNext, <1>1, PTL DEF Spec

-----------------------------------------------------------------------------
(* The limits.                                                             *)

\* A step that admits nobody, counts nothing and ends no day.
Frame ==
    /\ month'.requests = month.requests /\ daily' = daily /\ day' = day
    /\ \A r \in Requests :
         /\ pc'[r] \in Past => pc[r] \in Past /\ req'[r].user = req[r].user
         /\ pc'[r] = "daily" => pc[r] = "daily"
         /\ pc'[r] = "countDay" => pc[r] = "countDay" /\ req'[r] = req[r]

\* Most steps are of that kind.
LEMMA Classify ==
    ASSUME RequestsOK, SharedOK, [Next]_vars
    PROVE  \/ Frame \/ NextDay
           \/ \E r \in Requests : \/ ReadUsage(r) \/ ReadDaily(r)
                                   \/ CountMonth(r) \/ CountDay(r)
<1> USE DEF documents, breakers, history, Frame, RequestsOK
<1>1. CASE UNCHANGED vars \/ UpdateQuota \/ \E p \in Providers : Lapse(p)
  BY <1>1 DEF vars, UpdateQuota, Lapse
<1>2. ASSUME NEW r \in Requests, Finish(r), documents' = documents, day' = day PROVE Frame
  BY <1>2 DEF Finish, Past, Calling
<1>3. ASSUME NEW r \in Requests, Ask(r) PROVE Frame
  BY <1>3 DEF Ask, Past, Calling
<1>4. ASSUME NEW r \in Requests, ReadQuota(r) \/ Abort(r) \/ Reply(r) PROVE Frame
  <2>1. CASE Finish(r)
    BY <1>2, <1>4, <2>1 DEF ReadQuota, Abort, Reply
  <2>2. CASE ReadQuota(r) /\ pc' = [pc EXCEPT ![r] = "usage"]
                          /\ req' = [req EXCEPT ![r].limits = quota]
    BY <2>2 DEF ReadQuota, Past, Calling
  <2> QED  BY <1>4, <2>1, <2>2 DEF ReadQuota, Abort, Reply
<1>5. ASSUME NEW r \in Requests, pc[r] \in Past, documents' = documents, day' = day,
             NEW label \in Past, pc' = [pc EXCEPT ![r] = label],
             NEW request, req' = [req EXCEPT ![r] = request], request.user = req[r].user
      PROVE  Frame
  BY <1>5 DEF Past, Calling
<1>6. ASSUME NEW r \in Requests,
             \/ NextProvider(r) \/ Lookup(r) \/ Answer(r) \/ CallFails(r) \/ CountFailure(r)
             \/ Trip(r) \/ LogFailure(r) \/ Garbled(r) \/ GiveUp(r) \/ Log(r)
      PROVE  Frame
  <2> DEFINE q == req[r]
  <2>0. pc[r] \in Past /\ documents' = documents /\ day' = day /\ q \in Request
    BY <1>6 DEF NextProvider, Lookup, Answer, CallFails, CountFailure, Trip, LogFailure, Garbled,
                GiveUp, Log, Past, Calling
  <2>1. CASE Finish(r)
    BY <1>2, <2>0, <2>1
  <2>2. CASE \E label \in Past : Goto(r, label)
    <3>1. req' = [req EXCEPT ![r] = req[r]]
      BY <2>2 DEF Goto
    <3> QED  BY <1>5, <2>0, <2>2, <3>1 DEF Goto
  <2>3. CASE \E label \in Past, request \in Request :
               /\ pc' = [pc EXCEPT ![r] = label]
               /\ req' = [req EXCEPT ![r] = request] /\ request.user = q.user
    BY <1>5, <2>0, <2>3
  <2>4. NextProvider(r) => Finish(r) \/ (\E label \in Past : Goto(r, label))
                           \/ (UNCHANGED pc /\ req' = [req EXCEPT ![r].at = @ + 1])
    BY DEF NextProvider, Approach, Past, Calling
  <2>5. Lookup(r) => Finish(r) \/ (\E label \in Past : Goto(r, label))
    BY DEF Lookup, Approach, Past, Calling
  <2>6. CountFailure(r) \/ Trip(r) => \E label \in Past : Goto(r, label)
    BY DEF CountFailure, Trip, Past, Calling
  <2>7. CASE UNCHANGED pc /\ req' = [req EXCEPT ![r].at = @ + 1]
    BY <2>0, <2>7 DEF Request, Past, Calling
  <2>8. CASE Answer(r) \/ CallFails(r)
    BY <2>0, <2>8 DEF Answer, CallFails, Request, Past, Calling
  <2>9. CASE LogFailure(r) \/ Garbled(r) \/ Log(r)
    BY <2>0, <2>9 DEF LogFailure, Garbled, Log, Request, Past, Calling
  <2>10. CASE GiveUp(r)
    <3>1. CASE q.op = "explain"
      BY <2>1, <2>10, <3>1 DEF GiveUp
    <3>2. CASE q.op # "explain"
      <4>1. q.at \in Nat /\ q.at > 0 /\ q.at <= Len(Order) /\ Len(Order) \in Nat
        BY <2>0, <2>10, <3>2, OrderAssumption DEF GiveUp, RequestOK, Request, Calling
      <4>2. q.at + 1 \in 1..Len(Order) + 1
        BY <4>1
      <4>3. TurnTo(q, q.at + 1) \in Request /\ TurnTo(q, q.at + 1).user = q.user
        BY <2>0, <4>2, TurnToType
      <4>4. pc' = [pc EXCEPT ![r] = "next"] /\ req' = [req EXCEPT ![r] = TurnTo(q, q.at + 1)]
        BY <2>10, <3>2 DEF GiveUp
      <4> QED  BY <2>3, <4>3, <4>4 DEF Past
    <3> QED  BY <3>1, <3>2
  <2> QED  BY <1>6, <2>1, <2>2, <2>4, <2>5, <2>6, <2>7, <2>8, <2>9, <2>10
<1> QED  BY <1>1, <1>3, <1>4, <1>6 DEF Next, Step

\* Days are counted in turn.
LEMMA DaysNext == TInv /\ DaysInv /\ [Next]_vars => DaysInv'
<1> SUFFICES ASSUME RequestsOK, SharedOK, DaysInv, [Next]_vars PROVE DaysInv'
  BY TSplit
<1> USE DEF DaysInv, documents, breakers, history, RequestsOK, SharedOK, Days
<1>1. CASE Frame
  BY <1>1 DEF Frame
<1>2. CASE NextDay
  BY <1>2 DEF NextDay, Request
<1>3. ASSUME NEW r \in Requests, ReadUsage(r) \/ ReadDaily(r) PROVE DaysInv'
  <2>1. daily' = daily /\ day' = day
    BY <1>3 DEF ReadUsage, ReadDaily
  <2>2. CASE Finish(r)
    BY <2>1, <2>2 DEF Finish
  <2>3. CASE \E label \in Labels \ {"countDay"} : Goto(r, label)
    BY <2>1, <2>3 DEF Goto
  <2> QED  BY <1>3, <2>2, <2>3 DEF ReadUsage, ReadDaily, Begin, Labels
<1>4. ASSUME NEW r \in Requests, CountMonth(r) PROVE DaysInv'
  BY <1>4 DEF CountMonth, Request
<1>5. ASSUME NEW r \in Requests, CountDay(r) PROVE DaysInv'
  <2>1. req[r].user \in Users /\ req[r].day \in Days /\ req[r].day <= day
    BY <1>5 DEF CountDay, RequestOK, Request
  <2> QED  BY <1>5, <2>1 DEF CountDay, Goto
<1> QED  BY <1>1, <1>2, <1>3, <1>4, <1>5, Classify

\* Sets of requests are finite, and their sizes ordered as they are.
LEMMA Sizes ==
    /\ Cardinality(Requests) \in Nat
    /\ \A S \in SUBSET Requests :
         /\ Cardinality(S) \in Nat /\ Cardinality(S) <= Cardinality(Requests)
         /\ \A T \in SUBSET S : Cardinality(T) \in Nat /\ Cardinality(T) <= Cardinality(S)
         /\ \A r \in S : Cardinality(S \ {r}) = Cardinality(S) - 1
<1>1. Cardinality(Requests) \in Nat
  BY RequestsAssumption, FS_CardinalityType
<1>2. ASSUME NEW S \in SUBSET Requests
      PROVE  /\ Cardinality(S) \in Nat /\ Cardinality(S) <= Cardinality(Requests)
             /\ \A T \in SUBSET S : Cardinality(T) \in Nat /\ Cardinality(T) <= Cardinality(S)
             /\ \A r \in S : Cardinality(S \ {r}) = Cardinality(S) - 1
  <2>1. IsFiniteSet(S) /\ Cardinality(S) <= Cardinality(Requests)
    BY RequestsAssumption, FS_Subset
  <2>2. Cardinality(S) \in Nat
    BY <2>1, FS_CardinalityType
  <2>3. \A T \in SUBSET S : Cardinality(T) \in Nat /\ Cardinality(T) <= Cardinality(S)
    BY <2>1, FS_Subset, FS_CardinalityType
  <2>4. \A r \in S : Cardinality(S \ {r}) = Cardinality(S) - 1
    BY <2>1, FS_RemoveElement
  <2> QED  BY <2>1, <2>2, <2>3, <2>4
<1> QED  BY <1>1, <1>2

\* The monthly count, with those admitted, stays below the limit and the requests.
LEMMA MonthlyNext == TInv /\ MonthlyInv /\ [Next]_vars => MonthlyInv'
<1> SUFFICES ASSUME RequestsOK, SharedOK, MonthlyInv, [Next]_vars,
                    NEW n \in {s.monthly : s \in Stored}, \A s \in Stored : s.monthly \in 1..n
             PROVE  month'.requests + Cardinality(Admitted') < n + Cardinality(Requests)
  BY TSplit DEF MonthlyInv
<1> USE DEF documents, breakers, history, RequestsOK
<1>0. /\ n \in Nat /\ month.requests \in Nat /\ Admitted \subseteq Requests
      /\ Admitted' \subseteq Requests
  BY ClampType DEF Limits, SharedOK, Admitted
<1>h. month.requests + Cardinality(Admitted) < n + Cardinality(Requests)
  BY DEF MonthlyInv
<1>k. CASE month'.requests = month.requests /\ Admitted' \subseteq Admitted
  BY <1>0, <1>h, <1>k, Sizes
<1>1. CASE Frame
  BY <1>1, <1>k DEF Frame, Admitted
<1>2. CASE NextDay
  BY <1>2, <1>k DEF NextDay, Admitted
<1>3. ASSUME NEW r \in Requests, ReadUsage(r)
      PROVE  month'.requests + Cardinality(Admitted') < n + Cardinality(Requests)
  <2>1. CASE Finish(r)
    BY <1>3, <1>k, <2>1 DEF ReadUsage, Finish, Admitted, Past, Calling
  <2>2. CASE ~ (req[r].limits.monthly > 0 /\ month.requests >= req[r].limits.monthly)
    <3>1. req[r].limits.monthly \in 1..n
      BY <1>3 DEF ReadUsage, RequestOK
    <3>2. month.requests < n /\ month' = month
      BY <1>0, <1>3, <2>2, <3>1 DEF ReadUsage
    <3> QED  BY <1>0, <3>2, Sizes
  <2> QED  BY <1>3, <2>1, <2>2 DEF ReadUsage
<1>4. ASSUME NEW r \in Requests, ReadDaily(r) \/ CountDay(r)
      PROVE  month'.requests + Cardinality(Admitted') < n + Cardinality(Requests)
  BY <1>4, <1>k DEF ReadDaily, CountDay, Goto, Finish, Admitted, Past, Calling
<1>5. ASSUME NEW r \in Requests, CountMonth(r)
      PROVE  month'.requests + Cardinality(Admitted') < n + Cardinality(Requests)
  <2>1. Admitted' = Admitted \ {r} /\ r \in Admitted
    BY <1>5 DEF CountMonth, Admitted, Past, Calling
  <2>2. month'.requests = month.requests + 1
    BY <1>5 DEF CountMonth, SharedOK
  <2> QED  BY <1>0, <1>h, <2>1, <2>2, Sizes
<1> QED  BY <1>1, <1>2, <1>3, <1>4, <1>5, Classify

\* The daily count of a user, with those who may be counted on the day, too.
LEMMA DailyNext == TInv /\ DaysInv /\ DailyInv /\ [Next]_vars => DailyInv'
<1> SUFFICES ASSUME RequestsOK, SharedOK, DaysInv, DailyInv, [Next]_vars,
                    NEW n \in {s.daily : s \in Stored}, \A s \in Stored : s.daily \in 1..n,
                    NEW u \in Users, NEW d \in Days
             PROVE  daily'[u][d] + Cardinality(AdmittedOn(u, d)') < n + Cardinality(Requests)
  BY TSplit DEF DailyInv
<1> USE DEF documents, breakers, history, RequestsOK
<1>0. /\ n \in Nat /\ n > 0 /\ daily[u][d] \in Nat /\ AdmittedOn(u, d) \subseteq Requests
      /\ AdmittedOn(u, d)' \subseteq Requests /\ day \in Nat /\ d \in Nat
  BY ClampType, BoundsAssumption DEF Limits, SharedOK, AdmittedOn, Days
<1>h. daily[u][d] + Cardinality(AdmittedOn(u, d)) < n + Cardinality(Requests)
  BY DEF DailyInv
<1>k. CASE daily'[u][d] = daily[u][d] /\ AdmittedOn(u, d)' \subseteq AdmittedOn(u, d)
  BY <1>0, <1>h, <1>k, Sizes
<1>1. CASE Frame
  BY <1>1, <1>k DEF Frame, AdmittedOn
<1>2. CASE NextDay
  BY <1>0, <1>2, <1>k DEF NextDay, AdmittedOn
<1>3. ASSUME NEW r \in Requests, ReadUsage(r)
      PROVE  daily'[u][d] + Cardinality(AdmittedOn(u, d)') < n + Cardinality(Requests)
  <2>1. CASE Finish(r)
    BY <1>3, <1>k, <2>1 DEF ReadUsage, Finish, AdmittedOn, Past, Calling
  <2>2. CASE Goto(r, "daily")
    BY <1>3, <1>k, <2>2 DEF ReadUsage, Goto, AdmittedOn, Past, Calling
  <2>3. req[r].limits.daily \in 1..n
    BY <1>3 DEF ReadUsage, RequestOK
  <2>4. req[r].limits.daily > 0
    BY <1>0, <2>3
  <2> QED  BY <1>3, <2>1, <2>2, <2>4 DEF ReadUsage
<1>4. ASSUME NEW r \in Requests, ReadDaily(r)
      PROVE  daily'[u][d] + Cardinality(AdmittedOn(u, d)') < n + Cardinality(Requests)
  <2>1. CASE Finish(r)
    BY <1>4, <1>k, <2>1 DEF ReadDaily, Finish, AdmittedOn, Past, Calling
  <2>2. CASE Goto(r, Begin(req[r].op)) /\ (req[r].user # u \/ ~ (day <= d))
    BY <1>4, <1>k, <2>2 DEF ReadDaily, Goto, AdmittedOn, Past, Calling, Begin
  <2>3. CASE /\ ~ (daily[req[r].user][day] >= req[r].limits.daily)
             /\ req[r].user = u /\ day <= d
    <3>1. req[r].limits.daily \in 1..n
      BY <1>4 DEF ReadDaily, RequestOK
    <3>2. daily' = daily
      BY <1>4 DEF ReadDaily
    <3>3. daily[u][d] < n
      BY <1>0, <2>3, <3>1 DEF DaysInv
    <3> QED  BY <1>0, <3>2, <3>3, Sizes
  <2> QED  BY <1>4, <2>1, <2>2, <2>3 DEF ReadDaily
<1>5. ASSUME NEW r \in Requests, CountMonth(r)
      PROVE  daily'[u][d] + Cardinality(AdmittedOn(u, d)') < n + Cardinality(Requests)
  <2>1. req'[r].user = req[r].user /\ req'[r].day = day
    BY <1>5 DEF CountMonth, Request
  <2> QED  BY <1>0, <1>5, <1>k, <2>1 DEF CountMonth, AdmittedOn, Past, Calling
<1>6. ASSUME NEW r \in Requests, CountDay(r)
      PROVE  daily'[u][d] + Cardinality(AdmittedOn(u, d)') < n + Cardinality(Requests)
  <2>1. req[r].user \in Users /\ req[r].day \in Days
    BY <1>6 DEF CountDay, RequestOK, Request
  <2>2. CASE req[r].user = u /\ req[r].day = d
    <3>1. AdmittedOn(u, d)' = AdmittedOn(u, d) \ {r} /\ r \in AdmittedOn(u, d)
      BY <1>6, <2>2 DEF CountDay, Goto, AdmittedOn, Past, Calling
    <3>2. daily'[u][d] = daily[u][d] + 1
      BY <1>6, <2>2 DEF CountDay, SharedOK
    <3> QED  BY <1>0, <1>h, <3>1, <3>2, Sizes
  <2>3. CASE ~ (req[r].user = u /\ req[r].day = d)
    <3>1. daily'[u][d] = daily[u][d]
      BY <1>6, <2>1, <2>3 DEF CountDay, SharedOK
    <3> QED  BY <1>6, <1>k, <3>1 DEF CountDay, Goto, AdmittedOn, Past, Calling
  <2> QED  BY <2>2, <2>3
<1> QED  BY <1>1, <1>2, <1>3, <1>4, <1>5, <1>6, Classify

\* Nobody has been admitted or counted in the initial state.
LEMMA LimitsInit == Init => DaysInv /\ MonthlyInv /\ DailyInv
<1> SUFFICES ASSUME Init PROVE DaysInv /\ MonthlyInv /\ DailyInv
  OBVIOUS
<1>1. Cardinality(Requests) \in Nat /\ Cardinality({}) = 0
  BY Sizes, FS_EmptySet
<1>2. Admitted = {} /\ \A u \in Users, d \in Days : AdmittedOn(u, d) = {}
  BY DEF Init, Admitted, AdmittedOn, Past, Calling
<1>3. DaysInv
  BY DEF Init, DaysInv
<1>4. MonthlyInv
  BY <1>1, <1>2 DEF Init, MonthlyInv
<1>5. DailyInv
  <2> SUFFICES ASSUME NEW n \in {s.daily : s \in Stored}, \A s \in Stored : s.daily \in 1..n,
                      NEW u \in Users, NEW d \in Days
               PROVE  daily[u][d] + Cardinality(AdmittedOn(u, d)) < n + Cardinality(Requests)
    BY DEF DailyInv
  <2>1. n \in 1..n /\ n \in Nat
    BY ClampType DEF Limits
  <2>2. daily[u][d] = 0
    BY DEF Init
  <2>3. Cardinality(AdmittedOn(u, d)) = 0
    BY <1>1, <1>2
  <2> QED  BY <1>1, <2>1, <2>2, <2>3
<1> QED  BY <1>3, <1>4, <1>5

-----------------------------------------------------------------------------
(* The charges.                                                            *)

\* Requests counted for the month and not yet for the day, and those not yet answered.
Between == {r \in Requests : pc[r] \in {"countDay"}}
Charged == {r \in Requests : pc[r] \in {"countDay", "reply"}}

CInv == ChargesAgree /\ IsFiniteSet(DailyCharges)

\* A step that charges nothing and answers nobody.
Idle ==
    /\ month'.requests = month.requests /\ daily' = daily
    /\ answered' = answered /\ faults' = faults
    /\ Between' = Between /\ Charged' = Charged

\* Every step is of that kind, or an increment, a reply or a fault.
LEMMA IdleOrCharge ==
    ASSUME RequestsOK, SharedOK, [Next]_vars
    PROVE  \/ Idle
           \/ \E r \in Requests : CountMonth(r) \/ CountDay(r) \/ Reply(r) \/ Abort(r)
<1> USE DEF documents, breakers, history, Idle, Between, Charged, RequestsOK
<1>1. CASE UNCHANGED vars \/ UpdateQuota \/ NextDay \/ \E p \in Providers : Lapse(p)
  BY <1>1 DEF vars, UpdateQuota, NextDay, Lapse
<1>2. ASSUME NEW r \in Requests, NEW label \in Labels \ {"countDay", "reply"},
             pc[r] \notin {"countDay", "reply"}, pc' = [pc EXCEPT ![r] = label],
             UNCHANGED <<month, daily, answered, faults>>
      PROVE  Idle
  BY <1>2
<1>3. ASSUME NEW r \in Requests, Ask(r) \/ ReadQuota(r) \/ ReadUsage(r) \/ ReadDaily(r) PROVE Idle
  <2>1. /\ pc[r] \notin {"countDay", "reply"} /\ UNCHANGED <<month, daily, answered, faults>>
        /\ \E label \in Labels \ {"countDay", "reply"} : pc' = [pc EXCEPT ![r] = label]
    BY <1>3 DEF Ask, ReadQuota, ReadUsage, ReadDaily, Goto, Finish, Begin, Labels
  <2> QED  BY <1>2, <2>1
<1>4. ASSUME NEW r \in Requests, Lookup(r) \/ CountFailure(r) \/ Trip(r) \/ LogFailure(r) PROVE Idle
  <2>1. /\ pc[r] \notin {"countDay", "reply"} /\ UNCHANGED <<month, daily, answered, faults>>
        /\ \E label \in Labels \ {"countDay", "reply"} : pc' = [pc EXCEPT ![r] = label]
    BY <1>4 DEF Lookup, CountFailure, Trip, LogFailure, Approach, Goto, Finish, Labels
  <2> QED  BY <1>2, <2>1
<1>5. ASSUME NEW r \in Requests, Garbled(r) \/ GiveUp(r) \/ Log(r) PROVE Idle
  <2>1. /\ pc[r] \notin {"countDay", "reply"} /\ UNCHANGED <<month, daily, answered, faults>>
        /\ \E label \in Labels \ {"countDay", "reply"} : pc' = [pc EXCEPT ![r] = label]
    BY <1>5 DEF Garbled, GiveUp, Log, Finish, Labels
  <2> QED  BY <1>2, <2>1
<1>6. ASSUME NEW r \in Requests, NextProvider(r) \/ Answer(r) \/ CallFails(r) PROVE Idle
  <2>1. /\ pc[r] \notin {"countDay", "reply"} /\ UNCHANGED <<month, daily, answered, faults>>
        /\ \/ pc' = pc
           \/ \E label \in Labels \ {"countDay", "reply"} : pc' = [pc EXCEPT ![r] = label]
    BY <1>6 DEF NextProvider, Answer, CallFails, Approach, Goto, Finish, Labels
  <2> QED  BY <1>2, <2>1
<1> QED  BY <1>1, <1>3, <1>4, <1>5, <1>6 DEF Next, Step

\* A charge is of one user and day, and not above the count of them.
LEMMA ChargeIs ==
    ASSUME NEW c, NEW x
    PROVE  x \in UNION {{<<u, d, n>> : n \in 1..c[u][d]} : u \in Users, d \in Days}
               <=> \E v \in Users, e \in Days : \E n \in 1..c[v][e] : x = <<v, e, n>>
<1> DEFINE of(u, d) == {<<u, d, n>> : n \in 1..c[u][d]}
           all == {of(u, d) : u \in Users, d \in Days}
<1>1. \A v, e : x \in of(v, e) <=> \E n \in 1..c[v][e] : x = <<v, e, n>>
  OBVIOUS
<1> HIDE DEF of
<1>2. x \in UNION all <=> \E v \in Users, e \in Days : x \in of(v, e)
  OBVIOUS
<1> USE DEF of
<1> QED  BY <1>1, <1>2

\* An increment of a day is one charge more.
LEMMA OneCharge ==
    ASSUME SharedOK, NEW u \in Users, NEW d \in Days, IsFiniteSet(DailyCharges),
           daily' = [daily EXCEPT ![u][d] = @ + 1]
    PROVE  /\ IsFiniteSet(DailyCharges')
           /\ Cardinality(DailyCharges') = Cardinality(DailyCharges) + 1
<1> DEFINE new == <<u, d, daily[u][d] + 1>>
<1>1. daily[u][d] \in Nat /\ daily'[u][d] = daily[u][d] + 1
  BY DEF SharedOK
<1>2. \A v \in Users, e \in Days : ~ (v = u /\ e = d) => daily'[v][e] = daily[v][e]
  BY DEF SharedOK
<1>in. ASSUME NEW x
       PROVE  /\ x \in DailyCharges <=>
                    \E v \in Users, e \in Days : \E n \in 1..daily[v][e] : x = <<v, e, n>>
              /\ x \in DailyCharges' <=>
                    \E v \in Users, e \in Days : \E n \in 1..daily'[v][e] : x = <<v, e, n>>
  BY ChargeIs DEF DailyCharges
<1>3. new \notin DailyCharges
  BY <1>1, <1>in
<1>4. DailyCharges' = DailyCharges \cup {new}
  <2>1. ASSUME NEW x \in DailyCharges' PROVE x \in DailyCharges \cup {new}
    <3>0. PICK v \in Users, e \in Days : \E n \in 1..daily'[v][e] : x = <<v, e, n>>
      BY <2>1, <1>in
    <3>1. PICK n \in 1..daily'[v][e] : x = <<v, e, n>>
      BY <3>0
    <3>2. CASE v = u /\ e = d
      <4>1. n \in 1..daily[u][d] \/ n = daily[u][d] + 1
        BY <1>1, <3>2
      <4> QED  BY <3>1, <3>2, <4>1, <1>in
    <3>3. CASE ~ (v = u /\ e = d)
      BY <1>2, <3>1, <3>3, <1>in
    <3> QED  BY <3>2, <3>3
  <2>2. new \in DailyCharges'
    <3>1. daily[u][d] + 1 \in 1..daily'[u][d]
      BY <1>1
    <3> QED  BY <3>1, <1>in
  <2>3. ASSUME NEW x \in DailyCharges PROVE x \in DailyCharges'
    <3>0. PICK v \in Users, e \in Days : \E n \in 1..daily[v][e] : x = <<v, e, n>>
      BY <2>3, <1>in
    <3>1. PICK n \in 1..daily[v][e] : x = <<v, e, n>>
      BY <3>0
    <3>2. n \in 1..daily'[v][e]
      BY <1>1, <1>2
    <3> QED  BY <3>1, <3>2, <1>in
  <2> QED  BY <2>1, <2>2, <2>3
<1> QED  BY <1>3, <1>4, FS_AddElement

\* The documents agree after every step.
LEMMA ChargesNext == TInv /\ CInv /\ [Next]_vars => CInv'
<1> SUFFICES ASSUME RequestsOK, SharedOK, CInv, [Next]_vars PROVE CInv'
  BY TSplit
<1> USE DEF documents, breakers, history, RequestsOK, SharedOK
<1> DEFINE months == month.requests
           days == Cardinality(DailyCharges)
           between == Cardinality(Between)
           charged == Cardinality(Charged)
<1>agree. /\ months - answered - charged \in 0..faults
          /\ months - days - between \in 0..faults
          /\ IsFiniteSet(DailyCharges)
  BY DEF CInv, ChargesAgree, At, Between, Charged
<1>goal. /\ (months - answered - charged \in 0..faults)'
         /\ (months - days - between \in 0..faults)'
         /\ IsFiniteSet(DailyCharges')
         => CInv'
  BY DEF CInv, ChargesAgree, At, Between, Charged
<1>nat. /\ months \in Nat /\ answered \in Nat /\ faults \in Nat
        /\ days \in Nat /\ between \in Nat /\ charged \in Nat
        /\ IsFiniteSet(Between) /\ IsFiniteSet(Charged)
  BY <1>agree, Sizes, RequestsAssumption, FS_CardinalityType, FS_Subset DEF Between, Charged
<1>less. \A r : /\ Cardinality(Between \ {r}) = IF r \in Between THEN between - 1 ELSE between
                /\ Cardinality(Charged \ {r}) = IF r \in Charged THEN charged - 1 ELSE charged
  BY <1>nat, FS_RemoveElement
<1>1. CASE Idle
  <2>1. DailyCharges' = DailyCharges
    BY <1>1 DEF Idle, DailyCharges
  <2> QED  BY <1>1, <1>agree, <1>goal, <2>1 DEF Idle
<1>2. ASSUME NEW r \in Requests, CountMonth(r) PROVE CInv'
  <2>1. months' = months + 1 /\ answered' = answered /\ faults' = faults /\ daily' = daily
    BY <1>2 DEF CountMonth
  <2>2. /\ Between' = Between \cup {r} /\ r \notin Between
        /\ Charged' = Charged \cup {r} /\ r \notin Charged
    BY <1>2 DEF CountMonth, Between, Charged
  <2>3. between' = between + 1 /\ charged' = charged + 1
    BY <1>nat, <2>2, FS_AddElement
  <2>4. DailyCharges' = DailyCharges
    BY <2>1 DEF DailyCharges
  <2> HIDE DEF months, days, between, charged
  <2>5. days' = days
    BY <2>4 DEF days
  <2> QED  BY <1>agree, <1>goal, <1>nat, <2>1, <2>3, <2>4, <2>5
<1>3. ASSUME NEW r \in Requests, CountDay(r) PROVE CInv'
  <2>1. months' = months /\ answered' = answered /\ faults' = faults
    BY <1>3 DEF CountDay
  <2>2. Between' = Between \ {r} /\ r \in Between /\ Charged' = Charged
    BY <1>3 DEF CountDay, Goto, Between, Charged
  <2>3. between' = between - 1 /\ charged' = charged
    BY <1>less, <2>2
  <2>4. req[r].user \in Users /\ req[r].day \in Days
    BY <1>3 DEF CountDay, RequestOK, Request
  <2>5. IsFiniteSet(DailyCharges') /\ days' = days + 1
    BY <1>3, <1>agree, <2>4, OneCharge DEF CountDay
  <2> HIDE DEF months, days, between, charged
  <2> QED  BY <1>agree, <1>goal, <1>nat, <2>1, <2>3, <2>5
<1>4. ASSUME NEW r \in Requests, Reply(r) PROVE CInv'
  <2>1. months' = months /\ answered' = answered + 1 /\ faults' = faults /\ daily' = daily
    BY <1>4 DEF Reply
  <2>2. Between' = Between /\ Charged' = Charged \ {r} /\ r \in Charged
    BY <1>4 DEF Reply, Finish, Between, Charged
  <2>3. between' = between /\ charged' = charged - 1
    BY <1>less, <2>2
  <2>4. DailyCharges' = DailyCharges
    BY <2>1 DEF DailyCharges
  <2> HIDE DEF months, days, between, charged
  <2>5. days' = days
    BY <2>4 DEF days
  <2> QED  BY <1>agree, <1>goal, <1>nat, <2>1, <2>3, <2>4, <2>5
<1>5. ASSUME NEW r \in Requests, Abort(r) PROVE CInv'
  <2>1. months' = months /\ answered' = answered /\ faults' = faults + 1 /\ daily' = daily
    BY <1>5 DEF Abort
  <2>2. Between' = Between \ {r} /\ Charged' = Charged \ {r}
    BY <1>5 DEF Abort, Finish, Between, Charged
  <2>3. /\ between' = between \/ between' = between - 1
        /\ charged' = charged \/ charged' = charged - 1
    BY <1>less, <2>2
  <2>4. DailyCharges' = DailyCharges
    BY <2>1 DEF DailyCharges
  <2> HIDE DEF months, days, between, charged
  <2>5. days' = days
    BY <2>4 DEF days
  <2> QED  BY <1>agree, <1>goal, <1>nat, <2>1, <2>3, <2>4, <2>5
<1> QED  BY <1>1, <1>2, <1>3, <1>4, <1>5, IdleOrCharge

-----------------------------------------------------------------------------
(* Open circuits.                                                          *)

\* Request r is at no provider that it was not at, but for one whose circuit is closed.
Turns(r) ==
    \A p \in Providers :
        Asks(r, p)' => Asks(r, p) \/ req'[r].op = "explain" \/ circuit'[p] # "open"

\* A step of one request leaves the others where they are.
LEMMA TurnsAlone ==
    ASSUME RequestsOK, NEW r \in Requests, Ask(r) \/ Step(r) \/ Abort(r)
    PROVE  \A q \in Requests \ {r} : Turns(q)
<1> SUFFICES ASSUME NEW q \in Requests \ {r} PROVE pc'[q] = pc[q] /\ req'[q] = req[q]
  BY DEF Turns, Asks, ProviderOf
<1> USE DEF RequestsOK, Goto, Finish, Approach
<1>1. CASE Ask(r) \/ Abort(r) \/ ReadQuota(r) \/ ReadUsage(r) \/ ReadDaily(r)
  BY <1>1 DEF Ask, Abort, ReadQuota, ReadUsage, ReadDaily
<1>2. CASE NextProvider(r) \/ Lookup(r) \/ Answer(r) \/ CallFails(r)
  BY <1>2 DEF NextProvider, Lookup, Answer, CallFails
<1>3. CASE CountFailure(r) \/ Trip(r) \/ LogFailure(r) \/ Garbled(r) \/ GiveUp(r) \/ Log(r)
  BY <1>3 DEF CountFailure, Trip, LogFailure, Garbled, GiveUp, Log
<1>4. CASE CountMonth(r) \/ CountDay(r) \/ Reply(r)
  BY <1>4 DEF CountMonth, CountDay, Reply
<1> QED  BY <1>1, <1>2, <1>3, <1>4 DEF Step

\* And no request turns to a provider whose circuit is open.
LEMMA TurnsToClosed ==
    ASSUME TInv, [Next]_vars
    PROVE  \A r \in Requests : Turns(r)
<1>ok. RequestsOK /\ SharedOK
  BY TSplit
<1>1. CASE pc' = pc /\ req' = req
  BY <1>1 DEF Turns, Asks, ProviderOf
<1>2. CASE UNCHANGED vars \/ UpdateQuota \/ NextDay \/ \E p \in Providers : Lapse(p)
  BY <1>1, <1>2 DEF vars, UpdateQuota, NextDay, Lapse
<1>3. ASSUME NEW r \in Requests, pc'[r] \notin Calling PROVE Turns(r)
  BY <1>3 DEF Turns, Asks
<1>4. ASSUME NEW r \in Requests, pc[r] \in Calling, req'[r].at = req[r].at, req'[r].op = req[r].op
      PROVE  Turns(r)
  BY <1>4 DEF Turns, Asks, ProviderOf
<1>5. ASSUME NEW r \in Requests,
             \/ Ask(r) \/ Abort(r) \/ ReadQuota(r) \/ GiveUp(r) \/ Log(r)
             \/ CountMonth(r) \/ CountDay(r) \/ Reply(r)
      PROVE  Turns(r)
  <2>1. pc'[r] \notin Calling
    BY <1>5, <1>ok DEF Ask, Abort, ReadQuota, GiveUp, Log, CountMonth, CountDay, Reply, Finish,
                       Goto, Calling, RequestsOK
  <2> QED  BY <1>3, <2>1
<1>6. ASSUME NEW r \in Requests, ReadUsage(r) \/ ReadDaily(r) PROVE Turns(r)
  <2>1. pc'[r] \notin Calling \/ req'[r].op = "explain"
    BY <1>6, <1>ok DEF ReadUsage, ReadDaily, Finish, Goto, Begin, Calling, RequestsOK
  <2> QED  BY <2>1 DEF Turns, Asks
<1>7. ASSUME NEW r \in Requests,
             Lookup(r) \/ CountFailure(r) \/ Trip(r) \/ LogFailure(r) \/ Garbled(r)
      PROVE  Turns(r)
  <2>1. pc[r] \in Calling /\ req[r] \in Request
    BY <1>7, <1>ok DEF Lookup, CountFailure, Trip, LogFailure, Garbled, Calling, RequestsOK
  <2>2. pc'[r] \notin Calling \/ (req'[r].at = req[r].at /\ req'[r].op = req[r].op)
    BY <1>7, <1>ok, <2>1 DEF Lookup, CountFailure, Trip, LogFailure, Garbled, Approach, Finish,
                             Goto, Calling, RequestsOK, Request
  <2> QED  BY <1>3, <1>4, <2>1, <2>2
<1>8. ASSUME NEW r \in Requests, Answer(r) \/ CallFails(r) PROVE Turns(r)
  <2>1. pc[r] \in Calling /\ req[r] \in Request
    BY <1>8, <1>ok DEF Answer, CallFails, Calling, RequestsOK
  <2>2. req'[r].at = req[r].at /\ req'[r].op = req[r].op
    BY <1>8, <1>ok, <2>1 DEF Answer, CallFails, RequestsOK, Request
  <2> QED  BY <1>4, <2>1, <2>2
<1>9. ASSUME NEW r \in Requests, NextProvider(r) PROVE Turns(r)
  <2> DEFINE p == Order[req[r].at]
  <2>1. CASE pc'[r] \notin Calling
    BY <1>3, <2>1
  <2>2. CASE pc'[r] \in Calling
    <3>1. circuit' = [circuit EXCEPT ![p] = "closed"] /\ req' = req
      BY <1>9, <1>ok, <2>2
         DEF NextProvider, Finish, Approach, Goto, Calling, RequestsOK
    <3>2. ASSUME NEW o \in Providers, Asks(r, o)', req'[r].op # "explain" PROVE o = p
      BY <3>1, <3>2 DEF Asks, ProviderOf
    <3> QED  BY <1>ok, <3>1, <3>2 DEF Turns, SharedOK
  <2> QED  BY <2>1, <2>2
<1>10. ASSUME NEW r \in Requests, Ask(r) \/ Step(r) \/ Abort(r) PROVE \A q \in Requests : Turns(q)
  BY <1>5, <1>6, <1>7, <1>8, <1>9, <1>10, <1>ok, TurnsAlone DEF Step
<1> QED  BY <1>2, <1>10 DEF Next

-----------------------------------------------------------------------------
(* The theorems.                                                           *)

\* MonthlyOvershoot: whatever requests overtake each other between the check and
\* the count, the monthly limit is passed by less than the requests in flight.
THEOREM MonthlyLimitHolds == Spec => []MonthlyOvershoot
<1>1. TInv /\ MonthlyInv => MonthlyOvershoot
  <2> SUFFICES ASSUME TInv, MonthlyInv, NEW n \in {s.monthly : s \in Stored},
                      \A s \in Stored : s.monthly \in 1..n
               PROVE  month.requests < n + Cardinality(Requests)
    BY DEF MonthlyOvershoot, Stored
  <2>1. month.requests + Cardinality(Admitted) < n + Cardinality(Requests)
    BY DEF MonthlyInv
  <2>2. Cardinality(Admitted) \in Nat /\ Cardinality(Requests) \in Nat /\ n \in Nat
    BY Sizes, ClampType DEF Admitted, Limits
  <2> QED  BY <2>1, <2>2 DEF TInv, TypeOK
<1> QED  BY TInit, TNext, LimitsInit, MonthlyNext, <1>1, PTL DEF Spec

\* DailyOvershoot: so is the daily limit of every user on every day, answers that
\* come after midnight included.
THEOREM DailyLimitHolds == Spec => []DailyOvershoot
<1>1. TInv /\ DailyInv => DailyOvershoot
  <2> SUFFICES ASSUME TInv, DailyInv, NEW n \in {s.daily : s \in Stored},
                      \A s \in Stored : s.daily \in 1..n, NEW u \in Users, NEW d \in Days
               PROVE  daily[u][d] < n + Cardinality(Requests)
    BY DEF DailyOvershoot, Stored
  <2>1. daily[u][d] + Cardinality(AdmittedOn(u, d)) < n + Cardinality(Requests)
    BY DEF DailyInv
  <2>2. /\ Cardinality(AdmittedOn(u, d)) \in Nat /\ Cardinality(Requests) \in Nat
        /\ n \in Nat /\ daily[u][d] \in Nat
    BY Sizes, ClampType DEF AdmittedOn, Limits, TInv, TypeOK
  <2> QED  BY <2>1, <2>2
<1> QED  BY TInit, TNext, LimitsInit, DaysNext, DailyNext, <1>1, PTL DEF Spec

\* ChargesAgree: whatever requests overtake each other, fall back or fail, the month,
\* the days and the answers given agree up to the requests between the increments and
\* the faults, so that no failure is charged and no answer is free or charged twice.
THEOREM ChargesAreTrue == Spec => []ChargesAgree
<1>1. Init => CInv
  <2> SUFFICES ASSUME Init PROVE CInv
    OBVIOUS
  <2>1. DailyCharges = {} /\ At({"countDay", "reply"}) = 0 /\ At({"countDay"}) = 0
    <3>1. \A u \in Users, d \in Days : 1..daily[u][d] = {}
      BY DEF Init
    <3>2. DailyCharges = {}
      BY <3>1 DEF DailyCharges
    <3>3. /\ {r \in Requests : pc[r] \in {"countDay", "reply"}} = {}
          /\ {r \in Requests : pc[r] \in {"countDay"}} = {}
      BY DEF Init
    <3> QED  BY <3>2, <3>3, FS_EmptySet DEF At
  <2> QED  BY <2>1, FS_EmptySet DEF Init, CInv, ChargesAgree
<1>2. CInv => ChargesAgree
  BY DEF CInv
<1> QED  BY TInit, TNext, <1>1, ChargesNext, <1>2, PTL DEF Spec

\* NoCallWhileOpen: however failures, successes and lapses of a circuit interleave,
\* while it stays open no request turns to its provider that was not there before,
\* explanations apart.
THEOREM OpenCircuitsAreAvoided == Spec => NoCallWhileOpen
<1>1. TInv /\ [Next]_vars =>
        [\A r \in Requests, p \in Providers :
           circuit[p] = "open" /\ circuit'[p] = "open" /\ Asks(r, p)' =>
               Asks(r, p) \/ req'[r].op = "explain"]_vars
  BY TurnsToClosed DEF Turns
<1> QED  BY TInit, TNext, <1>1, PTL DEF Spec, NoCallWhileOpen

=============================================================================
