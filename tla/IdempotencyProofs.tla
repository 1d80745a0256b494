------------------------- MODULE IdempotencyProofs -------------------------
(***************************************************************************)
(* Theorems about Idempotency, for any requests, keys, instances, served   *)
(* endpoints, faults and crashes.                                          *)
(***************************************************************************)
EXTENDS Idempotency, TLAPS

\* Between begin and the end of its handler a request holds the key.
Working(r) == pc[r] \in {"save", "act", "complete"}

\* A key nobody raced for: one holder, and the record and the effects it implies.
HolderInv ==
    \A k \in Keys \ raced :
        /\ \A r, s \in Requests :
              key[r] = k /\ key[s] = k /\ Working(r) /\ Working(s) => r = s
        /\ \A r \in Requests : key[r] = k =>
              /\ pc[r] = "save" => record[k].status = "absent"
              /\ pc[r] \in {"act", "complete"} => record[k].status = "processing"
              /\ pc[r] \in {"save", "act"} => made[k] = {}
              /\ pc[r] = "complete" => made[k] = {r}

RecordInv ==
    \A k \in Keys \ raced :
        /\ record[k].status = "absent" => made[k] = {} /\ replied[k] = {}
        /\ record[k].status = "completed" => made[k] = {record[k].resource}

KeyInv == HolderInv /\ RecordInv /\ OneEffect /\ ReplyNamesEffect

\* From begin's read to its write an async handler holds the loop.
LoopInv ==
    \A r \in Requests : Async(r) /\ pc[r] \in {"save", "act"} => loop[at[r]] = r

-----------------------------------------------------------------------------

\* The initial state is well typed.
LEMMA TypeInit == Init => TypeOK
  BY NoRequestAssumption DEF Init, TypeOK, Unused, InFlight

\* Every step keeps the types.
LEMMA TypeStep == TypeOK /\ [Next]_vars => TypeOK'
<1> SUFFICES ASSUME TypeOK, [Next]_vars PROVE TypeOK'
  OBVIOUS
<1> USE FaultsAssumption DEF TypeOK, Turn, GoOn, LetGo, Async, request, InFlight, Unused, Processing
<1>1. ASSUME NEW r \in Requests, Arrive(r) PROVE TypeOK'
  BY <1>1 DEF Arrive
<1>2. ASSUME NEW r \in Requests, GetUnused(r) PROVE TypeOK'
  BY <1>2 DEF GetUnused
<1>3. ASSUME NEW r \in Requests, GetConflict(r) PROVE TypeOK'
  BY <1>3 DEF GetConflict
<1>4. ASSUME NEW r \in Requests, GetCached(r) PROVE TypeOK'
  BY <1>4 DEF GetCached
<1>5. ASSUME NEW r \in Requests, Save(r) PROVE TypeOK'
  BY <1>5 DEF Save
<1>6. ASSUME NEW r \in Requests, Reject(r) PROVE TypeOK'
  BY <1>6 DEF Reject
<1>7. ASSUME NEW r \in Requests, Act(r) PROVE TypeOK'
  <2>1. made' \in [Keys -> SUBSET Requests]
    BY <1>7 DEF Act
  <2>2. pc' \in [Requests -> {"new", "done"} \cup InFlight]
    BY <1>7 DEF Act
  <2>3. loop' \in [Instances -> Requests \cup {NoRequest}]
    BY <1>7 DEF Act
  <2>4. QED
    BY <1>7, <2>1, <2>2, <2>3 DEF Act
<1>8. ASSUME NEW r \in Requests, Complete(r) PROVE TypeOK'
  BY <1>8 DEF Complete
<1>9. ASSUME NEW r \in Requests, Raise(r) PROVE TypeOK'
  BY <1>9 DEF Raise, Fault
<1>10. ASSUME NEW i \in Instances, Crash(i) PROVE TypeOK'
  BY <1>10 DEF Crash, Fault, Here
<1>11. ASSUME NEW k \in Keys, Expire(k) PROVE TypeOK'
  BY <1>11 DEF Expire
<1>12. ASSUME UNCHANGED vars PROVE TypeOK'
  BY <1>12 DEF vars
<1>13. QED
  BY <1>1, <1>2, <1>3, <1>4, <1>5, <1>6, <1>7, <1>8, <1>9, <1>10, <1>11, <1>12 DEF Next

\* Every variable keeps its type through any number of requests and crashes.
THEOREM TypeCorrect == Spec => []TypeOK
  BY TypeInit, TypeStep, PTL DEF Spec

-----------------------------------------------------------------------------
(* Keys nobody raced for. *)

\* KeyInv holds initially.
LEMMA KeyInit == Init => KeyInv
  BY DEF Init, KeyInv, HolderInv, RecordInv, OneEffect, ReplyNamesEffect, Working, Unused

\* Every step keeps what a key, its record and its holder say of each other.
LEMMA KeyStep == TypeOK /\ KeyInv /\ [Next]_vars => KeyInv'
<1> SUFFICES ASSUME TypeOK, KeyInv, [Next]_vars PROVE KeyInv'
  OBVIOUS
<1> USE NoRequestAssumption DEF TypeOK, KeyInv, HolderInv, RecordInv, OneEffect, ReplyNamesEffect, Working, Turn, GoOn, LetGo, request, InFlight, Unused, Processing
<1>1. ASSUME NEW r \in Requests, Arrive(r) PROVE KeyInv'
  BY <1>1 DEF Arrive
<1>2. ASSUME NEW r \in Requests, GetUnused(r) PROVE KeyInv'
  BY <1>2 DEF GetUnused
<1>3. ASSUME NEW r \in Requests, GetConflict(r) PROVE KeyInv'
  BY <1>3 DEF GetConflict
<1>4. ASSUME NEW r \in Requests, GetCached(r) PROVE KeyInv'
  BY <1>4 DEF GetCached
<1>5. ASSUME NEW r \in Requests, Save(r) PROVE KeyInv'
  BY <1>5 DEF Save
<1>6. ASSUME NEW r \in Requests, Reject(r) PROVE KeyInv'
  BY <1>6 DEF Reject
<1>7. ASSUME NEW r \in Requests, Act(r) PROVE KeyInv'
  <2>1. pc[r] = "act" /\ pc' = [pc EXCEPT ![r] = "complete"]
    BY <1>7 DEF Act
  <2>2. made' = [made EXCEPT ![key[r]] = made[key[r]] \cup {r}]
    BY <1>7 DEF Act
  <2>3. UNCHANGED <<record, key, replied, raced>>
    BY <1>7 DEF Act
  <2>4. HolderInv'
    BY <2>1, <2>2, <2>3
  <2>5. RecordInv'
    BY <2>1, <2>2, <2>3
  <2>6. OneEffect'
    BY <2>1, <2>2, <2>3
  <2>7. ReplyNamesEffect'
    <3>1. ASSUME key[r] \in Keys \ raced PROVE replied[key[r]] = {}
      <4>1. made[key[r]] = {}
        BY <3>1, <2>1
      <4>2. \A s \in replied[key[r]] : made[key[r]] = {s}
        BY <3>1
      <4>3. QED
        BY <4>1, <4>2
    <3>2. QED
      BY <2>2, <2>3, <3>1
  <2>8. QED
    BY <2>4, <2>5, <2>6, <2>7
<1>8. ASSUME NEW r \in Requests, Complete(r) PROVE KeyInv'
  BY <1>8 DEF Complete
<1>9. ASSUME NEW r \in Requests, Raise(r) PROVE KeyInv'
  BY <1>9 DEF Raise, Fault
<1>10. ASSUME NEW i \in Instances, Crash(i) PROVE KeyInv'
  BY <1>10 DEF Crash, Fault, Here
<1>11. ASSUME NEW k \in Keys, Expire(k) PROVE KeyInv'
  BY <1>11 DEF Expire
<1>12. ASSUME UNCHANGED vars PROVE KeyInv'
  BY <1>12 DEF vars
<1>13. QED
  BY <1>1, <1>2, <1>3, <1>4, <1>5, <1>6, <1>7, <1>8, <1>9, <1>10, <1>11, <1>12 DEF Next

\* KeyInv is invariant.
LEMMA KeysCorrect == Spec => []KeyInv
  BY KeyInit, TypeInit, KeyStep, TypeStep, PTL DEF Spec

\* Two requests with one key create one resource, whatever crashes, raises or is
\* replayed, unless both read the key before either wrote it.
THEOREM EffectsAreUnique == Spec => []OneEffect
<1>1. KeyInv => OneEffect
  BY DEF KeyInv
<1>2. QED
  BY <1>1, KeysCorrect, PTL

\* Under the same condition every success reply, first or replayed, names it.
THEOREM RepliesAreTrue == Spec => []ReplyNamesEffect
<1>1. KeyInv => ReplyNamesEffect
  BY DEF KeyInv
<1>2. QED
  BY <1>1, KeysCorrect, PTL

-----------------------------------------------------------------------------
(* Keys that stay in progress. *)

\* StuckOnlyAfterFailure holds initially.
LEMMA StuckInit == Init => StuckOnlyAfterFailure
  BY DEF Init, StuckOnlyAfterFailure, Unused

\* A key is left in progress only by a failure.
LEMMA StuckStep ==
  TypeOK /\ StuckOnlyAfterFailure /\ [Next]_vars => StuckOnlyAfterFailure'
<1> SUFFICES ASSUME TypeOK, StuckOnlyAfterFailure, [Next]_vars
             PROVE  StuckOnlyAfterFailure'
  OBVIOUS
<1> USE DEF TypeOK, StuckOnlyAfterFailure, Turn, GoOn, LetGo, request, InFlight, Unused, Processing
<1>1. ASSUME NEW r \in Requests, Arrive(r) PROVE StuckOnlyAfterFailure'
  BY <1>1 DEF Arrive
<1>2. ASSUME NEW r \in Requests, GetUnused(r) PROVE StuckOnlyAfterFailure'
  BY <1>2 DEF GetUnused
<1>3. ASSUME NEW r \in Requests, GetConflict(r) PROVE StuckOnlyAfterFailure'
  BY <1>3 DEF GetConflict
<1>4. ASSUME NEW r \in Requests, GetCached(r) PROVE StuckOnlyAfterFailure'
  BY <1>4 DEF GetCached
<1>5. ASSUME NEW r \in Requests, Save(r) PROVE StuckOnlyAfterFailure'
  BY <1>5 DEF Save
<1>6. ASSUME NEW r \in Requests, Reject(r) PROVE StuckOnlyAfterFailure'
  BY <1>6 DEF Reject
<1>7. ASSUME NEW r \in Requests, Act(r) PROVE StuckOnlyAfterFailure'
  BY <1>7 DEF Act
<1>8. ASSUME NEW r \in Requests, Complete(r) PROVE StuckOnlyAfterFailure'
  BY <1>8 DEF Complete
<1>9. ASSUME NEW r \in Requests, Raise(r) PROVE StuckOnlyAfterFailure'
  BY <1>9 DEF Raise, Fault
<1>10. ASSUME NEW i \in Instances, Crash(i) PROVE StuckOnlyAfterFailure'
  BY <1>10 DEF Crash, Fault, Here
<1>11. ASSUME NEW k \in Keys, Expire(k) PROVE StuckOnlyAfterFailure'
  BY <1>11 DEF Expire
<1>12. ASSUME UNCHANGED vars PROVE StuckOnlyAfterFailure'
  BY <1>12 DEF vars
<1>13. QED
  BY <1>1, <1>2, <1>3, <1>4, <1>5, <1>6, <1>7, <1>8, <1>9, <1>10, <1>11, <1>12 DEF Next

\* A key that refuses retries while nobody works on it has seen a failure.
THEOREM StuckMeansFailure == Spec => []StuckOnlyAfterFailure
  BY StuckInit, StuckStep, TypeInit, TypeStep, PTL DEF Spec

-----------------------------------------------------------------------------
(* The event loop of a process. *)

\* LoopInv and EventLoopSerialises hold initially.
LEMMA LoopInit == Init => LoopInv /\ EventLoopSerialises
  BY DEF Init, LoopInv, EventLoopSerialises

\* An async handler holds the loop of its process from its read of a key to its save.
LEMMA LoopStep ==
  TypeOK /\ LoopInv /\ EventLoopSerialises /\ [Next]_vars
     => (LoopInv /\ EventLoopSerialises)'
<1> SUFFICES ASSUME TypeOK, LoopInv, EventLoopSerialises, [Next]_vars
             PROVE  (LoopInv /\ EventLoopSerialises)'
  OBVIOUS
<1> USE NoRequestAssumption DEF TypeOK, LoopInv, EventLoopSerialises, Async, Turn, GoOn, LetGo, request, InFlight
<1>1. ASSUME NEW r \in Requests, Arrive(r) PROVE (LoopInv /\ EventLoopSerialises)'
  BY <1>1 DEF Arrive
<1>2. ASSUME NEW r \in Requests, GetUnused(r) PROVE (LoopInv /\ EventLoopSerialises)'
  BY <1>2 DEF GetUnused
<1>3. ASSUME NEW r \in Requests, GetConflict(r) PROVE (LoopInv /\ EventLoopSerialises)'
  BY <1>3 DEF GetConflict
<1>4. ASSUME NEW r \in Requests, GetCached(r) PROVE (LoopInv /\ EventLoopSerialises)'
  BY <1>4 DEF GetCached
<1>5. ASSUME NEW r \in Requests, Save(r) PROVE (LoopInv /\ EventLoopSerialises)'
  BY <1>5 DEF Save
<1>6. ASSUME NEW r \in Requests, Reject(r) PROVE (LoopInv /\ EventLoopSerialises)'
  BY <1>6 DEF Reject
<1>7. ASSUME NEW r \in Requests, Act(r) PROVE (LoopInv /\ EventLoopSerialises)'
  BY <1>7 DEF Act
<1>8. ASSUME NEW r \in Requests, Complete(r) PROVE (LoopInv /\ EventLoopSerialises)'
  BY <1>8 DEF Complete
<1>9. ASSUME NEW r \in Requests, Raise(r) PROVE (LoopInv /\ EventLoopSerialises)'
  BY <1>9 DEF Raise, Fault
<1>10. ASSUME NEW i \in Instances, Crash(i) PROVE (LoopInv /\ EventLoopSerialises)'
  BY <1>10 DEF Crash, Fault, Here
<1>11. ASSUME NEW k \in Keys, Expire(k) PROVE (LoopInv /\ EventLoopSerialises)'
  BY <1>11 DEF Expire
<1>12. ASSUME UNCHANGED vars PROVE (LoopInv /\ EventLoopSerialises)'
  BY <1>12 DEF vars
<1>13. QED
  BY <1>1, <1>2, <1>3, <1>4, <1>5, <1>6, <1>7, <1>8, <1>9, <1>10, <1>11, <1>12 DEF Next

\* Async handlers of one process never race for a key: the store calls block.
THEOREM LoopSerialises == Spec => []EventLoopSerialises
  BY LoopInit, LoopStep, TypeInit, TypeStep, PTL DEF Spec

=============================================================================
