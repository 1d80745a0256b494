--------------------------- MODULE RegistryProofs ---------------------------
(***************************************************************************)
(* Theorems about Registry, for any operations, instances and faults.      *)
(***************************************************************************)
EXTENDS Registry, TLAPS

\* The label an operation can be at, by its kind, and what it holds there.
StepInv ==
    \A p \in Ops :
        /\ pc[p] \in {"bumpSystem", "readSystem", "writeSystem"} => kind[p] = "create"
        /\ pc[p] \in {"get", "set", "remove", "link"} => kind[p] \in {"update", "delete", "link"}
        /\ pc[p] = "set" => kind[p] = "update"
        /\ pc[p] = "remove" => kind[p] = "delete"
        /\ kind[p] = "update" /\ pc[p] \in {"bumpAudit", "readAudit", "writeAudit", "set"}
              => copy[p] \in System

TInv == TypeOK /\ StepInv

\* From its first store call to its last an async operation holds the loop.
LoopInv ==
    \A p \in Ops : Async(p) /\ pc[p] \notin {"bumpSystem", "get", "done"} => loop[at[p]] = p

\* No id was handed out twice, or beyond its counter.
SystemIdInv ==
    OneProcess => \A p, q \in Ops :
        kind[p] = "create" /\ id[p] # 0 =>
            /\ id[p] <= counter[org[p]]["system"]
            /\ pc[p] \notin {"bumpSystem", "readSystem"}
            /\ pc[q] = "readSystem" /\ org[q] = org[p] => id[p] < counter[org[p]]["system"]

\* An audit id in use: read and about to be written, or written.
Uses(p, a) == (pc[p] = "writeAudit" /\ aid[p] = a) \/ [op |-> p, aid |-> a] \in recorded
Overtaken(p) == <<p, "audit">> \in overtaken

\* Two operations that nobody overtook use different ids.
AuditIdInv ==
    OneOrg => \A p, q \in Ops :
        /\ \A a \in Nat : Uses(p, a) => a <= counter[org[p]]["audit"]
        /\ pc[p] = "readAudit" /\ ~Overtaken(p) /\ p # q /\ ~Overtaken(q) =>
              /\ pc[q] # "readAudit"
              /\ \A a \in Nat : Uses(q, a) => a < counter[org[p]]["audit"]
        /\ \A a \in Nat : p # q /\ Uses(p, a) /\ Uses(q, a) => Overtaken(p) \/ Overtaken(q)

-----------------------------------------------------------------------------

\* Putting a system keeps the collection one of systems.
LEMMA PutSystems ==
  ASSUME TypeOK, NEW k \in Nat, NEW v \in System, systems' = Put(systems, k, v)
  PROVE  DOMAIN systems' \subseteq Nat /\ \A i \in DOMAIN systems' : systems'[i] \in System
  BY DEF TypeOK, Put

\* What Restrict returns.
LEMMA RestrictResult ==
  ASSUME NEW f, NEW S
  PROVE  /\ DOMAIN Restrict(f, S) = S
         /\ \A x \in S : Restrict(f, S)[x] = f[x]
  BY DEF Restrict

\* The initial state is well typed.
LEMMA TInit == Init => TInv
  BY NoOpAssumption DEF Init, TInv, TypeOK, StepInv, FirstLabel, Kinds, Counters, Labels

\* Every step keeps the types, and the label an operation of each kind may be at.
LEMMA TStep == TInv /\ [Next]_vars => TInv'
<1> SUFFICES ASSUME TInv, [Next]_vars PROVE TInv'
  OBVIOUS
<1> USE NoOpAssumption, FaultsAssumption
    DEF TInv, TypeOK, StepInv, Turn, GoOn, Finish, Async, documents, operation, locals,
        Kinds, Counters, Labels
<1>1. ASSUME NEW p \in Ops, BumpSystem(p) PROVE TInv'
  BY <1>1 DEF BumpSystem, Bump
<1>2. ASSUME NEW p \in Ops, ReadSystem(p) PROVE TInv'
  BY <1>2 DEF ReadSystem
<1>3. ASSUME NEW p \in Ops, WriteSystem(p) PROVE TInv'
  <2>1. [org |-> org[p], by |-> p, edit |-> NoOp, scan |-> NoOp] \in System
    BY DEF System
  <2>2. DOMAIN systems' \subseteq Nat /\ \A i \in DOMAIN systems' : systems'[i] \in System
    BY <1>3, <2>1, PutSystems DEF WriteSystem
  <2>3. QED
    BY <1>3, <2>2 DEF WriteSystem
<1>4. ASSUME NEW p \in Ops, BumpAudit(p) PROVE TInv'
  BY <1>4 DEF BumpAudit, Bump
<1>5. ASSUME NEW p \in Ops, ReadAudit(p) PROVE TInv'
  BY <1>5 DEF ReadAudit
<1>6. ASSUME NEW p \in Ops, WriteAudit(p) PROVE TInv'
  BY <1>6 DEF WriteAudit, Put
<1>7. ASSUME NEW p \in Ops, Get(p) PROVE TInv'
  BY <1>7 DEF Get
<1>8. ASSUME NEW p \in Ops, GetNothing(p) PROVE TInv'
  BY <1>8 DEF GetNothing
<1>9. ASSUME NEW p \in Ops, Set(p) PROVE TInv'
  <2>1. copy[p] \in System
    BY <1>9 DEF Set
  <2>2. [copy[p] EXCEPT !.edit = p] \in System
    BY ONLY <1>9, <2>1 DEF System
  <2>3. DOMAIN systems' \subseteq Nat /\ \A i \in DOMAIN systems' : systems'[i] \in System
    BY <1>9, <2>2, PutSystems DEF Set
  <2>4. QED
    BY <1>9, <2>3 DEF Set
<1>10. ASSUME NEW p \in Ops, Remove(p) PROVE TInv'
  <2>1. DOMAIN systems' \subseteq Nat /\ \A i \in DOMAIN systems' : systems'[i] \in System
    BY <1>10, RestrictResult DEF Remove
  <2>2. QED
    BY <1>10, <2>1 DEF Remove
<1>11. ASSUME NEW p \in Ops, Link(p) PROVE TInv'
  <2>1. \A i \in DOMAIN systems : [systems[i] EXCEPT !.scan = p] \in System
    BY DEF System
  <2>2. DOMAIN systems' = DOMAIN systems
        /\ \A i \in DOMAIN systems : systems'[i] \in {systems[i], [systems[i] EXCEPT !.scan = p]}
    BY <1>11 DEF Link
  <2>3. DOMAIN systems' \subseteq Nat /\ \A i \in DOMAIN systems' : systems'[i] \in System
    BY <2>1, <2>2
  <2>4. QED
    BY <1>11, <2>3 DEF Link
<1>12. ASSUME NEW p \in Ops, Abort(p) PROVE TInv'
  BY <1>12 DEF Abort
<1>13. ASSUME UNCHANGED vars PROVE TInv'
  BY <1>13 DEF vars
<1>14. QED
  BY <1>1, <1>2, <1>3, <1>4, <1>5, <1>6, <1>7, <1>8, <1>9, <1>10, <1>11, <1>12, <1>13 DEF Next

\* Every variable keeps its type, whichever operations overlap or stop halfway:
\* no store call of store.py leaves a document its readers cannot parse.
THEOREM TypeCorrect == Spec => []TypeOK
<1>1. TInv => TypeOK
  BY DEF TInv
<1>2. QED
  BY TInit, TStep, <1>1, PTL DEF Spec

\* An operation stays where it arrived and what it is.
LEMMA Placed == [Next]_vars => UNCHANGED <<kind, org, at>>
  BY DEF Next, vars, operation, BumpSystem, ReadSystem, WriteSystem, BumpAudit, ReadAudit,
         WriteAudit, Get, GetNothing, Set, Remove, Link, Abort

-----------------------------------------------------------------------------
(* One process: the event loop makes an operation atomic. *)

\* LoopInv holds initially.
LEMMA LoopInit == Init => LoopInv
  BY DEF Init, LoopInv, FirstLabel, Async, Kinds

\* An operation holds the loop of its process from its first store call to its last.
LEMMA LoopStep == TInv /\ LoopInv /\ [Next]_vars => LoopInv'
<1> SUFFICES ASSUME TInv, LoopInv, [Next]_vars PROVE LoopInv'
  OBVIOUS
<1> USE NoOpAssumption
    DEF TInv, TypeOK, LoopInv, Turn, GoOn, Finish, Async, operation, Labels, Kinds
<1>1. ASSUME NEW p \in Ops, BumpSystem(p) PROVE LoopInv'
  BY <1>1 DEF BumpSystem, Bump
<1>2. ASSUME NEW p \in Ops, ReadSystem(p) PROVE LoopInv'
  BY <1>2 DEF ReadSystem
<1>3. ASSUME NEW p \in Ops, WriteSystem(p) PROVE LoopInv'
  BY <1>3 DEF WriteSystem, Put
<1>4. ASSUME NEW p \in Ops, BumpAudit(p) PROVE LoopInv'
  BY <1>4 DEF BumpAudit, Bump
<1>5. ASSUME NEW p \in Ops, ReadAudit(p) PROVE LoopInv'
  BY <1>5 DEF ReadAudit
<1>6. ASSUME NEW p \in Ops, WriteAudit(p) PROVE LoopInv'
  BY <1>6 DEF WriteAudit, Put
<1>7. ASSUME NEW p \in Ops, Get(p) PROVE LoopInv'
  BY <1>7 DEF Get
<1>8. ASSUME NEW p \in Ops, GetNothing(p) PROVE LoopInv'
  BY <1>8 DEF GetNothing
<1>9. ASSUME NEW p \in Ops, Set(p) PROVE LoopInv'
  BY <1>9 DEF Set, Put
<1>10. ASSUME NEW p \in Ops, Remove(p) PROVE LoopInv'
  BY <1>10 DEF Remove, Restrict
<1>11. ASSUME NEW p \in Ops, Link(p) PROVE LoopInv'
  BY <1>11 DEF Link
<1>12. ASSUME NEW p \in Ops, Abort(p) PROVE LoopInv'
  BY <1>12 DEF Abort
<1>13. ASSUME UNCHANGED vars PROVE LoopInv'
  BY <1>13 DEF vars
<1>14. QED
  BY <1>1, <1>2, <1>3, <1>4, <1>5, <1>6, <1>7, <1>8, <1>9, <1>10, <1>11, <1>12, <1>13 DEF Next

\* While an operation is under way no other one's turn comes.
LEMMA Alone ==
  ASSUME OneProcess, TInv, LoopInv, NEW p \in Ops, NEW q \in Ops, NEW label,
         Async(p), Turn(p, label), Async(q), pc[q] \notin {"bumpSystem", "get", "done"}
  PROVE  p = q
  BY NoOpAssumption DEF OneProcess, TInv, TypeOK, LoopInv, Turn

\* UpdateSeesLatest holds initially.
LEMMA UpdateInit == Init => UpdateSeesLatest
  BY DEF Init, UpdateSeesLatest, FirstLabel

\* In one process nothing writes a system between the read and the write of an update.
LEMMA UpdateStep ==
  TInv /\ LoopInv /\ UpdateSeesLatest /\ [Next]_vars => UpdateSeesLatest'
<1> SUFFICES ASSUME OneProcess, TInv, LoopInv, UpdateSeesLatest, [Next]_vars
             PROVE  UpdateSeesLatest'
  BY Placed DEF UpdateSeesLatest, OneProcess
<1> USE NoOpAssumption
    DEF OneProcess, TInv, TypeOK, StepInv, LoopInv, UpdateSeesLatest, Turn, GoOn, Finish,
        Async, documents, operation, locals, Labels, Kinds
<1>1. ASSUME NEW p \in Ops, BumpSystem(p) PROVE UpdateSeesLatest'
  BY <1>1 DEF BumpSystem, Bump
<1>2. ASSUME NEW p \in Ops, ReadSystem(p) PROVE UpdateSeesLatest'
  BY <1>2 DEF ReadSystem
<1>3. ASSUME NEW p \in Ops, WriteSystem(p) PROVE UpdateSeesLatest'
  <2>1. kind[p] # "update" /\ Async(p) /\ pc' = [pc EXCEPT ![p] = "bumpAudit"]
    BY <1>3 DEF WriteSystem
  <2>2. \A q \in Ops : ~(kind[q] = "update" /\ pc[q] \in {"bumpAudit", "readAudit", "writeAudit", "set"})
    BY <1>3, <2>1, Alone DEF WriteSystem
  <2>3. QED
    BY <1>3, <2>1, <2>2 DEF WriteSystem
<1>4. ASSUME NEW p \in Ops, BumpAudit(p) PROVE UpdateSeesLatest'
  BY <1>4 DEF BumpAudit, Bump
<1>5. ASSUME NEW p \in Ops, ReadAudit(p) PROVE UpdateSeesLatest'
  BY <1>5 DEF ReadAudit
<1>6. ASSUME NEW p \in Ops, WriteAudit(p) PROVE UpdateSeesLatest'
  BY <1>6 DEF WriteAudit, Put
<1>7. ASSUME NEW p \in Ops, Get(p) PROVE UpdateSeesLatest'
  BY <1>7 DEF Get
<1>8. ASSUME NEW p \in Ops, GetNothing(p) PROVE UpdateSeesLatest'
  BY <1>8 DEF GetNothing
<1>9. ASSUME NEW p \in Ops, Set(p) PROVE UpdateSeesLatest'
  <2>1. Async(p) /\ kind[p] = "update" /\ pc' = [pc EXCEPT ![p] = "done"]
    BY <1>9 DEF Set
  <2>2. \A q \in Ops : kind[q] = "update" /\ pc[q] \in {"bumpAudit", "readAudit", "writeAudit", "set"}
            => q = p
    BY <1>9, <2>1, Alone DEF Set
  <2>3. QED
    BY <1>9, <2>1, <2>2 DEF Set
<1>10. ASSUME NEW p \in Ops, Remove(p) PROVE UpdateSeesLatest'
  <2>1. kind[p] # "update" /\ Async(p) /\ pc' = [pc EXCEPT ![p] = "bumpAudit"]
    BY <1>10 DEF Remove
  <2>2. \A q \in Ops : ~(kind[q] = "update" /\ pc[q] \in {"bumpAudit", "readAudit", "writeAudit", "set"})
    BY <1>10, <2>1, Alone DEF Remove
  <2>3. QED
    BY <1>10, <2>1, <2>2 DEF Remove
<1>11. ASSUME NEW p \in Ops, Link(p) PROVE UpdateSeesLatest'
  <2>1. Async(p) /\ pc' = [pc EXCEPT ![p] = "done"]
    BY <1>11 DEF Link
  <2>2. \A q \in Ops : ~(kind[q] = "update" /\ pc[q] \in {"bumpAudit", "readAudit", "writeAudit", "set"})
    BY <1>11, <2>1, Alone DEF Link
  <2>3. QED
    BY <1>11, <2>1, <2>2 DEF Link
<1>12. ASSUME NEW p \in Ops, Abort(p) PROVE UpdateSeesLatest'
  BY <1>12 DEF Abort
<1>13. ASSUME UNCHANGED vars PROVE UpdateSeesLatest'
  BY <1>13 DEF vars
<1>14. QED
  BY <1>1, <1>2, <1>3, <1>4, <1>5, <1>6, <1>7, <1>8, <1>9, <1>10, <1>11, <1>12, <1>13 DEF Next

\* The system ids are distinct initially.
LEMMA SystemIdInit == Init => SystemIdInv /\ SystemIdsDistinct
  BY DEF Init, SystemIdInv, SystemIdsDistinct

\* In one process no step hands out a system id twice.
LEMMA SystemIdStep ==
  TInv /\ LoopInv /\ SystemIdInv /\ SystemIdsDistinct /\ [Next]_vars
     => (SystemIdInv /\ SystemIdsDistinct)'
<1> SUFFICES ASSUME OneProcess, TInv, LoopInv, SystemIdInv, SystemIdsDistinct, [Next]_vars
             PROVE  (SystemIdInv /\ SystemIdsDistinct)'
  BY Placed DEF SystemIdInv, SystemIdsDistinct, OneProcess
<1> USE NoOpAssumption
    DEF OneProcess, TInv, TypeOK, StepInv, LoopInv, SystemIdInv, SystemIdsDistinct, Turn,
        GoOn, Finish, Async, documents, operation, locals, Labels, Kinds, Counters
<1>1. ASSUME NEW p \in Ops, BumpSystem(p) PROVE (SystemIdInv /\ SystemIdsDistinct)'
  BY <1>1 DEF BumpSystem, Bump
<1>2. ASSUME NEW p \in Ops, ReadSystem(p) PROVE (SystemIdInv /\ SystemIdsDistinct)'
  <2> DEFINE n == counter[org[p]]["system"]
  <2>1. /\ kind[p] = "create" /\ Async(p) /\ n \in Nat
        /\ pc[p] = "readSystem" /\ pc' = [pc EXCEPT ![p] = "writeSystem"]
        /\ id' = [id EXCEPT ![p] = n]
        /\ UNCHANGED <<counter, kind, org>>
    BY <1>2 DEF ReadSystem
  <2>2. \A q \in Ops : pc'[q] # "readSystem"
    BY <1>2, <2>1, Alone DEF ReadSystem
  <2>3. \A q \in Ops : kind[q] = "create" /\ id[q] # 0 /\ org[q] = org[p] => id[q] < n
    BY <2>1
  <2>4. SystemIdInv'
    BY <2>1, <2>2
  <2>5. SystemIdsDistinct'
    BY <2>1, <2>3
  <2>6. QED
    BY <2>4, <2>5
<1>3. ASSUME NEW p \in Ops, WriteSystem(p) PROVE (SystemIdInv /\ SystemIdsDistinct)'
  BY <1>3 DEF WriteSystem, Put
<1>4. ASSUME NEW p \in Ops, BumpAudit(p) PROVE (SystemIdInv /\ SystemIdsDistinct)'
  BY <1>4 DEF BumpAudit, Bump
<1>5. ASSUME NEW p \in Ops, ReadAudit(p) PROVE (SystemIdInv /\ SystemIdsDistinct)'
  BY <1>5 DEF ReadAudit
<1>6. ASSUME NEW p \in Ops, WriteAudit(p) PROVE (SystemIdInv /\ SystemIdsDistinct)'
  BY <1>6 DEF WriteAudit, Put
<1>7. ASSUME NEW p \in Ops, Get(p) PROVE (SystemIdInv /\ SystemIdsDistinct)'
  BY <1>7 DEF Get
<1>8. ASSUME NEW p \in Ops, GetNothing(p) PROVE (SystemIdInv /\ SystemIdsDistinct)'
  BY <1>8 DEF GetNothing
<1>9. ASSUME NEW p \in Ops, Set(p) PROVE (SystemIdInv /\ SystemIdsDistinct)'
  BY <1>9 DEF Set, Put
<1>10. ASSUME NEW p \in Ops, Remove(p) PROVE (SystemIdInv /\ SystemIdsDistinct)'
  BY <1>10 DEF Remove, Restrict
<1>11. ASSUME NEW p \in Ops, Link(p) PROVE (SystemIdInv /\ SystemIdsDistinct)'
  BY <1>11 DEF Link
<1>12. ASSUME NEW p \in Ops, Abort(p) PROVE (SystemIdInv /\ SystemIdsDistinct)'
  BY <1>12 DEF Abort
<1>13. ASSUME UNCHANGED vars PROVE (SystemIdInv /\ SystemIdsDistinct)'
  BY <1>13 DEF vars
<1>14. QED
  BY <1>1, <1>2, <1>3, <1>4, <1>5, <1>6, <1>7, <1>8, <1>9, <1>10, <1>11, <1>12, <1>13 DEF Next

\* The two properties of a single process.
LEMMA ProcessCorrect == Spec => [](UpdateSeesLatest /\ SystemIdsDistinct)
<1>1. Init => TInv /\ LoopInv /\ UpdateSeesLatest /\ SystemIdInv /\ SystemIdsDistinct
  BY TInit, LoopInit, UpdateInit, SystemIdInit
<1>2. TInv /\ LoopInv /\ UpdateSeesLatest /\ SystemIdInv /\ SystemIdsDistinct /\ [Next]_vars
        => (TInv /\ LoopInv /\ UpdateSeesLatest /\ SystemIdInv /\ SystemIdsDistinct)'
  BY TStep, LoopStep, UpdateStep, SystemIdStep
<1>3. QED
  BY <1>1, <1>2, PTL DEF Spec

\* In one process update_system writes over exactly what it read.
THEOREM UpdatesAreAtomic == Spec => []UpdateSeesLatest
  BY ProcessCorrect, PTL

\* No two systems of an organization that one process created share an id.
THEOREM SystemIdsAreDistinct == Spec => []SystemIdsDistinct
  BY ProcessCorrect, PTL

-----------------------------------------------------------------------------
(* One organization: the audit log. *)

\* The audit invariants hold initially.
LEMMA AuditInit == Init => AuditIdInv /\ AuditTrail
  BY DEF Init, AuditIdInv, AuditTrail, Uses, FirstLabel

\* A step that allocates no audit id and puts none to use keeps the invariant.
LEMMA AuditIdFrame ==
  ASSUME TInv, AuditIdInv, UNCHANGED org,
         \A o \in Orgs : counter'[o]["audit"] = counter[o]["audit"],
         \A q \in Ops : pc'[q] = "readAudit" => pc[q] = "readAudit",
         \A q \in Ops : Overtaken(q) => Overtaken(q)',
         \A q \in Ops : \A a \in Nat : Uses(q, a)' => Uses(q, a)
  PROVE  AuditIdInv'
  BY DEF TInv, TypeOK, AuditIdInv, OneOrg

\* In one organization an id is shared only by operations of which one was overtaken.
LEMMA AuditIdStep == TInv /\ AuditIdInv /\ [Next]_vars => AuditIdInv'
<1> SUFFICES ASSUME OneOrg, TInv, AuditIdInv, [Next]_vars PROVE AuditIdInv'
  BY Placed DEF AuditIdInv, OneOrg
<1> USE DEF TInv, TypeOK, Turn, GoOn, Finish, documents, operation, locals, Labels, Counters
<1>1. ASSUME NEW p \in Ops, BumpSystem(p) PROVE AuditIdInv'
  BY <1>1, AuditIdFrame DEF BumpSystem, Uses, Overtaken, Bump
<1>2. ASSUME NEW p \in Ops, ReadSystem(p) PROVE AuditIdInv'
  BY <1>2, AuditIdFrame DEF ReadSystem, Uses, Overtaken
<1>3. ASSUME NEW p \in Ops, WriteSystem(p) PROVE AuditIdInv'
  BY <1>3, AuditIdFrame DEF WriteSystem, Uses, Overtaken
<1>4. ASSUME NEW p \in Ops, BumpAudit(p) PROVE AuditIdInv'
  <2> DEFINE n(q) == counter[org[q]]["audit"]
  <2>1. /\ pc' = [pc EXCEPT ![p] = "readAudit"]
        /\ UNCHANGED <<org, aid, recorded>>
        /\ \A q \in Ops : n(q) \in Nat /\ n(q)' = n(q) + 1
        /\ \A q \in Ops : Overtaken(q) => Overtaken(q)'
        /\ \A q \in Ops : q # p /\ pc[q] = "readAudit" => Overtaken(q)'
    BY <1>4 DEF BumpAudit, Bump, Overtaken, OneOrg
  <2>2. \A q \in Ops : \A a \in Nat : Uses(q, a)' => Uses(q, a)
    BY <2>1 DEF Uses
  <2>3. \A q \in Ops : pc'[q] = "readAudit" /\ ~Overtaken(q)' => q = p
    BY <2>1
  <2>4. \A q \in Ops : \A a \in Nat : Uses(q, a)' => a < n(q)'
    BY <2>1, <2>2 DEF AuditIdInv
  <2>5. ASSUME NEW q \in Ops, NEW r \in Ops PROVE n(q)' = n(r)'
    BY <2>1 DEF OneOrg
  <2>6. QED
    BY <2>1, <2>2, <2>3, <2>4, <2>5 DEF AuditIdInv
<1>5. ASSUME NEW p \in Ops, ReadAudit(p) PROVE AuditIdInv'
  <2> DEFINE n(q) == counter[org[q]]["audit"]
  <2>1. /\ pc[p] = "readAudit" /\ pc' = [pc EXCEPT ![p] = "writeAudit"]
        /\ aid' = [aid EXCEPT ![p] = n(p)]
        /\ UNCHANGED <<counter, org, recorded, overtaken>>
        /\ \A q \in Ops : n(q) = n(p) /\ n(q) \in Nat
    BY <1>5 DEF ReadAudit, OneOrg
  <2>2. \A q \in Ops : \A a \in Nat : Uses(q, a)' => Uses(q, a) \/ (q = p /\ a = n(p))
    BY <2>1 DEF Uses
  <2>3. \A q \in Ops : Overtaken(q)' = Overtaken(q)
    BY <2>1 DEF Overtaken
  <2>4. \A q \in Ops : \A a \in Nat : Uses(q, a)' => a <= n(q)
    BY <2>1, <2>2 DEF AuditIdInv
  <2>5. \A q, r \in Ops : pc'[q] = "readAudit" /\ ~Overtaken(q) /\ q # r /\ ~Overtaken(r) =>
            r # p /\ pc'[r] # "readAudit" /\ \A a \in Nat : Uses(r, a)' => a < n(q)
    BY <2>1, <2>2 DEF AuditIdInv
  <2>6. \A q \in Ops : \A a \in Nat :
            q # p /\ ~Overtaken(p) /\ ~Overtaken(q) /\ Uses(q, a) => a < n(p)
    BY <2>1 DEF AuditIdInv
  <2>7. \A q, r \in Ops : \A a \in Nat :
            q # r /\ Uses(q, a)' /\ Uses(r, a)' => Overtaken(q) \/ Overtaken(r)
    BY <2>1, <2>2, <2>6 DEF AuditIdInv
  <2>8. QED
    BY <2>1, <2>3, <2>4, <2>5, <2>7 DEF AuditIdInv
<1>6. ASSUME NEW p \in Ops, WriteAudit(p) PROVE AuditIdInv'
  BY <1>6, AuditIdFrame DEF WriteAudit, Uses, Overtaken
<1>7. ASSUME NEW p \in Ops, Get(p) PROVE AuditIdInv'
  <2>1. kind[p] \in {"update", "delete", "link"}
    BY <1>7 DEF Get, StepInv
  <2>2. \E l \in {"bumpAudit", "remove", "link"} : pc' = [pc EXCEPT ![p] = l]
    BY <1>7, <2>1 DEF Get
  <2>3. UNCHANGED <<counter, org, aid, overtaken, recorded>>
    BY <1>7 DEF Get
  <2>4. QED
    BY <2>2, <2>3, AuditIdFrame DEF Uses, Overtaken
<1>8. ASSUME NEW p \in Ops, GetNothing(p) PROVE AuditIdInv'
  BY <1>8, AuditIdFrame DEF GetNothing, Uses, Overtaken
<1>9. ASSUME NEW p \in Ops, Set(p) PROVE AuditIdInv'
  BY <1>9, AuditIdFrame DEF Set, Uses, Overtaken
<1>10. ASSUME NEW p \in Ops, Remove(p) PROVE AuditIdInv'
  BY <1>10, AuditIdFrame DEF Remove, Uses, Overtaken
<1>11. ASSUME NEW p \in Ops, Link(p) PROVE AuditIdInv'
  BY <1>11, AuditIdFrame DEF Link, Uses, Overtaken
<1>12. ASSUME NEW p \in Ops, Abort(p) PROVE AuditIdInv'
  BY <1>12, AuditIdFrame DEF Abort, Uses, Overtaken
<1>13. ASSUME UNCHANGED vars PROVE AuditIdInv'
  BY <1>13, AuditIdFrame DEF vars, Uses, Overtaken
<1>14. QED
  BY <1>1, <1>2, <1>3, <1>4, <1>5, <1>6, <1>7, <1>8, <1>9, <1>10, <1>11, <1>12, <1>13 DEF Next

\* In one organization only an overlapping allocation overwrites a record.
LEMMA AuditTrailStep ==
  TInv /\ AuditIdInv /\ AuditTrail /\ [Next]_vars => AuditTrail'
<1> SUFFICES ASSUME OneOrg, TInv, AuditIdInv, AuditTrail, [Next]_vars PROVE AuditTrail'
  BY Placed DEF AuditTrail, OneOrg
<1> USE DEF OneOrg, TInv, TypeOK, AuditTrail, Turn, GoOn, Finish, documents, operation, locals
<1>1. ASSUME NEW p \in Ops, BumpSystem(p) PROVE AuditTrail'
  BY <1>1 DEF BumpSystem, Bump
<1>2. ASSUME NEW p \in Ops, ReadSystem(p) PROVE AuditTrail'
  BY <1>2 DEF ReadSystem
<1>3. ASSUME NEW p \in Ops, WriteSystem(p) PROVE AuditTrail'
  BY <1>3 DEF WriteSystem, Put
<1>4. ASSUME NEW p \in Ops, BumpAudit(p) PROVE AuditTrail'
  BY <1>4 DEF BumpAudit, Bump
<1>5. ASSUME NEW p \in Ops, ReadAudit(p) PROVE AuditTrail'
  BY <1>5 DEF ReadAudit
<1>6. ASSUME NEW p \in Ops, WriteAudit(p) PROVE AuditTrail'
  <2> DEFINE new == [op |-> p, aid |-> aid[p]]
  <2>1. recorded' = recorded \cup {new} /\ overtaken' = overtaken /\ audits' = Put(audits, aid[p], p)
    BY <1>6 DEF WriteAudit
  <2>2. /\ aid[p] \in DOMAIN audits' /\ audits'[aid[p]] = p
        /\ \A i \in DOMAIN audits : i # aid[p] => i \in DOMAIN audits' /\ audits'[i] = audits[i]
    BY <2>1 DEF Put
  <2> SUFFICES ASSUME NEW r \in recorded'
               PROVE  \/ r.aid \in DOMAIN audits' /\ audits'[r.aid] = r.op
                      \/ \E s \in recorded' : s.aid = r.aid /\ s.op # r.op /\
                            (<<r.op, "audit">> \in overtaken' \/ <<s.op, "audit">> \in overtaken')
    OBVIOUS
  <2>3. CASE r = new
    BY <2>2, <2>3
  <2>4. CASE r \in recorded /\ r.aid # aid[p]
    BY <2>1, <2>2, <2>4
  <2>5. CASE r \in recorded /\ r.aid = aid[p]
    <3>1. r = [op |-> r.op, aid |-> r.aid] /\ r.op \in Ops /\ r.aid \in Nat
      BY <2>5
    <3>2. Uses(p, r.aid) /\ Uses(r.op, r.aid)
      BY <1>6, <2>5, <3>1 DEF WriteAudit, Uses
    <3>3. p # r.op => Overtaken(p) \/ Overtaken(r.op)
      BY <3>1, <3>2 DEF AuditIdInv
    <3>4. CASE r.op = p
      BY <2>2, <2>5, <3>4
    <3>5. CASE r.op # p
      <4>1. new \in recorded' /\ new.aid = r.aid /\ new.op # r.op
        BY <2>1, <2>5, <3>5
      <4>2. <<r.op, "audit">> \in overtaken' \/ <<new.op, "audit">> \in overtaken'
        BY <2>1, <3>3, <3>5 DEF Overtaken
      <4>3. QED
        BY <4>1, <4>2
    <3>6. QED
      BY <3>4, <3>5
  <2>6. QED
    BY <2>1, <2>3, <2>4, <2>5
<1>7. ASSUME NEW p \in Ops, Get(p) PROVE AuditTrail'
  BY <1>7 DEF Get
<1>8. ASSUME NEW p \in Ops, GetNothing(p) PROVE AuditTrail'
  BY <1>8 DEF GetNothing
<1>9. ASSUME NEW p \in Ops, Set(p) PROVE AuditTrail'
  BY <1>9 DEF Set, Put
<1>10. ASSUME NEW p \in Ops, Remove(p) PROVE AuditTrail'
  BY <1>10 DEF Remove, Restrict
<1>11. ASSUME NEW p \in Ops, Link(p) PROVE AuditTrail'
  BY <1>11 DEF Link
<1>12. ASSUME NEW p \in Ops, Abort(p) PROVE AuditTrail'
  BY <1>12 DEF Abort
<1>13. ASSUME UNCHANGED vars PROVE AuditTrail'
  BY <1>13 DEF vars
<1>14. QED
  BY <1>1, <1>2, <1>3, <1>4, <1>5, <1>6, <1>7, <1>8, <1>9, <1>10, <1>11, <1>12, <1>13 DEF Next

\* In one organization an audit record stays in the log, across threads, instances
\* and crashes, unless its allocation overlapped another one.
THEOREM AuditRecordsStay == Spec => []AuditTrail
<1>1. Init => TInv /\ AuditIdInv /\ AuditTrail
  BY TInit, AuditInit
<1>2. TInv /\ AuditIdInv /\ AuditTrail /\ [Next]_vars => (TInv /\ AuditIdInv /\ AuditTrail)'
  BY TStep, AuditIdStep, AuditTrailStep
<1>3. QED
  BY <1>1, <1>2, PTL DEF Spec

=============================================================================
