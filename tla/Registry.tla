------------------------------ MODULE Registry ------------------------------
(***************************************************************************)
(* The AI system registry and the audit log of app/services/store.py: the  *)
(* numeric ids of _next_id, the documents stored under them, and the       *)
(* operations that create, update, delete and link systems and record what *)
(* they did.                                                               *)
(*                                                                         *)
(* A counter belongs to one organization, a document id to the whole       *)
(* collection.  Every store call is an action; an operation called by an   *)
(* async handler (all that touch systems, and the scan worker) holds the   *)
(* event loop of its process from its first store call to its last.        *)
(* Member and policy changes, which only record, run on pool threads.      *)
(***************************************************************************)
EXTENDS Naturals, FiniteSets, Functions

CONSTANTS
    Ops,          \* calls of the operations; p also names what it writes
    Orgs,
    Instances,    \* backend processes
    MaxFaults,    \* bound: operations cut short by a raising store call or a crash
    NoOp

ASSUME NoOpAssumption == NoOp \notin Ops
ASSUME FaultsAssumption == MaxFaults \in Nat

Kinds == {"create", "update", "delete", "link", "record"}
Counters == {"system", "audit"}
Labels == {"bumpSystem", "readSystem", "writeSystem", "get", "set", "remove", "link",
           "bumpAudit", "readAudit", "writeAudit", "done"}

FirstLabel(k) ==
    CASE k = "create" -> "bumpSystem"
      [] k = "record" -> "bumpAudit"
      [] OTHER -> "get"

VARIABLES
    counter,            \* Firestore _counters/{org}
    systems, audits,    \* Firestore systems/{id} and audits/{id}, by id
    kind, org, at,      \* an operation: what, for whom, in which process
    pc, id, copy, aid,  \* its progress, its system id, what it read of it, its audit id
    loop,               \* the operation that holds a process's event loop
    overtaken,          \* history: allocations another one bumped past
    recorded,           \* history: the audit records written, by whom and under which id
    faults

documents == <<counter, systems, audits>>
operation == <<kind, org, at>>
locals == <<id, copy, aid>>
vars == <<counter, systems, audits, kind, org, at, pc, id, copy, aid, loop,
          overtaken, recorded, faults>>

\* A system as its readers see it: owner, creator, last editor, last linked scan.
System == [org : Orgs, by : Ops, edit : Ops \cup {NoOp}, scan : Ops \cup {NoOp}]
NoCopy == [org |-> NoOp]

TypeOK ==
    /\ counter \in [Orgs -> [Counters -> Nat]]
    /\ DOMAIN systems \subseteq Nat /\ \A i \in DOMAIN systems : systems[i] \in System
    /\ DOMAIN audits \subseteq Nat /\ \A i \in DOMAIN audits : audits[i] \in Ops
    /\ kind \in [Ops -> Kinds] /\ org \in [Ops -> Orgs] /\ at \in [Ops -> Instances]
    /\ pc \in [Ops -> Labels]
    /\ id \in [Ops -> Nat] /\ aid \in [Ops -> Nat]
    /\ copy \in [Ops -> System \cup {NoCopy}]
    /\ loop \in [Instances -> Ops \cup {NoOp}]
    /\ overtaken \in SUBSET (Ops \X Counters)
    /\ recorded \in SUBSET [op : Ops, aid : Nat]
    /\ faults \in Nat

Init ==
    /\ counter = [o \in Orgs |-> [c \in Counters |-> 0]]
    /\ systems = [i \in {} |-> NoCopy]
    /\ audits = [i \in {} |-> NoOp]
    /\ kind \in [Ops -> Kinds] /\ org \in [Ops -> Orgs] /\ at \in [Ops -> Instances]
    /\ pc = [p \in Ops |-> FirstLabel(kind[p])]
    /\ id = [p \in Ops |-> 0] /\ aid = [p \in Ops |-> 0]
    /\ copy = [p \in Ops |-> NoCopy]
    /\ loop = [i \in Instances |-> NoOp]
    /\ overtaken = {}
    /\ recorded = {}
    /\ faults = 0

\* A document set under its id, whatever was there.
Put(f, k, v) == [x \in DOMAIN f \cup {k} |-> IF x = k THEN v ELSE f[x]]

-----------------------------------------------------------------------------
(* The event loop. *)

Async(p) == kind[p] # "record"
Turn(p, label) ==
    /\ pc[p] = label
    /\ Async(p) => loop[at[p]] \in {p, NoOp}

\* Mutant: the store is awaited, so that others run between two calls.
GoOnAwaiting(p, label) ==
    /\ pc' = [pc EXCEPT ![p] = label]
    /\ UNCHANGED loop

GoOn(p, label) ==
    /\ pc' = [pc EXCEPT ![p] = label]
    /\ loop' = IF Async(p) THEN [loop EXCEPT ![at[p]] = p] ELSE loop
Finish(p) ==
    /\ pc' = [pc EXCEPT ![p] = "done"]
    /\ loop' = IF Async(p) THEN [loop EXCEPT ![at[p]] = NoOp] ELSE loop

-----------------------------------------------------------------------------
(* _next_id: an atomic increment, then a read of its own.                  *)

Bump(p, c) ==
    /\ counter' = [counter EXCEPT ![org[p]][c] = @ + 1]
    /\ overtaken' = overtaken \cup
          {<<q, c>> : q \in {q \in Ops \ {p} : org[q] = org[p] /\
                               pc[q] = IF c = "system" THEN "readSystem" ELSE "readAudit"}}

BumpSystem(p) ==
    /\ Turn(p, "bumpSystem")
    /\ Bump(p, "system")
    /\ GoOn(p, "readSystem")
    /\ UNCHANGED <<systems, audits, operation, locals, recorded, faults>>

ReadSystem(p) ==
    /\ Turn(p, "readSystem")
    /\ id' = [id EXCEPT ![p] = counter[org[p]]["system"]]
    /\ GoOn(p, "writeSystem")
    /\ UNCHANGED <<documents, operation, copy, aid, overtaken, recorded, faults>>

WriteSystem(p) ==
    /\ Turn(p, "writeSystem")
    /\ systems' = Put(systems, id[p],
                      [org |-> org[p], by |-> p, edit |-> NoOp, scan |-> NoOp])
    /\ GoOn(p, "bumpAudit")
    /\ UNCHANGED <<counter, audits, operation, locals, overtaken, recorded, faults>>

-----------------------------------------------------------------------------
(* _record_audit. *)

BumpAudit(p) ==
    /\ Turn(p, "bumpAudit")
    /\ Bump(p, "audit")
    /\ GoOn(p, "readAudit")
    /\ UNCHANGED <<systems, audits, operation, locals, recorded, faults>>

\* Mutant: the counter document is read under the wrong field.
ReadAuditWrongField(p) ==
    /\ Turn(p, "readAudit")
    /\ aid' = [aid EXCEPT ![p] = counter[org[p]]["system"]]
    /\ GoOn(p, "writeAudit")
    /\ UNCHANGED <<documents, operation, id, copy, overtaken, recorded, faults>>

ReadAudit(p) ==
    /\ Turn(p, "readAudit")
    /\ aid' = [aid EXCEPT ![p] = counter[org[p]]["audit"]]
    /\ GoOn(p, "writeAudit")
    /\ UNCHANGED <<documents, operation, id, copy, overtaken, recorded, faults>>

\* update_system records before it writes, and once more when the risk tier
\* changed; the others record last.
WriteAudit(p) ==
    /\ Turn(p, "writeAudit")
    /\ audits' = Put(audits, aid[p], p)
    /\ recorded' = recorded \cup {[op |-> p, aid |-> aid[p]]}
    /\ \/ kind[p] # "update" /\ Finish(p)
       \/ kind[p] = "update" /\ GoOn(p, "set")
       \/ kind[p] = "update" /\ (\A r \in recorded : r.op # p) /\ GoOn(p, "bumpAudit")
    /\ UNCHANGED <<counter, systems, operation, locals, overtaken, faults>>

-----------------------------------------------------------------------------
(* update_system, delete_system and link_scan_to_systems. *)

\* The system an operation read, if it is the organization's.
Get(p) ==
    /\ Turn(p, "get")
    /\ \E i \in DOMAIN systems :
        /\ systems[i].org = org[p]
        /\ id' = [id EXCEPT ![p] = i]
        /\ copy' = [copy EXCEPT ![p] = systems[i]]
    /\ GoOn(p, CASE kind[p] = "update" -> "bumpAudit"
                 [] kind[p] = "delete" -> "remove"
                 [] kind[p] = "link" -> "link")
    /\ UNCHANGED <<documents, operation, aid, overtaken, recorded, faults>>

\* 404, an update refused for want of a justification, or no system to link.
GetNothing(p) ==
    /\ Turn(p, "get")
    /\ Finish(p)
    /\ UNCHANGED <<documents, operation, locals, overtaken, recorded, faults>>

\* The whole document, as it was read, with the edit in it.
Set(p) ==
    /\ Turn(p, "set")
    /\ systems' = Put(systems, id[p], [copy[p] EXCEPT !.edit = p])
    /\ Finish(p)
    /\ UNCHANGED <<counter, audits, operation, locals, overtaken, recorded, faults>>

\* With the chats and policies below the document.
Remove(p) ==
    /\ Turn(p, "remove")
    /\ systems' = Restrict(systems, DOMAIN systems \ {id[p]})
    /\ GoOn(p, "bumpAudit")
    /\ UNCHANGED <<counter, audits, operation, locals, overtaken, recorded, faults>>

\* Mutant: set(..., merge=True) in place of update: it creates what is gone.
LinkMerges(p) ==
    /\ Turn(p, "link")
    /\ systems' = IF id[p] \in DOMAIN systems
                  THEN [systems EXCEPT ![id[p]].scan = p]
                  ELSE Put(systems, id[p], [scan |-> p])
    /\ Finish(p)
    /\ UNCHANGED <<counter, audits, operation, locals, overtaken, recorded, faults>>

\* A field update; it raises when the document is gone.
Link(p) ==
    /\ Turn(p, "link")
    /\ systems' = IF id[p] \in DOMAIN systems
                  THEN [systems EXCEPT ![id[p]].scan = p] ELSE systems
    /\ Finish(p)
    /\ UNCHANGED <<counter, audits, operation, locals, overtaken, recorded, faults>>

\* A store call raises, or the process dies: the operation stops where it is.
Abort(p) ==
    /\ \E label \in Labels \ {"done"} : Turn(p, label)
    /\ faults < MaxFaults /\ faults' = faults + 1
    /\ Finish(p)
    /\ UNCHANGED <<documents, operation, locals, overtaken, recorded>>

Next ==
    \E p \in Ops :
        \/ BumpSystem(p) \/ ReadSystem(p) \/ WriteSystem(p)
        \/ BumpAudit(p) \/ ReadAudit(p) \/ WriteAudit(p)
        \/ Get(p) \/ GetNothing(p) \/ Set(p) \/ Remove(p) \/ Link(p)
        \/ Abort(p)

Spec == Init /\ [][Next]_vars

-----------------------------------------------------------------------------
(* Properties.                                                             *)

OneProcess == \A p, q \in Ops : at[p] = at[q]
OneOrg == \A p, q \in Ops : org[p] = org[q]

\* With all operations in one process, the blocking store calls make the read and
\* the write of update_system one step of the event loop: it writes over exactly
\* what it read, so it undoes no scan link and brings no deleted system back.
UpdateSeesLatest ==
    OneProcess =>
        \A p \in Ops : kind[p] = "update" /\ pc[p] \in {"bumpAudit", "readAudit", "writeAudit", "set"}
            => id[p] \in DOMAIN systems /\ systems[id[p]] = copy[p]

\* For the same reason two systems of an organization created in one process
\* never get the same id, although _next_id reads the counter in a second call.
SystemIdsDistinct ==
    OneProcess =>
        \A p, q \in Ops :
            /\ p # q /\ org[p] = org[q] /\ kind[p] = "create" /\ kind[q] = "create"
            /\ id[p] # 0 /\ id[q] # 0
            => id[p] # id[q]

\* While one organization uses the log, an audit record that was written stays,
\* across threads, instances and crashes, unless two allocations overlapped.
AuditTrail ==
    OneOrg =>
        \A r \in recorded :
            \/ r.aid \in DOMAIN audits /\ audits[r.aid] = r.op
            \/ \E s \in recorded : s.aid = r.aid /\ s.op # r.op /\
                   (<<r.op, "audit">> \in overtaken \/ <<s.op, "audit">> \in overtaken)

\* What docs/security-overview.md says of the audit log.
AuditIsAppendOnly ==
    [][\A i \in DOMAIN audits : i \in DOMAIN audits' /\ audits'[i] = audits[i]]_audits

=============================================================================
