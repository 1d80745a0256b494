---------------------------- MODULE Idempotency ----------------------------
(***************************************************************************)
(* The Idempotency-Key protocol of app/core/idempotency.py: the record a   *)
(* key has in Firestore, begin_idempotent_request and                      *)
(* complete_idempotent_request, and the write handlers that call them.     *)
(*                                                                         *)
(* Store calls block.  An async handler therefore holds the event loop of  *)
(* its process from one await to the next, and two of them cannot overlap  *)
(* inside that stretch; a plain "def" handler runs on a thread of the pool *)
(* and overlaps with everything.                                           *)
(***************************************************************************)
EXTENDS Naturals, FiniteSets

CONSTANTS
    Requests,         \* HTTP requests that carry a key; r also names what it creates
    Keys,             \* (organization, key) pairs
    Instances,        \* backend processes
    Served,           \* the endpoints the requests go to
    MaxFaults,        \* bound: store calls that raise, and crashes
    NoRequest

\* POST /scans/ and /scans/aws; /compliance/attestations; /systems/; /webhooks/.
Endpoints == {"scan", "attestation", "system", "webhook"}
Threaded == {"webhook"}     \* def, not async def
Validated == {"scan"}       \* answers 400 or 404 after begin
Notifying == {"system"}     \* awaits a notification before it completes the key

ASSUME ServedAssumption == Served \subseteq Endpoints
ASSUME NoRequestAssumption == NoRequest \notin Requests
ASSUME FaultsAssumption == MaxFaults \in Nat

VARIABLES
    record,     \* Firestore idempotency_keys/{key}
    pc, key, endpoint, at,   \* a request's progress and what it asked of whom
    loop,       \* the async request that holds an instance's event loop
    made,       \* what requests of the key have created since it was last unused
    replied,    \* the resources its success replies named
    raced,      \* history: keys two requests both found unused
    failed,     \* history: keys one of whose requests was rejected, raised or died
    faults

request == <<key, endpoint, at>>
vars == <<record, pc, key, endpoint, at, loop, made, replied, raced, failed, faults>>

InFlight == {"get", "save", "act", "complete"}
Unused == [status |-> "absent", resource |-> NoRequest]
Processing == [status |-> "processing", resource |-> NoRequest]

TypeOK ==
    /\ record \in [Keys -> [status : {"absent", "processing"}, resource : {NoRequest}]
                           \cup [status : {"completed"}, resource : Requests]]
    /\ pc \in [Requests -> {"new", "done"} \cup InFlight]
    /\ key \in [Requests -> Keys]
    /\ endpoint \in [Requests -> Served]
    /\ at \in [Requests -> Instances]
    /\ loop \in [Instances -> Requests \cup {NoRequest}]
    /\ made \in [Keys -> SUBSET Requests]
    /\ replied \in [Keys -> SUBSET Requests]
    /\ raced \in SUBSET Keys
    /\ failed \in SUBSET Keys
    /\ faults \in Nat

Init ==
    /\ record = [k \in Keys |-> Unused]
    /\ pc = [r \in Requests |-> "new"]
    /\ key \in [Requests -> Keys]
    /\ endpoint \in [Requests -> Served]
    /\ at \in [Requests -> Instances]
    /\ loop = [i \in Instances |-> NoRequest]
    /\ made = [k \in Keys |-> {}]
    /\ replied = [k \in Keys |-> {}]
    /\ raced = {}
    /\ failed = {}
    /\ faults = 0

-----------------------------------------------------------------------------
(* Who may run: a request at `label` that is on a thread, or has the loop.  *)

Async(r) == endpoint[r] \notin Threaded
Turn(r, label) ==
    /\ pc[r] = label
    /\ Async(r) => loop[at[r]] \in {r, NoRequest}

\* Mutant: the store calls are awaited, so the loop is free between them.
GoOnAwaiting(r, label) ==
    /\ pc' = [pc EXCEPT ![r] = label]
    /\ UNCHANGED loop

GoOn(r, label) ==
    /\ pc' = [pc EXCEPT ![r] = label]
    /\ loop' = IF Async(r) THEN [loop EXCEPT ![at[r]] = r] ELSE loop
LetGo(r, label) ==
    /\ pc' = [pc EXCEPT ![r] = label]
    /\ loop' = IF Async(r) THEN [loop EXCEPT ![at[r]] = NoRequest] ELSE loop

Arrive(r) ==
    /\ pc[r] = "new"
    /\ pc' = [pc EXCEPT ![r] = "get"]
    /\ UNCHANGED <<record, request, loop, made, replied, raced, failed, faults>>

-----------------------------------------------------------------------------
(* begin_idempotent_request: a read, then a write; no transaction.          *)

\* Mutant: a record that is still processing is taken over.
GetUncompleted(r) ==
    /\ Turn(r, "get")
    /\ record[key[r]].status # "completed"
    /\ GoOn(r, "save")
    /\ raced' = IF \E s \in Requests \ {r} : key[s] = key[r] /\ pc[s] = "save"
                THEN raced \cup {key[r]} ELSE raced
    /\ UNCHANGED <<record, request, made, replied, failed, faults>>

GetUnused(r) ==
    /\ Turn(r, "get")
    /\ record[key[r]].status = "absent"
    /\ GoOn(r, "save")
    /\ raced' = IF \E s \in Requests \ {r} : key[s] = key[r] /\ pc[s] = "save"
                THEN raced \cup {key[r]} ELSE raced
    /\ UNCHANGED <<record, request, made, replied, failed, faults>>

\* 409 "A request with this Idempotency-Key is already in progress".
GetConflict(r) ==
    /\ Turn(r, "get")
    /\ record[key[r]].status = "processing"
    /\ LetGo(r, "done")
    /\ UNCHANGED <<record, request, made, replied, raced, failed, faults>>

\* The stored response, whatever method and path it was stored for.
GetCached(r) ==
    /\ Turn(r, "get")
    /\ record[key[r]].status = "completed"
    /\ LetGo(r, "done")
    /\ replied' = [replied EXCEPT ![key[r]] = @ \cup {record[key[r]].resource}]
    /\ UNCHANGED <<record, request, made, raced, failed, faults>>

Save(r) ==
    /\ Turn(r, "save")
    /\ record' = [record EXCEPT ![key[r]] = Processing]
    /\ GoOn(r, "act")
    /\ UNCHANGED <<request, made, replied, raced, failed, faults>>

-----------------------------------------------------------------------------
(* The handler between begin and complete, and complete.                    *)

\* Mutant: the rejection, too, is stored as the key's response.
RejectCompletes(r) ==
    /\ Turn(r, "act") /\ endpoint[r] \in Validated
    /\ record' = [record EXCEPT ![key[r]] = [status |-> "completed", resource |-> r]]
    /\ LetGo(r, "done")
    /\ failed' = failed \cup {key[r]}
    /\ UNCHANGED <<request, made, replied, raced, faults>>

\* No usable connection, or no such AI system.  The record stays processing.
Reject(r) ==
    /\ Turn(r, "act") /\ endpoint[r] \in Validated
    /\ LetGo(r, "done")
    /\ failed' = failed \cup {key[r]}
    /\ UNCHANGED <<record, request, made, replied, raced, faults>>

\* The scan and its job, the attestation, the AI system or the webhook is stored.
\* An effect of several store calls that raises in a later one counts as made: it
\* is Act followed by Raise or Crash.
Act(r) ==
    /\ Turn(r, "act")
    /\ made' = [made EXCEPT ![key[r]] = @ \cup {r}]
    /\ IF endpoint[r] \in Notifying THEN LetGo(r, "complete") ELSE GoOn(r, "complete")
    /\ UNCHANGED <<record, request, replied, raced, failed, faults>>

\* Mutant: an endpoint that answers without completing the key.
CompleteForgotten(r) ==
    /\ Turn(r, "complete")
    /\ record' = IF endpoint[r] = "system" THEN record ELSE
                 [record EXCEPT ![key[r]] = [status |-> "completed", resource |-> r]]
    /\ LetGo(r, "done")
    /\ replied' = [replied EXCEPT ![key[r]] = @ \cup {r}]
    /\ UNCHANGED <<request, made, raced, failed, faults>>

\* Mutant: the response is stored without its body.
CompleteWithoutBody(r) ==
    /\ Turn(r, "complete")
    /\ record' = [record EXCEPT ![key[r]].status = "completed"]
    /\ LetGo(r, "done")
    /\ replied' = [replied EXCEPT ![key[r]] = @ \cup {r}]
    /\ UNCHANGED <<request, made, raced, failed, faults>>

Complete(r) ==
    /\ Turn(r, "complete")
    /\ record' = [record EXCEPT ![key[r]] = [status |-> "completed", resource |-> r]]
    /\ LetGo(r, "done")
    /\ replied' = [replied EXCEPT ![key[r]] = @ \cup {r}]
    /\ UNCHANGED <<request, made, raced, failed, faults>>

Fault == faults < MaxFaults /\ faults' = faults + 1

\* A store call raises: 500, and the record stays as it is.
Raise(r) ==
    /\ \E label \in InFlight : Turn(r, label)
    /\ Fault
    /\ LetGo(r, "done")
    /\ failed' = failed \cup {key[r]}
    /\ UNCHANGED <<record, request, made, replied, raced>>

\* The process dies with its requests and comes back.
Here(i) == {r \in Requests : at[r] = i /\ pc[r] \in InFlight}
Crash(i) ==
    /\ Here(i) # {}
    /\ Fault
    /\ pc' = [r \in Requests |-> IF r \in Here(i) THEN "done" ELSE pc[r]]
    /\ loop' = [loop EXCEPT ![i] = NoRequest]
    /\ failed' = failed \cup {key[r] : r \in Here(i)}
    /\ UNCHANGED <<record, request, made, replied, raced>>

\* get_idempotency ignores a record past expires_at.  No request lasts that long.
Expire(k) ==
    /\ record[k].status # "absent"
    /\ \A r \in Requests : key[r] = k => pc[r] \notin InFlight
    /\ record' = [record EXCEPT ![k] = Unused]
    /\ made' = [made EXCEPT ![k] = {}]
    /\ replied' = [replied EXCEPT ![k] = {}]
    /\ raced' = raced \ {k}
    /\ failed' = failed \ {k}
    /\ UNCHANGED <<pc, request, loop, faults>>

Next ==
    \/ \E r \in Requests :
        \/ Arrive(r) \/ GetUnused(r) \/ GetConflict(r) \/ GetCached(r) \/ Save(r)
        \/ Reject(r) \/ Act(r) \/ Complete(r) \/ Raise(r)
    \/ \E i \in Instances : Crash(i)
    \/ \E k \in Keys : Expire(k)

Spec == Init /\ [][Next]_vars

-----------------------------------------------------------------------------
(* Properties.                                                             *)

\* Requests with one key have one effect, across instances, threads, crashes
\* and faults, unless two of them overlapped between begin's read and write.
OneEffect == \A k \in Keys \ raced : \A r, s \in made[k] : r = s

\* Every success reply names the resource that was really created, also the
\* replayed ones, under the same condition.
ReplyNamesEffect == \A k \in Keys \ raced : \A r \in replied[k] : made[k] = {r}

\* A key refuses retries with nobody working on it only if one of its requests
\* was rejected, raised or died; then it does so until it expires.
StuckOnlyAfterFailure ==
    \A k \in Keys \ failed : record[k].status = "processing" =>
        \E r \in Requests : key[r] = k /\ pc[r] \in {"act", "complete"}

\* The event loop of a process keeps its async handlers apart: a key whose
\* requests all go to one process is raced for only with a threaded endpoint.
EventLoopSerialises ==
    \A k \in raced :
        (\A r, s \in Requests : key[r] = k /\ key[s] = k => at[r] = at[s])
        => \E r \in Requests : key[r] = k /\ ~Async(r)

\* What docs/security-overview.md says of the keys.
NoDuplicateEffects == \A k \in Keys : Cardinality(made[k]) <= 1

=============================================================================
