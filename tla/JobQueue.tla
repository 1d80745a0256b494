------------------------------ MODULE JobQueue ------------------------------
(***************************************************************************)
(* The background scan queue: app/services/job_queue.py, the job and scan  *)
(* documents it keeps in Firestore (app/services/store.py), the handlers   *)
(* of app/api/routes/scans.py that feed it, and the two scan engines as    *)
(* far as they read and write those documents.                             *)
(*                                                                         *)
(* Firestore outlives a process; the queue, the worker and the request     *)
(* handlers do not.  Every store call is one blocking, non-transactional   *)
(* RPC, so each is an action of its own: another instance, or a crash, can *)
(* fall between any two of them.  Within one instance the event loop       *)
(* interleaves handlers and worker only at awaits; the model lets them     *)
(* interleave at every store call, which adds orders but no outcome, since *)
(* a handler touches only the documents of a job no worker has seen yet.   *)
(***************************************************************************)
EXTENDS Naturals, Sequences, FiniteSets

CONSTANTS
    Jobs,             \* job ids, numbered in created_at order; job j owns scan document j
    AwsJobs,          \* the jobs of type aws_scan; the others are github_scan
    Instances,        \* backend processes that share the Firestore project
    RecoverLimit,     \* list_pending_jobs(limit=50)
    MaxFaults,        \* bound: store calls that raise
    MaxInterruptions, \* bound: crashes and worker cancellations
    NoJob, NoInstance \* the idle worker has no job; a job may have no handler

ASSUME JobsAssumption == Jobs \subseteq Nat /\ AwsJobs \subseteq Jobs
ASSUME BoundsAssumption ==
    RecoverLimit \in Nat /\ MaxFaults \in Nat /\ MaxInterruptions \in Nat

ASSUME NullsAssumption == NoJob \notin Jobs /\ NoInstance \notin Instances

Active == {"pending", "running"}
Terminal == {"completed", "failed"}
Status == {"absent"} \cup Active \cup Terminal

ScanEvents == {"scan.completed", "scan.failed"}

\* The await points at which a cancelled worker can be suspended.
Awaits == {"get", "scan", "sendCompleted", "sendViolations",
           "sendFailed", "sendFailedAlert"}
\* The body of the try in _process_job, and what lies outside it.
TryBody == {"begin", "scan", "link", "complete", "sendCompleted", "sendViolations"}
OutsideTry == {"load", "claim", "markFailed", "failJob", "sendFailed", "sendFailedAlert"}
Labels == {"get"} \cup TryBody \cup OutsideTry

VARIABLES
    jobDoc,         \* Firestore jobs/{job}.status
    scanDoc,        \* Firestore scans|aws_scans/{resource_id}.status
    handler,        \* the instance whose handler saved scan j and has yet to enqueue it
    life,           \* the life cycle of a process and its worker task
    listed,         \* the snapshot start() is recovering from
    queue,          \* JobQueue._queue
    pc, cur,        \* where the worker is, and its job
    threads,        \* AWS scans still in their thread after the worker was cancelled
    sent,           \* webhook events dispatched, per job
    runs,           \* history: times the worker claimed the job
    abandoned,      \* history: jobs an instance dropped, or did not list, unfinished
    faults, interruptions

store == <<jobDoc, scanDoc>>
worker == <<pc, cur>>
history == <<runs, abandoned, faults, interruptions>>
vars == <<jobDoc, scanDoc, handler, life, listed, queue, pc, cur, threads, sent,
          runs, abandoned, faults, interruptions>>

TypeOK ==
    /\ jobDoc \in [Jobs -> Status]
    /\ scanDoc \in [Jobs -> Status]
    /\ handler \in [Jobs -> Instances \cup {NoInstance}]
    /\ life \in [Instances -> {"down", "recovering", "up", "stopped"}]
    /\ listed \in [Instances -> [Jobs -> {"absent"} \cup Active]]
    /\ queue \in [Instances -> Seq(Jobs)]
    /\ pc \in [Instances -> Labels]
    /\ cur \in [Instances -> Jobs \cup {NoJob}]
    /\ threads \in [Instances -> SUBSET Jobs]
    /\ sent \in [Jobs -> [ScanEvents -> Nat]]
    /\ runs \in [Jobs -> Nat]
    /\ abandoned \in SUBSET Jobs
    /\ faults \in Nat
    /\ interruptions \in Nat

NothingListed == [j \in Jobs |-> "absent"]

Init ==
    /\ jobDoc = [j \in Jobs |-> "absent"]
    /\ scanDoc = [j \in Jobs |-> "absent"]
    /\ handler = [j \in Jobs |-> NoInstance]
    /\ life = [i \in Instances |-> "down"]
    /\ listed = [i \in Instances |-> NothingListed]
    /\ queue = [i \in Instances |-> <<>>]
    /\ pc = [i \in Instances |-> "get"]
    /\ cur = [i \in Instances |-> NoJob]
    /\ threads = [i \in Instances |-> {}]
    /\ sent = [j \in Jobs |-> [e \in ScanEvents |-> 0]]
    /\ runs = [j \in Jobs |-> 0]
    /\ abandoned = {}
    /\ faults = 0
    /\ interruptions = 0

Fault == faults < MaxFaults /\ faults' = faults + 1

-----------------------------------------------------------------------------
(* trigger_scan and trigger_aws_scan: save the pending scan, then enqueue. *)

\* Requests are served between startup and shutdown; ids are handed out in order.
SavePending(i, j) ==
    /\ life[i] = "up"
    /\ scanDoc[j] = "absent"
    /\ \A k \in Jobs : k < j => scanDoc[k] # "absent"
    /\ scanDoc' = [scanDoc EXCEPT ![j] = "pending"]
    /\ handler' = [handler EXCEPT ![j] = i]
    /\ UNCHANGED <<jobDoc, life, listed, queue, worker, threads, sent, history>>

TriggerScan(i, j) == j \notin AwsJobs /\ SavePending(i, j)
TriggerAwsScan(i, j) == j \in AwsJobs /\ SavePending(i, j)

\* enqueue: save_job, then put on the unbounded in-memory queue.
Enqueue(i, j) ==
    /\ life[i] = "up" /\ handler[j] = i
    /\ jobDoc' = [jobDoc EXCEPT ![j] = "pending"]
    /\ queue' = [queue EXCEPT ![i] = Append(@, j)]
    /\ handler' = [handler EXCEPT ![j] = NoInstance]
    /\ UNCHANGED <<scanDoc, life, listed, worker, threads, sent, history>>

\* save_job raises: the request answers 500 and leaves a scan no job will run.
EnqueueRaises(i, j) ==
    /\ life[i] = "up" /\ handler[j] = i
    /\ Fault
    /\ handler' = [handler EXCEPT ![j] = NoInstance]
    /\ UNCHANGED <<store, life, listed, queue, worker, threads, sent, runs, abandoned,
                   interruptions>>

-----------------------------------------------------------------------------
(* start: _recover_pending_jobs, then the worker task. *)

\* Mutants: the status filter of the query forgets "running", or is left out.
OnlyPendingJobs == {j \in Jobs : jobDoc[j] = "pending"}
AnyJobs == {j \in Jobs : jobDoc[j] # "absent"}

ActiveJobs == {j \in Jobs : jobDoc[j] \in Active}

\* The query cuts at the limit before the result is sorted: any RecoverLimit jobs.
Recoverable(S) ==
    /\ S \subseteq ActiveJobs
    /\ \/ S = ActiveJobs /\ Cardinality(S) <= RecoverLimit
       \/ Cardinality(S) = RecoverLimit

Start(i) ==
    /\ life[i] \in {"down", "stopped"}
    /\ \E S \in SUBSET Jobs :
        /\ Recoverable(S)
        /\ listed' = [listed EXCEPT
                ![i] = [j \in Jobs |-> IF j \in S THEN jobDoc[j] ELSE "absent"]]
        /\ abandoned' = (abandoned \cup ActiveJobs) \ S
    /\ life' = [life EXCEPT ![i] = "recovering"]
    /\ UNCHANGED <<store, handler, queue, worker, threads, sent, runs, faults,
                   interruptions>>

\* Mutant: the put is indented into the "if": only running jobs are queued again.
RecoverOnlyRunning(i, j) ==
    /\ life[i] = "recovering"
    /\ listed[i][j] # "absent"
    /\ \A k \in Jobs : k < j => listed[i][k] = "absent"
    /\ IF listed[i][j] = "running"
       THEN /\ jobDoc' = [jobDoc EXCEPT ![j] = "pending"]
            /\ queue' = [queue EXCEPT ![i] = Append(@, j)]
       ELSE UNCHANGED <<jobDoc, queue>>
    /\ listed' = [listed EXCEPT ![i][j] = "absent"]
    /\ UNCHANGED <<scanDoc, handler, life, worker, threads, sent, history>>

\* One turn of the recovery loop, in created_at order.  It writes from the
\* snapshot, whatever the document says by now.
Recover(i, j) ==
    /\ life[i] = "recovering"
    /\ listed[i][j] # "absent"
    /\ \A k \in Jobs : k < j => listed[i][k] = "absent"
    /\ jobDoc' = IF listed[i][j] = "running"
                 THEN [jobDoc EXCEPT ![j] = "pending"] ELSE jobDoc
    /\ queue' = [queue EXCEPT ![i] = Append(@, j)]
    /\ listed' = [listed EXCEPT ![i][j] = "absent"]
    /\ UNCHANGED <<scanDoc, handler, life, worker, threads, sent, history>>

StartWorker(i) ==
    /\ life[i] = "recovering"
    /\ listed[i] = NothingListed
    /\ life' = [life EXCEPT ![i] = "up"]
    /\ UNCHANGED <<store, handler, listed, queue, worker, threads, sent, history>>

-----------------------------------------------------------------------------
(* _worker_loop and _process_job: one job at a time. *)

At(i, label) == life[i] = "up" /\ pc[i] = label
Goto(i, label) == pc' = [pc EXCEPT ![i] = label] /\ UNCHANGED cur
EndJob(i) ==
    /\ pc' = [pc EXCEPT ![i] = "get"]
    /\ cur' = [cur EXCEPT ![i] = NoJob]

Take(i) ==
    /\ At(i, "get")
    /\ queue[i] # <<>>
    /\ queue' = [queue EXCEPT ![i] = Tail(@)]
    /\ cur' = [cur EXCEPT ![i] = Head(queue[i])]
    /\ pc' = [pc EXCEPT ![i] = "load"]
    /\ UNCHANGED <<store, handler, life, listed, threads, sent, history>>

\* Mutant: no test of the status before the job is run.
LoadUnchecked(i) ==
    /\ At(i, "load")
    /\ Goto(i, "claim")
    /\ UNCHANGED <<store, handler, life, listed, queue, threads, sent, history>>

\* get_job: a job that is already finished, or has no document, is skipped.
Load(i) ==
    /\ At(i, "load")
    /\ IF jobDoc[cur[i]] \in Active THEN Goto(i, "claim") ELSE EndJob(i)
    /\ UNCHANGED <<store, handler, life, listed, queue, threads, sent, history>>

Claim(i) ==
    /\ At(i, "claim")
    /\ jobDoc' = [jobDoc EXCEPT ![cur[i]] = "running"]
    /\ runs' = [runs EXCEPT ![cur[i]] = @ + 1]
    /\ Goto(i, "begin")
    /\ UNCHANGED <<scanDoc, handler, life, listed, queue, threads, sent, abandoned,
                   faults, interruptions>>

\* update_scan / update_aws_scan return silently when there is no document.
SetScan(j, status) ==
    scanDoc' = IF scanDoc[j] = "absent" THEN scanDoc ELSE [scanDoc EXCEPT ![j] = status]

BeginScan(i) ==
    /\ At(i, "begin")
    /\ SetScan(cur[i], "running")
    /\ Goto(i, "scan")
    /\ UNCHANGED <<jobDoc, handler, life, listed, queue, threads, sent, history>>

\* run_scan up to the save of its completed record: .set, so it replaces
\* whatever an earlier run of the job left in the document.
FinishScan(i) ==
    /\ At(i, "scan") /\ cur[i] \notin AwsJobs
    /\ scanDoc' = [scanDoc EXCEPT ![cur[i]] = "completed"]
    /\ Goto(i, "link")
    /\ UNCHANGED <<jobDoc, handler, life, listed, queue, threads, sent, history>>

FinishAwsScan(i) ==
    /\ At(i, "scan") /\ cur[i] \in AwsJobs
    /\ scanDoc' = [scanDoc EXCEPT ![cur[i]] = "completed"]
    /\ Goto(i, "complete")
    /\ UNCHANGED <<jobDoc, handler, life, listed, queue, threads, sent, history>>

\* run_scan then updates the AI systems the scan concerns.
LinkSystems(i) ==
    /\ At(i, "link")
    /\ Goto(i, "complete")
    /\ UNCHANGED <<store, handler, life, listed, queue, threads, sent, history>>

\* No connection, no repositories, a provider error, or (after the save) an AI
\* system deleted while it was being linked: no store fault is needed.
ScanRaises(i) ==
    /\ At(i, "scan") \/ At(i, "link")
    /\ Goto(i, "markFailed")
    /\ UNCHANGED <<store, handler, life, listed, queue, threads, sent, history>>

CompleteJob(i) ==
    /\ At(i, "complete")
    /\ jobDoc' = [jobDoc EXCEPT ![cur[i]] = "completed"]
    /\ Goto(i, "sendCompleted")
    /\ UNCHANGED <<scanDoc, handler, life, listed, queue, threads, sent, history>>

\* Mutant: a delivery that fails after the first endpoints raises.
SendCompletedRaises(i) ==
    /\ At(i, "sendCompleted")
    /\ sent' = [sent EXCEPT ![cur[i]]["scan.completed"] = @ + 1]
    /\ Goto(i, "markFailed") \/ EndJob(i)
    /\ UNCHANGED <<store, handler, life, listed, queue, threads, history>>

\* _notify_scan_success: Slack errors are swallowed; dispatch_webhook_event
\* swallows delivery errors but not those of list_webhooks_for_event.  The
\* alert follows only when the scan found violations.
SendCompleted(i) ==
    /\ At(i, "sendCompleted")
    /\ sent' = [sent EXCEPT ![cur[i]]["scan.completed"] = @ + 1]
    /\ Goto(i, "sendViolations") \/ EndJob(i)
    /\ UNCHANGED <<store, handler, life, listed, queue, threads, history>>

SendViolations(i) ==
    /\ At(i, "sendViolations")
    /\ EndJob(i)
    /\ UNCHANGED <<store, handler, life, listed, queue, threads, sent, history>>

\* Mutant: the except branch forgets the scan document.
MarkNothing(i) ==
    /\ At(i, "markFailed")
    /\ Goto(i, "failJob")
    /\ UNCHANGED <<store, handler, life, listed, queue, threads, sent, history>>

\* The except branch.
MarkScanFailed(i) ==
    /\ At(i, "markFailed")
    /\ SetScan(cur[i], "failed")
    /\ Goto(i, "failJob")
    /\ UNCHANGED <<jobDoc, handler, life, listed, queue, threads, sent, history>>

\* Mutant: a failed job is put back for another try.
FailJobRequeues(i) ==
    /\ At(i, "failJob")
    /\ queue' = [queue EXCEPT ![i] = Append(@, cur[i])]
    /\ Goto(i, "sendFailed")
    /\ UNCHANGED <<store, handler, life, listed, threads, sent, history>>

FailJob(i) ==
    /\ At(i, "failJob")
    /\ jobDoc' = [jobDoc EXCEPT ![cur[i]] = "failed"]
    /\ Goto(i, "sendFailed")
    /\ UNCHANGED <<scanDoc, handler, life, listed, queue, threads, sent, history>>

SendFailed(i) ==
    /\ At(i, "sendFailed")
    /\ sent' = [sent EXCEPT ![cur[i]]["scan.failed"] = @ + 1]
    /\ Goto(i, "sendFailedAlert")
    /\ UNCHANGED <<store, handler, life, listed, queue, threads, history>>

SendFailedAlert(i) ==
    /\ At(i, "sendFailedAlert")
    /\ EndJob(i)
    /\ UNCHANGED <<store, handler, life, listed, queue, threads, sent, history>>

\* A store call inside the try raises (ScanRaises covers those of the engines).
RaiseInTry(i) ==
    /\ life[i] = "up" /\ pc[i] \in TryBody \ {"scan", "link"}
    /\ Fault
    /\ Goto(i, "markFailed")
    /\ UNCHANGED <<store, handler, life, listed, queue, threads, sent, runs, abandoned,
                   interruptions>>

\* One outside it raises: _worker_loop logs and takes the next job; nothing
\* puts this one back.
RaiseOutsideTry(i) ==
    /\ life[i] = "up" /\ pc[i] \in OutsideTry
    /\ Fault
    /\ EndJob(i)
    /\ abandoned' = abandoned \cup {cur[i]}
    /\ UNCHANGED <<store, handler, life, listed, queue, threads, sent, runs,
                   interruptions>>

WorkerStep(i) ==
    \/ Take(i) \/ Load(i) \/ Claim(i) \/ BeginScan(i) \/ FinishScan(i) \/ FinishAwsScan(i)
    \/ LinkSystems(i) \/ ScanRaises(i) \/ CompleteJob(i) \/ SendCompleted(i) \/ SendViolations(i)
    \/ MarkScanFailed(i) \/ FailJob(i) \/ SendFailed(i) \/ SendFailedAlert(i)
    \/ RaiseInTry(i) \/ RaiseOutsideTry(i)

-----------------------------------------------------------------------------
(* stop, process death, and the thread a cancelled AWS scan leaves behind. *)

Interrupt == interruptions < MaxInterruptions /\ interruptions' = interruptions + 1

\* CancelledError is no Exception: no handler of _process_job sees it.  The
\* in-memory queue survives a stop, and asyncio.to_thread cannot be cancelled.
\* The server has finished its requests by then.
Stop(i) ==
    /\ life[i] = "up" /\ pc[i] \in Awaits
    /\ \A j \in Jobs : handler[j] # i
    /\ Interrupt
    /\ life' = [life EXCEPT ![i] = "stopped"]
    /\ threads' = IF pc[i] = "scan" /\ cur[i] \in AwsJobs
                  THEN [threads EXCEPT ![i] = @ \cup {cur[i]}] ELSE threads
    /\ EndJob(i)
    /\ UNCHANGED <<store, handler, listed, queue, sent, runs, abandoned, faults>>

\* Also a start() that raises: the process does not come up.
Crash(i) ==
    /\ life[i] # "down"
    /\ Interrupt
    /\ life' = [life EXCEPT ![i] = "down"]
    /\ listed' = [listed EXCEPT ![i] = NothingListed]
    /\ queue' = [queue EXCEPT ![i] = <<>>]
    /\ threads' = [threads EXCEPT ![i] = {}]
    /\ handler' = [j \in Jobs |-> IF handler[j] = i THEN NoInstance ELSE handler[j]]
    /\ EndJob(i)
    /\ UNCHANGED <<store, sent, runs, abandoned, faults>>

\* The detached run_aws_scan saves its record, or raises.
ThreadEnds(i, j) ==
    /\ j \in threads[i]
    /\ \/ scanDoc' = [scanDoc EXCEPT ![j] = "completed"]
       \/ UNCHANGED scanDoc
    /\ threads' = [threads EXCEPT ![i] = @ \ {j}]
    /\ UNCHANGED <<jobDoc, handler, life, listed, queue, worker, sent, history>>

Next ==
    \E i \in Instances :
        \/ \E j \in Jobs : \/ TriggerScan(i, j) \/ TriggerAwsScan(i, j)
                           \/ Enqueue(i, j) \/ EnqueueRaises(i, j)
                           \/ Recover(i, j) \/ ThreadEnds(i, j)
        \/ Start(i) \/ StartWorker(i)
        \/ WorkerStep(i)
        \/ Stop(i) \/ Crash(i)

Spec == Init /\ [][Next]_vars

\* The platform restarts a process that went down, a started coroutine keeps
\* being scheduled, every call returns or raises (HTTP clients have timeouts).
Fairness ==
    \A i \in Instances :
        /\ WF_vars(Start(i)) /\ WF_vars(StartWorker(i)) /\ WF_vars(WorkerStep(i))
        /\ \A j \in Jobs : WF_vars(Recover(i, j)) /\ WF_vars(Enqueue(i, j))

FairSpec == Spec /\ Fairness

-----------------------------------------------------------------------------
(* Properties.  "Single" ones need one instance: see the README for what two *)
(* instances break.                                                        *)

\* SINGLE.  A client polls the scan until it is completed or failed, so a job
\* must not finish and leave its scan pending or running; and a failed job
\* must not leave a GitHub scan that reads as completed.  (The thread of a
\* cancelled AWS scan can still overwrite the failure.)
JobScanAgreement ==
    \A j \in Jobs :
        /\ jobDoc[j] \in Terminal => scanDoc[j] \in Terminal
        /\ jobDoc[j] = "failed" /\ j \notin AwsJobs => scanDoc[j] = "failed"

\* SINGLE.  While the worker is up, an unfinished job is in the queue or in the
\* worker's hands, unless this process dropped it in a store fault or did not
\* list it at startup: a restart loses nothing else.
InQueue(q, j) == \E n \in 1..Len(q) : q[n] = j
Held(i, j) ==
    \/ cur[i] = j
    \/ InQueue(queue[i], j)
    \/ listed[i][j] # "absent"
NoLostJob ==
    \A j \in Jobs \ abandoned : jobDoc[j] \in Active =>
        \E i \in Instances : Held(i, j) \/ life[i] \in {"down", "stopped"}

\* SINGLE.  Without a store fault a job announces one verdict, once: never
\* scan.completed and scan.failed, never a repetition after a restart.
OneVerdict ==
    faults = 0 =>
        \A j \in Jobs : sent[j]["scan.completed"] + sent[j]["scan.failed"] <= 1

\* SINGLE.  Each rerun of a job is paid for by a fault or an interruption.
RerunBound == \A j \in Jobs : runs[j] <= 1 + faults + interruptions

\* Every verdict belongs to a claim of its own; only a fault adds a second one.
VerdictsPerRun ==
    \A j \in Jobs :
        sent[j]["scan.completed"] + sent[j]["scan.failed"] <= runs[j] + faults

\* An accepted job finishes, unless it was dropped or not listed; a later
\* startup that lists it makes the promise again.
EveryJobFinishes ==
    \A j \in Jobs :
        jobDoc[j] \in Active ~> jobDoc[j] \in Terminal \/ j \in abandoned

\* TWO INSTANCES, undisturbed (a rolling deployment: one starts up while the
\* other works): a job that reads as finished has its scan settled, or another
\* instance is running it again and will settle it.
RollingAgreement ==
    faults = 0 /\ interruptions = 0 =>
        \A j \in Jobs : jobDoc[j] \in Terminal =>
            scanDoc[j] \in Terminal \/ \E i \in Instances : cur[i] = j

-----------------------------------------------------------------------------
(* Refinement: until a store call raises, one instance keeps the promised   *)
(* life cycle through any crash, stop and recovery.                         *)

Announced ==
    [j \in Jobs |-> {v \in Terminal :
        sent[j][IF v = "completed" THEN "scan.completed" ELSE "scan.failed"] > 0}]

Lifecycle == INSTANCE JobLifecycle WITH status <- jobDoc, announced <- Announced

\* SINGLE.  The queue implements the abstract life cycle up to the first fault.
ImplementsLifecycle ==
    /\ Lifecycle!Init
    /\ [][faults' = 0 => Lifecycle!Next]_(Lifecycle!vars)

\* What docs/architecture.md says of the last state of a job.
TerminalIsFinal ==
    [][\A j \in Jobs : jobDoc[j] \in Terminal => jobDoc'[j] = jobDoc[j]]_jobDoc

=============================================================================
