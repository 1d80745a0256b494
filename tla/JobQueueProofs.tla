--------------------------- MODULE JobQueueProofs ---------------------------
(***************************************************************************)
(* Theorems about JobQueue, for any set of jobs, any bounds, any number of *)
(* interruptions.  Those that need it assume a single instance.            *)
(***************************************************************************)
EXTENDS JobQueue, FiniteSetTheorems, TLAPS

Single == \A i, k \in Instances : i = k

\* The worker has a job exactly while it is working, and works only while up.
WorkerInv ==
    \A i \in Instances :
        /\ cur[i] = NoJob <=> pc[i] = "get"
        /\ pc[i] # "get" => life[i] = "up"

TInv == TypeOK /\ WorkerInv

\* A handler saves the scan before the job; a job document has a scan document.
DocInv ==
    \A j \in Jobs :
        /\ jobDoc[j] # "absent" => scanDoc[j] # "absent"
        /\ handler[j] # NoInstance => jobDoc[j] = "absent" /\ scanDoc[j] # "absent"

\* With one instance nothing moves a job while start() recovers it.
ListedInv ==
    \A i \in Instances, j \in Jobs :
        listed[i][j] # "absent" => life[i] = "recovering" /\ jobDoc[j] = listed[i][j]

ThreadsInv == \A i \in Instances : threads[i] \subseteq AwsJobs

\* The documents of the job in the worker's hands, label by label.
DocsAt(label, j) ==
    /\ label = "claim" => jobDoc[j] \in Active
    /\ label \in {"begin", "scan", "link", "complete"} => jobDoc[j] = "running"
    /\ label \in {"link", "complete"} => scanDoc[j] = "completed"
    /\ label \in {"sendCompleted", "sendViolations"} => jobDoc[j] = "completed"
    /\ label \in {"markFailed", "failJob"} => jobDoc[j] \in {"running", "completed"}
    /\ label = "failJob" =>
          scanDoc[j] \in Terminal /\ (j \notin AwsJobs => scanDoc[j] = "failed")
    /\ label \in {"sendFailed", "sendFailedAlert"} => jobDoc[j] = "failed"

PcInv == \A i \in Instances : pc[i] # "get" => DocsAt(pc[i], cur[i])

DInv == DocInv /\ ListedInv /\ ThreadsInv /\ PcInv /\ JobScanAgreement

\* Before its verdict is out a job has announced nothing.
Told(j) == sent[j]["scan.completed"] + sent[j]["scan.failed"]
VerdictInv ==
    faults = 0 => \A j \in Jobs :
        /\ Told(j) <= 1
        /\ jobDoc[j] \notin Terminal => Told(j) = 0
        /\ \A i \in Instances : cur[i] = j =>
              /\ pc[i] \in {"sendCompleted", "sendFailed"} => Told(j) = 0
              /\ pc[i] \in {"markFailed", "failJob"} => jobDoc[j] = "running"

\* A job that can be claimed once more has a claim to spare.
Spent(j) == \E i \in Instances : cur[i] = j /\ pc[i] \notin {"load", "claim"}
RunInv ==
    \A j \in Jobs :
        /\ runs[j] <= 1 + faults + interruptions
        /\ jobDoc[j] \notin Terminal /\ ~Spent(j) => runs[j] <= faults + interruptions

IInv == TInv /\ DInv /\ VerdictInv /\ RunInv /\ NoLostJob

\* Any number of instances: a job that a document, a handler or a worker knows of has
\* a scan document.
KnownInv ==
    \A j \in Jobs :
        \/ jobDoc[j] # "absent" \/ handler[j] # NoInstance
        \/ \E i \in Instances : Held(i, j)
        => scanDoc[j] # "absent"

\* Labels of a worker whose job's scan has begun and has no verdict, and of one that
\* has yet to announce what it claimed.
Unsettled == {"scan", "markFailed"}
Begun == {"scan", "link", "complete", "markFailed", "failJob"}
Untold == Begun \cup {"begin", "sendCompleted", "sendFailed"}

\* Any number of undisturbed instances: a finished job's scan has begun, the scan of a
\* job that a worker is past beginning too, and a scan that reads as running is being
\* run or failed.
Settling(j) == \E i \in Instances : cur[i] = j /\ pc[i] \in Unsettled
Rolled ==
    /\ \A j \in Jobs :
          /\ jobDoc[j] \in Terminal => scanDoc[j] \notin {"absent", "pending"}
          /\ scanDoc[j] = "running" => Settling(j)
    /\ \A i \in Instances : pc[i] \in Begun => scanDoc[cur[i]] \notin {"absent", "pending"}
RollingInv == faults = 0 /\ interruptions = 0 => Rolled

\* Any number of instances: what is still to be announced of a job is claimed.
Tellers(j) == {i \in Instances : cur[i] = j /\ pc[i] \in Untold}
ClaimsInv ==
    \A j \in Jobs :
        IsFiniteSet(Tellers(j)) /\ Told(j) + Cardinality(Tellers(j)) <= runs[j] + faults

-----------------------------------------------------------------------------
(* Type correctness, for any number of instances. *)

\* The initial state is well typed.
LEMMA TInit == Init => TInv
  BY JobsAssumption, NullsAssumption
     DEF Init, TInv, TypeOK, WorkerInv, NothingListed, Status, Active, ScanEvents, Labels

\* A worker past its get holds a job.
LEMMA WorkingJob == TInv => \A i \in Instances : pc[i] # "get" => cur[i] \in Jobs
  BY DEF TInv, TypeOK, WorkerInv

WorkerTypes ==
    /\ pc \in [Instances -> Labels]
    /\ cur \in [Instances -> Jobs \cup {NoJob}]
    /\ WorkerInv

\* A working worker that goes to another label keeps its types.
LEMMA GotoTypes ==
  ASSUME WorkerTypes, NEW i \in Instances, pc[i] # "get",
         NEW label \in Labels, label # "get", Goto(i, label), UNCHANGED life
  PROVE  WorkerTypes'
  BY DEF WorkerTypes, WorkerInv, Goto

\* So does one that puts its job down.
LEMMA EndJobTypes ==
  ASSUME WorkerTypes, NEW i \in Instances, EndJob(i), UNCHANGED life
  PROVE  WorkerTypes'
<1>1. /\ pc' \in [Instances -> Labels] /\ cur' \in [Instances -> Jobs \cup {NoJob}]
      /\ pc'[i] = "get" /\ cur'[i] = NoJob
  BY DEF WorkerTypes, EndJob, Labels
<1>2. \A k \in Instances : k # i => pc'[k] = pc[k] /\ cur'[k] = cur[k]
  BY DEF WorkerTypes, EndJob
<1>3. QED
  BY <1>1, <1>2 DEF WorkerTypes, WorkerInv

\* Every step of a handler, a worker or a restart keeps the types and what the
\* worker knows of its own progress.
LEMMA TStep == TInv /\ [Next]_vars => TInv'
<1> SUFFICES ASSUME TInv, [Next]_vars PROVE TInv'
  OBVIOUS
<1> USE JobsAssumption, NullsAssumption
    DEF TInv, TypeOK, WorkerInv, store, worker, history
<1>1. ASSUME NEW i \in Instances, NEW j \in Jobs, TriggerScan(i, j) PROVE TInv'
  BY <1>1 DEF TriggerScan, SavePending, Status, Active
<1>2. ASSUME NEW i \in Instances, NEW j \in Jobs, TriggerAwsScan(i, j) PROVE TInv'
  BY <1>2 DEF TriggerAwsScan, SavePending, Status, Active
<1>3. ASSUME NEW i \in Instances, NEW j \in Jobs, Enqueue(i, j) PROVE TInv'
  BY <1>3 DEF Enqueue, Status, Active
<1>4. ASSUME NEW i \in Instances, NEW j \in Jobs, EnqueueRaises(i, j) PROVE TInv'
  BY <1>4 DEF EnqueueRaises, Fault
<1>5. ASSUME NEW i \in Instances, NEW j \in Jobs, Recover(i, j) PROVE TInv'
  BY <1>5 DEF Recover, Status, Active
<1>6. ASSUME NEW i \in Instances, NEW j \in Jobs, ThreadEnds(i, j) PROVE TInv'
  BY <1>6 DEF ThreadEnds, Status, Terminal
<1>7. ASSUME NEW i \in Instances, Start(i) PROVE TInv'
  <2>1. PICK S \in SUBSET Jobs : Recoverable(S)
            /\ listed' = [listed EXCEPT
                   ![i] = [j \in Jobs |-> IF j \in S THEN jobDoc[j] ELSE "absent"]]
            /\ abandoned' = (abandoned \cup ActiveJobs) \ S
    BY <1>7 DEF Start
  <2>2. [j \in Jobs |-> IF j \in S THEN jobDoc[j] ELSE "absent"]
            \in [Jobs -> {"absent"} \cup Active]
    BY <2>1 DEF Recoverable, ActiveJobs
  <2>3. abandoned' \in SUBSET Jobs /\ listed' \in [Instances -> [Jobs -> {"absent"} \cup Active]]
    BY <2>1, <2>2 DEF ActiveJobs
  <2>4. QED
    BY <1>7, <2>3 DEF Start
<1>8. ASSUME NEW i \in Instances, StartWorker(i) PROVE TInv'
  BY <1>8 DEF StartWorker
<1>9. ASSUME NEW i \in Instances, Take(i) PROVE TInv'
  BY <1>9 DEF Take, At, Labels, OutsideTry
<1>10. ASSUME NEW i \in Instances, Load(i) PROVE TInv'
  <2>1. pc[i] # "get" /\ (Goto(i, "claim") \/ EndJob(i)) /\ UNCHANGED life
    BY <1>10 DEF Load, At
  <2>2. WorkerTypes /\ "claim" \in Labels
    BY DEF WorkerTypes, Labels, OutsideTry
  <2>3. WorkerTypes'
    BY ONLY <1>10, <2>1, <2>2, GotoTypes, EndJobTypes
  <2>4. QED
    BY <1>10, <2>3 DEF Load, WorkerTypes
<1>11. ASSUME NEW i \in Instances, Claim(i) PROVE TInv'
  <2>1. runs' \in [Jobs -> Nat] /\ jobDoc' \in [Jobs -> Status]
    <3>1. cur[i] \in Jobs
      BY <1>11, WorkingJob DEF Claim, At
    <3>2. runs[cur[i]] \in Nat
      BY <3>1
    <3>3. runs' \in [Jobs -> Nat]
      BY <1>11, <3>1, <3>2 DEF Claim
    <3>4. jobDoc' \in [Jobs -> Status]
      BY <1>11, <3>1 DEF Claim, Status, Active
    <3>5. QED
      BY <3>3, <3>4
  <2>2. QED
    BY <1>11, <2>1 DEF Claim, At, Goto, Labels, TryBody
<1>12. ASSUME NEW i \in Instances, BeginScan(i) PROVE TInv'
  BY <1>12 DEF BeginScan, At, Goto, SetScan, Labels, TryBody, Status, Active
<1>13. ASSUME NEW i \in Instances, FinishScan(i) PROVE TInv'
  BY <1>13 DEF FinishScan, At, Goto, Labels, TryBody, Status, Terminal
<1>14. ASSUME NEW i \in Instances, FinishAwsScan(i) PROVE TInv'
  BY <1>14 DEF FinishAwsScan, At, Goto, Labels, TryBody, Status, Terminal
<1>15. ASSUME NEW i \in Instances, LinkSystems(i) PROVE TInv'
  BY <1>15 DEF LinkSystems, At, Goto, Labels, TryBody
<1>16. ASSUME NEW i \in Instances, ScanRaises(i) PROVE TInv'
  BY <1>16 DEF ScanRaises, At, Goto, Labels, OutsideTry
<1>17. ASSUME NEW i \in Instances, CompleteJob(i) PROVE TInv'
  BY <1>17 DEF CompleteJob, At, Goto, Labels, TryBody, Status, Terminal
<1>18. ASSUME NEW i \in Instances, SendCompleted(i) PROVE TInv'
  <2>1. sent' \in [Jobs -> [ScanEvents -> Nat]]
    <3>1. cur[i] \in Jobs /\ sent[cur[i]] \in [ScanEvents -> Nat]
      BY <1>18, WorkingJob DEF SendCompleted, At
    <3>2. [sent[cur[i]] EXCEPT !["scan.completed"] = @ + 1] \in [ScanEvents -> Nat]
      BY <3>1 DEF ScanEvents
    <3>3. QED
      BY <1>18, <3>1, <3>2 DEF SendCompleted
  <2>2. /\ pc[i] # "get" /\ (Goto(i, "sendViolations") \/ EndJob(i)) /\ UNCHANGED life
        /\ UNCHANGED <<jobDoc, scanDoc, handler, listed, queue, threads, runs, abandoned,
                       faults, interruptions>>
    BY <1>18 DEF SendCompleted, At
  <2>3. WorkerTypes /\ "sendViolations" \in Labels
    BY DEF WorkerTypes, Labels, TryBody
  <2>4. WorkerTypes'
    BY ONLY <1>18, <2>2, <2>3, GotoTypes, EndJobTypes
  <2>5. QED
    BY <2>1, <2>2, <2>4 DEF WorkerTypes
<1>19. ASSUME NEW i \in Instances, SendViolations(i) PROVE TInv'
  BY <1>19 DEF SendViolations, At, EndJob, Labels
<1>20. ASSUME NEW i \in Instances, MarkScanFailed(i) PROVE TInv'
  BY <1>20 DEF MarkScanFailed, At, Goto, SetScan, Labels, OutsideTry, Status, Terminal
<1>21. ASSUME NEW i \in Instances, FailJob(i) PROVE TInv'
  BY <1>21 DEF FailJob, At, Goto, Labels, OutsideTry, Status, Terminal
<1>22. ASSUME NEW i \in Instances, SendFailed(i) PROVE TInv'
  <2>1. sent' \in [Jobs -> [ScanEvents -> Nat]]
    <3>1. cur[i] \in Jobs /\ sent[cur[i]] \in [ScanEvents -> Nat]
      BY <1>22, WorkingJob DEF SendFailed, At
    <3>2. [sent[cur[i]] EXCEPT !["scan.failed"] = @ + 1] \in [ScanEvents -> Nat]
      BY <3>1 DEF ScanEvents
    <3>3. QED
      BY <1>22, <3>1, <3>2 DEF SendFailed
  <2>2. QED
    BY <1>22, <2>1 DEF SendFailed, At, Goto, Labels, OutsideTry
<1>23. ASSUME NEW i \in Instances, SendFailedAlert(i) PROVE TInv'
  BY <1>23 DEF SendFailedAlert, At, EndJob, Labels
<1>24. ASSUME NEW i \in Instances, RaiseInTry(i) PROVE TInv'
  BY <1>24 DEF RaiseInTry, Fault, Goto, Labels, TryBody, OutsideTry
<1>25. ASSUME NEW i \in Instances, RaiseOutsideTry(i) PROVE TInv'
  <2>1. cur[i] \in Jobs
    BY <1>25, WorkingJob DEF RaiseOutsideTry, OutsideTry
  <2>2. abandoned' \in SUBSET Jobs
    BY <1>25, <2>1 DEF RaiseOutsideTry
  <2>3. QED
    BY <1>25, <2>2 DEF RaiseOutsideTry, Fault, EndJob, Labels, OutsideTry
<1>26. ASSUME NEW i \in Instances, Stop(i) PROVE TInv'
  BY <1>26 DEF Stop, Interrupt, EndJob, Labels, Awaits
<1>27. ASSUME NEW i \in Instances, Crash(i) PROVE TInv'
  BY <1>27 DEF Crash, Interrupt, EndJob, Labels, NothingListed
<1>28. CASE UNCHANGED vars
  BY <1>28 DEF vars
<1>29. QED
  BY <1>1, <1>2, <1>3, <1>4, <1>5, <1>6, <1>7, <1>8, <1>9, <1>10, <1>11, <1>12, <1>13, <1>14, <1>15, <1>16, <1>17, <1>18, <1>19, <1>20, <1>21, <1>22, <1>23, <1>24, <1>25, <1>26, <1>27, <1>28 DEF Next, WorkerStep

\* Every variable keeps its type: no interleaving of handlers, workers, crashes
\* and recoveries writes a document that is not a job, a scan or an event.
THEOREM TypeCorrect == Spec => []TypeOK
<1>1. TInv => TypeOK
  BY DEF TInv
<1>2. QED
  BY TInit, TStep, <1>1, PTL DEF Spec

-----------------------------------------------------------------------------
(* What the documents say of the job in hand, for a single instance. *)

\* DInv holds initially.
LEMMA DInit == Init => DInv
  BY DEF Init, DInv, DocInv, ListedInv, ThreadsInv, PcInv, JobScanAgreement, NothingListed,
         Terminal

\* On one instance every step keeps what the documents say of the job in hand.
LEMMA DStep ==
  ASSUME Single, TInv, DInv, [Next]_vars
  PROVE  DInv'
<1> USE JobsAssumption, NullsAssumption
    DEF Single, TInv, TypeOK, WorkerInv, DInv, DocInv, ListedInv, ThreadsInv, PcInv, DocsAt,
        JobScanAgreement, Active, Terminal, store, worker, history
<1>1. ASSUME NEW i \in Instances, NEW j \in Jobs, TriggerScan(i, j) PROVE DInv'
  BY <1>1 DEF TriggerScan, SavePending
<1>2. ASSUME NEW i \in Instances, NEW j \in Jobs, TriggerAwsScan(i, j) PROVE DInv'
  BY <1>2 DEF TriggerAwsScan, SavePending
<1>3. ASSUME NEW i \in Instances, NEW j \in Jobs, Enqueue(i, j) PROVE DInv'
  BY <1>3 DEF Enqueue
<1>4. ASSUME NEW i \in Instances, NEW j \in Jobs, EnqueueRaises(i, j) PROVE DInv'
  BY <1>4 DEF EnqueueRaises, Fault
<1>5. ASSUME NEW i \in Instances, NEW j \in Jobs, Recover(i, j) PROVE DInv'
  BY <1>5 DEF Recover
<1>6. ASSUME NEW i \in Instances, NEW j \in Jobs, ThreadEnds(i, j) PROVE DInv'
  <2>1. j \in AwsJobs /\ UNCHANGED <<jobDoc, handler, life, listed, queue, worker>>
    BY <1>6 DEF ThreadEnds
  <2>2. ThreadsInv'
    BY <1>6 DEF ThreadEnds
  <2>3. CASE scanDoc' = [scanDoc EXCEPT ![j] = "completed"]
    BY <2>1, <2>2, <2>3
  <2>4. CASE UNCHANGED scanDoc
    BY <2>1, <2>2, <2>4
  <2>5. QED
    BY <1>6, <2>3, <2>4 DEF ThreadEnds
<1>7. ASSUME NEW i \in Instances, Start(i) PROVE DInv'
  BY <1>7 DEF Start
<1>8. ASSUME NEW i \in Instances, StartWorker(i) PROVE DInv'
  BY <1>8 DEF StartWorker, NothingListed
<1>9. ASSUME NEW i \in Instances, Take(i) PROVE DInv'
  BY <1>9 DEF Take, At
<1>10. ASSUME NEW i \in Instances, Load(i) PROVE DInv'
  BY <1>10 DEF Load, At, Goto, EndJob
<1>11. ASSUME NEW i \in Instances, Claim(i) PROVE DInv'
  <2>1. /\ cur[i] \in Jobs /\ life[i] = "up" /\ jobDoc[cur[i]] \in Active
        /\ jobDoc' = [jobDoc EXCEPT ![cur[i]] = "running"]
        /\ UNCHANGED <<scanDoc, handler, life, listed, threads>>
    BY <1>11 DEF Claim, At
  <2>2. DocInv' /\ ListedInv' /\ ThreadsInv' /\ JobScanAgreement'
    BY <2>1
  <2>3. PcInv'
    BY <1>11, <2>1 DEF Claim, At, Goto
  <2>4. QED
    BY <2>2, <2>3
<1>12. ASSUME NEW i \in Instances, BeginScan(i) PROVE DInv'
  BY <1>12 DEF BeginScan, At, Goto, SetScan
<1>13. ASSUME NEW i \in Instances, FinishScan(i) PROVE DInv'
  BY <1>13 DEF FinishScan, At, Goto
<1>14. ASSUME NEW i \in Instances, FinishAwsScan(i) PROVE DInv'
  BY <1>14 DEF FinishAwsScan, At, Goto
<1>15. ASSUME NEW i \in Instances, LinkSystems(i) PROVE DInv'
  BY <1>15 DEF LinkSystems, At, Goto
<1>16. ASSUME NEW i \in Instances, ScanRaises(i) PROVE DInv'
  BY <1>16 DEF ScanRaises, At, Goto
<1>17. ASSUME NEW i \in Instances, CompleteJob(i) PROVE DInv'
  BY <1>17 DEF CompleteJob, At, Goto
<1>18. ASSUME NEW i \in Instances, SendCompleted(i) PROVE DInv'
  BY <1>18 DEF SendCompleted, At, Goto, EndJob
<1>19. ASSUME NEW i \in Instances, SendViolations(i) PROVE DInv'
  BY <1>19 DEF SendViolations, At, EndJob
<1>20. ASSUME NEW i \in Instances, MarkScanFailed(i) PROVE DInv'
  <2>1. cur[i] \in Jobs /\ pc[i] = "markFailed" /\ jobDoc[cur[i]] \in {"running", "completed"}
    BY <1>20 DEF MarkScanFailed, At
  <2>2. scanDoc' = [scanDoc EXCEPT ![cur[i]] = "failed"]
    BY <1>20, <2>1 DEF MarkScanFailed, SetScan
  <2>3. DocInv' /\ ListedInv' /\ ThreadsInv' /\ JobScanAgreement'
    BY <1>20, <2>1, <2>2 DEF MarkScanFailed
  <2>4. PcInv'
    BY <1>20, <2>1, <2>2 DEF MarkScanFailed, Goto
  <2>5. QED
    BY <2>3, <2>4
<1>21. ASSUME NEW i \in Instances, FailJob(i) PROVE DInv'
  BY <1>21 DEF FailJob, At, Goto
<1>22. ASSUME NEW i \in Instances, SendFailed(i) PROVE DInv'
  BY <1>22 DEF SendFailed, At, Goto
<1>23. ASSUME NEW i \in Instances, SendFailedAlert(i) PROVE DInv'
  BY <1>23 DEF SendFailedAlert, At, EndJob
<1>24. ASSUME NEW i \in Instances, RaiseInTry(i) PROVE DInv'
  BY <1>24 DEF RaiseInTry, Fault, Goto, TryBody
<1>25. ASSUME NEW i \in Instances, RaiseOutsideTry(i) PROVE DInv'
  BY <1>25 DEF RaiseOutsideTry, Fault, EndJob, OutsideTry
<1>26. ASSUME NEW i \in Instances, Stop(i) PROVE DInv'
  BY <1>26 DEF Stop, Interrupt, EndJob, Awaits
<1>27. ASSUME NEW i \in Instances, Crash(i) PROVE DInv'
  BY <1>27 DEF Crash, Interrupt, EndJob, NothingListed
<1>28. CASE UNCHANGED vars
  BY <1>28 DEF vars
<1>29. QED
  BY <1>1, <1>2, <1>3, <1>4, <1>5, <1>6, <1>7, <1>8, <1>9, <1>10, <1>11, <1>12, <1>13, <1>14, <1>15, <1>16, <1>17, <1>18, <1>19, <1>20, <1>21, <1>22, <1>23, <1>24, <1>25, <1>26, <1>27, <1>28 DEF Next, WorkerStep

-----------------------------------------------------------------------------
(* One verdict. *)

\* VerdictInv holds initially.
LEMMA VInit == Init => VerdictInv
  BY DEF Init, VerdictInv, Told, ScanEvents

\* When a single worker puts its job down nobody holds one.
LEMMA IdleAfter ==
  ASSUME Single, TInv, NEW i \in Instances, EndJob(i)
  PROVE  \A k \in Instances, j \in Jobs : cur'[k] # j
  BY NullsAssumption DEF Single, TInv, TypeOK, EndJob

\* An idle worker owes nothing beyond what the documents say.
LEMMA IdleVerdict ==
  ASSUME VerdictInv, UNCHANGED <<jobDoc, sent, faults>>,
         \A k \in Instances, j \in Jobs : cur'[k] # j
  PROVE  VerdictInv'
  BY DEF VerdictInv, Told

\* Marking the scan failed announces nothing, and the job is still running.
LEMMA MarkVerdict ==
  ASSUME Single, VerdictInv, pc \in [Instances -> Labels],
         NEW i \in Instances, pc[i] = "markFailed", pc' = [pc EXCEPT ![i] = "failJob"],
         UNCHANGED <<cur, jobDoc, sent, faults>>
  PROVE  VerdictInv'
  BY DEF Single, VerdictInv, Told

\* A job that is about to fail without a store fault is running, so untold.
LEMMA FailingJob ==
  ASSUME VerdictInv, NEW i \in Instances, cur[i] \in Jobs, pc[i] = "failJob", faults = 0
  PROVE  Told(cur[i]) = 0
<1>1. jobDoc[cur[i]] = "running"
  BY DEF VerdictInv
<1>2. QED
  BY <1>1 DEF VerdictInv, Terminal

\* On one instance every step keeps what was announced of each job.
LEMMA VStep ==
  ASSUME Single, TInv, TInv', DInv, VerdictInv, [Next]_vars
  PROVE  VerdictInv'
<1> USE JobsAssumption, NullsAssumption
    DEF Single, TInv, TypeOK, WorkerInv, DInv, ListedInv, PcInv, DocsAt, VerdictInv, Told,
        DocInv, Active, Terminal, ScanEvents, store, worker, history
<1>1. ASSUME NEW i \in Instances, NEW j \in Jobs, TriggerScan(i, j) PROVE VerdictInv'
  BY <1>1 DEF TriggerScan, SavePending
<1>2. ASSUME NEW i \in Instances, NEW j \in Jobs, TriggerAwsScan(i, j) PROVE VerdictInv'
  BY <1>2 DEF TriggerAwsScan, SavePending
<1>3. ASSUME NEW i \in Instances, NEW j \in Jobs, Enqueue(i, j) PROVE VerdictInv'
  BY <1>3 DEF Enqueue
<1>4. ASSUME NEW i \in Instances, NEW j \in Jobs, EnqueueRaises(i, j) PROVE VerdictInv'
  BY <1>4 DEF EnqueueRaises, Fault
<1>5. ASSUME NEW i \in Instances, NEW j \in Jobs, Recover(i, j) PROVE VerdictInv'
  BY <1>5 DEF Recover
<1>6. ASSUME NEW i \in Instances, NEW j \in Jobs, ThreadEnds(i, j) PROVE VerdictInv'
  BY <1>6 DEF ThreadEnds
<1>7. ASSUME NEW i \in Instances, Start(i) PROVE VerdictInv'
  BY <1>7 DEF Start
<1>8. ASSUME NEW i \in Instances, StartWorker(i) PROVE VerdictInv'
  BY <1>8 DEF StartWorker, NothingListed
<1>9. ASSUME NEW i \in Instances, Take(i) PROVE VerdictInv'
  BY <1>9 DEF Take, At
<1>10. ASSUME NEW i \in Instances, Load(i) PROVE VerdictInv'
  BY <1>10 DEF Load, At, Goto, EndJob
<1>11. ASSUME NEW i \in Instances, Claim(i) PROVE VerdictInv'
  BY <1>11 DEF Claim, At, Goto
<1>12. ASSUME NEW i \in Instances, BeginScan(i) PROVE VerdictInv'
  BY <1>12 DEF BeginScan, At, Goto, SetScan
<1>13. ASSUME NEW i \in Instances, FinishScan(i) PROVE VerdictInv'
  BY <1>13 DEF FinishScan, At, Goto
<1>14. ASSUME NEW i \in Instances, FinishAwsScan(i) PROVE VerdictInv'
  BY <1>14 DEF FinishAwsScan, At, Goto
<1>15. ASSUME NEW i \in Instances, LinkSystems(i) PROVE VerdictInv'
  BY <1>15 DEF LinkSystems, At, Goto
<1>16. ASSUME NEW i \in Instances, ScanRaises(i) PROVE VerdictInv'
  BY <1>16 DEF ScanRaises, At, Goto
<1>17. ASSUME NEW i \in Instances, CompleteJob(i) PROVE VerdictInv'
  BY <1>17 DEF CompleteJob, At, Goto
<1>18. ASSUME NEW i \in Instances, SendCompleted(i) PROVE VerdictInv'
  BY <1>18 DEF SendCompleted, At, Goto, EndJob
<1>19. ASSUME NEW i \in Instances, SendViolations(i) PROVE VerdictInv'
  <2>1. EndJob(i) /\ UNCHANGED <<jobDoc, sent, faults>>
    BY ONLY <1>19 DEF SendViolations, store, history
  <2>2. QED
    BY ONLY Single, TInv, VerdictInv, <2>1, IdleAfter, IdleVerdict
<1>20. ASSUME NEW i \in Instances, MarkScanFailed(i) PROVE VerdictInv'
  <2>1. /\ pc[i] = "markFailed" /\ pc' = [pc EXCEPT ![i] = "failJob"]
        /\ UNCHANGED <<cur, jobDoc, sent, faults>>
    BY ONLY <1>20 DEF MarkScanFailed, At, Goto, history
  <2>2. QED
    BY ONLY Single, TInv, VerdictInv, <1>20, <2>1, MarkVerdict DEF TInv, TypeOK
<1>21. ASSUME NEW i \in Instances, FailJob(i) PROVE VerdictInv'
  <2>1. /\ pc[i] = "failJob" /\ cur[i] \in Jobs
        /\ pc' = [pc EXCEPT ![i] = "sendFailed"]
        /\ jobDoc' = [jobDoc EXCEPT ![cur[i]] = "failed"]
        /\ UNCHANGED <<cur, sent, faults>>
    BY <1>21 DEF FailJob, At, Goto
  <2>2. \A j \in Jobs : Told(j)' = Told(j)
    BY <2>1
  <2> HIDE DEF Told
  <2>3. faults = 0 => Told(cur[i]) = 0
    BY ONLY VerdictInv, <1>21, <2>1, FailingJob
  <2>4. QED
    BY <2>1, <2>2, <2>3
<1>22. ASSUME NEW i \in Instances, SendFailed(i) PROVE VerdictInv'
  BY <1>22 DEF SendFailed, At, Goto
<1>23. ASSUME NEW i \in Instances, SendFailedAlert(i) PROVE VerdictInv'
  <2>1. EndJob(i) /\ UNCHANGED <<jobDoc, sent, faults>>
    BY ONLY <1>23 DEF SendFailedAlert, store, history
  <2>2. QED
    BY ONLY Single, TInv, VerdictInv, <2>1, IdleAfter, IdleVerdict
<1>24. ASSUME NEW i \in Instances, RaiseInTry(i) PROVE VerdictInv'
  BY <1>24 DEF RaiseInTry, Fault, Goto, TryBody
<1>25. ASSUME NEW i \in Instances, RaiseOutsideTry(i) PROVE VerdictInv'
  BY <1>25 DEF RaiseOutsideTry, Fault, EndJob, OutsideTry
<1>26. ASSUME NEW i \in Instances, Stop(i) PROVE VerdictInv'
  BY <1>26 DEF Stop, Interrupt, EndJob, Awaits
<1>27. ASSUME NEW i \in Instances, Crash(i) PROVE VerdictInv'
  BY <1>27 DEF Crash, Interrupt, EndJob, NothingListed
<1>28. CASE UNCHANGED vars
  BY <1>28 DEF vars
<1> HIDE DEF TInv, DInv, VerdictInv, Active, Terminal, ScanEvents
<1>29. QED
  BY <1>1, <1>2, <1>3, <1>4, <1>5, <1>6, <1>7, <1>8, <1>9, <1>10, <1>11, <1>12, <1>13, <1>14, <1>15, <1>16, <1>17, <1>18, <1>19, <1>20, <1>21, <1>22, <1>23, <1>24, <1>25, <1>26, <1>27, <1>28 DEF Next, WorkerStep

-----------------------------------------------------------------------------
(* Reruns. *)

\* RunInv holds initially.
LEMMA RInit == Init => RunInv
  BY DEF Init, RunInv, Spent

\* On one instance every run of a scan is paid for by a disturbance.
LEMMA RStep ==
  ASSUME Single, TInv, TInv', DInv, RunInv, [Next]_vars
  PROVE  RunInv'
<1> USE JobsAssumption, NullsAssumption
    DEF Single, TInv, TypeOK, WorkerInv, DInv, ListedInv, PcInv, DocsAt, RunInv, Spent,
        DocInv, Active, Terminal, store, worker, history
<1>1. ASSUME NEW i \in Instances, NEW j \in Jobs, TriggerScan(i, j) PROVE RunInv'
  BY <1>1 DEF TriggerScan, SavePending
<1>2. ASSUME NEW i \in Instances, NEW j \in Jobs, TriggerAwsScan(i, j) PROVE RunInv'
  BY <1>2 DEF TriggerAwsScan, SavePending
<1>3. ASSUME NEW i \in Instances, NEW j \in Jobs, Enqueue(i, j) PROVE RunInv'
  <2>1. jobDoc[j] = "absent"
    BY <1>3 DEF Enqueue
  <2>2. \A k \in Jobs : jobDoc'[k] \notin Terminal => jobDoc[k] \notin Terminal
    BY <1>3, <2>1 DEF Enqueue
  <2>3. QED
    BY <1>3, <2>2 DEF Enqueue
<1>4. ASSUME NEW i \in Instances, NEW j \in Jobs, EnqueueRaises(i, j) PROVE RunInv'
  BY <1>4 DEF EnqueueRaises, Fault
<1>5. ASSUME NEW i \in Instances, NEW j \in Jobs, Recover(i, j) PROVE RunInv'
  BY <1>5 DEF Recover
<1>6. ASSUME NEW i \in Instances, NEW j \in Jobs, ThreadEnds(i, j) PROVE RunInv'
  BY <1>6 DEF ThreadEnds
<1>7. ASSUME NEW i \in Instances, Start(i) PROVE RunInv'
  BY <1>7 DEF Start
<1>8. ASSUME NEW i \in Instances, StartWorker(i) PROVE RunInv'
  BY <1>8 DEF StartWorker, NothingListed
<1>9. ASSUME NEW i \in Instances, Take(i) PROVE RunInv'
  BY <1>9 DEF Take, At
<1>10. ASSUME NEW i \in Instances, Load(i) PROVE RunInv'
  BY <1>10 DEF Load, At, Goto, EndJob
<1>11. ASSUME NEW i \in Instances, Claim(i) PROVE RunInv'
  <2>1. cur[i] \in Jobs /\ pc[i] = "claim" /\ jobDoc[cur[i]] \in Active
    BY <1>11 DEF Claim, At
  <2>2. PICK c \in Jobs : c = cur[i]
    BY <2>1
  <2>3. ~Spent(c)
    BY <2>1, <2>2
  <2>4. jobDoc[c] \notin Terminal /\ ~Spent(c)
    BY <2>1, <2>2, <2>3
  <2>5. runs[c] <= faults + interruptions
    BY <2>4
  <2>6. runs' = [runs EXCEPT ![c] = @ + 1] /\ jobDoc' = [jobDoc EXCEPT ![c] = "running"]
    BY <1>11, <2>2 DEF Claim
  <2>7. Spent(c)'
    BY <1>11, <2>2, <2>4 DEF Claim, At, Goto
  <2>8. \A j \in Jobs : j # c => (Spent(j)' <=> Spent(j))
    BY <1>11, <2>2 DEF Claim, At, Goto
  <2>9. UNCHANGED <<faults, interruptions>> /\ runs[c] \in Nat /\ faults \in Nat /\ interruptions \in Nat
    BY <1>11, <2>4 DEF Claim
  <2> HIDE DEF Spent
  <2>10. ASSUME NEW j \in Jobs, j # c
        PROVE  /\ runs'[j] <= 1 + faults' + interruptions'
               /\ jobDoc'[j] \notin Terminal /\ ~Spent(j)' => runs'[j] <= faults' + interruptions'
    BY <2>6, <2>8, <2>9, <2>10
  <2>11. runs'[c] <= 1 + faults' + interruptions'
    BY <2>4, <2>5, <2>6, <2>9
  <2>12. ASSUME NEW j \in Jobs, j = c
        PROVE  /\ runs'[j] <= 1 + faults' + interruptions'
               /\ jobDoc'[j] \notin Terminal /\ ~Spent(j)' => runs'[j] <= faults' + interruptions'
    BY <2>7, <2>11, <2>12
  <2>13. QED
    BY <2>10, <2>12
<1>12. ASSUME NEW i \in Instances, BeginScan(i) PROVE RunInv'
  BY <1>12 DEF BeginScan, At, Goto, SetScan
<1>13. ASSUME NEW i \in Instances, FinishScan(i) PROVE RunInv'
  BY <1>13 DEF FinishScan, At, Goto
<1>14. ASSUME NEW i \in Instances, FinishAwsScan(i) PROVE RunInv'
  BY <1>14 DEF FinishAwsScan, At, Goto
<1>15. ASSUME NEW i \in Instances, LinkSystems(i) PROVE RunInv'
  BY <1>15 DEF LinkSystems, At, Goto
<1>16. ASSUME NEW i \in Instances, ScanRaises(i) PROVE RunInv'
  BY <1>16 DEF ScanRaises, At, Goto
<1>17. ASSUME NEW i \in Instances, CompleteJob(i) PROVE RunInv'
  BY <1>17 DEF CompleteJob, At, Goto
<1>18. ASSUME NEW i \in Instances, SendCompleted(i) PROVE RunInv'
  BY <1>18 DEF SendCompleted, At, Goto, EndJob
<1>19. ASSUME NEW i \in Instances, SendViolations(i) PROVE RunInv'
  BY <1>19 DEF SendViolations, At, EndJob
<1>20. ASSUME NEW i \in Instances, MarkScanFailed(i) PROVE RunInv'
  BY <1>20 DEF MarkScanFailed, At, Goto, SetScan
<1>21. ASSUME NEW i \in Instances, FailJob(i) PROVE RunInv'
  BY <1>21 DEF FailJob, At, Goto
<1>22. ASSUME NEW i \in Instances, SendFailed(i) PROVE RunInv'
  BY <1>22 DEF SendFailed, At, Goto
<1>23. ASSUME NEW i \in Instances, SendFailedAlert(i) PROVE RunInv'
  <2>1. cur[i] \in Jobs /\ jobDoc[cur[i]] \in Terminal
    BY <1>23 DEF SendFailedAlert, At
  <2>2. \A j \in Jobs : jobDoc[j] \notin Terminal => ~Spent(j)
    BY <2>1
  <2>3. QED
    BY <1>23, <2>2 DEF SendFailedAlert
<1>24. ASSUME NEW i \in Instances, RaiseInTry(i) PROVE RunInv'
  BY <1>24 DEF RaiseInTry, Fault, Goto, TryBody
<1>25. ASSUME NEW i \in Instances, RaiseOutsideTry(i) PROVE RunInv'
  BY <1>25 DEF RaiseOutsideTry, Fault, EndJob, OutsideTry
<1>26. ASSUME NEW i \in Instances, Stop(i) PROVE RunInv'
  BY <1>26 DEF Stop, Interrupt, EndJob, Awaits
<1>27. ASSUME NEW i \in Instances, Crash(i) PROVE RunInv'
  BY <1>27 DEF Crash, Interrupt, EndJob, NothingListed
<1>28. CASE UNCHANGED vars
  BY <1>28 DEF vars
<1> HIDE DEF TInv, DInv, RunInv, Active, Terminal
<1>29. QED
  BY <1>1, <1>2, <1>3, <1>4, <1>5, <1>6, <1>7, <1>8, <1>9, <1>10, <1>11, <1>12, <1>13, <1>14, <1>15, <1>16, <1>17, <1>18, <1>19, <1>20, <1>21, <1>22, <1>23, <1>24, <1>25, <1>26, <1>27, <1>28 DEF Next, WorkerStep

-----------------------------------------------------------------------------
(* No job is lost. *)

\* Appending to the queue keeps its jobs and adds one.
LEMMA AppendKeeps ==
  ASSUME NEW S, NEW q \in Seq(S), NEW e \in S
  PROVE  /\ InQueue(Append(q, e), e)
         /\ \A x : InQueue(q, x) => InQueue(Append(q, e), x)
  BY DEF InQueue

\* Taking the head of the queue loses no other job.
LEMMA TailKeeps ==
  ASSUME NEW S, NEW q \in Seq(S), q # <<>>
  PROVE  \A x : InQueue(q, x) => x = Head(q) \/ InQueue(Tail(q), x)
<1> SUFFICES ASSUME NEW x, NEW n \in 1..Len(q), q[n] = x, x # Head(q)
             PROVE  InQueue(Tail(q), x)
  BY DEF InQueue
<1>1. n - 1 \in 1..Len(Tail(q)) /\ Tail(q)[n - 1] = q[n]
  OBVIOUS
<1>2. QED
  BY <1>1 DEF InQueue

\* NoLostJob holds initially.
LEMMA NInit == Init => NoLostJob
  BY DEF Init, NoLostJob, Active

\* On one instance no step loses an active job.
LEMMA NStep ==
  ASSUME Single, TInv, TInv', DInv, NoLostJob, [Next]_vars
  PROVE  NoLostJob'
<1> USE JobsAssumption, NullsAssumption
    DEF Single, TInv, TypeOK, WorkerInv, DInv, ListedInv, PcInv, DocsAt, NoLostJob, Held,
        Active, Terminal, store, worker, history
<1>1. ASSUME NEW i \in Instances, NEW j \in Jobs, TriggerScan(i, j) PROVE NoLostJob'
  BY <1>1 DEF TriggerScan, SavePending
<1>2. ASSUME NEW i \in Instances, NEW j \in Jobs, TriggerAwsScan(i, j) PROVE NoLostJob'
  BY <1>2 DEF TriggerAwsScan, SavePending
<1>3. ASSUME NEW i \in Instances, NEW j \in Jobs, Enqueue(i, j) PROVE NoLostJob'
  BY <1>3, AppendKeeps DEF Enqueue
<1>4. ASSUME NEW i \in Instances, NEW j \in Jobs, EnqueueRaises(i, j) PROVE NoLostJob'
  BY <1>4 DEF EnqueueRaises, Fault
<1>5. ASSUME NEW i \in Instances, NEW j \in Jobs, Recover(i, j) PROVE NoLostJob'
  BY <1>5, AppendKeeps DEF Recover
<1>6. ASSUME NEW i \in Instances, NEW j \in Jobs, ThreadEnds(i, j) PROVE NoLostJob'
  BY <1>6 DEF ThreadEnds
<1>7. ASSUME NEW i \in Instances, Start(i) PROVE NoLostJob'
  <2>1. PICK S \in SUBSET Jobs :
            /\ listed' = [listed EXCEPT
                   ![i] = [j \in Jobs |-> IF j \in S THEN jobDoc[j] ELSE "absent"]]
            /\ abandoned' = (abandoned \cup ActiveJobs) \ S
    BY <1>7 DEF Start
  <2>2. \A j \in Jobs \ abandoned' : jobDoc[j] \in Active => listed'[i][j] = jobDoc[j]
    BY <2>1 DEF ActiveJobs
  <2>3. QED
    BY <1>7, <2>2 DEF Start
<1>8. ASSUME NEW i \in Instances, StartWorker(i) PROVE NoLostJob'
  <2>1. /\ \A k \in Jobs : listed[i][k] = "absent"
        /\ life[i] = "recovering"
        /\ UNCHANGED <<cur, queue, listed, jobDoc, abandoned>>
    BY <1>8 DEF StartWorker, NothingListed
  <2>2. QED
    BY <2>1
<1>9. ASSUME NEW i \in Instances, Take(i) PROVE NoLostJob'
  <2>1. /\ queue[i] \in Seq(Jobs) /\ queue[i] # <<>>
        /\ cur'[i] = Head(queue[i]) /\ queue'[i] = Tail(queue[i])
        /\ cur[i] = NoJob /\ life'[i] = life[i] /\ listed' = listed /\ jobDoc' = jobDoc
        /\ abandoned' = abandoned
    BY <1>9 DEF Take, At
  <2>2. \A k \in Jobs : Held(i, k) => cur'[i] = k \/ InQueue(queue'[i], k) \/ listed'[i][k] # "absent"
    BY <2>1, TailKeeps
  <2>3. \A k \in Jobs \ abandoned : jobDoc[k] \in Active =>
            Held(i, k) \/ life[i] \in {"down", "stopped"}
    OBVIOUS
  <2> HIDE DEF TInv, DInv
  <2>4. QED
    BY <2>1, <2>2, <2>3
<1>10. ASSUME NEW i \in Instances, Load(i) PROVE NoLostJob'
  BY <1>10 DEF Load, At, Goto, EndJob
<1>11. ASSUME NEW i \in Instances, Claim(i) PROVE NoLostJob'
  BY <1>11 DEF Claim, At, Goto
<1>12. ASSUME NEW i \in Instances, BeginScan(i) PROVE NoLostJob'
  BY <1>12 DEF BeginScan, At, Goto, SetScan
<1>13. ASSUME NEW i \in Instances, FinishScan(i) PROVE NoLostJob'
  BY <1>13 DEF FinishScan, At, Goto
<1>14. ASSUME NEW i \in Instances, FinishAwsScan(i) PROVE NoLostJob'
  BY <1>14 DEF FinishAwsScan, At, Goto
<1>15. ASSUME NEW i \in Instances, LinkSystems(i) PROVE NoLostJob'
  BY <1>15 DEF LinkSystems, At, Goto
<1>16. ASSUME NEW i \in Instances, ScanRaises(i) PROVE NoLostJob'
  BY <1>16 DEF ScanRaises, At, Goto
<1>17. ASSUME NEW i \in Instances, CompleteJob(i) PROVE NoLostJob'
  BY <1>17 DEF CompleteJob, At, Goto
<1>18. ASSUME NEW i \in Instances, SendCompleted(i) PROVE NoLostJob'
  BY <1>18 DEF SendCompleted, At, Goto, EndJob
<1>19. ASSUME NEW i \in Instances, SendViolations(i) PROVE NoLostJob'
  <2>1. jobDoc[cur[i]] \notin Active
    BY <1>19 DEF SendViolations, At
  <2>2. QED
    BY <1>19, <2>1 DEF SendViolations, EndJob
<1>20. ASSUME NEW i \in Instances, MarkScanFailed(i) PROVE NoLostJob'
  BY <1>20 DEF MarkScanFailed, At, Goto, SetScan
<1>21. ASSUME NEW i \in Instances, FailJob(i) PROVE NoLostJob'
  BY <1>21 DEF FailJob, At, Goto
<1>22. ASSUME NEW i \in Instances, SendFailed(i) PROVE NoLostJob'
  <2> HIDE DEF TInv, DInv
  <2>1. QED
    BY <1>22 DEF SendFailed, Goto
<1>23. ASSUME NEW i \in Instances, SendFailedAlert(i) PROVE NoLostJob'
  BY <1>23 DEF SendFailedAlert, At, EndJob
<1>24. ASSUME NEW i \in Instances, RaiseInTry(i) PROVE NoLostJob'
  BY <1>24 DEF RaiseInTry, Fault, Goto, TryBody
<1>25. ASSUME NEW i \in Instances, RaiseOutsideTry(i) PROVE NoLostJob'
  BY <1>25 DEF RaiseOutsideTry, Fault, EndJob, OutsideTry
<1>26. ASSUME NEW i \in Instances, Stop(i) PROVE NoLostJob'
  BY <1>26 DEF Stop, Interrupt, EndJob, Awaits
<1>27. ASSUME NEW i \in Instances, Crash(i) PROVE NoLostJob'
  BY <1>27 DEF Crash, Interrupt, EndJob, NothingListed
<1>28. CASE UNCHANGED vars
  BY <1>28 DEF vars
<1> HIDE DEF TInv, DInv, NoLostJob, Active, Terminal
<1>29. QED
  BY <1>1, <1>2, <1>3, <1>4, <1>5, <1>6, <1>7, <1>8, <1>9, <1>10, <1>11, <1>12, <1>13, <1>14, <1>15, <1>16, <1>17, <1>18, <1>19, <1>20, <1>21, <1>22, <1>23, <1>24, <1>25, <1>26, <1>27, <1>28 DEF Next, WorkerStep

-----------------------------------------------------------------------------
(* Several instances: what is known of a job has a scan document. *)

\* What a queue holds after an append, and what it held before its head was taken.
LEMMA QueueHeld ==
  ASSUME NEW S, NEW q \in Seq(S)
  PROVE  /\ \A e \in S : \A x : InQueue(Append(q, e), x) => x = e \/ InQueue(q, x)
         /\ q # <<>> => InQueue(q, Head(q)) /\ \A x : InQueue(Tail(q), x) => InQueue(q, x)
<1>1. ASSUME NEW e \in S, NEW x, InQueue(Append(q, e), x) PROVE x = e \/ InQueue(q, x)
  BY <1>1 DEF InQueue
<1>2. ASSUME q # <<>> PROVE InQueue(q, Head(q))
  <2>1. 1 \in 1..Len(q) /\ q[1] = Head(q)
    BY <1>2
  <2> QED  BY <2>1 DEF InQueue
<1>3. ASSUME q # <<>>, NEW x, InQueue(Tail(q), x) PROVE InQueue(q, x)
  <2>1. PICK n \in 1..Len(Tail(q)) : Tail(q)[n] = x
    BY <1>3 DEF InQueue
  <2>2. n + 1 \in 1..Len(q) /\ q[n + 1] = x
    BY <1>3, <2>1
  <2> QED  BY <2>2 DEF InQueue
<1> QED  BY <1>1, <1>2, <1>3

\* A worker's step puts no job in its hands that it did not hold, and keeps the documents.
LEMMA KnownStep ==
  ASSUME TInv, KnownInv, [Next]_vars
  PROVE  KnownInv'
<1> USE JobsAssumption, NullsAssumption DEF TInv, TypeOK, store, worker, history
<1> SUFFICES ASSUME NEW x \in Jobs,
                    \/ jobDoc'[x] # "absent" \/ handler'[x] # NoInstance
                         \/ \E k \in Instances : Held(k, x)',
                         scanDoc'[x] = "absent"
                  PROVE  FALSE
  BY DEF KnownInv
<1>doc. scanDoc[x] = "absent" =>
          /\ jobDoc[x] = "absent" /\ handler[x] = NoInstance
          /\ \A k \in Instances : cur[k] # x /\ ~InQueue(queue[k], x) /\ listed[k][x] = "absent"
  BY DEF KnownInv, Held
<1>1. ASSUME NEW i \in Instances, NEW j \in Jobs, TriggerScan(i, j) \/ TriggerAwsScan(i, j) PROVE FALSE
  BY <1>1, <1>doc DEF TriggerScan, TriggerAwsScan, SavePending, Held
<1>2. ASSUME NEW i \in Instances, NEW j \in Jobs, Enqueue(i, j) PROVE FALSE
  <2>1. scanDoc[j] # "absent" /\ scanDoc' = scanDoc
    BY <1>2 DEF Enqueue, KnownInv
  <2>2. \A k \in Instances : InQueue(queue'[k], x) => x = j \/ InQueue(queue[k], x)
    BY <1>2, QueueHeld DEF Enqueue
  <2> QED
    BY <1>2, <1>doc, <2>1, <2>2 DEF Enqueue, Held
<1>3. ASSUME NEW i \in Instances, NEW j \in Jobs, EnqueueRaises(i, j) \/ ThreadEnds(i, j) PROVE FALSE
  BY <1>3, <1>doc DEF EnqueueRaises, ThreadEnds, Held
<1>4. ASSUME NEW i \in Instances, NEW j \in Jobs, Recover(i, j) PROVE FALSE
  <2>1. scanDoc[j] # "absent" /\ scanDoc' = scanDoc
    BY <1>4 DEF Recover, KnownInv, Held
  <2>2. \A k \in Instances : InQueue(queue'[k], x) => x = j \/ InQueue(queue[k], x)
    BY <1>4, QueueHeld DEF Recover
  <2> QED
    BY <1>4, <1>doc, <2>1, <2>2 DEF Recover, Held
<1>5. ASSUME NEW i \in Instances, Start(i) PROVE FALSE
  BY <1>5, <1>doc DEF Start, Held
<1>6. ASSUME NEW i \in Instances, Take(i) PROVE FALSE
  <2>1. /\ InQueue(queue[i], Head(queue[i]))
        /\ \A k \in Instances : InQueue(queue'[k], x) => InQueue(queue[k], x)
    BY <1>6, QueueHeld DEF Take
  <2> QED
    BY <1>6, <1>doc, <2>1 DEF Take, Held
<1>7. ASSUME NEW i \in Instances, StartWorker(i) \/ Stop(i) PROVE FALSE
  BY <1>7, <1>doc DEF StartWorker, Stop, EndJob, Held
<1>8. ASSUME NEW i \in Instances, Crash(i) PROVE FALSE
  <2>1. \A k \in Instances : InQueue(queue'[k], x) => InQueue(queue[k], x)
    BY <1>8 DEF Crash, InQueue
  <2> QED
    BY <1>8, <1>doc, <2>1 DEF Crash, EndJob, NothingListed, Held
<1>9. ASSUME NEW i \in Instances, Load(i) \/ LinkSystems(i) \/ ScanRaises(i) \/ SendCompleted(i) \/ SendViolations(i) PROVE FALSE
  <2>1. UNCHANGED <<handler, listed, queue>> /\ (cur' = cur \/ cur' = [cur EXCEPT ![i] = NoJob])
    BY <1>9 DEF Load, LinkSystems, ScanRaises, SendCompleted, SendViolations, Goto, EndJob
  <2>2. \A j \in Jobs : /\ scanDoc'[j] = "absent" => scanDoc[j] = "absent"
                        /\ jobDoc'[j] # jobDoc[j] => cur[i] = j
    BY <1>9 DEF Load, LinkSystems, ScanRaises, SendCompleted, SendViolations, SetScan
  <2> QED
    BY <1>doc, <2>1, <2>2 DEF Held
<1>10. ASSUME NEW i \in Instances, Claim(i) \/ CompleteJob(i) \/ FailJob(i) PROVE FALSE
  <2>1. UNCHANGED <<handler, listed, queue>> /\ (cur' = cur \/ cur' = [cur EXCEPT ![i] = NoJob])
    BY <1>10 DEF Claim, CompleteJob, FailJob, Goto, EndJob
  <2>2. \A j \in Jobs : /\ scanDoc'[j] = "absent" => scanDoc[j] = "absent"
                        /\ jobDoc'[j] # jobDoc[j] => cur[i] = j
    BY <1>10 DEF Claim, CompleteJob, FailJob, SetScan
  <2> QED
    BY <1>doc, <2>1, <2>2 DEF Held
<1>11. ASSUME NEW i \in Instances, BeginScan(i) \/ FinishScan(i) \/ FinishAwsScan(i) \/ MarkScanFailed(i) PROVE FALSE
  <2>1. UNCHANGED <<handler, listed, queue>> /\ (cur' = cur \/ cur' = [cur EXCEPT ![i] = NoJob])
    BY <1>11 DEF BeginScan, FinishScan, FinishAwsScan, MarkScanFailed, Goto, EndJob
  <2>2. \A j \in Jobs : /\ scanDoc'[j] = "absent" => scanDoc[j] = "absent"
                        /\ jobDoc'[j] # jobDoc[j] => cur[i] = j
    BY <1>11 DEF BeginScan, FinishScan, FinishAwsScan, MarkScanFailed, SetScan
  <2> QED
    BY <1>doc, <2>1, <2>2 DEF Held
<1>12. ASSUME NEW i \in Instances, SendFailed(i) \/ SendFailedAlert(i) \/ RaiseInTry(i) \/ RaiseOutsideTry(i) PROVE FALSE
  <2>1. UNCHANGED <<handler, listed, queue>> /\ (cur' = cur \/ cur' = [cur EXCEPT ![i] = NoJob])
    BY <1>12 DEF SendFailed, SendFailedAlert, RaiseInTry, RaiseOutsideTry, Goto, EndJob
  <2>2. \A j \in Jobs : /\ scanDoc'[j] = "absent" => scanDoc[j] = "absent"
                        /\ jobDoc'[j] # jobDoc[j] => cur[i] = j
    BY <1>12 DEF SendFailed, SendFailedAlert, RaiseInTry, RaiseOutsideTry, SetScan
  <2> QED
    BY <1>doc, <2>1, <2>2 DEF Held
<1>13. CASE UNCHANGED vars
  BY <1>13, <1>doc DEF vars, Held
<1> HIDE DEF TInv, TypeOK
<1> QED
  BY <1>1, <1>2, <1>3, <1>4, <1>5, <1>6, <1>7, <1>8, <1>9, <1>10, <1>11, <1>12, <1>13 DEF Next, WorkerStep

-----------------------------------------------------------------------------
(* Several undisturbed instances: a finished job's scan is settled or run.  *)

\* What an undisturbed instance may do to a job, and what its worker may do.
Serves(i, j) ==
    \/ TriggerScan(i, j) \/ TriggerAwsScan(i, j) \/ Enqueue(i, j) \/ Recover(i, j)
    \/ ThreadEnds(i, j)
Works(i) ==
    \/ Take(i) \/ Load(i) \/ Claim(i) \/ BeginScan(i) \/ FinishScan(i) \/ FinishAwsScan(i)
    \/ LinkSystems(i) \/ ScanRaises(i) \/ CompleteJob(i) \/ SendCompleted(i) \/ SendViolations(i)
    \/ MarkScanFailed(i) \/ FailJob(i) \/ SendFailed(i) \/ SendFailedAlert(i)

\* Until a store call raises, a process ends or a worker is cancelled, every step is one
\* of these.
LEMMA Undisturbed ==
  ASSUME TInv, [Next]_vars, faults' = 0, interruptions' = 0
  PROVE  /\ faults = 0 /\ interruptions = 0
         /\ \/ UNCHANGED vars
            \/ \E i \in Instances, j \in Jobs : Serves(i, j)
            \/ \E i \in Instances : Start(i) \/ StartWorker(i) \/ Works(i)
<1>types. faults \in Nat /\ interruptions \in Nat
  BY DEF TInv, TypeOK
<1>1. ASSUME NEW i \in Instances, NEW j \in Jobs, Serves(i, j) PROVE UNCHANGED <<faults, interruptions>>
  BY <1>1 DEF Serves, TriggerScan, TriggerAwsScan, SavePending, Enqueue, Recover, ThreadEnds, history
<1>2. ASSUME NEW i \in Instances, Start(i) \/ StartWorker(i)
      PROVE  UNCHANGED <<faults, interruptions>>
  BY <1>2 DEF Start, StartWorker, history
<1>3. ASSUME NEW i \in Instances, Works(i) PROVE UNCHANGED <<faults, interruptions>>
  <2>1. CASE Take(i) \/ Load(i) \/ Claim(i) \/ BeginScan(i) \/ FinishScan(i) \/ FinishAwsScan(i)
    BY <2>1 DEF Take, Load, Claim, BeginScan, FinishScan, FinishAwsScan, history
  <2>2. CASE LinkSystems(i) \/ ScanRaises(i) \/ CompleteJob(i) \/ SendCompleted(i) \/ SendViolations(i)
    BY <2>2 DEF LinkSystems, ScanRaises, CompleteJob, SendCompleted, SendViolations, history
  <2>3. CASE MarkScanFailed(i) \/ FailJob(i) \/ SendFailed(i) \/ SendFailedAlert(i)
    BY <2>3 DEF MarkScanFailed, FailJob, SendFailed, SendFailedAlert, history
  <2> QED
    BY <1>3, <2>1, <2>2, <2>3 DEF Works
<1>4. ASSUME NEW i \in Instances, NEW j \in Jobs
      PROVE  ~EnqueueRaises(i, j) /\ ~RaiseInTry(i) /\ ~RaiseOutsideTry(i) /\ ~Stop(i) /\ ~Crash(i)
  BY <1>types DEF EnqueueRaises, RaiseInTry, RaiseOutsideTry, Stop, Crash, Fault, Interrupt
<1>5. ASSUME NEW i \in Instances
      PROVE  ~RaiseInTry(i) /\ ~RaiseOutsideTry(i) /\ ~Stop(i) /\ ~Crash(i)
  BY <1>types DEF RaiseInTry, RaiseOutsideTry, Stop, Crash, Fault, Interrupt
<1>6. CASE UNCHANGED vars
  BY <1>6 DEF vars
<1> QED
  BY <1>1, <1>2, <1>3, <1>4, <1>5, <1>6 DEF Next, WorkerStep, Serves, Works

\* Rolled is kept.
LEMMA RollingStep ==
  ASSUME TInv, KnownInv, RollingInv, [Next]_vars
  PROVE  RollingInv'
<1> SUFFICES ASSUME faults' = 0, interruptions' = 0 PROVE Rolled'
  BY DEF RollingInv
<1>rolled. Rolled
  BY Undisturbed DEF RollingInv
<1>types. /\ TypeOK /\ NoJob \notin Jobs
          /\ \A i \in Instances : pc[i] # "get" => cur[i] \in Jobs
  BY WorkingJob, NullsAssumption DEF TInv
<1>known. \A i \in Instances : cur[i] \in Jobs => scanDoc[cur[i]] # "absent"
  BY DEF KnownInv, Held
\* A step that leaves the scans alone, and no scan without its worker.
<1>same. ASSUME scanDoc' = scanDoc,
                \A j \in Jobs : jobDoc'[j] \in Terminal =>
                    jobDoc[j] \in Terminal \/ scanDoc[j] \notin {"absent", "pending"},
                \A i \in Instances : pc[i] \in Unsettled => pc'[i] \in Unsettled /\ cur'[i] = cur[i],
                \A i \in Instances : pc'[i] \in Begun => pc[i] \in Begun /\ cur'[i] = cur[i]
         PROVE  Rolled'
  BY <1>rolled, <1>same DEF Rolled, Settling
\* One that settles the scan of the job that worker i has in hand.
<1>ends. ASSUME NEW i \in Instances, cur[i] \in Jobs, cur' = cur,
                NEW label \in Labels \ Unsettled, pc' = [pc EXCEPT ![i] = label],
                scanDoc' = [scanDoc EXCEPT ![cur[i]] = scanDoc'[cur[i]]],
                scanDoc'[cur[i]] \in Terminal, jobDoc' = jobDoc
         PROVE  Rolled'
  <2>1. \A j \in Jobs : j # cur[i] /\ Settling(j) => Settling(j)'
    BY <1>types, <1>ends DEF Settling, TypeOK
  <2>2. \A j \in Jobs : scanDoc'[j] # scanDoc[j] => scanDoc'[j] \in Terminal
    BY <1>types, <1>ends DEF TypeOK
  <2>3. \A j \in Jobs : scanDoc'[j] = "running" => Settling(j)'
    BY <1>rolled, <1>types, <1>ends, <2>1, <2>2 DEF Rolled, TypeOK, Terminal
  <2>4. \A k \in Instances : pc'[k] \in Begun => scanDoc'[cur'[k]] \notin {"absent", "pending"}
    BY <1>rolled, <1>types, <1>ends DEF Rolled, TypeOK, Terminal, Begun
  <2> QED  BY <1>rolled, <1>types, <1>ends, <2>2, <2>3, <2>4 DEF Rolled, TypeOK, Terminal
<1> USE DEF Begun, Unsettled
<1>1. ASSUME NEW i \in Instances, NEW j \in Jobs, TriggerScan(i, j) \/ TriggerAwsScan(i, j) PROVE Rolled'
  <2>1. scanDoc[j] = "absent" /\ scanDoc' = [scanDoc EXCEPT ![j] = "pending"] /\ UNCHANGED <<jobDoc, pc, cur>>
    BY <1>1 DEF TriggerScan, TriggerAwsScan, SavePending, worker
  <2>2. \A k \in Instances : cur[k] # j
    BY <1>known, <2>1
  <2> QED
    BY <1>rolled, <1>types, <2>1, <2>2 DEF Rolled, Settling, TypeOK
<1>2. ASSUME NEW i \in Instances, NEW j \in Jobs, Enqueue(i, j) \/ Recover(i, j) PROVE Rolled'
  <2>1. /\ UNCHANGED <<scanDoc, pc, cur>>
        /\ \A x \in Jobs : jobDoc'[x] \in Terminal => jobDoc[x] \in Terminal
    BY <1>2, <1>types DEF Enqueue, Recover, worker, TypeOK, Terminal
  <2> QED
    BY <1>same, <2>1
<1>3. ASSUME NEW i \in Instances, NEW j \in Jobs, ThreadEnds(i, j) PROVE Rolled'
  <2>1. /\ UNCHANGED <<jobDoc, pc, cur>>
        /\ scanDoc' = scanDoc \/ scanDoc' = [scanDoc EXCEPT ![j] = "completed"]
    BY <1>3 DEF ThreadEnds, worker
  <2> QED
    BY <1>rolled, <1>types, <2>1 DEF Rolled, Settling, TypeOK
<1>4. ASSUME NEW i \in Instances, Start(i) \/ StartWorker(i) PROVE Rolled'
  BY <1>4, <1>same DEF Start, StartWorker, store, worker
<1>5. ASSUME NEW i \in Instances, Take(i) \/ Load(i) \/ Claim(i) PROVE Rolled'
  <2>1. /\ scanDoc' = scanDoc /\ pc[i] \in {"get", "load", "claim"} /\ pc'[i] \in {"get", "load", "claim", "begin"}
        /\ \A k \in Instances \ {i} : pc'[k] = pc[k] /\ cur'[k] = cur[k]
        /\ \A x \in Jobs : jobDoc'[x] \in Terminal => jobDoc[x] \in Terminal
    BY <1>5, <1>types DEF Take, Load, Claim, At, Goto, EndJob, store, TypeOK, Terminal
  <2> QED
    BY <1>same, <2>1
<1>6. ASSUME NEW i \in Instances, BeginScan(i) PROVE Rolled'
  <2>1. /\ cur[i] \in Jobs /\ pc[i] = "begin" /\ pc' = [pc EXCEPT ![i] = "scan"]
        /\ scanDoc' = [scanDoc EXCEPT ![cur[i]] = "running"] /\ UNCHANGED <<jobDoc, cur>>
    BY <1>6, <1>types, <1>known DEF BeginScan, At, Goto, SetScan
  <2>2. \A j \in Jobs : Settling(j) => Settling(j)'
    BY <1>types, <2>1 DEF Settling, TypeOK
  <2>3. Settling(cur[i])'
    BY <1>types, <2>1 DEF Settling, TypeOK
  <2> QED
    BY <1>rolled, <1>types, <2>1, <2>2, <2>3 DEF Rolled, TypeOK
<1>7. ASSUME NEW i \in Instances, FinishScan(i) \/ FinishAwsScan(i) PROVE Rolled'
  <2>1. /\ cur[i] \in Jobs /\ pc[i] = "scan" /\ UNCHANGED <<jobDoc, cur>>
        /\ \E label \in Labels \ Unsettled : pc' = [pc EXCEPT ![i] = label]
        /\ scanDoc' = [scanDoc EXCEPT ![cur[i]] = "completed"]
    BY <1>7, <1>types DEF FinishScan, FinishAwsScan, At, Goto, Labels, TryBody
  <2> QED
    BY <1>ends, <1>types, <2>1 DEF TypeOK, Terminal
<1>8. ASSUME NEW i \in Instances, LinkSystems(i) \/ ScanRaises(i) PROVE Rolled'
  <2>1. /\ UNCHANGED <<scanDoc, jobDoc, cur>> /\ pc[i] \in {"scan", "link"}
        /\ pc[i] = "scan" => pc'[i] = "markFailed"
        /\ \A k \in Instances \ {i} : pc'[k] = pc[k]
    BY <1>8, <1>types DEF LinkSystems, ScanRaises, At, Goto, store, TypeOK
  <2> QED
    BY <1>same, <2>1
<1>9. ASSUME NEW i \in Instances, CompleteJob(i) \/ FailJob(i) PROVE Rolled'
  <2>1. /\ UNCHANGED <<scanDoc, cur>> /\ pc[i] \in {"complete", "failJob"} /\ cur[i] \in Jobs
        /\ pc'[i] \in {"sendCompleted", "sendFailed"}
        /\ \A k \in Instances \ {i} : pc'[k] = pc[k]
        /\ \A x \in Jobs : x # cur[i] => jobDoc'[x] = jobDoc[x]
    BY <1>9, <1>types DEF CompleteJob, FailJob, At, Goto, TypeOK
  <2>2. scanDoc[cur[i]] \notin {"absent", "pending"}
    BY <1>rolled, <2>1 DEF Rolled
  <2> QED
    BY <1>same, <2>1, <2>2
<1>10. ASSUME NEW i \in Instances, SendCompleted(i) \/ SendViolations(i) \/ SendFailed(i) \/ SendFailedAlert(i) PROVE Rolled'
  <2>1. /\ UNCHANGED <<scanDoc, jobDoc>> /\ pc[i] \notin Begun /\ pc'[i] \notin Begun
        /\ \A k \in Instances \ {i} : pc'[k] = pc[k] /\ cur'[k] = cur[k]
    BY <1>10, <1>types DEF SendCompleted, SendViolations, SendFailed, SendFailedAlert, At, Goto,
                         EndJob, store, TypeOK
  <2> QED
    BY <1>same, <2>1
<1>11. ASSUME NEW i \in Instances, MarkScanFailed(i) PROVE Rolled'
  <2>1. /\ cur[i] \in Jobs /\ pc[i] = "markFailed" /\ pc' = [pc EXCEPT ![i] = "failJob"]
        /\ scanDoc' = [scanDoc EXCEPT ![cur[i]] = "failed"] /\ UNCHANGED <<jobDoc, cur>>
    BY <1>11, <1>types, <1>known DEF MarkScanFailed, At, Goto, SetScan
  <2>2. "failJob" \in Labels \ Unsettled
    BY DEF Labels, OutsideTry
  <2> QED
    BY <1>ends, <1>types, <2>1, <2>2 DEF TypeOK, Terminal
<1>12. CASE UNCHANGED vars
  BY <1>12, <1>same DEF vars
<1> QED
  BY Undisturbed, <1>1, <1>2, <1>3, <1>4, <1>5, <1>6, <1>7, <1>8, <1>9, <1>10, <1>11, <1>12 DEF Serves, Works

-----------------------------------------------------------------------------
(* Several instances: every verdict is claimed.                            *)

\* Whether instance i is in the set S.
One(i, S) == IF i \in S THEN 1 ELSE 0

\* Two sets that differ in one element.
LEMMA CountOne ==
  ASSUME NEW S, NEW T, NEW i, IsFiniteSet(S), T \ {i} = S \ {i}
  PROVE  /\ IsFiniteSet(T) /\ Cardinality(S) \in Nat /\ Cardinality(T) \in Nat
         /\ Cardinality(T) + One(i, S) = Cardinality(S) + One(i, T)
<1> DEFINE R == S \ {i}
<1>1. IsFiniteSet(R) /\ Cardinality(R) \in Nat
  BY FS_Subset, FS_CardinalityType
<1>2. IsFiniteSet(S) /\ Cardinality(S) = Cardinality(R) + One(i, S)
  <2>1. CASE i \in S
    <3>1. S = R \cup {i} /\ i \notin R
      BY <2>1
    <3> QED  BY <1>1, <2>1, <3>1, FS_AddElement DEF One
  <2>2. CASE i \notin S
    <3>1. S = R
      BY <2>2
    <3> QED  BY <1>1, <2>2, <3>1 DEF One
  <2> QED  BY <2>1, <2>2
<1>3. IsFiniteSet(T) /\ Cardinality(T) = Cardinality(R) + One(i, T)
  <2>1. CASE i \in T
    <3>1. T = R \cup {i} /\ i \notin R
      BY <2>1
    <3> QED  BY <1>1, <2>1, <3>1, FS_AddElement DEF One
  <2>2. CASE i \notin T
    <3>1. T = R
      BY <2>2
    <3> QED  BY <1>1, <2>2, <3>1 DEF One
  <2> QED  BY <2>1, <2>2
<1>4. One(i, S) \in {0, 1} /\ One(i, T) \in {0, 1}
  BY DEF One
<1> HIDE DEF R
<1> QED  BY <1>1, <1>2, <1>3, <1>4

\* Where instance i stands, and a step of it that announces no more than it claims or
\* is excused by a fault.
Owes(i, j) == IF cur[i] = j /\ pc[i] \in Untold THEN 1 ELSE 0
Pays(i) ==
    /\ \A k \in Instances \ {i} : pc'[k] = pc[k] /\ cur'[k] = cur[k]
    /\ \A j \in Jobs :
          Told(j)' + Owes(i, j)' + runs[j] + faults <= Told(j) + Owes(i, j) + runs'[j] + faults'

\* Every step is such a step of some instance.
LEMMA StepPays ==
  ASSUME TInv, NEW i \in Instances,
         \/ \E j \in Jobs : Serves(i, j) \/ EnqueueRaises(i, j)
         \/ Start(i) \/ StartWorker(i) \/ WorkerStep(i) \/ Stop(i) \/ Crash(i)
  PROVE  Pays(i)
<1>types. /\ TypeOK /\ NoJob \notin Jobs
          /\ pc[i] # "get" => cur[i] \in Jobs
          /\ \A j \in Jobs : /\ sent[j]["scan.completed"] \in Nat /\ sent[j]["scan.failed"] \in Nat
                             /\ runs[j] \in Nat /\ Owes(i, j) \in 0..1
  BY WorkingJob, NullsAssumption DEF TInv, TypeOK, ScanEvents, Owes
<1>1. ASSUME UNCHANGED <<sent, runs>>, faults' \in {faults, faults + 1},
             \A k \in Instances \ {i} : pc'[k] = pc[k] /\ cur'[k] = cur[k],
             \A j \in Jobs : Owes(i, j)' \in 0..Owes(i, j)
      PROVE  Pays(i)
  <2> SUFFICES ASSUME NEW j \in Jobs
               PROVE  Told(j)' + Owes(i, j)' + runs[j] + faults
                          <= Told(j) + Owes(i, j) + runs'[j] + faults'
    BY <1>1 DEF Pays
  <2>1. Told(j)' = Told(j) /\ Told(j) \in Nat
    BY <1>1, <1>types DEF Told
  <2>2. Owes(i, j)' \in Nat /\ Owes(i, j) \in Nat /\ Owes(i, j)' <= Owes(i, j)
    BY <1>1, <1>types
  <2>3. runs'[j] = runs[j] /\ runs[j] \in Nat /\ faults' \in Nat /\ faults \in Nat /\ faults <= faults'
    BY <1>1, <1>types DEF TypeOK
  <2> HIDE DEF Told, Owes
  <2> QED  BY <2>1, <2>2, <2>3
<1>2. ASSUME NEW j \in Jobs, Serves(i, j) PROVE Pays(i)
  <2>1. UNCHANGED <<pc, cur, sent, runs, faults>>
    BY <1>2 DEF Serves, TriggerScan, TriggerAwsScan, SavePending, Enqueue, Recover, ThreadEnds,
               worker, history
  <2> QED
    BY <1>1, <1>types, <2>1 DEF Owes
<1>3. ASSUME NEW j \in Jobs, EnqueueRaises(i, j) PROVE Pays(i)
  <2>1. UNCHANGED <<pc, cur, sent, runs>> /\ faults' = faults + 1
    BY <1>3 DEF EnqueueRaises, Fault, worker
  <2> QED
    BY <1>1, <1>types, <2>1 DEF Owes
<1>4. ASSUME Start(i) \/ StartWorker(i) PROVE Pays(i)
  <2>1. UNCHANGED <<pc, cur, sent, runs, faults>>
    BY <1>4 DEF Start, StartWorker, worker, history
  <2> QED
    BY <1>1, <1>types, <2>1 DEF Owes
<1>5. ASSUME Stop(i) \/ Crash(i) PROVE Pays(i)
  <2>1. UNCHANGED <<sent, runs, faults>> /\ EndJob(i)
    BY <1>5 DEF Stop, Crash
  <2> QED
    BY <1>1, <1>types, <2>1 DEF Owes, EndJob, TypeOK
<1>6. ASSUME Take(i) \/ Load(i) \/ SendViolations(i) \/ SendFailedAlert(i) PROVE Pays(i)
  <2>1. /\ UNCHANGED <<sent, runs, faults>> /\ pc'[i] \notin Untold
        /\ \A k \in Instances \ {i} : pc'[k] = pc[k] /\ cur'[k] = cur[k]
    BY <1>6, <1>types DEF Take, Load, SendViolations, SendFailedAlert, Goto, EndJob, history,
                         TypeOK, Untold, Begun
  <2> QED
    BY <1>1, <1>types, <2>1 DEF Owes
<1>7. ASSUME BeginScan(i) \/ FinishScan(i) \/ FinishAwsScan(i) \/ LinkSystems(i) \/ ScanRaises(i) PROVE Pays(i)
  <2>1. /\ UNCHANGED <<sent, runs, faults, cur>> /\ pc[i] \in Untold
        /\ \A k \in Instances \ {i} : pc'[k] = pc[k] /\ cur'[k] = cur[k]
    BY <1>7, <1>types DEF BeginScan, FinishScan, FinishAwsScan, LinkSystems, ScanRaises, At, Goto, history,
                         TypeOK, Untold, Begun
  <2> QED
    BY <1>1, <1>types, <2>1 DEF Owes
<1>8. ASSUME CompleteJob(i) \/ MarkScanFailed(i) \/ FailJob(i) PROVE Pays(i)
  <2>1. /\ UNCHANGED <<sent, runs, faults, cur>> /\ pc[i] \in Untold
        /\ \A k \in Instances \ {i} : pc'[k] = pc[k] /\ cur'[k] = cur[k]
    BY <1>8, <1>types DEF CompleteJob, MarkScanFailed, FailJob, At, Goto, history,
                         TypeOK, Untold, Begun
  <2> QED
    BY <1>1, <1>types, <2>1 DEF Owes
<1>9. ASSUME Claim(i) PROVE Pays(i)
  <2>1. /\ cur[i] \in Jobs /\ UNCHANGED <<sent, faults, cur>> /\ pc[i] = "claim" /\ pc'[i] = "begin"
        /\ runs' = [runs EXCEPT ![cur[i]] = @ + 1]
        /\ \A k \in Instances \ {i} : pc'[k] = pc[k]
    BY <1>9, <1>types DEF Claim, At, Goto, TypeOK
  <2> SUFFICES ASSUME NEW j \in Jobs
               PROVE  Told(j)' + Owes(i, j)' + runs[j] + faults
                          <= Told(j) + Owes(i, j) + runs'[j] + faults'
    BY <2>1 DEF Pays
  <2>2. Told(j)' = Told(j) /\ Told(j) \in Nat /\ runs[j] \in Nat /\ faults \in Nat
    BY <1>types, <2>1 DEF Told, TypeOK
  <2>3. Owes(i, j) = 0 /\ Owes(i, j)' = (IF cur[i] = j THEN 1 ELSE 0)
    BY <1>types, <2>1 DEF Owes, Untold, Begun
  <2>4. runs'[j] = runs[j] + (IF cur[i] = j THEN 1 ELSE 0)
    BY <1>types, <2>1 DEF TypeOK
  <2> HIDE DEF Told, Owes
  <2> QED  BY <2>1, <2>2, <2>3, <2>4
<1>10. ASSUME NEW verdict \in ScanEvents, At(i, IF verdict = "scan.completed" THEN "sendCompleted" ELSE "sendFailed"),
                 sent' = [sent EXCEPT ![cur[i]][verdict] = @ + 1], UNCHANGED <<runs, faults>>,
                 pc'[i] \notin Untold, \A k \in Instances \ {i} : pc'[k] = pc[k] /\ cur'[k] = cur[k]
      PROVE Pays(i)
  <2> SUFFICES ASSUME NEW j \in Jobs
               PROVE  Told(j)' + Owes(i, j)' + runs[j] + faults
                          <= Told(j) + Owes(i, j) + runs'[j] + faults'
    BY <1>10 DEF Pays
  <2>0. cur[i] \in Jobs /\ pc[i] \in {"sendCompleted", "sendFailed"}
    BY <1>10, <1>types DEF At
  <2>1. Told(j)' = Told(j) + (IF cur[i] = j THEN 1 ELSE 0) /\ Told(j) \in Nat
    BY <1>10, <1>types, <2>0 DEF Told, TypeOK, ScanEvents
  <2>2. Owes(i, j)' = 0 /\ Owes(i, j) = (IF cur[i] = j THEN 1 ELSE 0)
    BY <1>10, <2>0 DEF Owes, Untold
  <2>3. runs'[j] = runs[j] /\ runs[j] \in Nat /\ faults' = faults /\ faults \in Nat
    BY <1>10, <1>types DEF TypeOK
  <2> HIDE DEF Told, Owes
  <2> QED  BY <2>1, <2>2, <2>3
<1>11. ASSUME SendCompleted(i) PROVE Pays(i)
  <2>1. /\ At(i, "sendCompleted") /\ sent' = [sent EXCEPT ![cur[i]]["scan.completed"] = @ + 1]
        /\ UNCHANGED <<runs, faults>> /\ pc'[i] \in {"sendViolations", "get"}
        /\ \A k \in Instances \ {i} : pc'[k] = pc[k] /\ cur'[k] = cur[k]
    BY <1>11, <1>types DEF SendCompleted, Goto, EndJob, history, TypeOK
  <2> QED
    BY <1>10, <2>1 DEF ScanEvents, Untold, Begun
<1>12. ASSUME SendFailed(i) PROVE Pays(i)
  <2>1. /\ At(i, "sendFailed") /\ sent' = [sent EXCEPT ![cur[i]]["scan.failed"] = @ + 1]
        /\ UNCHANGED <<runs, faults>> /\ pc'[i] = "sendFailedAlert"
        /\ \A k \in Instances \ {i} : pc'[k] = pc[k] /\ cur'[k] = cur[k]
    BY <1>12, <1>types DEF SendFailed, Goto, history, TypeOK
  <2> QED
    BY <1>10, <2>1 DEF ScanEvents, Untold, Begun
<1>13. ASSUME RaiseOutsideTry(i) PROVE Pays(i)
  <2>1. /\ UNCHANGED <<sent, runs>> /\ faults' = faults + 1 /\ pc'[i] = "get"
        /\ \A k \in Instances \ {i} : pc'[k] = pc[k] /\ cur'[k] = cur[k]
    BY <1>13, <1>types DEF RaiseOutsideTry, Fault, EndJob, TypeOK
  <2> QED
    BY <1>1, <1>types, <2>1 DEF Owes, Untold, Begun
<1>14. ASSUME RaiseInTry(i) PROVE Pays(i)
  <2>1. /\ UNCHANGED <<sent, runs, cur>> /\ faults' = faults + 1
        /\ \A k \in Instances \ {i} : pc'[k] = pc[k]
    BY <1>14, <1>types DEF RaiseInTry, Fault, Goto, TypeOK
  <2> SUFFICES ASSUME NEW j \in Jobs
               PROVE  Told(j)' + Owes(i, j)' + runs[j] + faults
                          <= Told(j) + Owes(i, j) + runs'[j] + faults'
    BY <2>1 DEF Pays
  <2>2. Told(j)' = Told(j) /\ Told(j) \in Nat /\ runs'[j] = runs[j] /\ runs[j] \in Nat /\ faults \in Nat
    BY <1>types, <2>1 DEF Told, TypeOK
  <2>3. Owes(i, j) \in 0..1 /\ Owes(i, j)' \in 0..1
    BY DEF Owes
  <2> HIDE DEF Told, Owes
  <2> QED  BY <2>1, <2>2, <2>3
<1> QED
  BY <1>2, <1>3, <1>4, <1>5, <1>6, <1>7, <1>8, <1>9, <1>10, <1>11, <1>12, <1>13, <1>14 DEF WorkerStep

\* ClaimsInv is kept.
LEMMA ClaimsStep ==
  ASSUME TInv, ClaimsInv, [Next]_vars
  PROVE  ClaimsInv'
<1>1. ASSUME NEW i \in Instances, Pays(i) PROVE ClaimsInv'
  <2> SUFFICES ASSUME NEW j \in Jobs
               PROVE  /\ IsFiniteSet(Tellers(j)')
                      /\ Told(j)' + Cardinality(Tellers(j)') <= runs'[j] + faults'
    BY DEF ClaimsInv
  <2>1. Tellers(j)' \ {i} = Tellers(j) \ {i}
    BY <1>1 DEF Pays, Tellers
  <2>2. One(i, Tellers(j)) = Owes(i, j) /\ One(i, Tellers(j)') = Owes(i, j)'
    BY DEF One, Owes, Tellers
  <2>3. IsFiniteSet(Tellers(j)) /\ Told(j) + Cardinality(Tellers(j)) <= runs[j] + faults
    BY DEF ClaimsInv
  <2>4. /\ IsFiniteSet(Tellers(j)') /\ Cardinality(Tellers(j)) \in Nat /\ Cardinality(Tellers(j)') \in Nat
        /\ Cardinality(Tellers(j)') + Owes(i, j) = Cardinality(Tellers(j)) + Owes(i, j)'
    BY <2>1, <2>2, <2>3, CountOne
  <2>5. Told(j)' + Owes(i, j)' + runs[j] + faults <= Told(j) + Owes(i, j) + runs'[j] + faults'
    BY <1>1 DEF Pays
  <2>6. /\ Told(j) \in Nat /\ runs[j] \in Nat /\ faults \in Nat
        /\ Told(j)' \in Nat /\ runs'[j] \in Nat /\ faults' \in Nat
        /\ Owes(i, j) \in Nat /\ Owes(i, j)' \in Nat
    <3>1. TypeOK /\ TypeOK'
      BY TStep DEF TInv
    <3> QED  BY <3>1 DEF TypeOK, Told, ScanEvents, Owes
  <2> HIDE DEF Told, Owes, Tellers
  <2> QED  BY <2>3, <2>4, <2>5, <2>6
<1>2. CASE UNCHANGED vars
  <2>1. \A j \in Jobs : Told(j)' = Told(j) /\ Tellers(j)' = Tellers(j)
    BY <1>2 DEF vars, Told, Tellers
  <2> QED  BY <1>2, <2>1 DEF ClaimsInv, vars
<1> QED
  BY <1>1, <1>2, StepPays DEF Next, Serves

-----------------------------------------------------------------------------
(* The theorems. *)

\* IInv is the inductive invariant of a queue run by a single instance.
LEMMA Inductive == Single => (Spec => []IInv)
<1> SUFFICES ASSUME Single PROVE Spec => []IInv
  OBVIOUS
<1>1. Init => IInv
  BY TInit, DInit, VInit, RInit, NInit DEF IInv
<1>2. IInv /\ [Next]_vars => IInv'
  BY TStep, DStep, VStep, RStep, NStep DEF IInv
<1>3. QED
  BY <1>1, <1>2, PTL DEF Spec

\* A finished job has a finished scan (job_queue.py, _process_job): a client that
\* polls the scan of a finished job gets an answer, and a failed GitHub job
\* never reads as a completed scan.
THEOREM ScansAgree == Single => (Spec => []JobScanAgreement)
<1>1. IInv => JobScanAgreement
  BY DEF IInv, DInv
<1>2. QED
  BY <1>1, Inductive, PTL

\* Restarts lose no job (job_queue.py, start and _recover_pending_jobs): only a
\* store fault outside the try, or the recovery limit, leaves one behind.
THEOREM NothingLost == Single => (Spec => []NoLostJob)
<1>1. IInv => NoLostJob
  BY DEF IInv
<1>2. QED
  BY <1>1, Inductive, PTL

\* Subscribers hear one verdict per job through any number of crashes, stops and
\* recoveries, as long as no store call raises.
THEOREM OneVerdictPerJob == Single => (Spec => []OneVerdict)
<1>1. IInv => OneVerdict
  BY DEF IInv, VerdictInv, OneVerdict, Told
<1>2. QED
  BY <1>1, Inductive, PTL

\* The number of times a scan is executed is bounded by what disturbed it.
THEOREM RerunsBounded == Single => (Spec => []RerunBound)
<1>1. IInv => RerunBound
  BY DEF IInv, RunInv, RerunBound
<1>2. QED
  BY <1>1, Inductive, PTL

-----------------------------------------------------------------------------
(* Several instances. *)

\* The inductive invariant of any number of instances.
LEMMA RollingInductive == Spec => [](TInv /\ KnownInv /\ RollingInv /\ ClaimsInv)
<1>1. Init => KnownInv /\ RollingInv
  <2> SUFFICES ASSUME Init PROVE KnownInv /\ RollingInv
    OBVIOUS
  <2>1. ASSUME NEW i \in Instances, NEW j \in Jobs PROVE ~Held(i, j)
    BY NullsAssumption DEF Init, Held, InQueue, NothingListed
  <2>2. KnownInv
    BY <2>1 DEF Init, KnownInv
  <2>3. RollingInv
    BY DEF Init, RollingInv, Rolled, Begun, Terminal
  <2> QED  BY <2>2, <2>3
<1>2. Init => ClaimsInv
  <2> SUFFICES ASSUME Init, NEW j \in Jobs
               PROVE  IsFiniteSet(Tellers(j)) /\ Told(j) + Cardinality(Tellers(j)) <= runs[j] + faults
    BY DEF ClaimsInv
  <2>1. Tellers(j) = {}
    BY DEF Init, Tellers, Untold, Begun
  <2> QED  BY <2>1, FS_EmptySet DEF Init, Told, ScanEvents
<1> QED
  BY TInit, TStep, <1>1, <1>2, KnownStep, RollingStep, ClaimsStep, PTL DEF Spec

\* Whatever a starting instance takes over from a working one while both run the same
\* job, a job that reads as finished has its scan settled, or a worker still has it in
\* hand: no poll waits for a scan nobody runs.
THEOREM RollingDeploymentsAgree == Spec => []RollingAgreement
<1>1. TInv /\ RollingInv => RollingAgreement
  <2> SUFFICES ASSUME TInv, RollingInv, faults = 0, interruptions = 0, NEW j \in Jobs,
                      jobDoc[j] \in Terminal
               PROVE  scanDoc[j] \in Terminal \/ \E i \in Instances : cur[i] = j
    BY DEF RollingAgreement
  <2>1. scanDoc[j] \in Terminal \cup {"running"}
    BY DEF TInv, TypeOK, RollingInv, Rolled, Status, Active, Terminal
  <2> QED  BY <2>1 DEF RollingInv, Rolled, Settling
<1> QED  BY <1>1, RollingInductive, PTL

\* However many instances run a job at once, crash or stop, each verdict it announces
\* belongs to a claim of its own, or to a fault.
THEOREM VerdictsAreClaimed == Spec => []VerdictsPerRun
<1>1. TInv /\ ClaimsInv => VerdictsPerRun
  <2> SUFFICES ASSUME TInv, ClaimsInv, NEW j \in Jobs PROVE Told(j) <= runs[j] + faults
    BY DEF VerdictsPerRun, Told
  <2>1. Cardinality(Tellers(j)) \in Nat /\ Told(j) + Cardinality(Tellers(j)) <= runs[j] + faults
    BY FS_CardinalityType DEF ClaimsInv
  <2>2. Told(j) \in Nat /\ runs[j] \in Nat /\ faults \in Nat
    BY DEF TInv, TypeOK, Told, ScanEvents
  <2> HIDE DEF Told
  <2> QED  BY <2>1, <2>2
<1> QED  BY <1>1, RollingInductive, PTL

-----------------------------------------------------------------------------
(* Refinement. *)

\* A step that changes neither the job documents nor the dispatched events is
\* invisible in the life cycle.
LEMMA Silent ==
  ASSUME UNCHANGED <<jobDoc, sent>>
  PROVE  UNCHANGED Lifecycle!vars
  BY DEF Lifecycle!vars, Announced

\* A step that moves one job, and announces nothing, is a move of the life cycle.
LEMMA MoveStep ==
  ASSUME NEW j \in Jobs, NEW from, NEW to, jobDoc[j] = from, UNCHANGED sent,
         jobDoc' = [jobDoc EXCEPT ![j] = to]
  PROVE  Lifecycle!Move(j, from, to)
  BY DEF Lifecycle!Move, Announced

\* A dispatch of the verdict of a finished job is an announcement of the life cycle.
LEMMA AnnounceStep ==
  ASSUME TInv, NEW j \in Jobs, NEW v \in Terminal, jobDoc[j] = v, UNCHANGED jobDoc,
         NEW e, e = (IF v = "completed" THEN "scan.completed" ELSE "scan.failed"),
         sent' = [sent EXCEPT ![j][e] = @ + 1]
  PROVE  Lifecycle!Announce(j)
<1>1. /\ sent \in [Jobs -> [ScanEvents -> Nat]]
      /\ e \in ScanEvents
  BY DEF TInv, TypeOK, ScanEvents, Terminal
<1>2. sent'[j] = [sent[j] EXCEPT ![e] = sent[j][e] + 1] /\ sent[j] \in [ScanEvents -> Nat]
  BY <1>1
<1>3. \A k \in Jobs : k # j => sent'[k] = sent[k]
  BY <1>1
<1>4. sent'[j][e] > 0 /\ \A f \in ScanEvents : f # e => sent'[j][f] = sent[j][f]
  BY <1>1, <1>2
<1>5. Announced'[j] = Announced[j] \cup {v}
  BY <1>4 DEF Announced, ScanEvents, Terminal
<1>6. \A k \in Jobs : k # j => Announced'[k] = Announced[k]
  BY <1>3 DEF Announced
<1>7. Announced' = [Announced EXCEPT ![j] = @ \cup {v}]
  BY <1>5, <1>6 DEF Announced
<1>8. QED
  BY <1>7 DEF Lifecycle!Announce, Lifecycle!Verdicts, Terminal

\* Initial states map to initial states.
LEMMA RefineInit == Init => Lifecycle!Init
  BY DEF Init, Lifecycle!Init, Announced, ScanEvents, Terminal

\* A step counts a store fault or leaves the count alone.
LEMMA FaultsNeverDrop == [Next]_vars => faults' \in {faults, faults + 1}
<1>1. ASSUME NEW i \in Instances, NEW j \in Jobs,
             \/ TriggerScan(i, j) \/ TriggerAwsScan(i, j) \/ Enqueue(i, j)
             \/ Recover(i, j) \/ ThreadEnds(i, j)
      PROVE  UNCHANGED faults
  BY <1>1 DEF TriggerScan, TriggerAwsScan, SavePending, Enqueue, Recover, ThreadEnds, history
<1>2. ASSUME NEW i \in Instances,
             \/ Start(i) \/ StartWorker(i) \/ Take(i) \/ Load(i) \/ Claim(i) \/ BeginScan(i)
             \/ FinishScan(i) \/ FinishAwsScan(i) \/ LinkSystems(i) \/ ScanRaises(i)
      PROVE  UNCHANGED faults
  BY <1>2 DEF Start, StartWorker, Take, Load, Claim, BeginScan, FinishScan, FinishAwsScan,
              LinkSystems, ScanRaises, history
<1>3. ASSUME NEW i \in Instances,
             \/ CompleteJob(i) \/ SendCompleted(i) \/ SendViolations(i) \/ MarkScanFailed(i)
             \/ FailJob(i) \/ SendFailed(i) \/ SendFailedAlert(i) \/ Stop(i) \/ Crash(i)
      PROVE  UNCHANGED faults
  BY <1>3 DEF CompleteJob, SendCompleted, SendViolations, MarkScanFailed, FailJob, SendFailed,
              SendFailedAlert, Stop, Crash, history
<1>4. ASSUME NEW i \in Instances, RaiseInTry(i) \/ RaiseOutsideTry(i) PROVE faults' = faults + 1
  BY <1>4 DEF RaiseInTry, RaiseOutsideTry, Fault
<1>5. ASSUME NEW i \in Instances, NEW j \in Jobs, EnqueueRaises(i, j) PROVE faults' = faults + 1
  BY <1>5 DEF EnqueueRaises, Fault
<1>6. QED
  BY <1>1, <1>2, <1>3, <1>4, <1>5 DEF Next, WorkerStep, vars

\* Before the first store fault every step maps to a step of the life cycle or a stutter.
LEMMA RefineStep ==
  ASSUME Single, faults = 0, faults' = 0, IInv, [Next]_vars
  PROVE  [Lifecycle!Next]_(Lifecycle!vars)
<1> DEFINE Goal == [Lifecycle!Next]_(Lifecycle!vars)
<1>1. UNCHANGED Lifecycle!vars => Goal
  OBVIOUS
<1>2. \A j \in Jobs :
        (\/ Lifecycle!Accept(j) \/ Lifecycle!Begin(j) \/ Lifecycle!Requeue(j)
         \/ Lifecycle!Finish(j) \/ Lifecycle!Announce(j)) => Goal
  BY DEF Lifecycle!Next
<1> HIDE DEF Goal
<1>3. TInv /\ DInv /\ VerdictInv
  BY DEF IInv
<1>4. ASSUME NEW i \in Instances, NEW j \in Jobs, TriggerScan(i, j) PROVE Goal
  BY <1>4, <1>1, Silent DEF TriggerScan, SavePending, store, worker, history
<1>5. ASSUME NEW i \in Instances, NEW j \in Jobs, TriggerAwsScan(i, j) PROVE Goal
  BY <1>5, <1>1, Silent DEF TriggerAwsScan, SavePending, store, worker, history
<1>6. ASSUME NEW i \in Instances, NEW j \in Jobs, ThreadEnds(i, j) PROVE Goal
  BY <1>6, <1>1, Silent DEF ThreadEnds, store, worker, history
<1>7. ASSUME NEW i \in Instances, Start(i) PROVE Goal
  BY <1>7, <1>1, Silent DEF Start, store, worker, history
<1>8. ASSUME NEW i \in Instances, StartWorker(i) PROVE Goal
  BY <1>8, <1>1, Silent DEF StartWorker, store, worker, history
<1>9. ASSUME NEW i \in Instances, Take(i) PROVE Goal
  BY <1>9, <1>1, Silent DEF Take, store, worker, history
<1>10. ASSUME NEW i \in Instances, Load(i) PROVE Goal
  BY <1>10, <1>1, Silent DEF Load, store, worker, history
<1>11. ASSUME NEW i \in Instances, BeginScan(i) PROVE Goal
  BY <1>11, <1>1, Silent DEF BeginScan, store, worker, history
<1>12. ASSUME NEW i \in Instances, FinishScan(i) PROVE Goal
  BY <1>12, <1>1, Silent DEF FinishScan, store, worker, history
<1>13. ASSUME NEW i \in Instances, FinishAwsScan(i) PROVE Goal
  BY <1>13, <1>1, Silent DEF FinishAwsScan, store, worker, history
<1>14. ASSUME NEW i \in Instances, LinkSystems(i) PROVE Goal
  BY <1>14, <1>1, Silent DEF LinkSystems, store, worker, history
<1>15. ASSUME NEW i \in Instances, ScanRaises(i) PROVE Goal
  BY <1>15, <1>1, Silent DEF ScanRaises, store, worker, history
<1>16. ASSUME NEW i \in Instances, SendViolations(i) PROVE Goal
  BY <1>16, <1>1, Silent DEF SendViolations, store, worker, history
<1>17. ASSUME NEW i \in Instances, MarkScanFailed(i) PROVE Goal
  BY <1>17, <1>1, Silent DEF MarkScanFailed, store, worker, history
<1>18. ASSUME NEW i \in Instances, SendFailedAlert(i) PROVE Goal
  BY <1>18, <1>1, Silent DEF SendFailedAlert, store, worker, history
<1>19. ASSUME NEW i \in Instances, Stop(i) PROVE Goal
  BY <1>19, <1>1, Silent DEF Stop, store, worker, history
<1>20. ASSUME NEW i \in Instances, Crash(i) PROVE Goal
  BY <1>20, <1>1, Silent DEF Crash, store, worker, history
<1>21. ASSUME NEW i \in Instances, NEW j \in Jobs, EnqueueRaises(i, j) PROVE Goal
  BY <1>21 DEF EnqueueRaises, Fault
<1>22. ASSUME NEW i \in Instances, RaiseInTry(i) PROVE Goal
  BY <1>22 DEF RaiseInTry, Fault
<1>23. ASSUME NEW i \in Instances, RaiseOutsideTry(i) PROVE Goal
  BY <1>23 DEF RaiseOutsideTry, Fault
<1>24. ASSUME NEW i \in Instances, NEW j \in Jobs, Enqueue(i, j) PROVE Goal
  <2>1. jobDoc[j] = "absent"
    BY <1>24, <1>3, NullsAssumption DEF Enqueue, DInv, DocInv
  <2>2. Lifecycle!Move(j, "absent", "pending")
    BY <1>24, <2>1, MoveStep DEF Enqueue
  <2>3. QED
    BY <2>2, <1>2 DEF Lifecycle!Accept
<1>25. ASSUME NEW i \in Instances, NEW j \in Jobs, Recover(i, j) PROVE Goal
  <2>1. CASE listed[i][j] = "running"
    <3>1. jobDoc[j] = "running"
      BY <2>1, <1>3 DEF DInv, ListedInv
    <3>2. Lifecycle!Move(j, "running", "pending")
      BY <1>25, <2>1, <3>1, MoveStep DEF Recover
    <3>3. QED
      BY <3>2, <1>2 DEF Lifecycle!Requeue
  <2>2. CASE listed[i][j] # "running"
    BY <1>25, <2>2, <1>1, Silent DEF Recover
  <2>3. QED
    BY <2>1, <2>2
<1>26. ASSUME NEW i \in Instances, Claim(i) PROVE Goal
  <2>1. PICK j \in Jobs : j = cur[i]
    BY <1>26, <1>3, WorkingJob DEF Claim, At
  <2>2. jobDoc' = [jobDoc EXCEPT ![j] = "running"] /\ UNCHANGED sent
    BY <1>26, <2>1 DEF Claim
  <2>3. jobDoc[j] \in Active /\ jobDoc \in [Jobs -> Status]
    BY <1>26, <2>1, <1>3 DEF Claim, At, TInv, TypeOK, DInv, PcInv, DocsAt
  <2>4. CASE jobDoc[j] = "pending"
    <3>1. Lifecycle!Move(j, "pending", "running")
      BY <2>2, <2>4, MoveStep
    <3>2. QED
      BY <3>1, <1>2 DEF Lifecycle!Begin
  <2>5. CASE jobDoc[j] = "running"
    <3>1. UNCHANGED jobDoc
      BY <2>2, <2>3, <2>5
    <3>2. QED
      BY <2>2, <3>1, <1>1, Silent
  <2>6. QED
    BY <2>3, <2>4, <2>5 DEF Active
<1>27. ASSUME NEW i \in Instances, CompleteJob(i) PROVE Goal
  <2>1. PICK j \in Jobs : j = cur[i]
    BY <1>27, <1>3, WorkingJob DEF CompleteJob, At
  <2>2. jobDoc[j] = "running"
    BY <1>27, <2>1, <1>3 DEF CompleteJob, At, DInv, PcInv, DocsAt
  <2>3. Lifecycle!Move(j, "running", "completed")
    BY <1>27, <2>1, <2>2, MoveStep DEF CompleteJob
  <2>4. QED
    BY <2>3, <1>2 DEF Lifecycle!Finish, Lifecycle!Verdicts
<1>28. ASSUME NEW i \in Instances, FailJob(i) PROVE Goal
  <2>1. PICK j \in Jobs : j = cur[i]
    BY <1>28, <1>3, WorkingJob DEF FailJob, At
  <2>2. jobDoc[j] = "running"
    BY <1>28, <2>1, <1>3 DEF FailJob, At, VerdictInv, DInv, PcInv, DocsAt
  <2>3. Lifecycle!Move(j, "running", "failed")
    BY <1>28, <2>1, <2>2, MoveStep DEF FailJob
  <2>4. QED
    BY <2>3, <1>2 DEF Lifecycle!Finish, Lifecycle!Verdicts
<1>29. ASSUME NEW i \in Instances, SendCompleted(i) PROVE Goal
  <2>1. PICK j \in Jobs : j = cur[i]
    BY <1>29, <1>3, WorkingJob DEF SendCompleted, At
  <2>2. jobDoc[j] = "completed"
    BY <1>29, <2>1, <1>3 DEF SendCompleted, At, DInv, PcInv, DocsAt
  <2>3. /\ UNCHANGED jobDoc
        /\ sent' = [sent EXCEPT ![j]["scan.completed"] = @ + 1]
    BY <1>29, <2>1 DEF SendCompleted, store
  <2>4. Lifecycle!Announce(j)
    BY <2>2, <2>3, <1>3, AnnounceStep DEF Terminal
  <2>5. QED
    BY <2>4, <1>2
<1>30. ASSUME NEW i \in Instances, SendFailed(i) PROVE Goal
  <2>1. PICK j \in Jobs : j = cur[i]
    BY <1>30, <1>3, WorkingJob DEF SendFailed, At
  <2>2. jobDoc[j] = "failed"
    BY <1>30, <2>1, <1>3 DEF SendFailed, At, DInv, PcInv, DocsAt
  <2>3. /\ UNCHANGED jobDoc
        /\ sent' = [sent EXCEPT ![j]["scan.failed"] = @ + 1]
    BY <1>30, <2>1 DEF SendFailed, store
  <2>4. Lifecycle!Announce(j)
    BY <2>2, <2>3, <1>3, AnnounceStep DEF Terminal
  <2>5. QED
    BY <2>4, <1>2
<1>31. ASSUME UNCHANGED vars PROVE Goal
  BY <1>31, <1>1, Silent DEF vars
<1>32. Goal
  BY <1>4, <1>5, <1>6, <1>7, <1>8, <1>9, <1>10, <1>11, <1>12, <1>13, <1>14, <1>15, <1>16, <1>17, <1>18, <1>19, <1>20, <1>21, <1>22, <1>23, <1>24, <1>25, <1>26, <1>27, <1>28, <1>29, <1>30, <1>31 DEF Next, WorkerStep
<1>33. QED
  BY <1>32 DEF Goal

\* Up to the first store fault a single instance implements the abstract life
\* cycle of JobLifecycle, whatever crashes, stops and restarts happen.
THEOREM Refinement == Single => (Spec => ImplementsLifecycle)
<1> SUFFICES ASSUME Single PROVE Spec => ImplementsLifecycle
  OBVIOUS
<1>1. IInv /\ [Next]_vars => [faults' = 0 => Lifecycle!Next]_(Lifecycle!vars)
  <2> SUFFICES ASSUME IInv, [Next]_vars, faults' = 0
               PROVE  [Lifecycle!Next]_(Lifecycle!vars)
    OBVIOUS
  <2>1. faults = 0
    BY FaultsNeverDrop DEF IInv, TInv, TypeOK
  <2>2. QED
    BY <2>1, RefineStep
<1>2. QED
  BY <1>1, Inductive, RefineInit, PTL DEF Spec, ImplementsLifecycle

=============================================================================
