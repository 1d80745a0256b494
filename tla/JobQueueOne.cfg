SPECIFICATION FairSpec
CONSTANTS
    Jobs <- MCJobs
    AwsJobs <- MCAwsJobs
    Instances = {a}
    RecoverLimit = 1
    NoJob = NoJob
    NoInstance = NoInstance
    MaxFaults = 1
    MaxInterruptions = 2
INVARIANTS
    TypeOK
    JobScanAgreement
    NoLostJob
    OneVerdict
    RerunBound
PROPERTIES
    EveryJobFinishes
    ImplementsLifecycle
\* All jobs submitted and finished, and the bounds spent: the system is at rest.
CHECK_DEADLOCK FALSE
