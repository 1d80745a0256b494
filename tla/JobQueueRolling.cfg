SPECIFICATION Spec
CONSTANTS
    Jobs <- MCOneJob
    AwsJobs <- MCNoJobs
    Instances = {a, b}
    RecoverLimit = 50
    NoJob = NoJob
    NoInstance = NoInstance
    MaxFaults = 1
    MaxInterruptions = 2
INVARIANTS
    RollingAgreement
    VerdictsPerRun
\* All jobs submitted and finished, and the bounds spent: the system is at rest.
CHECK_DEADLOCK FALSE
