\* Two instances, two organizations, three operations, one of them may be cut short.
\* Operations are finitely many: a behaviour may end.
SPECIFICATION Spec
CHECK_DEADLOCK FALSE
CONSTANTS
    Ops = {p1, p2, p3}
    Orgs = {acme, bolt}
    Instances = {i1, i2}
    MaxFaults = 1
    NoOp = NoOp
SYMMETRY
    Symmetric
INVARIANTS
    TypeOK
    UpdateSeesLatest
    SystemIdsDistinct
    AuditTrail
