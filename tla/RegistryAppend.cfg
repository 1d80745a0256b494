\* One instance, two organizations, an operation of each.
\* Operations are finitely many: a behaviour may end.
SPECIFICATION ApartSpec
CHECK_DEADLOCK FALSE
CONSTANTS
    Ops = {p1, p2}
    Orgs = {acme, bolt}
    Instances = {i1}
    MaxFaults = 0
    NoOp = NoOp
PROPERTIES
    AuditIsAppendOnly
