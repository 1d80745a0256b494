\* Two instances, three requests, two keys, any endpoint each, two faults or crashes.
\* Requests are finitely many: a behaviour may end.
SPECIFICATION Spec
CHECK_DEADLOCK FALSE
CONSTANTS
    Requests = {r1, r2, r3}
    Keys = {k1, k2}
    Instances = {i1, i2}
    Served <- MCAllEndpoints
    MaxFaults = 2
    NoRequest = NoRequest
SYMMETRY
    Symmetric
INVARIANTS
    TypeOK
    OneEffect
    ReplyNamesEffect
    StuckOnlyAfterFailure
    EventLoopSerialises
