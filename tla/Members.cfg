\* Two users whose workspace ids collide and a third, two requests at a time, a store fault.
SPECIFICATION Spec
CONSTANTS
    Users = {ann, bob, cat}
    Founders = {ann, bob}
    Requests = {r1, r2}
    Invites = {i1}
    RequestedRoles = {"admin"}
    MaxFaults = 1
    NoUser = NoUser
    NoInvite = NoInvite
SYMMETRY
    Symmetric
INVARIANTS
    TypeOK
    FounderStaysOwner
    NoStandingInvite
    OwnersLeaveOneByOne
