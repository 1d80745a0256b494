\* Two users whose workspace ids collide, two requests at a time.
SPECIFICATION Spec
CONSTANTS
    Users = {ann, bob}
    Founders = {ann, bob}
    Requests = {r1, r2}
    Invites = {i1}
    RequestedRoles = {"admin", "viewer"}
    MaxFaults = 1
    NoUser = NoUser
    NoInvite = NoInvite
SYMMETRY
    Symmetric
INVARIANTS
    KeepsAnOwner
