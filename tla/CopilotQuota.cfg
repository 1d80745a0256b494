\* Two users, two requests at a time, one provider, changing quotas, two days.
SPECIFICATION Spec
CONSTANTS
    Users = {ann, bob}
    Requests = {r1, r2}
    Order <- OneProvider
    Configured <- All
    Quotas <- TwoLimits
    PlatformMonthly = 5
    PlatformCap = 25
    Retries = 0
    Threshold = 2
    MaxAsked = 4
    MaxDay = 2
    MaxFaults = 0
    NoUser = NoUser
SYMMETRY
    Symmetric
INVARIANTS
    TypeOK
    MonthlyOvershoot
    DailyOvershoot
