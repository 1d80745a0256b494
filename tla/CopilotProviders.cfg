\* Two requests at a time, two providers, a retry, circuits that open at the
\* first failure, a store fault.
SPECIFICATION FairSpec
CONSTANTS
    Users = {ann}
    Requests = {r1, r2}
    Order <- TwoProviders
    Configured <- All
    Quotas <- Unlimited
    PlatformMonthly = 5
    PlatformCap = 25
    Retries = 1
    Threshold = 1
    MaxAsked = 2
    MaxDay = 1
    MaxFaults = 1
    NoUser = NoUser
INVARIANTS
    ChargesAgree
PROPERTIES
    NoCallWhileOpen
    EveryRequestAnswered
