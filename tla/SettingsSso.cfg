\* One user of two organizations, in one tab: no saving elsewhere is needed.
\* What users do is bounded: a behaviour may end.
SPECIFICATION Spec
CHECK_DEADLOCK FALSE
CONSTANTS
    Orgs = {o1, o2}
    NoOrg = NoOrg
    OtherTabs = FALSE
    MaxActs = 4
INVARIANTS
    CertificateStaysHome
