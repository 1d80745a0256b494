\* Two tabs, of which one is at a page that queries.
\* What users do is bounded: a behaviour may end.
SPECIFICATION Spec
CHECK_DEADLOCK FALSE
CONSTANTS
    ann = ann
    ben = ben
    acme = acme
    bolt = bolt
    Tabs = {t1, t2}
    Users = {ann, ben}
    Orgs = {acme, bolt}
    Viewers = {t1}
    Member <- MCMember
    Primary <- MCPrimary
    Nobody = Nobody
    NoOrg = NoOrg
    NoData = NoData
    MaxActs = 2
INVARIANTS
    TypeOK
    ShownIsOfActiveOrganization
    KeyIsOfAccount
