\* Every part of the frontend but the workspace.
\* What users do is bounded: a behaviour may end.
SPECIFICATION FrontendSpec
CHECK_DEADLOCK FALSE
CONSTANTS
    a = a
    b = b
    c = c
    d = d
    none = none
    Tabs = {c, d}
    Users = {a, b}
    SessionActs = 2
    Addresses = {a, b}
    SsoAddresses = {a}
    Enforcing = {a}
    MaxTyped = 3
    Recent = {}
    Older = {a}
    DefaultOrg = FALSE
    MaxVisits = 2
    ScanStarts = 2
    Targets = {a, b}
    FramesOf <- MCFramesOf
    MaxFlying = 2
    Systems = {a, b}
    Registered = {a}
    Facts <- MCFacts
    SystemStarts = 3
    MaxTurns = 2
    MaxMoves = 1
    Library = {c, d}
    SystemOf <- MCSystemOf
    Checks = {a, b}
    MaxWrites = 2
    Orgs = {a, b}
    OtherTabs = TRUE
    ScansDone = {a, b}
    Last = 2
    ComplianceActs = 3
    Urls = {a}
    McpActs = 5
    Cards = {a, b}
    Redirects = {a}
    TestedCards = {a, b}
    Slack = a
    Filters = {a, b}
    All = a
    Matches <- MCMatches
    PageSize = 1
    Initial = 3
    MaxEvents = 4
    LogActs = 1
    MaxActs = 4
INVARIANTS
    FrontendTypeOK
    CookieFollowsAccount
    SignInKeepsAnswers
    ScansFollowRequests
    ScoresFitFrames
    PagesFollowServer
    ConversationsKept
    CardsFollowServer
    ReadingMissesNothing
