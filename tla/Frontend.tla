----------------------------- MODULE Frontend ------------------------------
(***************************************************************************)
(* The session and the pages of the frontend, next to each other.  The     *)
(* modules of two parts have no state in common, so that one behaviour is  *)
(* about one of them: `part' is chosen initially, and the state of that    *)
(* part moves.  A part keeps its variables in s1, s2 and so on, as far as  *)
(* it needs them.                                                          *)
(***************************************************************************)
EXTENDS Naturals

CONSTANTS
    none,                                          \* no such thing, for every part
    Tabs, Users, SessionActs,                      \* Session
    Addresses, SsoAddresses, Enforcing, MaxTyped,  \* SignIn
    Recent, Older, DefaultOrg, MaxVisits, ScanStarts,     \* Scans
    Targets, FramesOf, MaxFlying,                  \* AppScans
    Systems,                                       \* Systems, PolicyChat and Policies
    Registered, Facts, SystemStarts,               \* Systems
    MaxTurns, MaxMoves,                            \* PolicyChat
    Library, SystemOf, Checks, MaxWrites,          \* Policies
    Orgs, OtherTabs,                               \* OrgSettings
    ScansDone, Last, ComplianceActs,               \* Compliance
    Urls, McpActs,                                 \* McpServers
    Cards, Redirects, TestedCards, Slack,          \* Integrations
    Filters, All, Matches, PageSize, Initial, MaxEvents, LogActs,   \* EventLog
    MaxActs                                        \* the other cards of the settings page

VARIABLES
    part, s1, s2, s3, s4, s5, s6, s7, s8, s9, s10, s11, s12, s13, s14, s15, s16, s17, s18, s19

Auth == INSTANCE Session WITH
    Nobody <- none, MaxActs <- SessionActs,
    account <- s1, cookie <- s2, calls <- s3, user <- s4, path <- s5, step <- s6,
    disturbed <- s7, acts <- s8

Login == INSTANCE SignIn WITH
    NoAddress <- none,
    devToken <- s1, page <- s2, signedIn <- s3, loaded <- s4, email <- s5, timer <- s6,
    inquiries <- s7, discovery <- s8, discovering <- s9, submitting <- s10, failed <- s11,
    code <- s12, run <- s13, latest <- s14, mistyped <- s15, upset <- s16, typed <- s17

Scan == INSTANCE Scans WITH
    NoScan <- none, MaxStarts <- ScanStarts,
    at <- s1, link <- s2, handled <- s3, replacing <- s4, pending <- s5, autoStart <- s6,
    status <- s7, policies <- s8, history <- s9, view <- s10, configOrg <- s11,
    chosen <- s12, current <- s13, timer <- s14, starts <- s15, gets <- s16, visits <- s17,
    owed <- s18, overlapped <- s19

Apps == INSTANCE AppScans WITH
    NoTarget <- none,
    app <- s1, enabled <- s2, awsConnected <- s3, awsCall <- s4, awsListed <- s5,
    awsOpen <- s6, panel <- s7, url <- s8, frames <- s9, selected <- s10, result <- s11,
    scanState <- s12, fetching <- s13, scanning <- s14, raced <- s15

Sys == INSTANCE Systems WITH
    NoSystem <- none, NoScan <- none, MaxStarts <- SystemStarts,
    stored <- s1, listed <- s2, fetch <- s3, fetched <- s4, loaded <- s5, linked <- s6,
    view <- s7, details <- s8, modal <- s9, scanItem <- s10, asked <- s11,
    recommended <- s12, recommends <- s13, creates <- s14, patches <- s15, starts <- s16,
    stale <- s17, crossed <- s18

Chat == INSTANCE PolicyChat WITH
    NoSystem <- none,
    filed <- s1, cached <- s2, fetch <- s3, open <- s4, first <- s5, chosen <- s6,
    pending <- s7, typing <- s8, of <- s9, mine <- s10, answering <- s11, filing <- s12,
    saving <- s13, moves <- s14, mixed <- s15, disturbed <- s16,
    loaded <- s17, invalid <- s18, answer <- s19

Pol == INSTANCE Policies WITH
    NoCheck <- none,
    stored <- s1, listed <- s2, todo <- s3, got <- s4, fetching <- s5, loaded <- s6,
    writes <- s7, tab <- s8, enabled <- s9, shown <- s10, checkFetch <- s11,
    checkGot <- s12, checksLoaded <- s13, flips <- s14, toggling <- s15, count <- s16,
    stale <- s17, staleChecks <- s18

Org == INSTANCE OrgSettings WITH
    NoOrg <- none,
    active <- s1, key <- s2, config <- s3, name <- s4, cached <- s5, flight <- s6,
    form <- s7, saving <- s8, savingOrg <- s9, asking <- s10, acts <- s11, astray <- s12

Comp == INSTANCE Compliance WITH
    NoScan <- none, Scans <- ScansDone, MaxActs <- ComplianceActs,
    attested <- s1, stored <- s2, latest <- s3, selected <- s4, cached <- s5, loading <- s6,
    refreshes <- s7, attests <- s8, acts <- s9, at <- s10, raced <- s11, crossed <- s12

Mcp == INSTANCE McpServers WITH
    MaxActs <- McpActs,
    needs <- s1, servers <- s2, jobs <- s3, spent <- s4, place <- s5, asked <- s6,
    list <- s7, fetch <- s8, busy <- s9, connecting <- s10, modal <- s11, acts <- s12,
    removed <- s13, granted <- s14, crossed <- s15, doubled <- s16, raced <- s17

Card == INSTANCE Integrations WITH
    NoCard <- none, Tested <- TestedCards,
    conn <- s1, channel <- s2, jobs <- s3, place <- s4, address <- s5, notice <- s6,
    shown <- s7, fetch <- s8, busy <- s9, testing <- s10, result <- s11, timers <- s12,
    channels <- s13, acts <- s14, elsewhere <- s15, raced <- s16, reread <- s17, astray <- s18

Hook == INSTANCE Webhooks WITH
    hooks <- s1, jobs <- s2, list <- s3, fetch <- s4, creating <- s5, secret <- s6,
    testId <- s7, result <- s8, timers <- s9, acts <- s10, seen <- s11, want <- s12,
    hasty <- s13, mixed <- s14, lost <- s15

Log == INSTANCE EventLog WITH
    MaxActs <- LogActs,
    log <- s1, filter <- s2, page <- s3, cached <- s4, old <- s5, fetch <- s6,
    selected <- s7, generator <- s8, making <- s9, acts <- s10, aim <- s11, seen <- s12,
    last <- s13, straight <- s14

ASSUME FrontendAssumption ==
    /\ Auth!SessionAssumption /\ Login!AddressesAssumption
    /\ Scan!ScanIdsAssumption /\ Apps!FramesAssumption
    /\ Sys!SystemsAssumption /\ Chat!ChatAssumption
    /\ Pol!LibraryAssumption /\ Org!SettingsAssumption
    /\ Comp!ComplianceAssumption /\ Mcp!McpAssumption
    /\ Card!IntegrationsAssumption /\ Hook!WebhooksAssumption
    /\ Log!LogAssumption

Rest19 == <<s19>>
Rest18 == <<s18, Rest19>>
Rest17 == <<s17, Rest18>>
Rest16 == <<s16, Rest17>>
Rest15 == <<s15, Rest16>>
Rest13 == <<s13, s14, Rest15>>
Rest9 == <<s9, s10, s11, s12, Rest13>>
Slots == <<s1, s2, s3, s4, s5, s6, s7, s8, Rest9>>

Unused19 == s19 = none
Unused18 == s18 = none /\ Unused19
Unused17 == s17 = none /\ Unused18
Unused16 == s16 = none /\ Unused17
Unused15 == s15 = none /\ Unused16
Unused13 == s13 = none /\ s14 = none /\ Unused15
Unused9 == s9 = none /\ s10 = none /\ s11 = none /\ s12 = none /\ Unused13

FrontendInit ==
    \/ part = "session" /\ Auth!Init /\ Unused9
    \/ part = "signIn" /\ Login!Init /\ Unused18
    \/ part = "scans" /\ Scan!Init
    \/ part = "appScans" /\ Apps!Init /\ Unused16
    \/ part = "systems" /\ Sys!Init /\ Unused19
    \/ part = "policyChat" /\ Chat!Init
    \/ part = "policies" /\ Pol!Init /\ Unused19
    \/ part = "orgSettings" /\ Org!Init /\ Unused13
    \/ part = "compliance" /\ Comp!Init /\ Unused13
    \/ part = "mcpServers" /\ Mcp!Init /\ Unused18
    \/ part = "integrations" /\ Card!Init /\ Unused19
    \/ part = "webhooks" /\ Hook!Init /\ Unused16
    \/ part = "eventLog" /\ Log!Init /\ Unused15

FrontendNext ==
    \/ part = "session" /\ Auth!Next /\ UNCHANGED <<part, Rest9>>
    \/ part = "signIn" /\ Login!Next /\ UNCHANGED <<part, Rest18>>
    \/ part = "scans" /\ Scan!Next /\ UNCHANGED part
    \/ part = "appScans" /\ Apps!Next /\ UNCHANGED <<part, Rest16>>
    \/ part = "systems" /\ Sys!Next /\ UNCHANGED <<part, Rest19>>
    \/ part = "policyChat" /\ Chat!Next /\ UNCHANGED part
    \/ part = "policies" /\ Pol!Next /\ UNCHANGED <<part, Rest19>>
    \/ part = "orgSettings" /\ Org!Next /\ UNCHANGED <<part, Rest13>>
    \/ part = "compliance" /\ Comp!Next /\ UNCHANGED <<part, Rest13>>
    \/ part = "mcpServers" /\ Mcp!Next /\ UNCHANGED <<part, Rest18>>
    \/ part = "integrations" /\ Card!Next /\ UNCHANGED <<part, Rest19>>
    \/ part = "webhooks" /\ Hook!Next /\ UNCHANGED <<part, Rest16>>
    \/ part = "eventLog" /\ Log!Next /\ UNCHANGED <<part, Rest15>>

FrontendSpec == FrontendInit /\ [][FrontendNext]_<<part, Slots>>

-----------------------------------------------------------------------------
(* Properties.                                                             *)

\* The type invariants of the parts.
FrontendTypeOK ==
    /\ part = "session" => Auth!TypeOK
    /\ part = "signIn" => Login!TypeOK
    /\ part = "scans" => Scan!TypeOK
    /\ part = "appScans" => Apps!TypeOK
    /\ part = "systems" => Sys!TypeOK
    /\ part = "policyChat" => Chat!TypeOK
    /\ part = "policies" => Pol!TypeOK
    /\ part = "orgSettings" => Org!TypeOK
    /\ part = "compliance" => Comp!TypeOK
    /\ part = "mcpServers" => Mcp!TypeOK
    /\ part = "integrations" => Card!TypeOK
    /\ part = "webhooks" => Hook!TypeOK
    /\ part = "eventLog" => Log!TypeOK

\* Session: the cookie that admits pages is that of the account they act for.
CookieFollowsAccount == part = "session" => Auth!CookieFollowsAccount

\* SignIn: the login form goes by a lookup of the address it shows; the one-time code of single
\* sign-on is not used up in vain, and a sign-in that has come to nothing says so.
SignInKeepsAnswers ==
    part = "signIn" => Login!VerdictFitsAddress /\ Login!CodeNotWasted /\ Login!EndIsShown

\* Scans: progress is shown for a scan that is being made, and a link starts one scan.
ScansFollowRequests ==
    part = "scans" => Scan!ProgressFollowsScan /\ Scan!IntentRunsOnce

\* AppScans: results and scores stand at the designs they are of.
ScoresFitFrames == part = "appScans" => Apps!ScoresFitFrames

\* Systems, Policies, OrgSettings and Compliance: when nothing is in flight, a page shows what
\* the server has stored for what the page names.
PagesFollowServer ==
    /\ part = "systems" => Sys!ListFollowsServer /\ Sys!RecommendationFits
    /\ part = "policies" => Pol!LibraryFollowsServer
    /\ part = "orgSettings" => Org!SettledShowsActive
    /\ part = "compliance" => Comp!EvaluationFits

\* PolicyChat: a conversation is filed with its system, whole, and nothing said is lost to view.
ConversationsKept ==
    part = "policyChat" => Chat!TurnsFiledWhole /\ Chat!ConversationKept

\* McpServers, Integrations and Webhooks: the cards of the settings page show what is stored,
\* and what is stored keeps what was done.
CardsFollowServer ==
    /\ part = "mcpServers" => Mcp!RegistryKeepsWork
    /\ part = "integrations" => Card!CardsFollowServer
    /\ part = "webhooks" => Hook!WebhooksFollow

\* EventLog: who reads the log from the first page to the last misses no event.
ReadingMissesNothing == part = "eventLog" => Log!ReadingMissesNothing
=============================================================================
