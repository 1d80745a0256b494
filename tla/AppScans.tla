------------------------------ MODULE AppScans ------------------------------
(***************************************************************************)
(* The other parts of the scans page: the hub of integrations              *)
(* (IntegrationsHub.tsx), AWS scans (AwsScanSection), brand scans of Figma *)
(* designs (FigmaBrandScanPanel.tsx), and the panel that every app without *)
(* a scanner of its own gets (AppScanPanel), which only waits.             *)
(*                                                                         *)
(* The state of AWS scans lives in the page; that of the two panels goes   *)
(* when the user goes back to the hub.                                     *)
(***************************************************************************)
EXTENDS Naturals, FiniteSets, Sequences, SequencesExt

CONSTANTS
    Targets,       \* the Figma files and projects whose URL the user may paste
    FramesOf,      \* the frames of each, in order: their file and their node
    NoTarget,
    MaxFlying      \* bound: requests of the Figma panel in flight

Apps == {"aws", "figma", "other"}
Frames == UNION {Range(FramesOf[t]) : t \in Targets}

FramesAssumption ==
    /\ NoTarget \notin Targets
    /\ DOMAIN FramesOf = Targets
    /\ \A t \in Targets : FramesOf[t] \in Seq(Frames)
    /\ \A f \in Frames : DOMAIN f = {"file", "node"}

VARIABLES
    app,          \* hub, or the app whose part is shown
    enabled,      \* the hub's switches, in localStorage too
    awsConnected,
    awsCall,      \* awsScansApi.trigger is in flight
    awsListed,    \* the list of AWS scans is not empty
    awsOpen,      \* selectedAwsScan: a scan's results are shown
    panel,        \* AppScanPanel: idle, scanning, done
    url,          \* fileUrl
    frames, selected, result, scanState,
    fetching,     \* requests for frames in flight, by target
    scanning,     \* brand scans in flight: the frames they were sent
    raced         \* history: a fetch or a restart overtook a request of the panel

awsVars == <<awsConnected, awsCall, awsListed, awsOpen>>
figmaVars == <<url, frames, selected, result, scanState, fetching, scanning, raced>>
vars == <<app, enabled, awsVars, panel, figmaVars>>

TypeOK ==
    /\ app \in Apps \cup {"hub"}
    /\ enabled \subseteq Apps
    /\ awsConnected \in BOOLEAN /\ awsCall \in BOOLEAN /\ awsListed \in BOOLEAN /\ awsOpen \in BOOLEAN
    /\ panel \in {"idle", "scanning", "done"}
    /\ url \in Targets \cup {NoTarget}
    /\ frames \in Seq(Frames) /\ selected \subseteq Range(frames)
    /\ result \subseteq Frames
    /\ scanState \in {"idle", "loading-frames", "scanning", "done"}
    /\ fetching \subseteq Targets
    /\ scanning \in SUBSET (SUBSET Frames)
    /\ raced \in BOOLEAN

Init ==
    /\ app = "hub"
    /\ enabled \in {Apps, Apps \ {"figma"}}
    /\ awsConnected \in BOOLEAN /\ awsListed \in BOOLEAN /\ awsCall = FALSE /\ awsOpen = FALSE
    /\ panel = "idle"
    /\ url = NoTarget /\ frames = <<>> /\ selected = {} /\ result = {} /\ scanState = "idle"
    /\ fetching = {} /\ scanning = {} /\ raced = FALSE

-----------------------------------------------------------------------------
(* The hub.                                                                *)

Toggle(a) ==
    /\ app = "hub"
    /\ enabled' = IF a \in enabled THEN enabled \ {a} ELSE enabled \cup {a}
    /\ UNCHANGED <<app, awsVars, panel, figmaVars>>

OpenApp(a) ==
    /\ app = "hub" /\ a \in enabled
    /\ app' = a
    /\ UNCHANGED <<enabled, awsVars, panel, figmaVars>>

\* The panels are unmounted, and answers to what they asked are for nobody.
BackToHub ==
    /\ app # "hub"
    /\ app' = "hub"
    /\ panel' = "idle"
    /\ url' = NoTarget /\ frames' = <<>> /\ selected' = {} /\ result' = {} /\ scanState' = "idle"
    /\ fetching' = {} /\ scanning' = {} /\ raced' = FALSE
    /\ UNCHANGED <<enabled, awsVars>>

-----------------------------------------------------------------------------
(* AWS.                                                                    *)

\* The button of the top bar, or that of an empty list.
RunAws ==
    /\ app = "aws" /\ awsConnected /\ ~awsOpen /\ ~awsCall
    /\ awsCall' = TRUE
    /\ UNCHANGED <<app, enabled, awsConnected, awsListed, awsOpen, panel, figmaVars>>

AwsEnds ==
    /\ awsCall
    /\ awsCall' = FALSE
    /\ \/ awsOpen' = TRUE /\ awsListed' = TRUE
       \/ UNCHANGED <<awsOpen, awsListed>>
    /\ UNCHANGED <<app, enabled, awsConnected, panel, figmaVars>>

\* A scan of the list, which a running scan hides; and back.
OpenAws ==
    /\ app = "aws"
    /\ \/ awsConnected /\ awsListed /\ ~awsCall /\ ~awsOpen /\ awsOpen' = TRUE
       \/ awsOpen /\ awsOpen' = FALSE
    /\ UNCHANGED <<app, enabled, awsConnected, awsCall, awsListed, panel, figmaVars>>

-----------------------------------------------------------------------------
(* AppScanPanel: 1.2 seconds later the scan is reported done; none is made.*)

RunPanel == app = "other" /\ panel # "scanning" /\ panel' = "scanning"
PanelDone == panel = "scanning" /\ panel' = "done"
StepPanel == (RunPanel \/ PanelDone) /\ UNCHANGED <<app, enabled, awsVars, figmaVars>>

-----------------------------------------------------------------------------
(* Figma.                                                                  *)

Flying == Cardinality(fetching) + Cardinality(scanning)
EmptyPanel == frames = <<>> /\ scanState # "scanning" /\ result = {}

PasteUrl(t) ==
    /\ app = "figma" /\ EmptyPanel /\ t # url
    /\ url' = t
    /\ UNCHANGED <<app, enabled, awsVars, panel, frames, selected, result, scanState, fetching,
                   scanning, raced>>

\* The button waits for the frames, the Enter key does not.
FetchFrames ==
    /\ app = "figma" /\ EmptyPanel /\ url # NoTarget /\ url \notin fetching /\ Flying < MaxFlying
    /\ scanState' = "loading-frames"
    /\ result' = {}
    /\ fetching' = fetching \cup {url}
    /\ raced' = (raced \/ fetching # {} \/ scanning # {})
    /\ UNCHANGED <<app, enabled, awsVars, panel, url, frames, selected, scanning>>

\* Mutant: what was selected before stays selected.
FramesFetchedToo(t) ==
    /\ t \in fetching
    /\ fetching' = fetching \ {t}
    /\ scanState' = "idle"
    /\ \/ /\ frames' = FramesOf[t]
          /\ selected' = selected \cup Range(FramesOf[t])
       \/ UNCHANGED <<frames, selected>>
    /\ UNCHANGED <<app, enabled, awsVars, panel, url, result, scanning, raced>>

\* Of a project, all frames of the files that could be read; all are selected.
FramesFetched(t) ==
    /\ t \in fetching
    /\ fetching' = fetching \ {t}
    /\ scanState' = "idle"
    /\ \/ /\ frames' = FramesOf[t]
          /\ selected' = Range(FramesOf[t])
       \/ UNCHANGED <<frames, selected>>
    /\ UNCHANGED <<app, enabled, awsVars, panel, url, result, scanning, raced>>

\* toggleSelect and toggleAll.
Select ==
    /\ app = "figma" /\ frames # <<>>
    /\ \/ \E f \in Range(frames) :
             selected' = IF f \in selected THEN selected \ {f} ELSE selected \cup {f}
       \/ selected' = IF Cardinality(selected) = Len(frames) THEN {} ELSE Range(frames)
    /\ UNCHANGED <<app, enabled, awsVars, panel, url, frames, result, scanState, fetching, scanning, raced>>

\* handleScan: one request per file, all awaited together.
ScanFrames ==
    /\ app = "figma" /\ frames # <<>> /\ selected # {} /\ scanState # "scanning" /\ Flying < MaxFlying
    /\ scanState' = "scanning"
    /\ scanning' = scanning \cup {selected \cap Range(frames)}
    /\ UNCHANGED <<app, enabled, awsVars, panel, url, frames, selected, result, fetching, raced>>

FramesScanned(s) ==
    /\ s \in scanning
    /\ scanning' = scanning \ {s}
    /\ scanState' = "done"
    /\ result' \in {s, result}
    /\ UNCHANGED <<app, enabled, awsVars, panel, url, frames, selected, fetching, raced>>

\* Mutant: the results stay.
RestartKeepsResult ==
    /\ app = "figma" /\ frames # <<>>
    /\ url' = NoTarget /\ frames' = <<>> /\ selected' = {} /\ scanState' = "idle"
    /\ raced' = (raced \/ fetching # {} \/ scanning # {})
    /\ UNCHANGED <<app, enabled, awsVars, panel, result, fetching, scanning>>

\* Clear & Restart is offered during a scan too.
Restart ==
    /\ app = "figma" /\ frames # <<>>
    /\ url' = NoTarget /\ frames' = <<>> /\ selected' = {} /\ result' = {} /\ scanState' = "idle"
    /\ raced' = (raced \/ fetching # {} \/ scanning # {})
    /\ UNCHANGED <<app, enabled, awsVars, panel, fetching, scanning>>

\* The score a frame is shown with: a result names its node, not its file.
NodesScanned == {r.node : r \in result}
Badged(f) ==
    /\ f.node \in NodesScanned
    /\ LET first == SelectInSeq(frames, LAMBDA g : g.node = f.node)
       IN  frames[first].file = f.file

Next ==
    \/ BackToHub \/ \E a \in Apps : Toggle(a) \/ OpenApp(a)
    \/ RunAws \/ AwsEnds \/ OpenAws \/ StepPanel
    \/ \E t \in Targets : PasteUrl(t) \/ FramesFetched(t)
    \/ FetchFrames \/ Select \/ ScanFrames \/ Restart
    \/ \E s \in scanning : FramesScanned(s)

Spec == Init /\ [][Next]_vars

-----------------------------------------------------------------------------
(* Properties.                                                             *)

\* Unless an answer was overtaken, the results on the page are of frames on the page, whoever
\* has been shown results can load other designs, and a score stands at the frame it was given
\* for if no other frame has its node id (two files of a project may share ids).
ScoresFitFrames ==
    ~raced =>
        /\ result \subseteq Range(frames)
        /\ frames = <<>> => EmptyPanel
        /\ \A f \in Range(frames) :
              (\A g \in Range(frames) : g.node = f.node => g = f) => (Badged(f) <=> f \in result)

-----------------------------------------------------------------------------
(* The inductive invariant.                                                *)

\* Unless an answer was overtaken, what is on the page and what is on its way to it is of the
\* frames on the page, and frames are fetched only by an empty page, one request at a time.
PanelInv ==
    ~raced =>
        /\ result \subseteq Range(frames)
        /\ \A s \in scanning : s \subseteq Range(frames)
        /\ \A t \in fetching : frames = <<>> /\ scanning = {} /\ fetching = {t}
        /\ frames = <<>> => scanState # "scanning"

IInv == TypeOK /\ PanelInv
=============================================================================
