---------------------------- MODULE JobLifecycle ----------------------------
(***************************************************************************)
(* What the background queue promises of a job, with no process, queue or  *)
(* crash in sight: it waits, runs, ends in one verdict, may go back to     *)
(* waiting until it has ended, and only announces the verdict it has.      *)
(* docs/architecture.md, "Background jobs", states the same life cycle.    *)
(***************************************************************************)
CONSTANT Jobs

VARIABLES status, announced
vars == <<status, announced>>

Verdicts == {"completed", "failed"}

Init ==
    /\ status = [j \in Jobs |-> "absent"]
    /\ announced = [j \in Jobs |-> {}]

Move(j, from, to) ==
    /\ status[j] = from
    /\ status' = [status EXCEPT ![j] = to]
    /\ UNCHANGED announced

Accept(j) == Move(j, "absent", "pending")
Begin(j) == Move(j, "pending", "running")
Requeue(j) == Move(j, "running", "pending")
Finish(j) == \E v \in Verdicts : Move(j, "running", v)

Announce(j) ==
    /\ status[j] \in Verdicts
    /\ announced' = [announced EXCEPT ![j] = @ \cup {status[j]}]
    /\ UNCHANGED status

Next ==
    \E j \in Jobs : Accept(j) \/ Begin(j) \/ Requeue(j) \/ Finish(j) \/ Announce(j)

Spec == Init /\ [][Next]_vars

=============================================================================
