----------------------------- MODULE MCJobQueue -----------------------------
(* Instances of JobQueue for TLC. *)
EXTENDS JobQueue

MCJobs == 1..2
MCOneJob == {1}
MCAwsJobs == {2}
MCNoJobs == {}

=============================================================================
