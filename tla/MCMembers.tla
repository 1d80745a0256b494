----------------------------- MODULE MCMembers -----------------------------
(* Instances of Members for TLC. *)
EXTENDS Members, TLC

Symmetric == Permutations(Requests) \cup Permutations(Invites) \cup Permutations(Founders)

=============================================================================
