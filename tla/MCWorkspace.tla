---------------------------- MODULE MCWorkspace ----------------------------
(* One user with two organizations, and one with the second of them alone. *)
EXTENDS Workspace, TLC

CONSTANTS ann, ben, acme, bolt

MCMember == (ann :> {acme, bolt}) @@ (ben :> {bolt})
MCPrimary == (ann :> acme) @@ (ben :> bolt)
=============================================================================
