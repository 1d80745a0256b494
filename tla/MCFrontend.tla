----------------------------- MODULE MCFrontend -----------------------------
(* An instance of Frontend for TLC. *)
EXTENDS Frontend, TLC

CONSTANTS a, b, c, d       \* two, three, ... of whatever a part is about

\* The frame of a design has a file and a node; two files of a project share a node id.
Frame(file, node) == [file |-> file, node |-> node]
MCFramesOf == (a :> <<Frame(a, c), Frame(a, d)>>) @@ (b :> <<Frame(a, c), Frame(b, c)>>)

\* A system that fails a check as it is, and one that does not.
Known(p) == [sensitive |-> p, covered |-> TRUE, publishes |-> FALSE, owned |-> TRUE]
MCFacts == (a :> Known(TRUE)) @@ (b :> Known(FALSE))

\* A policy of each system, and a filter that hides every other event.
MCSystemOf == (c :> a) @@ (d :> b)
MCMatches == (a :> 1..4) @@ (b :> {2, 4})
=============================================================================
