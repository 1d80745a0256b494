----------------------------- MODULE MCRegistry -----------------------------
(* Instances of Registry for TLC. *)
EXTENDS Registry, TLC

Symmetric == Permutations(Ops)

\* Every operation is of an organization of its own: none shares a counter with another.
Apart == \A p, q \in Ops : p # q => org[p] # org[q]
ApartSpec == Init /\ Apart /\ [][Next]_vars
=============================================================================
