--------------------------- MODULE MCStudioExport ---------------------------
(* Instances of StudioExport for TLC: where the clients connect.             *)
EXTENDS StudioExport, TLC, FiniteSets

CONSTANTS p1, p2, c1, c2

\* Every client on a process of its own, or all on one.
OwnProcess == (c1 :> p1) @@ (c2 :> p2)
OneProcess == [c \in Clients |-> p1]

\* The two sides, a client with its process, are alike: HomeOf joins c1 to p1
\* and c2 to p2 alone.
OtherSide == (p1 :> p2) @@ (p2 :> p1) @@ (c1 :> c2) @@ (c2 :> c1)
SameSide == [x \in {p1, p2, c1, c2} |-> x]
Symmetry == {f @@ g : f \in Permutations(Requests), g \in {SameSide, OtherSide}}
=============================================================================
