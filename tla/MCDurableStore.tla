--------------------------- MODULE MCDurableStore ---------------------------
(* Instances of DurableStore for TLC: the batches and refreshes of callers.  *)
EXTENDS DurableStore, TLC

CONSTANTS k1, k2, c1

OneCollection == [k \in Keys |-> c1]

\* A claim together with what it guards, and its release.
ClaimAndPut == {(k1 :> "add") @@ (k2 :> "put"), k1 :> "drop"}
\* A claim and its conditional release.
ClaimOne == {k1 :> "add", k1 :> "take"}

AllCollections == {Collections}

Symmetry == Permutations(Procs)
=============================================================================
