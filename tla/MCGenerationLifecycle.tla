------------------------ MODULE MCGenerationLifecycle ------------------------
(* Instances of GenerationLifecycle for TLC: the workloads the runs use.     *)
EXTENDS GenerationLifecycle, TLC

CONSTANTS e1, e2, e3, p1, p2, k1, k2, k3, t1, t2

\* Every attempt is addressed to p1.
OneProject == [e \in Execs |-> p1]
\* The first attempt is alone on p1, the others are addressed to p2.
TwoProjects == [e \in Execs |-> IF e = e1 THEN p1 ELSE p2]

\* e1 and e2 share a key; e3 has its own.
SharedKey == [e \in Execs |-> IF e = e3 THEN k2 ELSE k1]
\* No two attempts share a key.
OwnKeys == [e \in Execs |-> IF e = e1 THEN k1 ELSE IF e = e2 THEN k2 ELSE k3]
\* e1 has its own key; the others share one.
FreshKey == [e \in Execs |-> IF e = e1 THEN k1 ELSE k2]

OneCaller == [e \in Execs |-> t1]
\* e3 is another caller's request.
TwoCallers == [e \in Execs |-> IF e = e3 THEN t2 ELSE t1]

Symmetry == Permutations(Instances)
=============================================================================
