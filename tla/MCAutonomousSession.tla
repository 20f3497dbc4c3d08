------------------------- MODULE MCAutonomousSession -------------------------
(* Instances of AutonomousSession for TLC: who serves the requests.          *)
EXTENDS AutonomousSession

CONSTANTS p1, h1, h2

OneProcess == [h \in Handlers |-> p1]
=============================================================================
