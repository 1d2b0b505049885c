------------------------- MODULE MCScheduledRunner -------------------------
(* Two processes; either two manifests of one event, or two events with a  *)
(* manifest each.                                                          *)
EXTENDS ScheduledRunner, TLC

CONSTANTS m1, m2, e1, e2

TwoEvents == [m \in Manifests |-> IF m = m1 THEN e1 ELSE e2]
Symmetry == Permutations(Procs)
=============================================================================
