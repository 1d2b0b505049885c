------------------------ MODULE MCMonitoredLifecycle ------------------------
(* One event, up to three workers, two contracts (so that orders can stop  *)
(* half filled), and one order identity more than the phases.              *)
EXTENDS MonitoredLifecycle, TLC

MCExposure == [c \in Candidates |-> 1]
MCUnderlying == [c \in Candidates |-> "KR"]
Symmetry == Permutations(Workers) \cup Permutations(Orders)
=============================================================================
