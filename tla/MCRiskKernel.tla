---------------------------- MODULE MCRiskKernel ----------------------------
(* Instances of the risk kernel and of its ledger alone.  The kernel's: two *)
(* events of one underlying, whose joint exposure meets the aggregate limit *)
(* and exceeds the concentration limit, and an account that can breach each *)
(* equity limit: capital 3, equities 1 to 3.  Either both kernels are at    *)
(* work and their methods interleave, or one of them is away and the other  *)
(* runs one method at a time, with KILL set between methods.                *)
(* The ledger's: two candidate bindings of different size on two            *)
(* underlyings, and no kernel at work.                                      *)
EXTENDS RiskKernel, TLC

CONSTANTS small, large

MCExposure == [c \in Candidates |-> IF c = large THEN 2 ELSE 1]
MCUnderlying == [c \in Candidates |-> IF c = large THEN "MSFT" ELSE "KR"]
Symmetry ==
    Permutations(Events) \cup Permutations(Orders) \cup Permutations(Days)
    \cup Permutations(Kernels)

LedgerAlone ==
    /\ KernelInit
    /\ [][LedgerNext /\ UNCHANGED <<control, peak, call>>]_kernel_vars

Away == [pc |-> "away"]
Alone == \E k \in Kernels : at(k, "away")

SharedInit ==
    /\ LedgerInit /\ control = "ENTRY_DISABLED" /\ peak = [day \in Days |-> 0]
    /\ \E away \in SUBSET Kernels :
        /\ Cardinality(away) <= 1
        /\ call = [k \in Kernels |-> IF k \in away THEN Away ELSE Idle]

SharedNext ==
    \/ \E k \in Kernels : KernelStep(k)
    \/ set_control_state_kill /\ (Alone => \A k \in Kernels : call[k] \in {Idle, Away})

SharedSpec == SharedInit /\ [][SharedNext]_kernel_vars
-----------------------------------------------------------------------------
(* Properties of a kernel that runs alone; two kernels break each of them. *)

(* The KILL control state is terminal: no trigger a kernel alone applies   *)
(* leads out of it.                                                        *)
KillTerminalAlone == [][Alone => KillKept]_kernel_vars

(* Every state but ACTIVE blocks new entries: a kernel alone reserves only *)
(* while the control state is ACTIVE, though it read the state many steps  *)
(* before it reserves.                                                     *)
EntryOnlyWhileActiveAlone == [][Alone => EntersWhileActive]_kernel_vars

(* The exposure a kernel alone holds on one underlying stays within the    *)
(* concentration limit that authorize_entry checks before it reserves.     *)
ConcentrationWithinPolicyAlone == Alone => ConcentrationWithinPolicy
=============================================================================
