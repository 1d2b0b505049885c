---------------------------- MODULE RiskControls ----------------------------
(***************************************************************************)
(* The control-state machine of the risk kernel (risk/controls.py): the    *)
(* five control states, the eleven triggers and the pure transition table. *)
(* The module has no state of its own; RiskKernel stores the control state *)
(* and drives it.                                                          *)
(***************************************************************************)

ControlStates == {"ACTIVE", "ENTRY_DISABLED", "CLOSE_ONLY", "MANUAL_REQUIRED", "KILL"}

ControlTriggers ==
    {"DRAWDOWN_LIMIT_BREACHED", "DAILY_LOSS_LIMIT_BREACHED", "STALE_TRUTH",
     "CONTRADICTORY_TRUTH", "PARTIAL_FILL_STATE", "NON_FLAT_STATE",
     "CLOSE_ONLY_EQUITY_THRESHOLD", "CONCENTRATION_LIMIT_BREACHED",
     "KILL_REQUEST", "MANUAL_REQUIRED_REQUEST", "RESOLVED"}

(* The triggers that only the ACTIVE row of the table names.               *)
ActiveOnlyTransition ==
    [t \in {"DRAWDOWN_LIMIT_BREACHED", "DAILY_LOSS_LIMIT_BREACHED",
            "CONCENTRATION_LIMIT_BREACHED"} |-> "ENTRY_DISABLED"]

(* The triggers every row of the table (but KILL's) answers alike.         *)
TruthTransition ==
    [t \in {"STALE_TRUTH", "CONTRADICTORY_TRUTH", "PARTIAL_FILL_STATE", "NON_FLAT_STATE"} |->
        CASE t = "STALE_TRUTH"    -> "ENTRY_DISABLED"
          [] t = "NON_FLAT_STATE" -> "CLOSE_ONLY"
          [] OTHER                -> "MANUAL_REQUIRED"]

(* _TRANSITIONS.get((current, trigger), MANUAL_REQUIRED).                  *)
Transitions(current, trigger) ==
    CASE trigger \in DOMAIN TruthTransition -> TruthTransition[trigger]
      [] current = "ACTIVE" /\ trigger \in DOMAIN ActiveOnlyTransition ->
            ActiveOnlyTransition[trigger]
      [] current = "ACTIVE" /\ trigger = "CLOSE_ONLY_EQUITY_THRESHOLD" -> "CLOSE_ONLY"
      [] current # "ACTIVE" /\ trigger = "RESOLVED" -> "ACTIVE"
      [] OTHER -> "MANUAL_REQUIRED"

(* RESOLVED out of KILL is the one trigger that raises instead of moving.  *)
transition_raises(current, trigger) == current = "KILL" /\ trigger = "RESOLVED"

(* A slip: KILL is left like any other state.                              *)
next_control_state_kill_unchecked(current, trigger) ==
    IF trigger = "KILL_REQUEST" THEN "KILL" ELSE Transitions(current, trigger)

next_control_state(current, trigger) ==
    IF trigger = "KILL_REQUEST" \/ current = "KILL"
    THEN "KILL"
    ELSE Transitions(current, trigger)

(* A slip: the states that block entries are listed and KILL is forgotten. *)
entry_allowed_kill_forgotten(state) ==
    state \notin {"ENTRY_DISABLED", "CLOSE_ONLY", "MANUAL_REQUIRED"}

entry_allowed(state) == state = "ACTIVE"

close_allowed(state) == state # "KILL"
=============================================================================
