----------------------------- MODULE RiskKernel -----------------------------
(***************************************************************************)
(* The V1 risk kernel (risk/kernel.py) over the ledger of RiskLedger and   *)
(* the control table of RiskControls.                                      *)
(*                                                                         *)
(* Several kernels (one per process or thread) share one ledger file.  A   *)
(* kernel method is not one transaction: it reads the control state, the   *)
(* broker's truth, the equity snapshots and the held exposure one after    *)
(* the other, and only then enters a ledger transaction.  call[k] is the   *)
(* program counter and the locals of the method kernel k is executing;     *)
(* every database or broker access is a step of its own.  A rejected call  *)
(* returns to Idle.                                                        *)
(*                                                                         *)
(* The broker is external: what BrokerTruth returns is chosen freely at    *)
(* each read (stale, contradictory, partially filled, or any account).     *)
(***************************************************************************)
EXTENDS RiskLedger, RiskControls

CONSTANTS
    Kernels,            \* kernel instances sharing the ledger
    Equities,           \* account equities the broker may report
    Amounts,            \* gross market values and buying powers it may report
    PerEventBudget,     \* RiskPolicy.per_event_loss_budget
    ConcentrationLimit, \* RiskPolicy.concentration_limit
    AccountCapital,     \* RiskPolicy.account_capital
    DailyLossLimit,     \* RiskPolicy.daily_loss_limit
    DrawdownLimit,      \* RiskPolicy.drawdown_limit
    CloseOnlyThreshold  \* RiskPolicy.close_only_equity_threshold

ASSUME KernelLimitsAreNaturals ==
    /\ Equities \subseteq Nat /\ Amounts \subseteq Nat
    /\ PerEventBudget \in Nat /\ ConcentrationLimit \in Nat /\ AccountCapital \in Nat
    /\ DailyLossLimit \in Nat /\ DrawdownLimit \in Nat /\ CloseOnlyThreshold \in Nat

VARIABLES
    control,        \* control_state table
    peak,           \* largest of the day's account_snapshots, 0 when there is none
    call            \* what each kernel is executing

kernel_vars == <<ledger, control, peak, call>>

Idle == [pc |-> "idle"]

BadTruth == {"STALE_TRUTH", "CONTRADICTORY_TRUTH", "PARTIAL_FILL_STATE"}

Calls ==
    {Idle, [pc |-> "resolve"]}
    \cup [pc : {"bind", "truth"}, event : Events, cand : Candidates, day : Days]
    \cup [pc : {"snapshot", "peak", "concentration", "reserve"}, event : Events,
          cand : Candidates, day : Days, equity : Equities, gross : Amounts]
    \cup [pc : {"fill"}, event : Events, obs : Observations]
    \cup [pc : {"flat"}, event : Events]
    \cup [pc : {"trigger"}, trigger : ControlTriggers]
    \cup [pc : {"write"}, trigger : ControlTriggers, updated : ControlStates]

KernelTypeOK ==
    /\ TypeOK
    /\ control \in ControlStates
    /\ peak \in [Days -> Equities \cup {0}]
    /\ call \in [Kernels -> Calls]

(* get_control_state answers ENTRY_DISABLED while the table is empty.      *)
KernelInit ==
    /\ LedgerInit
    /\ control = "ENTRY_DISABLED"
    /\ peak = [day \in Days |-> 0]
    /\ call = [k \in Kernels |-> Idle]

-----------------------------------------------------------------------------
at(k, pc) == call[k].pc = pc
become(k, locals) == call' = [call EXCEPT ![k] = locals]
goto(k, pc) == call' = [call EXCEPT ![k].pc = pc]
reject(k) == become(k, Idle)
raise_trigger(k, trigger) == become(k, [pc |-> "trigger", trigger |-> trigger])

(* _apply_trigger: read the state and compute the next one, ...            *)
apply_trigger_read(k) ==
    /\ at(k, "trigger")
    /\ IF transition_raises(control, call[k].trigger)
       THEN reject(k)
       ELSE become(k, [pc |-> "write", trigger |-> call[k].trigger,
                       updated |-> next_control_state(control, call[k].trigger)])
    /\ UNCHANGED <<ledger, control, peak>>

(* ... then write what was computed, without reading the state again.      *)
apply_trigger_write(k) ==
    /\ at(k, "write")
    /\ control' = call[k].updated
    /\ become(k, Idle)
    /\ UNCHANGED <<ledger, peak>>

-----------------------------------------------------------------------------
(* startup_reconciliation                                                  *)

startup_truth(k) ==
    /\ at(k, "idle")
    /\ \/ \E t \in BadTruth \cup {"NON_FLAT_STATE"} : raise_trigger(k, t)
       \/ become(k, [pc |-> "resolve"])
    /\ UNCHANGED <<ledger, control, peak>>

startup_resolve(k) ==
    /\ at(k, "resolve")
    /\ IF control \in {"KILL", "ACTIVE"} THEN become(k, Idle) ELSE raise_trigger(k, "RESOLVED")
    /\ UNCHANGED <<ledger, control, peak>>

-----------------------------------------------------------------------------
(* authorize_entry                                                         *)

authorize_control(k, e, c, day) ==
    /\ at(k, "idle")
    /\ entry_allowed(control)
    /\ become(k, [pc |-> "bind", event |-> e, cand |-> c, day |-> day])
    /\ UNCHANGED <<ledger, control, peak>>

validate_candidate_binding(k) ==
    LET e == call[k].event
    IN  /\ at(k, "bind")
        /\ IF e \notin not_run /\ candidate[e] = call[k].cand THEN goto(k, "truth") ELSE reject(k)
        /\ UNCHANGED <<ledger, control, peak>>

authorize_truth(k) ==
    LET c == call[k]
    IN  /\ at(k, "truth")
        /\ \/ \E t \in BadTruth : raise_trigger(k, t)
           \/ \E equity \in Equities, gross, buying_power \in Amounts :
                IF Exposure[c.cand] <= PerEventBudget /\ Exposure[c.cand] <= buying_power
                THEN become(k, [pc |-> "snapshot", event |-> c.event, cand |-> c.cand,
                                day |-> c.day, equity |-> equity, gross |-> gross])
                ELSE reject(k)
        /\ UNCHANGED <<ledger, control, peak>>

record_account_snapshot(k) ==
    LET c == call[k]
    IN  /\ at(k, "snapshot")
        /\ peak' = [peak EXCEPT ![c.day] = IF c.equity > @ THEN c.equity ELSE @]
        /\ goto(k, "peak")
        /\ UNCHANGED <<ledger, control>>

(* The first equity limit that fails, in the code's order.                 *)
equity_breach(c) ==
    IF peak[c.day] - c.equity > DailyLossLimit THEN "DAILY_LOSS_LIMIT_BREACHED"
    ELSE IF AccountCapital - c.equity > DrawdownLimit THEN "DRAWDOWN_LIMIT_BREACHED"
    ELSE IF c.equity <= CloseOnlyThreshold THEN "CLOSE_ONLY_EQUITY_THRESHOLD"
    ELSE "NONE"

authorize_equity_limits(k) ==
    /\ at(k, "peak")
    /\ IF equity_breach(call[k]) = "NONE"
       THEN goto(k, "concentration")
       ELSE raise_trigger(k, equity_breach(call[k]))
    /\ UNCHANGED <<ledger, control, peak>>

(* A slip: the exposure about to be reserved is not part of the sum.       *)
concentration_without_entry(c) ==
    c.gross + open_reservation_total_for_underlying(Underlying[c.cand])

(* Gross positions, held reservations and the new exposure, by underlying. *)
concentration(c) ==
    c.gross + open_reservation_total_for_underlying(Underlying[c.cand]) + Exposure[c.cand]

authorize_concentration(k) ==
    /\ at(k, "concentration")
    /\ IF concentration(call[k]) > ConcentrationLimit
       THEN raise_trigger(k, "CONCENTRATION_LIMIT_BREACHED")
       ELSE goto(k, "reserve")
    /\ UNCHANGED <<ledger, control, peak>>

(* A slip: the kernel trusts the binding it read and the transaction does  *)
(* not recheck the candidate, the duplicate and the budgets.               *)
authorize_reserve_unchecked(k) ==
    LET c == call[k]
    IN  /\ at(k, "reserve")
        /\ become(k, Idle)
        /\ reservation' = [reservation EXCEPT ![c.event] = "RESERVED"]
        /\ created' = [created EXCEPT ![c.event] = c.day]
        /\ permit' = [permit EXCEPT ![c.event] = "ISSUED"]
        /\ append_passport(c.event, {"RESERVATION_HELD", "PERMIT_ISSUED"})
        /\ UNCHANGED <<candidate, not_run, submission, intents, fills, control, peak>>

authorize_reserve(k) ==
    LET c == call[k]
    IN  /\ at(k, "reserve")
        /\ become(k, Idle)
        /\ \/ reserve_and_issue_permit(c.event, c.cand, c.day)
           \/ ~reserve_accepts(c.event, c.cand, c.day) /\ UNCHANGED ledger
        /\ UNCHANGED <<control, peak>>

-----------------------------------------------------------------------------
(* Reconciliation                                                          *)

(* The caller's fill must be one of the orders of fresh truth.             *)
reconcile_fill_truth(k, e, obs) ==
    /\ at(k, "idle")
    /\ \/ \E t \in {"STALE_TRUTH", "CONTRADICTORY_TRUTH"} : raise_trigger(k, t)
       \/ become(k, [pc |-> "fill", event |-> e, obs |-> obs])
    /\ UNCHANGED <<ledger, control, peak>>

reconcile_fill(k) ==
    LET e == call[k].event
        obs == call[k].obs
    IN  /\ at(k, "fill")
        /\ \/ reconcile_observed_order(e, obs) /\ become(k, Idle)
           \/ reconcile_is_partial(e, obs) /\ raise_trigger(k, "PARTIAL_FILL_STATE")
                /\ UNCHANGED ledger
           \/ ~reconcile_accepts(e, obs) /\ ~reconcile_is_partial(e, obs) /\ reject(k)
                /\ UNCHANGED ledger
        /\ UNCHANGED <<control, peak>>

reconcile_flat_truth(k, e) ==
    /\ at(k, "idle")
    /\ reservation[e] # "NONE"
    /\ \/ \E t \in BadTruth \cup {"NON_FLAT_STATE"} : raise_trigger(k, t)
       \/ become(k, [pc |-> "flat", event |-> e])
    /\ UNCHANGED <<ledger, control, peak>>

reconcile_flat(k) ==
    LET e == call[k].event
    IN  /\ at(k, "flat")
        /\ become(k, Idle)
        /\ \/ release_consumed_after_flat(e)
           \/ ~release_accepts(e) /\ UNCHANGED ledger
        /\ UNCHANGED <<control, peak>>

-----------------------------------------------------------------------------
(* The methods that are one ledger transaction.                            *)
kernel_transaction(k) ==
    /\ at(k, "idle")
    /\ \/ \E e \in Events, c \in Candidates : freeze_candidate(e, c)
       \/ \E e \in Events : mark_not_run(e)
       \/ \E e \in Events, o \in Orders : record_submission(e, o, TRUE)
    /\ UNCHANGED <<control, peak, call>>

(* RiskLedger.set_control_state, the only writer of KILL.                  *)
set_control_state_kill ==
    /\ control' = "KILL"
    /\ UNCHANGED <<ledger, peak, call>>

KernelStep(k) ==
    \/ apply_trigger_read(k) \/ apply_trigger_write(k)
    \/ startup_truth(k) \/ startup_resolve(k)
    \/ \E e \in Events, c \in Candidates, day \in Days : authorize_control(k, e, c, day)
    \/ validate_candidate_binding(k) \/ authorize_truth(k)
    \/ record_account_snapshot(k) \/ authorize_equity_limits(k)
    \/ authorize_concentration(k) \/ authorize_reserve(k)
    \/ \E e \in Events, obs \in Observations : reconcile_fill_truth(k, e, obs)
    \/ reconcile_fill(k)
    \/ \E e \in Events : reconcile_flat_truth(k, e)
    \/ reconcile_flat(k)
    \/ kernel_transaction(k)

KernelNext == (\E k \in Kernels : KernelStep(k)) \/ set_control_state_kill

KernelSpec == KernelInit /\ [][KernelNext]_kernel_vars

(* One method at a time, and KILL set between methods.                     *)
SequentialNext ==
    \/ \E k \in Kernels : KernelStep(k) /\ \A j \in Kernels \ {k} : at(j, "idle")
    \/ set_control_state_kill /\ \A k \in Kernels : at(k, "idle")

SequentialSpec == KernelInit /\ [][SequentialNext]_kernel_vars

-----------------------------------------------------------------------------
(* Properties                                                              *)

(* However the kernels interleave, what they do to the ledger is a         *)
(* sequence of RiskLedger transactions: no step of authorize_entry or of a *)
(* reconciliation writes a row except through an accepted transaction.     *)
LedgerRefined == EntrySpec

(* Entries open only through a startup reconciliation: the control state   *)
(* becomes ACTIVE only when a kernel that saw fresh, flat truth with no    *)
(* partial fill finishes its RESOLVED trigger (controls.py: no transition  *)
(* grants new authority except an explicit successful startup              *)
(* reconciliation).                                                        *)
ActiveOnlyByReconciliation ==
    [][control # "ACTIVE" /\ control' = "ACTIVE" =>
        \E k \in Kernels : at(k, "write") /\ call[k].trigger = "RESOLVED"]_kernel_vars

(* The KILL control state is terminal.                                     *)
KillKept == control = "KILL" => control' = "KILL"
KillTerminal == [][KillKept]_kernel_vars

(* Every state but ACTIVE blocks new entries: no reservation is made while *)
(* the control state is not ACTIVE.                                        *)
EntersWhileActive ==
    (\E e \in Events : reservation[e] = "NONE" /\ reservation'[e] = "RESERVED") =>
        control = "ACTIVE"
EntryOnlyWhileActive == [][EntersWhileActive]_kernel_vars

(* The exposure held on one underlying stays within the concentration      *)
(* limit that authorize_entry checks before it reserves.                   *)
ConcentrationWithinPolicy ==
    \A c \in Candidates :
        open_reservation_total_for_underlying(Underlying[c]) <= ConcentrationLimit

(* The MANUAL_REQUIRED fallback of the transition table, for pairs it does *)
(* not list, is never taken: only contradictory truth or a partial fill    *)
(* ever asks for manual reconciliation.                                    *)
ManualOnlyFromBadTruth ==
    [][control # "MANUAL_REQUIRED" /\ control' = "MANUAL_REQUIRED" =>
        \E k \in Kernels : at(k, "write")
            /\ call[k].trigger \in {"CONTRADICTORY_TRUTH", "PARTIAL_FILL_STATE"}]_kernel_vars
=============================================================================
