-------------------------- MODULE ApplicationService --------------------------
(***************************************************************************)
(* runtime/autonomous_application_service.py: one armed window is run      *)
(* through nine stages, each bound to its predecessor and measured against *)
(* a budget of runtime/stage_budgets.py, and close_authority closes an     *)
(* opened lifecycle.  Calls come one at a time; the process may die        *)
(* between any two durable writes and be started again over the same       *)
(* state directory.                                                        *)
(*                                                                         *)
(* Durable: the session store's claims and lifecycle rows, the persistence *)
(* sidecar, the decision and outcome episodes, the option-event journal,   *)
(* the exposure journal and the lifecycle intents of the risk ledger.  The *)
(* broker is the in-memory fake of runtime/host_fake_broker.py, which      *)
(* fills an order as it is submitted unless a fault is injected, and lives *)
(* as long as the test that owns it.  Receipts of runs and closes are kept *)
(* in the service object alone.                                            *)
(*                                                                         *)
(* Window w brings event w, whose permit names lifecycle w.  Instants are  *)
(* counted from the opening of the window that is run, in units of the     *)
(* p95 latency that every stage has for its budget.                        *)
(***************************************************************************)
EXTENDS Integers, FiniteSets, Sequences

CONSTANTS
    Windows,
    WindowLength,       \* closes_at - opens_at
    Offsets,            \* when a run may be requested, after opens_at
    Elapses,            \* what a stage may take by the service's clock
    Faults,             \* of "refusal", "ambiguous", "outage", "residual", "truth", "manual",
                        \* "persistence"
    OptionFeeds,        \* the windows with an option activity feed
    MaxStarts, MaxDuplicates    \* bounds

VARIABLES
    claimed,    \* session store: windows whose opportunity was claimed
    lifecycle,  \* session store: window -> "NONE", "ACTIVE" or "TERMINAL_FLAT"
    sidecar,    \* host_persistence.jsonl: <<"ACTIVE" or "TERMINAL", window>>
    episodes,   \* risk ledger: <<"decision" or "outcome", window>>
    receipts,   \* option-event journal: window -> "NONE", "RECONCILED" or "MANUAL"
    exposures,  \* exposure journal: windows with an entry
    intents,    \* risk ledger: <<phase, window>>
    orders,     \* fake broker: the orders recorded
    positions,  \* fake broker: the windows whose legs are held
    runs, closes, duplicates,   \* the service object's records
    call,       \* the call in progress
    starts

durable == <<claimed, lifecycle, sidecar, episodes, receipts, exposures, intents>>
broker == <<orders, positions>>
records == <<runs, closes, duplicates>>
service_vars == <<durable, broker, records, call, starts>>
-----------------------------------------------------------------------------
StageOrder == <<"EVIDENCE_CAPTURE", "FEATURE_RECEIPT", "DECISION", "EXPRESSION", "RISK",
                "LIFECYCLE_OPEN", "MONITORED_EXECUTION", "RECONCILIATION", "TERMINAL">>
Stages == 1..Len(StageOrder)
LifecycleOpen == 6

(* Every budget is the p95 latency; the frozen route never retries.        *)
Budget == 1
Retries == 0
(* per_window_budget_total_ms: market, reasoner, broker, retry, shutdown.  *)
per_window_budget_total == Budget + Budget + Budget + Retries * Budget + Budget
validate_stage_budgets_within_window == per_window_budget_total <= WindowLength

(* The service refuses to be built unless the budgets fit the window.      *)
ServiceConstants ==
    /\ WindowLength \in Nat /\ validate_stage_budgets_within_window
    /\ Offsets \subseteq Nat /\ Elapses \subseteq Nat /\ OptionFeeds \subseteq Windows
    /\ MaxStarts \in Nat /\ MaxDuplicates \in Nat

ManualCircuitReasons ==
    {"MANUAL_RECONCILIATION_STICKY", "OPEN_AMBIGUOUS_BROKER_STATE", "OPEN_FAILED",
     "EXECUTION_STATE_INVALID", "BROKER_TRUTH_INCOMPLETE", "BROKER_TRUTH_AMBIGUOUS",
     "RECONCILIATION_MANUAL_REQUIRED", "RECONCILIATION_STATE_CONFLICT", "CLOSE_FAILED"}
FrozenCircuitReasons == {"DECISION_RISK_FROZEN"}

(* What the work before the opening may be refused with.  The bindings     *)
(* EXPRESSION and RISK look at were made by the same prepare_v2 call.      *)
refusals(stage) ==
    CASE stage = 1 -> {"CAPTURE_REJECTED"}
      [] stage = 2 -> {"FEATURE_RECEIPT_REJECTED"}
      [] stage = 3 -> {"DECISION_ABSTAINED", "DECISION_REJECTED", "DECISION_RISK_FROZEN"}
      [] OTHER -> {}
-----------------------------------------------------------------------------
(* SyntheticPaperBroker                                                    *)
order(phase, w, status) == [phase |-> phase, window |-> w, status |-> status]
record(phase, w, status) == orders' = Append(orders, order(phase, w, status))

submit_open(w, fault) ==
    CASE fault = "outage" -> UNCHANGED broker
      [] fault = "ambiguous" -> record("OPEN", w, "NEW") /\ UNCHANGED positions
      [] OTHER -> record("OPEN", w, "FILLED") /\ positions' = positions \cup {w}

(* A filled close flattens the whole book, or leaves one leg of it.        *)
submit_close(w, fault) ==
    CASE fault = "outage" -> UNCHANGED broker
      [] fault = "ambiguous" -> record("CLOSE", w, "NEW") /\ UNCHANGED positions
      [] fault = "residual" -> record("CLOSE", w, "FILLED") /\ UNCHANGED positions
      [] OTHER -> record("CLOSE", w, "FILLED") /\ positions' = {}
-----------------------------------------------------------------------------
Idle == [pc |-> "idle"]
at(pc) == call.pc = pc
sticky_manual == \E w \in Windows : receipts[w] = "MANUAL"
deadline_passed(offset) == offset >= WindowLength

circuit_for(reason) ==
    IF reason \in FrozenCircuitReasons THEN "FROZEN"
    ELSE IF reason \in ManualCircuitReasons \/ sticky_manual THEN "MANUAL_REQUIRED"
    ELSE "NOMINAL"

(* A run's receipts: OK up to the stage that failed, SKIPPED after it.     *)
stage_chain(failing) ==
    [s \in Stages |-> IF s < failing THEN "OK" ELSE IF s = failing THEN "FAILED" ELSE "SKIPPED"]
NotClaimed == [s \in Stages |-> "SKIPPED"]
Complete == [s \in Stages |-> "OK"]

(* The circuit of a run stopped at the stage.                              *)
stop(stage, reason) ==
    IF reason = "BUDGET_VIOLATION" /\ stage >= LifecycleOpen THEN "MANUAL_REQUIRED"
    ELSE circuit_for(reason)

record_run(w, chain, circuit) ==
    runs' = runs \cup {[window |-> w, chain |-> chain, circuit |-> circuit]}

(* The end of a stage: what it took is measured, a reason of its own comes *)
(* before a blown budget, and the chain goes on or is stopped.             *)
finish(stage, reason) ==
    \E elapsed \in Elapses :
        LET why == IF reason = "OK" /\ elapsed > Budget THEN "BUDGET_VIOLATION" ELSE reason IN
        /\ IF why # "OK"
           THEN record_run(call.window, stage_chain(stage), stop(stage, why)) /\ call' = Idle
           ELSE IF stage = Len(StageOrder)
           THEN record_run(call.window, Complete, circuit_for("OK")) /\ call' = Idle
           ELSE call' = [call EXCEPT !.pc = StageOrder[stage + 1]] /\ UNCHANGED runs
        /\ UNCHANGED <<closes, duplicates, starts>>
-----------------------------------------------------------------------------
ServiceInit ==
    /\ claimed = {} /\ lifecycle = [w \in Windows |-> "NONE"] /\ sidecar = {} /\ episodes = {}
    /\ receipts = [w \in Windows |-> "NONE"] /\ exposures = {} /\ intents = {}
    /\ orders = <<>> /\ positions = {}
    /\ runs = {} /\ closes = {} /\ duplicates = 0
    /\ call = Idle /\ starts = 0

admitted(offset) == ~deadline_passed(offset) /\ ~sticky_manual

(* AutonomousSessionStore.claim_opportunity                                *)
claim_opportunity(w) == w \notin claimed

(* run_window up to its first stage: the deadline and the sticky gate, then*)
(* the claim; an opportunity claimed before is suppressed.                 *)
run_window(w, offset) ==
    /\ at("idle")
    /\ IF ~admitted(offset)
       THEN /\ record_run(w, NotClaimed,
                          circuit_for(IF deadline_passed(offset) THEN "DEADLINE_EXHAUSTED"
                                      ELSE "MANUAL_RECONCILIATION_STICKY"))
            /\ UNCHANGED <<claimed, call, duplicates>>
       ELSE IF claim_opportunity(w)
       THEN /\ claimed' = claimed \cup {w}
            /\ call' = [pc |-> StageOrder[1], window |-> w, observed |-> offset]
            /\ UNCHANGED <<runs, duplicates>>
       ELSE /\ duplicates < MaxDuplicates /\ duplicates' = duplicates + 1
            /\ UNCHANGED <<claimed, call, runs>>
    /\ UNCHANGED <<lifecycle, sidecar, episodes, receipts, exposures, intents, broker, closes,
                   starts>>

(* EVIDENCE_CAPTURE to RISK: none of them changes a broker or this state.  *)
prepare(stage) ==
    /\ at(StageOrder[stage]) /\ stage < LifecycleOpen
    /\ \E reason \in {"OK"} \cup (IF "refusal" \in Faults THEN refusals(stage) ELSE {}) :
          finish(stage, reason)
    /\ UNCHANGED <<durable, broker>>

(* _validate_position_truth: the book holds the opened legs and no other.  *)
positions_match(w) == positions = {w}

(* LIFECYCLE_OPEN, first part: the worker's intent and its submission.     *)
lifecycle_open ==
    /\ at("LIFECYCLE_OPEN")
    /\ IF deadline_passed(call.observed)
       THEN finish(LifecycleOpen, "DEADLINE_EXHAUSTED_BEFORE_MUTATION") /\ UNCHANGED <<intents, broker>>
       ELSE /\ intents' = intents \cup {<<"OPEN", call.window>>}
            /\ \E fault \in {"none"} \cup (Faults \cap {"ambiguous", "outage"}) :
                  /\ submit_open(call.window, fault)
                  /\ CASE fault = "outage" -> finish(LifecycleOpen, "OPEN_FAILED")
                       [] fault = "ambiguous" -> finish(LifecycleOpen, "OPEN_AMBIGUOUS_BROKER_STATE")
                       [] OTHER -> /\ call' = [call EXCEPT !.pc = "OPENED"]
                                   /\ UNCHANGED <<records, starts>>
    /\ UNCHANGED <<claimed, lifecycle, sidecar, episodes, receipts, exposures>>

(* The readback of the opening, and the decision episode.                  *)
read_open ==
    /\ at("OPENED")
    /\ \/ /\ positions_match(call.window)
          /\ episodes' = episodes \cup {<<"decision", call.window>>}
          /\ call' = [call EXCEPT !.pc = "EPISODE"]
          /\ UNCHANGED <<records, starts>>
       \/ /\ ~positions_match(call.window) \/ "persistence" \in Faults
          /\ finish(LifecycleOpen, "OPEN_FAILED") /\ UNCHANGED episodes
    /\ UNCHANGED <<claimed, lifecycle, sidecar, receipts, exposures, intents, broker>>

(* A slip: an append that fails does not stop the stage.                   *)
append_active_best_effort ==
    /\ at("EPISODE") /\ finish(LifecycleOpen, "OK")
    /\ \/ sidecar' = sidecar \cup {<<"ACTIVE", call.window>>}
       \/ "persistence" \in Faults /\ UNCHANGED sidecar
    /\ UNCHANGED <<claimed, lifecycle, episodes, receipts, exposures, intents, broker>>

append_active ==
    /\ at("EPISODE")
    /\ \/ sidecar' = sidecar \cup {<<"ACTIVE", call.window>>} /\ finish(LifecycleOpen, "OK")
       \/ /\ "persistence" \in Faults
          /\ finish(LifecycleOpen, "OPEN_FAILED") /\ UNCHANGED sidecar
    /\ UNCHANGED <<claimed, lifecycle, episodes, receipts, exposures, intents, broker>>

monitored_execution ==
    /\ at("MONITORED_EXECUTION")
    /\ IF positions = {}
       THEN finish(LifecycleOpen + 1, "EXECUTION_STATE_INVALID") /\ UNCHANGED lifecycle
       ELSE /\ lifecycle' = [lifecycle EXCEPT ![call.window] = "ACTIVE"]
            /\ finish(LifecycleOpen + 1, "OK")
    /\ UNCHANGED <<claimed, sidecar, episodes, receipts, exposures, intents, broker>>

(* RECONCILIATION: the broker truth, then the option journal's receipt.    *)
reconciliation ==
    /\ at("RECONCILIATION")
    /\ \/ /\ "truth" \in Faults /\ finish(LifecycleOpen + 2, "BROKER_TRUTH_INCOMPLETE")
          /\ UNCHANGED receipts
       \/ /\ call.window \notin OptionFeeds /\ finish(LifecycleOpen + 2, "OK")
          /\ UNCHANGED receipts
       \/ /\ call.window \in OptionFeeds
          /\ \E state \in {"RECONCILED"} \cup (IF "manual" \in Faults THEN {"MANUAL"} ELSE {}) :
                receipts' = [receipts EXCEPT ![call.window] = state]
          /\ call' = [call EXCEPT !.pc = "JOURNALED"]
          /\ UNCHANGED <<records, starts>>
    /\ UNCHANGED <<claimed, lifecycle, sidecar, episodes, exposures, intents, broker>>

(* _record_exposure, and the manual state that stops the chain.            *)
record_exposure ==
    /\ at("JOURNALED")
    /\ \/ /\ exposures' = exposures \cup {call.window}
          /\ finish(LifecycleOpen + 2, IF receipts[call.window] = "MANUAL"
                                       THEN "RECONCILIATION_MANUAL_REQUIRED" ELSE "OK")
       \/ /\ "persistence" \in Faults /\ finish(LifecycleOpen + 2, "RECONCILIATION_STATE_CONFLICT")
          /\ UNCHANGED exposures
    /\ UNCHANGED <<claimed, lifecycle, sidecar, episodes, receipts, intents, broker>>

terminal == at("TERMINAL") /\ finish(Len(StageOrder), "OK") /\ UNCHANGED <<durable, broker>>
-----------------------------------------------------------------------------
(* close_authority.  A lifecycle with a terminal proof is reported closed  *)
(* from the proof; otherwise the bundle must be there and the store must   *)
(* hold the lifecycle ACTIVE, or the call is rejected and changes nothing. *)
close_authority(w) ==
    /\ at("idle")
    /\ IF <<"TERMINAL", w>> \in sidecar
       THEN closes' = closes \cup {w} /\ UNCHANGED call
       ELSE /\ <<"ACTIVE", w>> \in sidecar /\ lifecycle[w] = "ACTIVE"
            /\ call' = [pc |-> "CLOSE", window |-> w] /\ UNCHANGED closes
    /\ UNCHANGED <<durable, broker, runs, duplicates, starts>>

(* reduce_close_order: filled, and no residue in the book.                 *)
closed_flat(fault) == fault = "none"

(* lifecycle_intent_for_event_phase(event, "CLOSE")                        *)
close_intended(w) == <<"CLOSE", w>> \in intents

(* The worker's close: one durable intent for the event, the submission    *)
(* and the flat truth; anything else ends in _stop_close.                  *)
submit_exit ==
    /\ at("CLOSE")
    /\ \/ /\ close_intended(call.window) /\ call' = Idle
          /\ UNCHANGED <<intents, broker>>
       \/ /\ ~close_intended(call.window)
          /\ intents' = intents \cup {<<"CLOSE", call.window>>}
          /\ \E fault \in {"none"} \cup (Faults \cap {"ambiguous", "outage", "residual"}) :
                /\ submit_close(call.window, fault)
                /\ call' = IF closed_flat(fault) THEN [call EXCEPT !.pc = "CLOSED"] ELSE Idle
    /\ UNCHANGED <<claimed, lifecycle, sidecar, episodes, receipts, exposures, records, starts>>

append_terminal ==
    /\ at("CLOSED")
    /\ \/ /\ sidecar' = sidecar \cup {<<"TERMINAL", call.window>>}
          /\ call' = [call EXCEPT !.pc = "PROVED"]
       \/ "persistence" \in Faults /\ call' = Idle /\ UNCHANGED sidecar
    /\ UNCHANGED <<claimed, lifecycle, episodes, receipts, exposures, intents, broker, records,
                   starts>>

append_outcome ==
    /\ at("PROVED")
    /\ \/ /\ episodes' = episodes \cup {<<"outcome", call.window>>}
          /\ call' = [call EXCEPT !.pc = "OUTCOME"]
       \/ "persistence" \in Faults /\ call' = Idle /\ UNCHANGED episodes
    /\ UNCHANGED <<claimed, lifecycle, sidecar, receipts, exposures, intents, broker, records,
                   starts>>

(* record_lifecycle_terminal_flat.  _record_close_disposition looks for    *)
(* the opportunity under an identity run_window never claims, and returns. *)
record_terminal_flat ==
    /\ at("OUTCOME")
    /\ lifecycle' = [lifecycle EXCEPT ![call.window] = "TERMINAL_FLAT"]
    /\ closes' = closes \cup {call.window} /\ call' = Idle
    /\ UNCHANGED <<claimed, sidecar, episodes, receipts, exposures, intents, broker, runs, duplicates,
                   starts>>

(* External: the process ends and a new service is built over its state.   *)
restart ==
    /\ starts < MaxStarts /\ starts' = starts + 1
    /\ runs' = {} /\ closes' = {} /\ duplicates' = 0 /\ call' = Idle
    /\ UNCHANGED <<durable, broker>>

ServiceNext ==
    \/ \E w \in Windows, offset \in Offsets : run_window(w, offset)
    \/ \E stage \in Stages : prepare(stage)
    \/ lifecycle_open \/ read_open \/ append_active \/ monitored_execution
    \/ reconciliation \/ record_exposure \/ terminal
    \/ \E w \in Windows : close_authority(w)
    \/ submit_exit \/ append_terminal \/ append_outcome \/ record_terminal_flat
    \/ restart

ServiceSpec == ServiceInit /\ [][ServiceNext]_service_vars
-----------------------------------------------------------------------------
(* Whatever is retried, and wherever a process died, the broker is sent at *)
(* most one opening and one close for a window (run_window's claim, the    *)
(* worker's durable close intent).                                         *)
OrdersAreNotRepeated ==
    \A m, n \in DOMAIN orders :
        m # n => <<orders[m].phase, orders[m].window>> # <<orders[n].phase, orders[n].window>>

OpeningsOf(book) == {n \in DOMAIN book : book[n].phase = "OPEN"}
(* A run that stopped with its window's legs in the book, or its opening   *)
(* working, reports the circuit MANUAL_REQUIRED (stop, _circuit_for).      *)
ExposureEscalates ==
    \A r \in runs' \ runs :
        /\ r.chain \notin {NotClaimed, Complete}
        /\ \/ r.window \in positions'
           \/ \E n \in OpeningsOf(orders') : orders'[n] = order("OPEN", r.window, "NEW")
        => r.circuit = "MANUAL_REQUIRED"

(* Once the option journal holds a manual receipt, no later run, of any    *)
(* window and after any restart, submits an opening (_sticky_manual).      *)
StickyHoldsEntries == sticky_manual => OpeningsOf(orders') = OpeningsOf(orders)

(* A terminal proof in the sidecar stands for a filled close and a book    *)
(* without the window's legs, for good (close_authority).                  *)
TerminalIsFlat ==
    \A w \in Windows : <<"TERMINAL", w>> \in sidecar =>
        w \notin positions /\ \E n \in DOMAIN orders : orders[n] = order("CLOSE", w, "FILLED")

(* Every lifecycle the store calls ACTIVE has the bundle a fresh process   *)
(* rebuilds its close from, and the decision episode its outcome names.    *)
ActiveIsClosable ==
    \A w \in Windows : lifecycle[w] = "ACTIVE" =>
        <<"ACTIVE", w>> \in sidecar /\ <<"decision", w>> \in episodes

(* ServiceIsAccounted: orders are not repeated, a terminal proof is flat   *)
(* for good, and what is active can be closed from the disk alone.         *)
ServiceIsAccounted == OrdersAreNotRepeated /\ TerminalIsFlat /\ ActiveIsClosable
=============================================================================
