------------------------- MODULE MonitoredLifecycle -------------------------
(***************************************************************************)
(* The monitored PAPER lifecycle (lifecycle/worker.py, lifecycle/reducer.py) *)
(* over the ledger of RiskLedger and an external broker.                   *)
(*                                                                         *)
(* Several workers may hold the same event: a restarted process, a second  *)
(* tick, an alternate close permit.  job[w] is the program counter and the *)
(* locals of the method worker w is executing; every ledger transaction    *)
(* and every broker call is a step of its own, and a crash may fall        *)
(* between any two.  A rejected call and a crash both end the job; the     *)
(* per-process sets of submitted permits are left out because a permit     *)
(* enters one only after its durable intent, which every later call sees.  *)
(*                                                                         *)
(* The broker is external.  An order may be placed and its acknowledgement *)
(* lost; orders fill in units, or are cancelled (or expire, or are         *)
(* rejected) with what they have filled.  Readback returns the order and   *)
(* the positions as they are, or fails (outage, stale or mismatched).      *)
(***************************************************************************)
EXTENDS RiskLedger

CONSTANTS
    Workers,            \* LifecycleWorker instances
    Qty,                \* contracts of the permit
    OpenExpiresAt,      \* DebitVerticalPermit.expires_at
    EntryDeadlineAt,    \* ExitPlanClocks.entry_deadline_at
    TimeExitAt,         \* ExitPlanClocks.time_exit_at
    FlatteningDeadlineAt, \* ExitPlanClocks.flattening_deadline_at
    Horizon             \* bound on the lifecycle clock

ASSUME LifecycleConstants ==
    /\ Qty \in Nat \ {0}
    /\ OpenExpiresAt \in Nat /\ EntryDeadlineAt \in Nat /\ TimeExitAt \in Nat
    /\ FlatteningDeadlineAt \in Nat /\ Horizon \in Nat

VARIABLES
    broker,         \* what the broker holds under each order identity
    now,            \* the lifecycle clock
    job             \* what each worker is executing

lifecycle_vars == <<ledger, broker, now, job>>

Unplaced == [status |-> "unplaced"]
BrokerStatus == {"new", "partially_filled", "filled", "canceled"}
PlacedOrders == [event : Events, phase : Phases, status : BrokerStatus, filled : 0..Qty]

LifecycleStates ==
    {"OPEN_SUBMITTED", "OPEN_PARTIAL", "OPEN_FILLED", "OPEN_CANCELED", "OPEN_UNKNOWN",
     "CLOSE_PARTIAL", "CLOSED_FLAT", "MANUAL_REQUIRED"}

Idle == [pc |-> "idle"]

Jobs ==
    {Idle}
    \cup [pc : {"intent", "submit"}, event : Events, phase : Phases]
    \cup [pc : {"bind", "submission", "truth", "recover_truth"}, event : Events, phase : Phases,
          order : Orders]
    \cup [pc : {"persist", "mark"}, event : Events, phase : Phases, order : Orders,
          state : LifecycleStates]
    \cup [pc : {"done"}, event : Events, state : LifecycleStates]

LifecycleTypeOK ==
    /\ TypeOK
    /\ broker \in [Orders -> PlacedOrders \cup {Unplaced}]
    /\ now \in 0..Horizon
    /\ job \in [Workers -> Jobs]

LifecycleInit ==
    /\ LedgerInit
    /\ broker = [o \in Orders |-> Unplaced]
    /\ now = 0
    /\ job = [w \in Workers |-> Idle]

-----------------------------------------------------------------------------
(* The broker                                                              *)

placed(o) == broker[o] # Unplaced
working(o) == broker[o].status \in {"new", "partially_filled"}

OrdersOf(e, phase) ==
    {o \in Orders : placed(o) /\ broker[o].event = e /\ broker[o].phase = phase}

filled_qty == [o \in Orders |-> IF placed(o) THEN broker[o].filled ELSE 0]
filled_units(e, phase) == Total(filled_qty, OrdersOf(e, phase))

position(e) == filled_units(e, "OPEN") - filled_units(e, "CLOSE")

broker_fill(o) ==
    /\ working(o)
    /\ broker' = [broker EXCEPT ![o].filled = @ + 1,
                                ![o].status = IF broker[o].filled + 1 = Qty
                                              THEN "filled" ELSE "partially_filled"]
    /\ UNCHANGED <<ledger, now, job>>

broker_cancel(o) ==
    /\ working(o)
    /\ broker' = [broker EXCEPT ![o].status = "canceled"]
    /\ UNCHANGED <<ledger, now, job>>

-----------------------------------------------------------------------------
(* The reducers                                                            *)

(* A slip: any cancelled opening is taken for an unfilled one.             *)
reduce_open_order_canceled_any(status, filled) ==
    CASE status = "filled"           -> IF filled = Qty THEN "OPEN_FILLED" ELSE "OPEN_UNKNOWN"
      [] status = "partially_filled" -> "OPEN_PARTIAL"
      [] status = "canceled"         -> "OPEN_CANCELED"
      [] status = "new"              -> "OPEN_SUBMITTED"

reduce_open_order(status, filled) ==
    CASE status = "filled"           -> IF filled = Qty THEN "OPEN_FILLED" ELSE "OPEN_UNKNOWN"
      [] status = "partially_filled" -> "OPEN_PARTIAL"
      [] status = "canceled"         -> IF filled = 0 THEN "OPEN_CANCELED" ELSE "OPEN_UNKNOWN"
      [] status = "new"              -> "OPEN_SUBMITTED"

reduce_close_order(status, filled, residue) ==
    CASE status = "partially_filled" -> "CLOSE_PARTIAL"
      [] status = "filled" /\ filled = Qty /\ ~residue -> "CLOSED_FLAT"
      [] OTHER -> "MANUAL_REQUIRED"

-----------------------------------------------------------------------------
(* Starting a method                                                       *)

at(w, pc) == job[w].pc = pc
free(w) == job[w].pc \in {"idle", "done"}
become(w, locals) == job' = [job EXCEPT ![w] = locals]
reject(w) == become(w, Idle)
done(w, e, state) == become(w, [pc |-> "done", event |-> e, state |-> state])

require_open_binding(e) == reservation[e] = "RESERVED" /\ permit[e] = "ISSUED"

open(w, e) ==
    /\ free(w)
    /\ now < OpenExpiresAt /\ now <= EntryDeadlineAt
    /\ intent[<<e, "OPEN">>] = "NONE"
    /\ require_open_binding(e)
    /\ become(w, [pc |-> "intent", event |-> e, phase |-> "OPEN"])
    /\ UNCHANGED <<ledger, broker, now>>

(* A slip: closing is allowed as soon as the opening was submitted.        *)
require_close_binding_submitted(e) == submission[e] # NoOrder

require_close_binding(e) ==
    /\ submission[e] # NoOrder
    /\ permit[e] = "FILLED"
    /\ reservation[e] = "CONSUMED"

(* The close permit is the caller's, with any window of its own.           *)
close(w, e) ==
    /\ free(w)
    /\ now <= FlatteningDeadlineAt /\ now >= TimeExitAt
    /\ require_close_binding(e)
    /\ intent[<<e, "CLOSE">>] = "NONE"
    /\ become(w, [pc |-> "intent", event |-> e, phase |-> "CLOSE"])
    /\ UNCHANGED <<ledger, broker, now>>

(* Recovery restores the request from an intent already bound to an order. *)
durable_submitted_request(e, phase) == intent[<<e, phase>>] \in {"SUBMITTED", "RECONCILED"}

recover_open_state(w, e) ==
    /\ free(w)
    /\ durable_submitted_request(e, "OPEN")
    /\ become(w, [pc |-> "recover_truth", event |-> e, phase |-> "OPEN",
                  order |-> intent_order[<<e, "OPEN">>]])
    /\ UNCHANGED <<ledger, broker, now>>

recover_flatness(w, e) ==
    /\ free(w)
    /\ \/ /\ intent[<<e, "CLOSE">>] = "NONE"
          /\ done(w, e, "MANUAL_REQUIRED")
       \/ /\ durable_submitted_request(e, "CLOSE")
          /\ become(w, [pc |-> "recover_truth", event |-> e, phase |-> "CLOSE",
                        order |-> intent_order[<<e, "CLOSE">>]])
    /\ UNCHANGED <<ledger, broker, now>>

-----------------------------------------------------------------------------
(* Submitting an order                                                     *)

(* A slip: a durable intent left by another worker is reused, not refused. *)
record_intent_reused(w) ==
    LET e == job[w].event
        phase == job[w].phase
    IN  /\ at(w, "intent")
        /\ \/ record_lifecycle_intent(e, phase)
           \/ intent[<<e, phase>>] # "NONE" /\ UNCHANGED ledger
        /\ become(w, [pc |-> "submit", event |-> e, phase |-> phase])
        /\ UNCHANGED <<broker, now>>

record_intent(w) ==
    LET e == job[w].event
        phase == job[w].phase
    IN  /\ at(w, "intent")
        /\ \/ /\ record_lifecycle_intent(e, phase)
              /\ become(w, [pc |-> "submit", event |-> e, phase |-> phase])
           \/ intent[<<e, phase>>] # "NONE" /\ reject(w) /\ UNCHANGED ledger
        /\ UNCHANGED <<broker, now>>

(* The broker takes the order or not, and its acknowledgement may be lost. *)
broker_submit(w) ==
    LET e == job[w].event
        phase == job[w].phase
    IN  /\ at(w, "submit")
        /\ \/ \E o \in Orders :
                /\ ~placed(o)
                /\ broker' = [broker EXCEPT ![o] =
                        [event |-> e, phase |-> phase, status |-> "new", filled |-> 0]]
                /\ \/ become(w, [pc |-> "bind", event |-> e, phase |-> phase, order |-> o])
                   \/ reject(w)
           \/ reject(w) /\ UNCHANGED broker
        /\ UNCHANGED <<ledger, now>>

bind_ack(w) ==
    LET e == job[w].event
        phase == job[w].phase
        o == job[w].order
    IN  /\ at(w, "bind")
        /\ \/ /\ bind_lifecycle_intent(e, phase, o)
              /\ become(w, [pc |-> IF phase = "OPEN" THEN "submission" ELSE "truth",
                            event |-> e, phase |-> phase, order |-> o])
           \/ ~bind_accepts(e, phase, o) /\ reject(w) /\ UNCHANGED ledger
        /\ UNCHANGED <<broker, now>>

record_open_submission(w) ==
    LET e == job[w].event
        o == job[w].order
    IN  /\ at(w, "submission")
        /\ \/ /\ record_submission(e, o, FALSE)
              /\ become(w, [job[w] EXCEPT !.pc = "truth"])
           \/ ~submission_accepts(e, o) /\ reject(w) /\ UNCHANGED ledger
        /\ UNCHANGED <<broker, now>>

-----------------------------------------------------------------------------
(* Truth, and what is persisted of it                                      *)

(* _fresh_bound_truth accepts a filled opening only when the positions are *)
(* exactly its legs.  The order and the positions are two reads; one step  *)
(* stands for both because the positions matter only next to a filled      *)
(* order, which no longer changes.                                         *)
positions_match(j) ==
    j.phase = "OPEN" /\ broker[j.order].status = "filled" => position(j.event) = Qty

reduced(j) ==
    LET truth == broker[j.order]
    IN  IF j.phase = "OPEN" THEN reduce_open_order(truth.status, truth.filled)
        ELSE reduce_close_order(truth.status, truth.filled, position(j.event) # 0)

fresh_bound_truth(w) ==
    LET j == job[w]
    IN  /\ at(w, "truth")
        /\ \/ reject(w)
           \/ /\ positions_match(j)
              /\ become(w, [pc |-> "persist", event |-> j.event, phase |-> j.phase,
                            order |-> j.order, state |-> reduced(j)])
        /\ UNCHANGED <<ledger, broker, now>>

(* Recovery reads the same truth and returns the state without persisting  *)
(* it; a close that is not flat is returned as MANUAL_REQUIRED.            *)
recovered_truth(w) ==
    LET j == job[w]
    IN  /\ at(w, "recover_truth")
        /\ \/ reject(w)
           \/ /\ positions_match(j)
              /\ done(w, j.event, IF j.phase = "CLOSE" /\ reduced(j) # "CLOSED_FLAT"
                                  THEN "MANUAL_REQUIRED" ELSE reduced(j))
        /\ UNCHANGED <<ledger, broker, now>>

observation(o, state) ==
    IF state = "OPEN_FILLED" THEN [order |-> o, status |-> "FILLED", filled |-> 1]
    ELSE [order |-> o, status |-> "CANCELED", filled |-> 0]

record_open_transition(w) ==
    LET j == job[w]
        obs == observation(j.order, j.state)
    IN  /\ at(w, "persist") /\ j.phase = "OPEN"
        /\ IF j.state \in {"OPEN_FILLED", "OPEN_CANCELED"}
           THEN \/ /\ reconcile_observed_order(j.event, obs)
                   /\ become(w, [j EXCEPT !.pc = "mark"])
                \/ ~reconcile_accepts(j.event, obs) /\ reject(w) /\ UNCHANGED ledger
           ELSE \/ record_fill(j.event, j.order) /\ done(w, j.event, j.state)
                \/ <<"open", j.order>> \in fills /\ reject(w) /\ UNCHANGED ledger
        /\ UNCHANGED <<broker, now>>

(* A slip: the worker frees the reservation itself, without a receipt.     *)
release_after_close_by_hand(w) ==
    LET j == job[w]
    IN  /\ at(w, "persist") /\ j.phase = "CLOSE"
        /\ \/ /\ j.state = "CLOSED_FLAT"
              /\ reservation' = [reservation EXCEPT ![j.event] = "RELEASED"]
              /\ become(w, [j EXCEPT !.pc = "mark"])
           \/ /\ j.state # "CLOSED_FLAT"
              /\ reject(w) /\ UNCHANGED reservation
        /\ UNCHANGED <<candidate, not_run, created, permit, submission, intents, fills, receipts,
                       broker, now>>

release_after_close(w) ==
    LET j == job[w]
    IN  /\ at(w, "persist") /\ j.phase = "CLOSE"
        /\ \/ /\ j.state = "CLOSED_FLAT"
              /\ release_consumed_after_flat(j.event)
              /\ become(w, [j EXCEPT !.pc = "mark"])
           \/ /\ j.state # "CLOSED_FLAT" \/ ~release_accepts(j.event)
              /\ reject(w) /\ UNCHANGED ledger
        /\ UNCHANGED <<broker, now>>

mark_reconciled(w) ==
    LET j == job[w]
    IN  /\ at(w, "mark")
        /\ \/ mark_lifecycle_intent_reconciled(j.event, j.phase) /\ done(w, j.event, j.state)
           \/ intent[<<j.event, j.phase>>] # "SUBMITTED" /\ reject(w) /\ UNCHANGED ledger
        /\ UNCHANGED <<broker, now>>

-----------------------------------------------------------------------------
crash(w) ==
    /\ ~free(w)
    /\ become(w, Idle)
    /\ UNCHANGED <<ledger, broker, now>>

tick ==
    /\ now < Horizon
    /\ now' = now + 1
    /\ UNCHANGED <<ledger, broker, job>>

(* The risk kernel freezes candidates and issues the opening permits.      *)
kernel_authorizes ==
    /\ \/ \E e \in Events, c \in Candidates : freeze_candidate(e, c)
       \/ \E e \in Events, c \in Candidates, day \in Days : reserve_and_issue_permit(e, c, day)
    /\ UNCHANGED <<broker, now, job>>

WorkerStep(w) ==
    \/ \E e \in Events :
        open(w, e) \/ close(w, e) \/ recover_open_state(w, e) \/ recover_flatness(w, e)
    \/ record_intent(w) \/ broker_submit(w) \/ bind_ack(w) \/ record_open_submission(w)
    \/ fresh_bound_truth(w) \/ recovered_truth(w)
    \/ record_open_transition(w) \/ release_after_close(w) \/ mark_reconciled(w)
    \/ crash(w)

LifecycleNext ==
    \/ \E w \in Workers : WorkerStep(w)
    \/ \E o \in Orders : broker_fill(o) \/ broker_cancel(o)
    \/ kernel_authorizes
    \/ tick

LifecycleSpec == LifecycleInit /\ [][LifecycleNext]_lifecycle_vars

-----------------------------------------------------------------------------
(* Properties                                                              *)

(* An event has at most one opening and one closing order at the broker,   *)
(* through crashes, lost acknowledgements, concurrent workers and          *)
(* alternate close permits.                                                *)
OneOrderPerPhase ==
    \A o, p \in Orders :
        placed(o) /\ placed(p) /\ broker[o].event = broker[p].event
            /\ broker[o].phase = broker[p].phase => o = p

(* No order reaches the broker before its durable intent is committed, and *)
(* an order bound to an intent is the order placed for it.                 *)
IntentBeforeOrder ==
    /\ \A o \in Orders : placed(o) => intent[<<broker[o].event, broker[o].phase>>] # "NONE"
    /\ \A x \in Events \X Phases : intent_order[x] # NoOrder =>
        /\ placed(intent_order[x])
        /\ <<broker[intent_order[x]].event, broker[intent_order[x]].phase>> = x

(* Budget is given back only when the broker holds nothing for the event:  *)
(* a released reservation means no position and no order that could still  *)
(* fill.                                                                   *)
ReleasedIsFlat ==
    \A e \in Events : reservation[e] = "RELEASED" =>
        /\ position(e) = 0
        /\ \A o \in Orders : placed(o) /\ broker[o].event = e => ~working(o)

(* A close never sells more than was opened: closing orders exist only for *)
(* openings the broker filled completely.                                  *)
NeverShort ==
    \A o \in Orders : placed(o) /\ broker[o].phase = "CLOSE" =>
        filled_units(broker[o].event, "OPEN") = Qty

(* The worker changes the ledger only by its transactions.                 *)
LedgerRefined == LedgerSpec

(* A state the worker reports to its caller is durable: OPEN_FILLED means  *)
(* the opening permit is FILLED, as close() requires, and CLOSED_FLAT      *)
(* means the reservation is released.                                      *)
ReportedStateIsDurable ==
    \A w \in Workers : at(w, "done") =>
        /\ job[w].state = "OPEN_FILLED" => permit[job[w].event] = "FILLED"
        /\ job[w].state = "CLOSED_FLAT" => reservation[job[w].event] = "RELEASED"
=============================================================================
