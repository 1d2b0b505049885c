----------------------------- MODULE RiskLedger -----------------------------
(***************************************************************************)
(* The durable SQLite ledger of the risk kernel (risk/ledger.py).          *)
(*                                                                         *)
(* Every mutating method of RiskLedger runs in one BEGIN IMMEDIATE         *)
(* transaction that either commits or rolls back, so each one is a single  *)
(* action here and a rejected call changes nothing.  Rows are keyed by     *)
(* event: candidates, not_run and reservations have event_id as a key, and *)
(* the canonical permit of a reservation is the only permit of its event.  *)
(* A candidate model value stands for the frozen tuple (candidate_id,      *)
(* policy, decision and expression digests); its exposure and underlying   *)
(* are those of the compiled expression the tuple names.  The control_state *)
(* table is read and written by the kernel alone and lives in RiskKernel.  *)
(***************************************************************************)
EXTENDS Integers, FiniteSets, FiniteSetsExt

CONSTANTS
    Events,             \* event_run_id values
    Candidates,         \* frozen candidate bindings
    Orders,             \* broker order identities
    Exposure,           \* candidate -> maximum loss of its expression
    Underlying,         \* candidate -> underlying symbol
    AggregateLimit,     \* RiskPolicy.aggregate_exposure_limit
    MaxOpen,            \* RiskPolicy.max_open_expressions
    MaxEntries,         \* RiskPolicy.max_entries_per_day
    Days,               \* UTC days a caller may pass as now
    NoCandidate, NoOrder, NoDay

ASSUME FiniteEvents == IsFiniteSet(Events)
ASSUME LimitsAreNaturals ==
    /\ AggregateLimit \in Nat
    /\ MaxOpen \in Nat \ {0}
    /\ MaxEntries \in Nat \ {0}
ASSUME SentinelsAreFresh ==
    NoCandidate \notin Candidates /\ NoOrder \notin Orders /\ NoDay \notin Days
ASSUME ExposureIsAmount == Exposure \in [Candidates -> Nat]

VARIABLES
    candidate,      \* candidates table
    not_run,        \* not_run table
    reservation,    \* reservations.state by event, NONE when there is no row
    created,        \* UTC day of reservations.created_at
    permit,         \* permits.state by event
    submission,     \* submissions.broker_order_id of the event's permit
    intent,         \* lifecycle_intents.state by event and phase
    intent_order,   \* lifecycle_intents.broker_order_id
    fills,          \* fills.fill_id: an order id, or "open-" and an order id
    receipts        \* types of the passport_events that name the event

rows == <<reservation, created, permit, submission>>
intents == <<intent, intent_order>>
ledger == <<candidate, not_run, reservation, created, permit, submission,
            intent, intent_order, fills, receipts>>

Phases == {"OPEN", "CLOSE"}
ReservationStates == {"NONE", "RESERVED", "CONSUMED", "RELEASED"}
PermitStates == {"NONE", "ISSUED", "SUBMITTED", "FILLED", "CANCELLED"}
IntentStates == {"NONE", "INTENDED", "SUBMITTED", "RECONCILED"}
FillIds == {"order", "open"} \X Orders

(* PassportEventType, RECONCILED split by the result its payload records.  *)
ReceiptTypes ==
    {"CANDIDATE_FROZEN", "NOT_RUN", "RESERVATION_HELD", "PERMIT_ISSUED",
     "ORDER_INTENDED", "ORDER_SUBMITTED", "FILL_OBSERVED", "RESERVATION_RELEASED",
     "RECONCILED_FILLED", "RECONCILED_CANCELLED", "RECONCILED_FLAT"}

TypeOK ==
    /\ candidate \in [Events -> Candidates \cup {NoCandidate}]
    /\ not_run \in SUBSET Events
    /\ reservation \in [Events -> ReservationStates]
    /\ created \in [Events -> Days \cup {NoDay}]
    /\ permit \in [Events -> PermitStates]
    /\ submission \in [Events -> Orders \cup {NoOrder}]
    /\ intent \in [Events \X Phases -> IntentStates]
    /\ intent_order \in [Events \X Phases -> Orders \cup {NoOrder}]
    /\ fills \in SUBSET FillIds
    /\ receipts \in [Events -> SUBSET ReceiptTypes]

(* A fresh database.                                                       *)
LedgerInit ==
    /\ candidate = [e \in Events |-> NoCandidate]
    /\ not_run = {}
    /\ reservation = [e \in Events |-> "NONE"]
    /\ created = [e \in Events |-> NoDay]
    /\ permit = [e \in Events |-> "NONE"]
    /\ submission = [e \in Events |-> NoOrder]
    /\ intent = [x \in Events \X Phases |-> "NONE"]
    /\ intent_order = [x \in Events \X Phases |-> NoOrder]
    /\ fills = {}
    /\ receipts = [e \in Events |-> {}]

-----------------------------------------------------------------------------
(* Reads                                                                    *)

OpenReservations == {e \in Events : reservation[e] \in {"RESERVED", "CONSUMED"}}

(* The sum of w over S, by counting w[x] units for every x.                *)
Units(w, S) == UNION {{x} \X (1..w[x]) : x \in S}
Total(w, S) == Cardinality(Units(w, S))

amount == [e \in Events |-> IF candidate[e] = NoCandidate THEN 0 ELSE Exposure[candidate[e]]]

open_reservation_total == Total(amount, OpenReservations)

OpenOn(u) == {e \in OpenReservations : Underlying[candidate[e]] = u}

open_reservation_total_for_underlying(u) == Total(amount, OpenOn(u))

open_reservation_count == Cardinality(OpenReservations)

EntriesOn(day) == {e \in Events : created[e] = day}

entries_today(day) == Cardinality(EntriesOn(day))

-----------------------------------------------------------------------------
(* Transactions: X_accepts is the conjunction of the checks a call makes    *)
(* before COMMIT, X the committed call.                                     *)

append_passport(e, types) == receipts' = [receipts EXCEPT ![e] = @ \cup types]

(* A slip: INSERT OR REPLACE, so that a second freeze rebinds the event.    *)
freeze_candidate_replaced(e, c) ==
    /\ e \notin not_run
    /\ candidate' = [candidate EXCEPT ![e] = c]
    /\ append_passport(e, {"CANDIDATE_FROZEN"})
    /\ UNCHANGED <<not_run, rows, intents, fills>>

freeze_candidate(e, c) ==
    /\ candidate[e] = NoCandidate
    /\ e \notin not_run
    /\ candidate' = [candidate EXCEPT ![e] = c]
    /\ append_passport(e, {"CANDIDATE_FROZEN"})
    /\ UNCHANGED <<not_run, rows, intents, fills>>

mark_not_run(e) ==
    /\ e \notin not_run
    /\ reservation[e] = "NONE"
    /\ not_run' = not_run \cup {e}
    /\ append_passport(e, {"NOT_RUN"})
    /\ UNCHANGED <<candidate, rows, intents, fills>>

(* A slip of the budget recheck: the new exposure is left out of the sum.  *)
reserve_accepts_sum_without_entry(e, c, day) ==
    /\ e \notin not_run /\ candidate[e] = c /\ reservation[e] = "NONE"
    /\ entries_today(day) < MaxEntries /\ open_reservation_count < MaxOpen
    /\ open_reservation_total <= AggregateLimit

reserve_accepts(e, c, day) ==
    /\ e \notin not_run
    /\ candidate[e] = c
    /\ reservation[e] = "NONE"
    /\ entries_today(day) < MaxEntries
    /\ open_reservation_count < MaxOpen
    /\ open_reservation_total + Exposure[c] <= AggregateLimit

reserve_and_issue_permit(e, c, day) ==
    /\ reserve_accepts(e, c, day)
    /\ reservation' = [reservation EXCEPT ![e] = "RESERVED"]
    /\ created' = [created EXCEPT ![e] = day]
    /\ permit' = [permit EXCEPT ![e] = "ISSUED"]
    /\ append_passport(e, {"RESERVATION_HELD", "PERMIT_ISSUED"})
    /\ UNCHANGED <<candidate, not_run, submission, intents, fills>>

submission_accepts(e, o) ==
    /\ reservation[e] = "RESERVED"
    /\ permit[e] = "ISSUED"
    /\ \A f \in Events : submission[f] # o

(* The monitored lifecycle passes append_passport=False: its bound intent  *)
(* already carries the ORDER_SUBMITTED receipt.                            *)
record_submission(e, o, append) ==
    /\ submission_accepts(e, o)
    /\ permit' = [permit EXCEPT ![e] = "SUBMITTED"]
    /\ submission' = [submission EXCEPT ![e] = o]
    /\ append_passport(e, IF append THEN {"ORDER_SUBMITTED"} ELSE {})
    /\ UNCHANGED <<candidate, not_run, reservation, created, intents, fills>>

record_fill(e, o) ==
    /\ permit[e] # "NONE"
    /\ <<"open", o>> \notin fills
    /\ fills' = fills \cup {<<"open", o>>}
    /\ UNCHANGED <<candidate, not_run, rows, intents, receipts>>

(* An observation [order, status, filled] is terminal when it is FILLED    *)
(* with a positive quantity or CANCELED with none.                         *)
ObservedFilled(obs) == obs.status = "FILLED" /\ obs.filled > 0
ObservedCanceled(obs) == obs.status = "CANCELED" /\ obs.filled = 0

reconcile_bound(e, obs) ==
    /\ permit[e] = "SUBMITTED"
    /\ submission[e] = obs.order
    /\ reservation[e] = "RESERVED"

(* The PARTIAL_FILL_STATE rejection, which the kernel answers with a       *)
(* control trigger.                                                        *)
reconcile_is_partial(e, obs) ==
    /\ reconcile_bound(e, obs)
    /\ obs.status # "FILLED"
    /\ obs.status = "PARTIALLY_FILLED" \/ obs.filled > 0

reconcile_accepts(e, obs) ==
    /\ reconcile_bound(e, obs)
    /\ ObservedFilled(obs) \/ ObservedCanceled(obs)
    /\ <<"order", obs.order>> \notin fills

reconcile_observed_order(e, obs) ==
    LET filled == ObservedFilled(obs)
    IN  /\ reconcile_accepts(e, obs)
        /\ permit' = [permit EXCEPT ![e] = IF filled THEN "FILLED" ELSE "CANCELLED"]
        /\ reservation' = [reservation EXCEPT ![e] = IF filled THEN "CONSUMED" ELSE "RELEASED"]
        /\ fills' = fills \cup {<<"order", obs.order>>}
        /\ append_passport(e, IF filled THEN {"FILL_OBSERVED", "RECONCILED_FILLED"}
                                        ELSE {"RESERVATION_RELEASED", "RECONCILED_CANCELLED"})
        /\ UNCHANGED <<candidate, not_run, created, submission, intents>>

(* A slip: the reservation is checked to be open but the permit is not     *)
(* checked to be FILLED.                                                   *)
release_accepts_any_open(e) == reservation[e] \in {"RESERVED", "CONSUMED"}

release_accepts(e) == permit[e] = "FILLED" /\ reservation[e] = "CONSUMED"

(* A slip: the flat release writes no receipt.                             *)
release_consumed_after_flat_unreceipted(e) ==
    /\ release_accepts(e)
    /\ reservation' = [reservation EXCEPT ![e] = "RELEASED"]
    /\ UNCHANGED <<candidate, not_run, created, permit, submission, intents,
                   fills, receipts>>

release_consumed_after_flat(e) ==
    /\ release_accepts(e)
    /\ reservation' = [reservation EXCEPT ![e] = "RELEASED"]
    /\ append_passport(e, {"RECONCILED_FLAT"})
    /\ UNCHANGED <<candidate, not_run, created, permit, submission, intents,
                   fills>>

(* UNIQUE(event_id, phase) and the permit key reject a second intent.      *)
record_lifecycle_intent(e, phase) ==
    /\ intent[<<e, phase>>] = "NONE"
    /\ intent' = [intent EXCEPT ![<<e, phase>>] = "INTENDED"]
    /\ append_passport(e, {"ORDER_INTENDED"})
    /\ UNCHANGED <<candidate, not_run, rows, intent_order, fills>>

bind_accepts(e, phase, o) ==
    /\ intent[<<e, phase>>] = "INTENDED"
    /\ \A x \in Events \X Phases : intent_order[x] # o

bind_lifecycle_intent(e, phase, o) ==
    /\ bind_accepts(e, phase, o)
    /\ intent' = [intent EXCEPT ![<<e, phase>>] = "SUBMITTED"]
    /\ intent_order' = [intent_order EXCEPT ![<<e, phase>>] = o]
    /\ append_passport(e, {"ORDER_SUBMITTED"})
    /\ UNCHANGED <<candidate, not_run, rows, fills>>

mark_lifecycle_intent_reconciled(e, phase) ==
    /\ intent[<<e, phase>>] = "SUBMITTED"
    /\ intent' = [intent EXCEPT ![<<e, phase>>] = "RECONCILED"]
    /\ UNCHANGED <<candidate, not_run, rows, intent_order, fills, receipts>>

(* What a broker may report about an order.                                *)
Observations ==
    [order : Orders, status : {"FILLED", "CANCELED", "PARTIALLY_FILLED", "NEW"}, filled : {0, 1}]

(* The transactions of the risk kernel.                                    *)
EntryNext ==
    \/ \E e \in Events, c \in Candidates : freeze_candidate(e, c)
    \/ \E e \in Events : mark_not_run(e)
    \/ \E e \in Events, c \in Candidates, day \in Days : reserve_and_issue_permit(e, c, day)
    \/ \E e \in Events, o \in Orders, append \in BOOLEAN : record_submission(e, o, append)
    \/ \E e \in Events, obs \in Observations : reconcile_observed_order(e, obs)
    \/ \E e \in Events : release_consumed_after_flat(e)

(* The transactions only the monitored lifecycle adds.                     *)
IntentNext ==
    \/ \E e \in Events, o \in Orders : record_fill(e, o)
    \/ \E e \in Events, phase \in Phases : record_lifecycle_intent(e, phase)
    \/ \E e \in Events, phase \in Phases, o \in Orders : bind_lifecycle_intent(e, phase, o)
    \/ \E e \in Events, phase \in Phases : mark_lifecycle_intent_reconciled(e, phase)

LedgerNext == EntryNext \/ IntentNext

EntrySpec == LedgerInit /\ [][EntryNext]_ledger

LedgerSpec == LedgerInit /\ [][LedgerNext]_ledger

-----------------------------------------------------------------------------
(* Properties                                                               *)

(* The reservation, permit and submission rows of an event never disagree, *)
(* whatever order record_submission, reconcile_observed_order and          *)
(* release_consumed_after_flat are called in: a live permit holds budget,  *)
(* a filled one holds it until flat, a cancelled one holds none, and a     *)
(* broker order is recorded exactly from submission on.                    *)
RowsAgree ==
    \A e \in Events :
        /\ permit[e] = "NONE" <=> reservation[e] = "NONE"
        /\ permit[e] \in {"ISSUED", "SUBMITTED"} => reservation[e] = "RESERVED"
        /\ permit[e] = "FILLED" => reservation[e] \in {"CONSUMED", "RELEASED"}
        /\ permit[e] = "CANCELLED" => reservation[e] = "RELEASED"
        /\ permit[e] \in {"NONE", "ISSUED"} <=> submission[e] = NoOrder
        /\ created[e] = NoDay <=> reservation[e] = "NONE"
        /\ reservation[e] # "NONE" => candidate[e] # NoCandidate

(* A broker order identity is bound to one event's permit and to one       *)
(* lifecycle intent, so one fill can never be credited to two events.      *)
OrderHasOneOwner ==
    /\ \A e, f \in Events :
        submission[e] = submission[f] /\ submission[e] # NoOrder => e = f
    /\ \A x, y \in Events \X Phases :
        intent_order[x] = intent_order[y] /\ intent_order[x] # NoOrder => x = y

(* An event marked NOT_RUN never holds a reservation or permit, even when  *)
(* its candidate was frozen first and an authorization was under way.      *)
NotRunNeverEnters == \A e \in not_run : reservation[e] = "NONE" /\ permit[e] = "NONE"

(* Budget that is reserved, or consumed and not yet proved flat, stays     *)
(* within the aggregate limit (reserve_and_issue_permit rechecks it).      *)
ExposureWithinPolicy == open_reservation_total <= AggregateLimit

(* Neither the open expressions nor the entries of any one UTC day exceed  *)
(* the policy's counts, in whatever order concurrent callers' days reach   *)
(* the ledger; releasing an entry does not give its day back.              *)
CountsWithinPolicy ==
    /\ open_reservation_count <= MaxOpen
    /\ \A day \in Days : Cardinality(EntriesOn(day)) <= MaxEntries

(* The risk policy's aggregate limits hold together, whatever the callers' *)
(* order (aggregate, open and daily checks of reserve_and_issue_permit).   *)
WithinPolicy == ExposureWithinPolicy /\ CountsWithinPolicy

(* The Trade Passport alone determines the reservation and permit states:  *)
(* every transaction that moves a row appends the receipt that says so.    *)
PassportExplainsRows ==
    \A e \in Events :
        /\ "RESERVATION_HELD" \in receipts[e] <=> reservation[e] # "NONE"
        /\ "PERMIT_ISSUED" \in receipts[e] <=> permit[e] # "NONE"
        /\ "FILL_OBSERVED" \in receipts[e] <=> permit[e] = "FILLED"
        /\ "RECONCILED_CANCELLED" \in receipts[e] <=> permit[e] = "CANCELLED"
        /\ "RECONCILED_FLAT" \in receipts[e] \/ "RESERVATION_RELEASED" \in receipts[e]
                <=> reservation[e] = "RELEASED"
        /\ "NOT_RUN" \in receipts[e] <=> e \in not_run

(* An event is entered at most once, ever: its reservation row is never    *)
(* deleted, a released reservation is never held again, consumed budget is *)
(* never handed back to RESERVED, and the frozen candidate whose exposure  *)
(* was counted is never replaced.                                          *)
EnteredOnce ==
    [][\A e \in Events :
        /\ reservation[e] # "NONE" => reservation'[e] # "NONE"
        /\ reservation[e] = "RELEASED" => reservation'[e] = "RELEASED"
        /\ reservation[e] = "CONSUMED" => reservation'[e] # "RESERVED"
        /\ candidate[e] # NoCandidate => candidate'[e] = candidate[e]]_ledger
=============================================================================
