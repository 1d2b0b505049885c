-------------------------- MODULE CompoundingKernel --------------------------
(***************************************************************************)
(* V2 compounding risk: the V2 tables of risk/ledger.py, and over them     *)
(* preview_allocation_v2 and authorize_entry_v2 (risk/kernel.py) with the  *)
(* sizing of allocate_defined_risk (autonomy/universe.py).                 *)
(*                                                                         *)
(* The ledger: reservations that bind an opportunity, a tier, a quantity   *)
(* and the account snapshot they were sized against.  Each method is one   *)
(* BEGIN IMMEDIATE transaction, so one action, and a refused call changes  *)
(* nothing.  Fractions of equity are percentages: an amount a is within p  *)
(* percent of equity q when 100 * a <= p * q.  Terms[e] is the frozen      *)
(* candidate of event e, from which its permit and its maximum loss        *)
(* follow.  One owner policy exists, since every field of RiskPolicyV2 is  *)
(* fixed.                                                                  *)
(*                                                                         *)
(* The kernel: it reads the control state and the       *)
(* frozen candidate, then the account, then positions and orders, then the *)
(* rows; each of these is a step, and only the reservation is a            *)
(* transaction.  Neighbouring reads of one source are one step, and so is  *)
(* a trigger: RiskKernel splits those.                                     *)
(*                                                                         *)
(* External: the broker, honest here.  It holds cash and one position per  *)
(* filled order, whose market value moves; account(), positions() and      *)
(* orders() each report it at the instant of the call, or are unusable.    *)
(***************************************************************************)
EXTENDS Integers, FiniteSets, FiniteSetsExt, RiskControls

CONSTANTS
    Events,
    Terms,          \* event -> [opportunity, underlying, tier, debit, quantity]
    LegacyEvents,   \* events a V1 kernel may enter on the same ledger
    Kernels,
    StartingEquity, \* RiskPolicyV2.starting_equity, also the cash at the start
    Values,         \* market values a position may move to
    NoRow

VARIABLES
    frozen,         \* candidates table
    not_run,        \* not_run table
    row,            \* reservations joined with permits and v2_reservations
    control,        \* control_state table
    call,           \* what each kernel is executing
    cash,           \* broker: unborrowed cash
    placed,         \* broker: events whose opening order it has accepted
    value           \* broker: event -> market value, for the orders it filled

ledger == <<frozen, not_run, row>>

PerUnderlying == 20
Aggregate == 50

max_loss(e) == Terms[e].debit * Terms[e].quantity

HasRow == {e \in Events : row[e] # NoRow}
Open == {e \in HasRow : row[e].state \in {"RESERVED", "CONSUMED"}}

(* Rows whose debit the broker's cash does not show yet.                   *)
Reserved == {e \in HasRow : row[e].state = "RESERVED"}
On(S, u) == {e \in S : Terms[e].underlying = u}
debit(S) == MapThenSumSet(max_loss, S)

has_non_v2_open_reservations == \E e \in Open : ~row[e].v2

LedgerInit ==
    /\ frozen = {} /\ not_run = {}
    /\ row = [e \in Events |-> NoRow]

freeze_candidate(e) ==
    /\ e \notin frozen \cup not_run
    /\ frozen' = frozen \cup {e} /\ UNCHANGED <<not_run, row>>

mark_not_run(e) ==
    /\ e \notin not_run /\ row[e] = NoRow
    /\ not_run' = not_run \cup {e} /\ UNCHANGED <<frozen, row>>

(* V1 reserve_and_issue_permit on the same file (its budgets: RiskLedger). *)
reserve_and_issue_permit(e) ==
    /\ e \in LegacyEvents /\ e \in frozen /\ e \notin not_run /\ row[e] = NoRow
    /\ row' = [row EXCEPT ![e] = [state |-> "RESERVED", permit |-> "ISSUED", v2 |-> FALSE,
                                  equity |-> 0, cash |-> 0, seq |-> 1 + Cardinality(HasRow)]]
    /\ UNCHANGED <<frozen, not_run>>

(* The four capacity checks, over the rows the transaction reads.          *)
fits(e, basis, funds) ==
    /\ 100 * max_loss(e) <= Terms[e].tier * basis
    /\ 100 * (debit(Open) + max_loss(e)) <= Aggregate * basis
    /\ 100 * (debit(On(Open, Terms[e].underlying)) + max_loss(e)) <= PerUnderlying * basis
    /\ max_loss(e) <= funds - debit(Reserved)

(* A slip: only the event is looked up, not the opportunity.               *)
unbound_by_event(e) == row[e] = NoRow

(* No V2 row carries the event or its opportunity, and no V1 row the event. *)
unbound(e) ==
    /\ row[e] = NoRow
    /\ \A f \in HasRow : row[f].v2 => Terms[f].opportunity # Terms[e].opportunity

(* A row found with every bound value equal is an exact replay, answered   *)
(* with the stored receipt; any other row found refuses the call.  Neither *)
(* changes the tables.                                                     *)
reserve_v2_accepts(e, basis, funds) ==
    /\ funds <= basis
    /\ e \notin not_run /\ e \in frozen
    /\ unbound(e)
    /\ ~has_non_v2_open_reservations
    /\ fits(e, basis, funds)

(* A slip: a second authorization rebinds the row to its own snapshot.     *)
reserve_v2_rebinds(e, basis, funds) ==
    /\ reserve_v2_accepts(e, basis, funds) \/ (e \in Reserved /\ row[e].v2 /\ funds <= basis)
    /\ row' = [row EXCEPT ![e] = [state |-> "RESERVED", permit |-> "ISSUED", v2 |-> TRUE,
                                  equity |-> basis, cash |-> funds,
                                  seq |-> 1 + Cardinality(HasRow)]]
    /\ UNCHANGED <<frozen, not_run>>

reserve_v2_and_issue_permit(e, basis, funds) ==
    /\ reserve_v2_accepts(e, basis, funds)
    /\ row' = [row EXCEPT ![e] = [state |-> "RESERVED", permit |-> "ISSUED", v2 |-> TRUE,
                                  equity |-> basis, cash |-> funds,
                                  seq |-> 1 + Cardinality(HasRow)]]
    /\ UNCHANGED <<frozen, not_run>>

(* Submission and reconciliation are those of RiskLedger, on the joined    *)
(* row; their order-identity bookkeeping is left to it.                    *)
move(e, state, permit) ==
    /\ row' = [row EXCEPT ![e].state = state, ![e].permit = permit]
    /\ UNCHANGED <<frozen, not_run>>

in(e, state, permit) == row[e] # NoRow /\ row[e].state = state /\ row[e].permit = permit

record_submission(e) == in(e, "RESERVED", "ISSUED") /\ move(e, "RESERVED", "SUBMITTED")
reconcile_filled(e) == in(e, "RESERVED", "SUBMITTED") /\ move(e, "CONSUMED", "FILLED")

reconcile_cancelled(e) == in(e, "RESERVED", "SUBMITTED") /\ move(e, "RELEASED", "CANCELLED")
release_consumed_after_flat(e) == in(e, "CONSUMED", "FILLED") /\ move(e, "RELEASED", "FILLED")

-----------------------------------------------------------------------------
(* The kernel and the broker.                                              *)

FreezeFraction == 50    \* emergency_drawdown_freeze_fraction, in percent

broker == <<cash, placed, value>>
kernel_vars == <<ledger, control, call, broker>>

held == DOMAIN value
equity == cash + MapThenSumSet(LAMBDA e : value[e], held)

Idle == [pc |-> "idle"]

KernelInit ==
    /\ LedgerInit
    /\ control = "ACTIVE"
    /\ call = [k \in Kernels |-> Idle]
    /\ cash = StartingEquity /\ placed = {} /\ value = <<>>

at(k, pc) == call[k].pc = pc
become(k, locals) == call' = [call EXCEPT ![k] = locals] /\ UNCHANGED control
reject(k) == become(k, Idle)

(* _apply_trigger, and the call ends.                                      *)
apply_trigger(k, trigger) ==
    /\ control' = IF transition_raises(control, trigger) THEN control
                  ELSE next_control_state(control, trigger)
    /\ call' = [call EXCEPT ![k] = Idle]

(* startup_reconciliation, the way back to ACTIVE.                         *)
startup_reconciliation(k) ==
    /\ at(k, "idle") /\ control # "ACTIVE"
    /\ apply_trigger(k, IF held # {} THEN "NON_FLAT_STATE" ELSE "RESOLVED")
    /\ UNCHANGED <<ledger, broker>>

-----------------------------------------------------------------------------
(* Entry must be allowed; an authorization also finds its candidate.       *)
v2_begin(k, mode, e) ==
    /\ at(k, "idle") /\ entry_allowed(control)
    /\ mode = "authorize" => e \in frozen \ not_run
    /\ become(k, [pc |-> "account", mode |-> mode, event |-> e])
    /\ UNCHANGED <<ledger, broker>>

(* _v2_fresh_truth: the account must be fresh and unborrowed, ...          *)
fresh_account(k) ==
    /\ at(k, "account")
    /\ \/ \E t \in {"STALE_TRUTH", "CONTRADICTORY_TRUTH"} : apply_trigger(k, t)
       \/ become(k, [pc |-> "positions", mode |-> call[k].mode, event |-> call[k].event,
                     equity |-> equity, cash |-> cash])
    /\ UNCHANGED <<ledger, broker>>

(* ... then positions and orders, and the drawdown freeze on the equity    *)
(* read before them.                                                       *)
fresh_positions_orders(k) ==
    LET c == call[k]
    IN  /\ at(k, "positions")
        /\ IF 100 * c.equity <= FreezeFraction * StartingEquity
           THEN apply_trigger(k, "DRAWDOWN_LIMIT_BREACHED")
           ELSE become(k, [pc |-> "rows", mode |-> c.mode, event |-> c.event,
                           equity |-> c.equity, cash |-> c.cash,
                           positions |-> {Terms[e].underlying : e \in held},
                           orders |-> placed \ held])
        /\ UNCHANGED <<ledger, broker>>

(* _v2_portfolio: the open rows, split into consumed and pending debit.    *)
consumed == {e \in Open \ Reserved : row[e].v2}
pending == {e \in Reserved : row[e].v2}

(* Every open row has a V2 binding, every position a consumed row and      *)
(* every working order a recorded submission.                              *)
attributed(positions, orders) ==
    /\ ~has_non_v2_open_reservations
    /\ positions \subseteq {Terms[e].underlying : e \in consumed}
    /\ orders \subseteq {e \in HasRow : row[e].v2 /\ row[e].permit # "ISSUED"}

(* allocate_defined_risk: the least of tier, underlying, aggregate and     *)
(* cash capacity, in hundredths, ...                                       *)
capacity(c) ==
    LET u == Terms[c.event].underlying
    IN  Min({Terms[c.event].tier * c.equity,
             PerUnderlying * c.equity - 100 * debit(On(consumed \cup pending, u)),
             Aggregate * c.equity - 100 * debit(consumed \cup pending),
             100 * (c.cash - debit(pending))})

(* ... in whole contracts.  A call whose own reservation is pending gets   *)
(* its size again; one whose opportunity another event has pending is      *)
(* refused, as is one no capacity is left for: size 0.                     *)
allocate_defined_risk(c) ==
    LET pending_for == {f \in pending : Terms[f].opportunity = Terms[c.event].opportunity}
        q == capacity(c) \div (100 * Terms[c.event].debit)
    IN  CASE c.event \in pending_for -> Terms[c.event].quantity
          [] pending_for = {} /\ q >= 1 -> q
          [] OTHER -> 0

(* A portfolio that contradicts itself raises the trigger; an abstention,  *)
(* a preview or a size other than the compiled one ends the call.          *)
size_allocation(k) ==
    LET c == call[k]
    IN  /\ at(k, "rows")
        /\ IF ~attributed(c.positions, c.orders) \/ debit(consumed) > c.equity
           THEN apply_trigger(k, "CONTRADICTORY_TRUTH")
           ELSE IF c.mode = "authorize" /\ allocate_defined_risk(c) = Terms[c.event].quantity
           THEN become(k, [pc |-> "reserve", event |-> c.event, equity |-> c.equity,
                           cash |-> c.cash])
           ELSE reject(k)
        /\ UNCHANGED <<ledger, broker>>

authorize_reserve(k) ==
    LET c == call[k]
    IN  /\ at(k, "reserve") /\ reject(k)
        /\ \/ reserve_v2_and_issue_permit(c.event, c.equity, c.cash)
           \/ ~reserve_v2_accepts(c.event, c.equity, c.cash) /\ UNCHANGED ledger
        /\ UNCHANGED broker

-----------------------------------------------------------------------------
(* The calls that are one ledger transaction.  A fill is reconciled when   *)
(* fresh truth shows the order filled, a release when it shows the         *)
(* underlying flat.                                                        *)
kernel_transaction(k) ==
    /\ at(k, "idle")
    /\ \/ \E e \in Events : freeze_candidate(e) \/ mark_not_run(e)
       \/ \E e \in Events : reserve_and_issue_permit(e)
       \/ \E e \in placed : record_submission(e)
       \/ \E e \in held : reconcile_filled(e)
       \/ \E e \in Events \ (placed \cup held) : reconcile_cancelled(e)
       \/ \E e \in Events :
             /\ \A f \in held : Terms[f].underlying # Terms[e].underlying
             /\ release_consumed_after_flat(e)
    /\ UNCHANGED <<control, call, broker>>

(* External: the broker accepts, fills or cancels an opening order, closes *)
(* a position at its value, and the market moves.                          *)
broker_place(e) ==
    /\ e \in HasRow /\ row[e].permit = "ISSUED" /\ e \notin placed
    /\ placed' = placed \cup {e} /\ UNCHANGED <<cash, value>>

broker_fill(e) ==
    /\ e \in placed \ held /\ row[e].state = "RESERVED" /\ cash >= max_loss(e)
    /\ cash' = cash - max_loss(e)
    /\ value' = [f \in held \cup {e} |-> IF f = e THEN max_loss(e) ELSE value[f]]
    /\ UNCHANGED placed

broker_cancel(e) ==
    /\ e \in placed \ held /\ row[e].permit = "SUBMITTED"
    /\ placed' = placed \ {e} /\ UNCHANGED <<cash, value>>

broker_close(e) ==
    /\ e \in held /\ row[e].permit = "FILLED"
    /\ cash' = cash + value[e]
    /\ value' = [f \in held \ {e} |-> value[f]]
    /\ UNCHANGED placed

market_moves(e, v) ==
    /\ e \in held /\ v # value[e]
    /\ value' = [value EXCEPT ![e] = v] /\ UNCHANGED <<cash, placed>>

BrokerStep ==
    /\ \/ \E e \in Events : broker_place(e) \/ broker_fill(e) \/ broker_cancel(e) \/ broker_close(e)
       \/ \E e \in Events, v \in Values : market_moves(e, v)
    /\ UNCHANGED <<ledger, control, call>>

KernelStep(k) ==
    \/ startup_reconciliation(k)
    \/ \E mode \in {"preview", "authorize"}, e \in Events : v2_begin(k, mode, e)
    \/ fresh_account(k) \/ fresh_positions_orders(k)
    \/ size_allocation(k) \/ authorize_reserve(k)
    \/ kernel_transaction(k)

KernelNext == (\E k \in Kernels : KernelStep(k)) \/ BrokerStep
CompoundingSpec == KernelInit /\ [][KernelNext]_kernel_vars

-----------------------------------------------------------------------------
(* An opportunity backs at most one reservation, ever, though several      *)
(* events and kernels may offer it (reserve_v2_and_issue_permit looks the  *)
(* row up by event and by opportunity).                                    *)
OneRowPerOpportunity ==
    \A e, f \in HasRow :
        row[e].v2 /\ row[f].v2 /\ Terms[e].opportunity = Terms[f].opportunity => e = f

(* Among the rows made up to any V2 reservation and still open, the open   *)
(* debit stays within half of the equity that reservation was sized on,    *)
(* one underlying within a fifth and the reservation within its tier,      *)
(* however the transactions of several kernels interleave.                 *)
CapsHold ==
    \A r \in Open : row[r].v2 =>
        LET before == {e \in Open : row[e].seq <= row[r].seq} IN
        /\ 100 * debit(before) <= Aggregate * row[r].equity
        /\ 100 * debit(On(before, Terms[r].underlying)) <= PerUnderlying * row[r].equity
        /\ 100 * max_loss(r) <= Terms[r].tier * row[r].equity

(* What a reservation was bound to is never rewritten, and it only moves   *)
(* forward: RESERVED to CONSUMED or RELEASED, CONSUMED to RELEASED.        *)
BindingsKept ==
    \A e \in HasRow :
        /\ row'[e] # NoRow
        /\ row'[e].equity = row[e].equity /\ row'[e].cash = row[e].cash
        /\ row'[e].seq = row[e].seq /\ row'[e].v2 = row[e].v2
        /\ row[e].state = "CONSUMED" => row'[e].state # "RESERVED"
        /\ row[e].state = "RELEASED" => row'[e].state = "RELEASED"

(* Called one at a time on a ledger no V1 kernel has entered on, the       *)
(* kernel never promises the same cash twice: every reservation the broker *)
(* has not filled yet could be filled from the unborrowed cash, together,  *)
(* whatever the market did meanwhile.                                      *)
CashCovers ==
    (\A e \in HasRow : row[e].v2)
        => debit({e \in HasRow : row[e].state = "RESERVED"} \ held) <= cash

(* The sizing and the transaction apply the four caps independently and    *)
(* agree: called one at a time, a size the allocator chose is not refused  *)
(* by the transaction's own sums.                                          *)
AllocationFits ==
    \A k \in Kernels :
        at(k, "reserve") /\ unbound(call[k].event)
            => fits(call[k].event, call[k].equity, call[k].cash)
=============================================================================
