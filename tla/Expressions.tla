---------------------------- MODULE Expressions ----------------------------
(* The Gate D expressions (execution/expression/): observation quality        *)
(* (validation.py), contract selection (geometry.py) and quote-side economics *)
(* (economics.py), the production compiler (compiler.py) and the read-only    *)
(* tournament that compares expressions (tournament.py), which share these    *)
(* rules and call them in different orders.                                   *)
(*                                                                            *)
(* Compiler: a market snapshot is assembled observation by observation under  *)
(* the rules of observations.py; a request then compiles the promoted         *)
(* expression, beside the tournament's rows for the same terms.  The legs of  *)
(* a compiled vertical go on to the restricted permit constructor             *)
(* (execution/models.py).  Tournament: events arrive one by one; after each   *)
(* the tournament is run over all of them.                                    *)
(*                                                                            *)
(* Prices, strikes and deltas are integers; a symbol is a number, so that     *)
(* symbol order is number order; a feed identity is whether it is pinned; a   *)
(* quote's size is the smaller of its two sizes.  A check answers "OK" or the *)
(* reason of the first rule that fails.  An edge is the fraction num/den of   *)
(* after_cost_edge_basis_points, exact when every drag is a whole number of   *)
(* basis points.                                                              *)
EXTENDS Integers, Sequences, FiniteSets, FiniteSetsExt

CONSTANTS
    Nil,
    Policies,       \* promoted policies
    Contracts,      \* option observations that may be in the chain
    Packages,       \* package quotes
    Shares,         \* share observations
    Borrows,        \* instants of borrow evidence
    Requests,       \* a decision, and whether each digest beside it is the right one
    ChainLimit,     \* bound: contracts in a chain
    PackageLimit,   \* bound: package quotes in a snapshot
    Clock, Day,     \* the snapshot's observation clock and its date
    Snapshots,      \* the snapshots events of a tournament may carry
    MaxEvents       \* bound: events of a tournament

-----------------------------------------------------------------------------
CONTRACT_MULTIPLIER == 100

When(broken, reason) == IF broken THEN reason ELSE "OK"

FirstReason(checks) ==
    LET failed == SelectSeq(checks, LAMBDA r : r # "OK")
    IN  IF failed = <<>> THEN "OK" ELSE Head(failed)

Abs(n) == IF n < 0 THEN -n ELSE n
-----------------------------------------------------------------------------
(* validation.py.  An observation carries pinned, data_class and quote; a   *)
(* snapshot its clock, share, chain, packages and borrow_locate.            *)

data_class_admitted(o, policy) ==
    o.data_class = "EXECUTABLE_DATA" \/ policy.allows_indicative_data

spread_too_wide(bid, ask, policy) == (ask - bid) * 10000 > policy.spread_max_bps * ask

validate_quote(quote, snapshot, policy) ==
    FirstReason(<<
        When(quote.observed_at > snapshot.clock, "TIME_INCONSISTENT"),
        When(snapshot.clock - quote.observed_at > policy.quote_max_age, "STALE_QUOTE"),
        When(quote.bid <= 0 \/ quote.ask <= 0, "NO_QUOTE"),
        When(quote.ask < quote.bid, "CROSSED_QUOTE"),
        When(quote.size < policy.min_quote_size, "INSUFFICIENT_SIZE"),
        When(spread_too_wide(quote.bid, quote.ask, policy), "SPREAD_TOO_WIDE")>>)

validate_observation(o, snapshot, policy) ==
    FirstReason(<<
        When(~o.pinned, "UNKNOWN_FEED"),
        When(~data_class_admitted(o, policy), "INDICATIVE_ONLY"),
        validate_quote(o.quote, snapshot, policy)>>)

validate_cross_leg_skew(long, short, policy) ==
    When(Abs(long.quote.observed_at - short.quote.observed_at) > policy.cross_leg_skew_max,
         "ASYNCHRONOUS_QUOTES")

validate_package(package, snapshot, policy) ==
    FirstReason(<<
        When(~package.pinned, "UNKNOWN_FEED"),
        When(~data_class_admitted(package, policy), "INDICATIVE_ONLY"),
        When(package.observed_at > snapshot.clock, "TIME_INCONSISTENT"),
        When(snapshot.clock - package.observed_at > policy.quote_max_age, "STALE_QUOTE"),
        When(package.net_bid <= 0 \/ package.net_ask <= 0, "PACKAGE_UNAVAILABLE"),
        When(package.net_ask < package.net_bid, "CROSSED_QUOTE"),
        When(package.size < policy.min_quote_size, "INSUFFICIENT_SIZE"),
        When(spread_too_wide(package.net_bid, package.net_ask, policy), "SPREAD_TOO_WIDE")>>)

validate_borrow_locate(snapshot, policy) ==
    IF snapshot.borrow_locate = Nil THEN "BORROW_LOCATE_MISSING"
    ELSE FirstReason(<<
        When(snapshot.borrow_locate > snapshot.clock, "TIME_INCONSISTENT"),
        When(snapshot.clock - snapshot.borrow_locate > policy.quote_max_age, "STALE_QUOTE")>>)
-----------------------------------------------------------------------------
(* geometry.py.                                                             *)

option_type_for(up) == IF up THEN "CALL" ELSE "PUT"

contract_dte(c, snapshot) == c.expiry - snapshot.day

contract_is_eligible(c, snapshot, policy, up) ==
    /\ c.option_type = option_type_for(up)
    /\ data_class_admitted(c, policy)
    /\ c.quote.bid > 0 /\ c.quote.ask > 0 /\ c.quote.ask >= c.quote.bid
    /\ contract_dte(c, snapshot) \in policy.min_dte..policy.max_dte
    /\ c.reported_delta # Nil /\ Abs(c.reported_delta) \in policy.delta_min..policy.delta_max
    /\ c.open_interest # Nil /\ c.open_interest >= policy.liquidity_min_open_interest

precedes(a, b) ==
    \/ a[1] < b[1]
    \/ a[1] = b[1] /\ a[2] < b[2]
    \/ a[1] = b[1] /\ a[2] = b[2] /\ a[3] <= b[3]

select_long_contract(snapshot, policy, up) ==
    LET eligible == {c \in snapshot.chain : contract_is_eligible(c, snapshot, policy, up)}
        key(c) == <<IF up THEN c.strike ELSE -c.strike, c.quote.ask, c.symbol>>
    IN  IF eligible = {} THEN Nil
        ELSE CHOOSE c \in eligible : \A d \in eligible : precedes(key(c), key(d))

\* A slip: the short leg is the nearest strike of any expiry.
select_short_any_expiry(snapshot, policy, up, long) ==
    LET candidates == {c \in snapshot.chain :
            /\ c.symbol # long.symbol
            /\ contract_is_eligible(c, snapshot, policy, up)
            /\ IF up THEN c.strike > long.strike ELSE c.strike < long.strike}
        key(c) == <<Abs(c.strike - long.strike), c.quote.ask, c.symbol>>
    IN  IF candidates = {} THEN Nil
        ELSE CHOOSE c \in candidates : \A d \in candidates : precedes(key(c), key(d))

select_short_contract(snapshot, policy, up, long) ==
    LET candidates == {c \in snapshot.chain :
            /\ c.expiry = long.expiry /\ c.symbol # long.symbol
            /\ contract_is_eligible(c, snapshot, policy, up)
            /\ IF up THEN c.strike > long.strike ELSE c.strike < long.strike}
        key(c) == <<Abs(c.strike - long.strike), c.quote.ask, c.symbol>>
    IN  IF candidates = {} THEN Nil
        ELSE CHOOSE c \in candidates : \A d \in candidates : precedes(key(c), key(d))

select_vertical_geometry(snapshot, policy, up) ==
    LET long == select_long_contract(snapshot, policy, up)
        short == IF long = Nil THEN Nil ELSE select_short_contract(snapshot, policy, up, long)
        width == IF short = Nil THEN 0 ELSE Abs(short.strike - long.strike)
    IN  [reason |-> FirstReason(<<
            When(long = Nil, "UNSUPPORTED_CONTRACT"),
            When(short = Nil, "GEOMETRY_INVALID"),
            When(width \notin policy.width_min..policy.width_max, "WIDTH_OUT_OF_BOUNDS")>>),
         long |-> long, short |-> short, width |-> width]

\* The package quote is looked up by the identity made of the two symbols.
select_package(snapshot, geometry) ==
    LET legs == <<geometry.long.symbol, geometry.short.symbol>>
        found == {k \in snapshot.packages : k.package_id = legs /\ k.legs = legs}
    IN  IF found = {} THEN Nil ELSE CHOOSE k \in found : TRUE
-----------------------------------------------------------------------------
(* economics.py: one expression's row, rejected with a reason or compared.  *)

Rejected(reason) == [reason |-> reason, entry_cost |-> 0, max_loss |-> 0, spread |-> 0]

check_quote_quality(quote, policy) ==
    FirstReason(<<
        When(quote.bid <= 0 \/ quote.ask <= 0, "NO_QUOTE"),
        When(quote.ask < quote.bid, "CROSSED_QUOTE"),
        When(quote.size < policy.min_quote_size, "INSUFFICIENT_SIZE"),
        When(spread_too_wide(quote.bid, quote.ask, policy), "SPREAD_TOO_WIDE")>>)

cash_economics == Rejected("OK")

\* Buys cross the ask, short sales the bid.
shares_economics(snapshot, policy, up) ==
    LET quote == snapshot.share.quote
        price == IF up THEN quote.ask ELSE quote.bid
        reason == FirstReason(<<
            When(~data_class_admitted(snapshot.share, policy), "INDICATIVE_ONLY"),
            check_quote_quality(quote, policy),
            When(~up /\ snapshot.borrow_locate = Nil, "BORROW_LOCATE_MISSING"),
            When(price > policy.operational_loss_budget, "EXPOSURE_BUDGET_EXCEEDED")>>)
    IN  IF reason # "OK" THEN Rejected(reason)
        ELSE [reason |-> "OK", entry_cost |-> price, max_loss |-> price,
              spread |-> quote.ask - quote.bid]

option_economics(contract, policy) ==
    LET premium == contract.quote.ask * CONTRACT_MULTIPLIER
        reason == FirstReason(<<
            When(~data_class_admitted(contract, policy), "INDICATIVE_ONLY"),
            check_quote_quality(contract.quote, policy),
            When(premium > policy.operational_loss_budget, "EXPOSURE_BUDGET_EXCEEDED")>>)
    IN  IF reason # "OK" THEN Rejected(reason)
        ELSE [reason |-> "OK", entry_cost |-> premium, max_loss |-> premium,
              spread |-> (contract.quote.ask - contract.quote.bid) * CONTRACT_MULTIPLIER]

debit_vertical_economics(package, width, policy) ==
    LET debit == package.net_ask * CONTRACT_MULTIPLIER
        reason == FirstReason(<<
            When(~data_class_admitted(package, policy), "INDICATIVE_ONLY"),
            When(package.net_bid <= 0 \/ package.net_ask <= 0, "PACKAGE_UNAVAILABLE"),
            When(package.net_ask < package.net_bid, "CROSSED_QUOTE"),
            When(package.size < policy.min_quote_size, "INSUFFICIENT_SIZE"),
            When(spread_too_wide(package.net_bid, package.net_ask, policy), "SPREAD_TOO_WIDE"),
            When(debit >= width * CONTRACT_MULTIPLIER, "DEBIT_NOT_BELOW_WIDTH"),
            When(debit > policy.operational_loss_budget, "EXPOSURE_BUDGET_EXCEEDED")>>)
    IN  IF reason # "OK" THEN Rejected(reason)
        ELSE [reason |-> "OK", entry_cost |-> debit, max_loss |-> debit,
              spread |-> (package.net_ask - package.net_bid) * CONTRACT_MULTIPLIER]
-----------------------------------------------------------------------------
(* tournament.py: every expression compared on one event's terms.           *)

strict_shares_economics(snapshot, policy, up) ==
    LET reason == FirstReason(<<
            validate_observation(snapshot.share, snapshot, policy),
            IF up THEN "OK" ELSE validate_borrow_locate(snapshot, policy)>>)
    IN  IF reason # "OK" THEN Rejected(reason) ELSE shares_economics(snapshot, policy, up)

vertical_row(snapshot, policy, up) ==
    LET geometry == select_vertical_geometry(snapshot, policy, up)
        package == IF geometry.reason # "OK" THEN Nil ELSE select_package(snapshot, geometry)
        reason == IF geometry.reason # "OK" THEN geometry.reason
                  ELSE FirstReason(<<
                      validate_observation(geometry.long, snapshot, policy),
                      validate_observation(geometry.short, snapshot, policy),
                      validate_cross_leg_skew(geometry.long, geometry.short, policy),
                      IF package = Nil THEN "PACKAGE_UNAVAILABLE"
                      ELSE validate_package(package, snapshot, policy)>>)
    IN  IF reason # "OK" THEN Rejected(reason)
        ELSE debit_vertical_economics(package, geometry.width, policy)

event_economics(snapshot, policy, up) ==
    LET contract == select_long_contract(snapshot, policy, up)
        first == IF contract = Nil THEN "UNSUPPORTED_CONTRACT"
                 ELSE validate_observation(contract, snapshot, policy)
    IN  [CASH_NO_TRADE |-> cash_economics,
         SHARES |-> strict_shares_economics(snapshot, policy, up),
         ONE_LONG_OPTION |-> IF first # "OK" THEN Rejected(first)
                             ELSE option_economics(contract, policy),
         DEBIT_VERTICAL |-> IF first # "OK" THEN Rejected(first)
                            ELSE vertical_row(snapshot, policy, up)]
-----------------------------------------------------------------------------
(* The compiler.                                                              *)
VARIABLES
    policy,
    snapshot,       \* of the compiler: the market snapshot assembled so far
    result,         \* the answer of compile_or_no_package, Nil before it
    rows,           \* the tournament's rows for the same terms, Nil before it
    events,         \* of the tournament: the events decided so far, with their rows
    report          \* what the last tournament reported, Nil before it

compilerVars == <<snapshot, policy, result, rows>>

CompilerInit ==
    /\ policy \in Policies
    /\ \E share \in Shares :
          /\ share.quote.observed_at <= Clock
          /\ snapshot = [clock |-> Clock, day |-> Day, share |-> share, chain |-> {},
                         packages |-> {}, borrow_locate |-> Nil]
    /\ result = Nil /\ rows = Nil
-----------------------------------------------------------------------------
(* observations.py: unique symbols and package identities, nothing observed *)
(* after the snapshot clock.                                                *)

AddContract(c) ==
    /\ result = Nil
    /\ Cardinality(snapshot.chain) < ChainLimit
    /\ c.quote.observed_at <= snapshot.clock
    /\ \A d \in snapshot.chain : d.symbol # c.symbol
    /\ snapshot' = [snapshot EXCEPT !.chain = @ \union {c}]
    /\ UNCHANGED <<policy, result, rows>>

AddPackage(k) ==
    /\ result = Nil
    /\ Cardinality(snapshot.packages) < PackageLimit
    /\ k.observed_at <= snapshot.clock
    /\ \A j \in snapshot.packages : j.package_id # k.package_id
    /\ snapshot' = [snapshot EXCEPT !.packages = @ \union {k}]
    /\ UNCHANGED <<policy, result, rows>>

AddBorrow(at) ==
    /\ result = Nil
    /\ snapshot.borrow_locate = Nil
    /\ at <= snapshot.clock
    /\ snapshot' = [snapshot EXCEPT !.borrow_locate = at]
    /\ UNCHANGED <<policy, result, rows>>
-----------------------------------------------------------------------------
(* compiler.py.                                                             *)

NoPackage(reason) == [status |-> "NO_PACKAGE", reason |-> reason]

compile_cash == [status |-> "COMPILED", kind |-> "CASH_NO_TRADE", max_loss |-> 0]

compile_shares(up) ==
    LET row == shares_economics(snapshot, policy, up)
        reason == FirstReason(<<
            validate_observation(snapshot.share, snapshot, policy),
            IF up THEN "OK" ELSE validate_borrow_locate(snapshot, policy),
            row.reason>>)
    IN  IF reason # "OK" THEN NoPackage(reason)
        ELSE [status |-> "COMPILED", kind |-> "SHARES", max_loss |-> row.max_loss, up |-> up]

\* The permit's option leg: its OCC symbol spells its own terms.
build_option_leg(c) == When(~c.occ, "UNSUPPORTED_CONTRACT")

compile_long_option(up) ==
    LET c == select_long_contract(snapshot, policy, up)
        reason == IF c = Nil THEN "UNSUPPORTED_CONTRACT"
                  ELSE FirstReason(<<
                      validate_observation(c, snapshot, policy),
                      When(contract_dte(c, snapshot) < 1, "LIFECYCLE_CHECK_FAILED"),
                      build_option_leg(c),
                      option_economics(c, policy).reason>>)
    IN  IF reason # "OK" THEN NoPackage(reason)
        ELSE [status |-> "COMPILED", kind |-> "ONE_LONG_OPTION",
              max_loss |-> option_economics(c, policy).max_loss, long |-> c]

compile_debit_vertical(up) ==
    LET g == select_vertical_geometry(snapshot, policy, up)
        package == IF g.reason # "OK" THEN Nil ELSE select_package(snapshot, g)
        reason == IF g.reason # "OK" THEN g.reason
                  ELSE FirstReason(<<
                      validate_observation(g.long, snapshot, policy),
                      validate_observation(g.short, snapshot, policy),
                      validate_cross_leg_skew(g.long, g.short, policy),
                      When(contract_dte(g.long, snapshot) < 1, "LIFECYCLE_CHECK_FAILED"),
                      build_option_leg(g.long), build_option_leg(g.short),
                      IF package = Nil THEN "PACKAGE_UNAVAILABLE"
                      ELSE FirstReason(<<
                          validate_package(package, snapshot, policy),
                          debit_vertical_economics(package, g.width, policy).reason>>)>>)
    IN  IF reason # "OK" THEN NoPackage(reason)
        ELSE [status |-> "COMPILED", kind |-> "DEBIT_VERTICAL",
              max_loss |-> debit_vertical_economics(package, g.width, policy).max_loss,
              long |-> g.long, short |-> g.short, width |-> g.width, package |-> package]

\* A request carries a decision and says whether the snapshot binds its bytes,
\* and whether the policy digest and the Gate D receipt supplied are the policy's.
compile_expression(request) ==
    LET d == request.decision
        reason == FirstReason(<<
            When(~d.accepted, "DIRECTION_NOT_VALIDATED"),
            When(d.direction = "UNCERTAIN", "DIRECTION_NOT_VALIDATED"),
            When(~request.snapshot_binds, "DECISION_BINDING_MISMATCH"),
            When(d.decision_at > snapshot.clock, "TIME_INCONSISTENT"),
            When(~request.policy_matches, "POLICY_HASH_MISMATCH"),
            When(~request.receipt_matches, "GATE_D_RECEIPT_MISMATCH")>>)
        up == d.direction = "UP"
    IN  IF reason # "OK" THEN NoPackage(reason)
        ELSE CASE policy.expression_kind = "CASH_NO_TRADE" -> compile_cash
               [] policy.expression_kind = "SHARES" -> compile_shares(up)
               [] policy.expression_kind = "ONE_LONG_OPTION" -> compile_long_option(up)
               [] policy.expression_kind = "DEBIT_VERTICAL" -> compile_debit_vertical(up)

\* compile_or_no_package, and the tournament's rows for the decision's event.
Compile(request) ==
    /\ result = Nil
    /\ result' = compile_expression(request)
    /\ rows' = IF request.decision.direction = "UNCERTAIN" THEN Nil
               ELSE event_economics(snapshot, policy, request.decision.direction = "UP")
    /\ UNCHANGED <<snapshot, policy>>

CompilerNext ==
    \/ \E c \in Contracts : AddContract(c)
    \/ \E k \in Packages : AddPackage(k)
    \/ \E at \in Borrows : AddBorrow(at)
    \/ \E request \in Requests : Compile(request)

CompilerSpec == CompilerInit /\ [][CompilerNext]_compilerVars
-----------------------------------------------------------------------------
(* contracts/compiled_to_permit.py and execution/models.py: what the permit *)
(* built from a compiled vertical must satisfy.                             *)

permit_constructor_accepts(v) ==
    /\ v.long.expiry = v.short.expiry /\ v.long.option_type = v.short.option_type
    /\ IF v.long.option_type = "CALL" THEN v.long.strike < v.short.strike
                                      ELSE v.long.strike > v.short.strike
    /\ v.width = Abs(v.short.strike - v.long.strike)
    /\ v.max_loss = v.package.net_ask * CONTRACT_MULTIPLIER
    /\ v.package.cents
    /\ v.package.net_ask > 0 /\ v.package.net_ask < v.width

vertical_terms_accepts(v) == v.long.occ /\ v.short.occ

-----------------------------------------------------------------------------
(* The production compiler and the tournament that promoted its expression   *)
(* agree, though each calls the rules in its own order: what the compiler    *)
(* emits the tournament compares, and what the tournament compares from      *)
(* well-spelled contracts of a later day the compiler emits for every        *)
(* request that is itself in order (compile_expression, _event_economics).   *)
ComparedIffCompiled ==
    (result # Nil /\ rows # Nil) =>
        LET compared == rows[policy.expression_kind].reason = "OK"
        IN  IF result.status = "COMPILED" THEN compared
            ELSE \/ result.reason \in {"DIRECTION_NOT_VALIDATED", "DECISION_BINDING_MISMATCH",
                     "TIME_INCONSISTENT", "POLICY_HASH_MISMATCH", "GATE_D_RECEIPT_MISMATCH"}
                 \/ policy.min_dte < 1 \/ \E c \in snapshot.chain : ~c.occ
                 \/ ~compared

(* A debit vertical the compiler emits is one the permit constructor accepts *)
(* (docs/EXPRESSION_TOURNAMENT.md: "Debit-vertical output is permit-boundary *)
(* compatible"): whatever the chain, its legs share an expiry, lie in the    *)
(* order the direction wants, and cost less than their width.  The compiler  *)
(* does not ask whether a package is quoted in whole cents, which the permit *)
(* does: only such packages are promised.                                    *)
PermitBoundaryCompatible ==
    (/\ result # Nil /\ result.status = "COMPILED" /\ result.kind = "DEBIT_VERTICAL"
     /\ result.package.cents) =>
        permit_constructor_accepts(result) /\ vertical_terms_accepts(result)

(* Nothing compiled risks more than the policy's operational loss budget or  *)
(* rests on a quote older than its freshness bound: the bounds are applied   *)
(* to each leg, the package, the share and (for a short position) the borrow *)
(* evidence in different places.                                             *)
CompiledWithinPolicy ==
    (result # Nil /\ result.status = "COMPILED" /\ result.kind # "CASH_NO_TRADE") =>
        LET fresh(at) == at \in (snapshot.clock - policy.quote_max_age)..snapshot.clock
        IN  /\ result.max_loss <= policy.operational_loss_budget
            /\ result.kind = "SHARES" =>
                  /\ fresh(snapshot.share.quote.observed_at)
                  /\ result.up \/ fresh(snapshot.borrow_locate)
            /\ result.kind = "ONE_LONG_OPTION" => fresh(result.long.quote.observed_at)
            /\ result.kind = "DEBIT_VERTICAL" =>
                  /\ fresh(result.long.quote.observed_at) /\ fresh(result.short.quote.observed_at)
                  /\ fresh(result.package.observed_at)
-----------------------------------------------------------------------------
(* The tournament.                                                            *)
tournamentVars == <<policy, events, report>>

TournamentInit == policy \in Policies /\ events = <<>> /\ report = Nil

Kinds == {"SHARES", "ONE_LONG_OPTION", "DEBIT_VERTICAL"}

\* The economics kept for an event: the rows of the last event with its id.
all_economics(list, id) == list[Max({n \in DOMAIN list : list[n].event_id = id})].rows

compared(list, kind) ==
    {n \in DOMAIN list : all_economics(list, list[n].event_id)[kind].reason = "OK"}

direction_hits(list, kind) ==
    {n \in compared(list, kind) : list[n].outcome = list[n].direction}

drag_basis_points(row) == (row.spread * 10000) \div row.entry_cost

\* (hits/n - 1/2) * 10000 - mean drag, over the n compared events.
after_cost_edge_basis_points(list, kind) ==
    LET traded == compared(list, kind)
        den == Cardinality(traded)
        drag(n) == drag_basis_points(all_economics(list, list[n].event_id)[kind])
    IN  [num |-> Cardinality(direction_hits(list, kind)) * 10000 - 5000 * den
                   - MapThenSumSet(drag, traded),
         den |-> den]

summarize(list, kind) ==
    [total |-> Len(list), compared |-> Cardinality(compared(list, kind)),
     rejected |-> Len(list) - Cardinality(compared(list, kind)),
     edge |-> after_cost_edge_basis_points(list, kind)]

\* Why a summary does not qualify, "OK" when it does.
promotion_reason(summary) ==
    FirstReason(<<
        When(summary.compared < policy.evidence_min_events, "INSUFFICIENT_EVENTS"),
        When(summary.compared = 0, "NO_COMPARED_EVENTS"),
        When(summary.edge.num < policy.evidence_threshold * summary.edge.den,
             "BELOW_EVIDENCE_THRESHOLD")>>)

\* The qualifying expression with the greatest edge; ties go by name, which is
\* the order DEBIT_VERTICAL, ONE_LONG_OPTION, SHARES.
promote(summaries) ==
    LET rank == [DEBIT_VERTICAL |-> 1, ONE_LONG_OPTION |-> 2, SHARES |-> 3]
        qualifying == {k \in Kinds : promotion_reason(summaries[k]) = "OK"}
        ahead(a, b) ==
            LET x == summaries[a].edge  y == summaries[b].edge
            IN  \/ x.num * y.den > y.num * x.den
                \/ x.num * y.den = y.num * x.den /\ rank[a] <= rank[b]
    IN  IF qualifying = {} THEN Nil
        ELSE CHOOSE a \in qualifying : \A b \in qualifying : ahead(a, b)

run_gate_d_tournament(list) ==
    LET summaries == [k \in Kinds |-> summarize(list, k)]
        option_rows == {all_economics(list, list[n].event_id).ONE_LONG_OPTION : n \in DOMAIN list}
        available == \E row \in option_rows : row.reason = "OK"
    IN  [summaries |-> summaries, promoted |-> promote(summaries),
         option_history |-> IF available THEN "AVAILABLE" ELSE "NOT_RUN",
         blockers |-> IF available THEN {} ELSE {row.reason : row \in option_rows}]

\* One more decided event, with its rows, and the tournament run again.
AddEvent(id, direction, outcome, seen) ==
    /\ Len(events) < MaxEvents
    /\ events' = Append(events, [event_id |-> id, direction |-> direction, outcome |-> outcome,
                                 rows |-> event_economics(seen, policy, direction = "UP")])
    /\ report' = run_gate_d_tournament(events')
    /\ UNCHANGED policy

\* Ids are numbered in the order of their first use.
TournamentNext ==
    \E id \in 1..(Len(events) + 1), direction \in {"UP", "DOWN"},
       outcome \in {"UP", "DOWN", "UNKNOWN"}, s \in Snapshots :
          AddEvent(id, direction, outcome, s)

TournamentSpec == TournamentInit /\ [][TournamentNext]_tournamentVars
-----------------------------------------------------------------------------
\* No two events carry one id.
OwnIds == \A m, n \in DOMAIN events : events[m].event_id = events[n].event_id => m = n

(* tournament.py: "All failures stay in the denominator": every event whose  *)
(* own rows reject an expression is counted among its rejected events, as    *)
(* long as no two events carry one id (the rows are kept by event id, so the *)
(* last of two such events stands for both).                                 *)
FailuresCounted ==
    (report # Nil /\ OwnIds) => \A k \in Kinds :
        report.summaries[k].rejected =
            Cardinality({n \in DOMAIN events : events[n].rows[k].reason # "OK"})

(* A promoted expression was right on at least half of the events it could   *)
(* be traded on, and strictly more than half once any of them cost a spread, *)
(* again when every event has its own id                                     *)
(* (_promote, after_cost_edge_basis_points: the threshold is never negative).*)
PromotedWasRight ==
    (report # Nil /\ report.promoted # Nil /\ OwnIds) =>
        LET k == report.promoted
            traded == {n \in DOMAIN events : events[n].rows[k].reason = "OK"}
            right == {n \in traded : events[n].outcome = events[n].direction}
            costly == \E n \in traded : events[n].rows[k].spread > 0
        IN  /\ Cardinality(traded) >= policy.evidence_min_events /\ traded # {}
            /\ 2 * Cardinality(right) >= Cardinality(traded)
            /\ costly => 2 * Cardinality(right) > Cardinality(traded)
=============================================================================
