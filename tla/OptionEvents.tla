----------------------------- MODULE OptionEvents -----------------------------
(***************************************************************************)
(* The artifacts and the pure reducer of runtime/option_events.py: one     *)
(* bound vertical spread is reconciled against a position observation and  *)
(* the account activities a host covered.                                  *)
(*                                                                         *)
(* Account fingerprint, execution protocol and evidence class are compared *)
(* everywhere together and are one authority.  An artifact's digest is the *)
(* artifact: two of them are equal exactly when their canonical bytes are. *)
(* Stored bytes that are not canonical, or whose digest differs, parse to  *)
(* NoArtifact.  Shares come in lots of 100 and a clock tick is a day.      *)
(***************************************************************************)
EXTENDS Integers, FiniteSets, FiniteSetsExt, Functions

CONSTANT NoArtifact

(* OptionPortfolioObservation: non-zero positions under distinct symbols.  *)
observation(authority, at, positions) ==
    [authority |-> authority, at |-> at,
     positions |-> Restrict(positions, {s \in DOMAIN positions : positions[s] # 0})]

position_quantity(o, symbol) ==
    IF symbol \in DOMAIN o.positions THEN o.positions[symbol] ELSE 0

(* OptionActivityCoverage: the window paged through and what it contained. *)
coverage(authority, start, end, at, complete, events) ==
    [authority |-> authority, start |-> start, end |-> end, at |-> at,
     complete |-> complete, events |-> events]

coverage_valid(c) == c.start <= c.end /\ c.end <= c.at

(* NormalizedOptionEvent.                                                  *)
EventKinds == {"ASSIGNMENT", "EXERCISE", "EXPIRY", "BROKER_SELL_OUT", "CONTRACT_ADJUSTMENT",
               "EXERCISE_REJECTED_BUYING_POWER"}

event_valid(e) ==
    /\ e.kind \in EventKinds /\ e.contracts > 0
    /\ e.status = IF e.kind = "EXERCISE_REJECTED_BUYING_POWER" THEN "REJECTED" ELSE "EXECUTED"
    /\ IF e.kind = "CONTRACT_ADJUSTMENT" THEN e.replacement \notin {NoArtifact, e.symbol}
       ELSE e.replacement = NoArtifact

(* OptionLifecycleBinding: terms fixed at activation.                      *)
binding_valid(b) ==
    /\ b.quantity = 1 /\ b.long # b.short
    /\ b.long_strike > 0 /\ b.short_strike > 0
    /\ b.session_date <= b.expiry
    /\ b.activated < b.close /\ b.close < b.horizon

(* create: the activation observation holds exactly the two legs, and its  *)
(* shares are the baseline.                                                *)
create_binding(terms, o) ==
    IF /\ o.authority = terms.authority
       /\ position_quantity(o, terms.long) = terms.quantity
       /\ position_quantity(o, terms.short) = -terms.quantity
    THEN [terms EXCEPT !.activated = o.at, !.baseline = position_quantity(o, terms.underlying)]
    ELSE NoArtifact

(* Stored bytes parse back to the artifact only if they are its canonical  *)
(* encoding under its own digest.                                          *)
parse(raw) == IF raw.canonical /\ raw.sha = raw.value THEN raw.value ELSE NoArtifact
bytes(value) == [value |-> value, sha |-> value, canonical |-> TRUE]

-----------------------------------------------------------------------------
(* _event_economics_valid: shares and cash an assignment of the short leg  *)
(* or an exercise of the long leg must move, the sign flipped for puts.    *)
leg_terms(b, symbol) ==
    CASE symbol = b.long  -> <<b.quantity, b.long_strike>>
      [] symbol = b.short -> <<-b.quantity, b.short_strike>>

share_delta(b, e) ==
    IF b.right = "PUT" THEN -leg_terms(b, e.symbol)[1] ELSE leg_terms(b, e.symbol)[1]

event_economics_valid(b, e) ==
    /\ e.symbol \in {b.long, b.short}
    /\ e.contracts = b.quantity
    /\ e.kind = "ASSIGNMENT" => e.symbol = b.short
    /\ e.kind = "EXERCISE" => e.symbol = b.long
    /\ e.shares = share_delta(b, e)
    /\ e.cash = -(share_delta(b, e) * leg_terms(b, e.symbol)[2])

(* What reconcile_option_events rejects before it reduces anything.        *)
inputs_bound(b, o, c, events) ==
    /\ binding_valid(b) /\ coverage_valid(c) /\ \A e \in events : event_valid(e)
    /\ \A e, f \in events : e.id = f.id => e = f
    /\ c.events = events
    /\ o.authority = b.authority
    /\ c.authority = b.authority /\ c.at = o.at
    /\ o.at >= b.activated
    /\ \A e \in events :
          /\ e.authority = b.authority /\ e.underlying = b.underlying
          /\ e.at \in b.activated..o.at /\ e.at \in c.start..c.end
          /\ e.effective \in b.activated..b.expiry

coverage_complete(b, o, c) == c.complete /\ c.start <= b.activated /\ c.end = o.at

positions_unchanged(b, o) ==
    /\ position_quantity(o, b.long) = b.quantity
    /\ position_quantity(o, b.short) = -b.quantity
    /\ position_quantity(o, b.underlying) = b.baseline

complete_expiry(b, o, c, events) ==
    /\ \A e \in events : /\ e.kind = "EXPIRY" /\ e.contracts = b.quantity
                         /\ e.effective = b.session_date /\ e.shares = 0 /\ e.cash = 0
    /\ Cardinality(events) = 2 /\ {e.symbol : e \in events} = {b.long, b.short}
    /\ coverage_complete(b, o, c) /\ o.at >= b.horizon
    /\ position_quantity(o, b.long) = 0 /\ position_quantity(o, b.short) = 0
    /\ position_quantity(o, b.underlying) = b.baseline

when(condition, reason) == IF condition THEN {reason} ELSE {}

(* Reasons that block: without activities, ...                             *)
quiet_reasons(b, o, c) ==
    when(~coverage_complete(b, o, c), "COVERAGE_INCOMPLETE")
    \cup {CASE o.at < b.close   -> "UNATTRIBUTED_POSITION_CHANGE"
            [] o.at >= b.close /\ o.at < b.horizon -> "HORIZON_OPEN"
            [] OTHER            -> "EXPIRY_EVIDENCE_MISSING"}

(* ... and with them.                                                      *)
activity_reasons(b, o, c, events) ==
    LET moved == {e \in events : e.kind \in {"ASSIGNMENT", "EXERCISE"}}
        kind(k) == \E e \in events : e.kind = k
    IN  when(~coverage_complete(b, o, c), "COVERAGE_INCOMPLETE")
        \cup when(\E e \in events : e.symbol \notin {b.long, b.short}, "UNMATCHED_ACTIVITY")
        \cup when(kind("EXERCISE_REJECTED_BUYING_POWER"), "EXERCISE_REJECTED")
        \cup when(kind("BROKER_SELL_OUT"), "SELL_OUT")
        \cup when(kind("CONTRACT_ADJUSTMENT"), "ADJUSTMENT")
        \cup when(moved # {}, "ASSIGNMENT_OR_EXERCISE")
        \cup when(\E e \in moved : ~event_economics_valid(b, e), "ECONOMICS_CONTRADICTORY")
        \cup when(/\ moved # {}
                  /\ position_quantity(o, b.underlying)
                        # b.baseline + MapThenSumSet(LAMBDA e : e.shares, moved),
                  "UNDERLYING_CONTRADICTORY")
        \cup when(\E e \in moved : position_quantity(o, e.symbol) # 0, "POSITION_CONTRADICTORY")

receipt(b, o, c, events, state, reasons) ==
    [binding |-> b, observation |-> o, coverage |-> c, events |-> events,
     state |-> state, reasons |-> reasons, at |-> o.at,
     quantities |-> <<position_quantity(o, b.long), position_quantity(o, b.short),
                      position_quantity(o, b.underlying) - b.baseline>>,
     cash |-> MapThenSumSet(LAMBDA e : e.cash, events)]

(* reconcile_option_events.                                                *)
reconcile_option_events(b, o, c, events) ==
    LET reasons == activity_reasons(b, o, c, events)
        expiries == \E e \in events : e.kind = "EXPIRY"
        manual(why) == receipt(b, o, c, events, "MANUAL", why)
    IN  IF ~inputs_bound(b, o, c, events) THEN NoArtifact
        ELSE IF events = {}
        THEN IF coverage_complete(b, o, c) /\ positions_unchanged(b, o) /\ o.at < b.close
             THEN receipt(b, o, c, events, "ACTIVE_UNCHANGED", {"UNCHANGED"})
             ELSE manual(quiet_reasons(b, o, c))
        ELSE IF complete_expiry(b, o, c, events) /\ reasons = {}
        THEN receipt(b, o, c, events, "EXPIRY_FLAT_ATTESTED", {"BOTH_LEGS_EXPIRED"})
        ELSE IF expiries
        THEN manual(reasons \cup {"EXPIRY_INCOMPLETE"})
        ELSE manual(IF reasons = {} THEN {"ACTIVITY"} ELSE reasons)
=============================================================================
