---------------------------- MODULE DecisionEngine ----------------------------
(***************************************************************************)
(* The bounded decision engine (strategy/engine.py), the reasoner routes it *)
(* may be given (strategy/reasoner.py, the adapters of                      *)
(* strategy/host_route.py), the validator that turns a provider answer into *)
(* a direction or an abstention (strategy/contracts.py), and the Gate C     *)
(* baseline arms compiled for the same input (strategy/baselines.py).       *)
(*                                                                          *)
(* One behaviour is about one joined strategy input and one route adapter,  *)
(* both chosen at the start; the ablation arm may be given another adapter. *)
(* The input's identities (event, snapshot, receipt, policy, prompt and     *)
(* model hashes) are one key: the adapters copy them into the exchange      *)
(* unchanged.  A text that UTF-8 cannot encode is a content of its own:     *)
(* encoding it again, to unwrap or to hash it, raises.                      *)
(***************************************************************************)
EXTENDS Integers, FiniteSets, FiniteSetsExt

CONSTANTS
    Inputs,        \* joined strategy inputs the engine may be given
    Routes,        \* route adapters: fake, direct, or the packaged V2 Kimi one
    AblationRoutes, \* what the ablation arm may be given; Nil is the same route
    Contents,      \* decision texts a provider may put in its envelope
    HardTimeout,   \* call_policy.hard_timeout_seconds
    MaxTime,       \* bound on the clock
    MaxCalls,      \* bound on the calls of decide
    Epsilon,       \* opening_residual_epsilon, event_zscore_min_abs
    VolumeMin,     \* event_volume_ratio_min
    Parity,        \* the parity of each seeded control's digest
    Nil

DeadlineAssumption ==
    /\ HardTimeout \in Nat \ {0}
    /\ Epsilon > 0
    /\ \A i \in Inputs : i.receiptAt <= i.cutoff

VARIABLES
    input,         \* the joined strategy input
    route,         \* the injected route adapter
    now,           \* the real clock, which only the direct adapters measure
    invoked,       \* _invoked_keys: the engines that hold the input's key
    call,          \* the decide call in progress, or Nil
    gate,          \* the compile_gate_c_signals call in progress
    last,          \* the engine outcome returned last, or Nil
    bundle,        \* the Gate C bundle compiled last, or Nil
    made,          \* decide calls made, for the bound
    contacts,      \* provider contacts per engine (history)
    dropped        \* those whose answer raised before the key was held (history)

vars == <<input, route, now, invoked, call, gate, last, bundle, made, contacts, dropped>>

Engines == {"PRODUCTION", "BOUNDED", "ABLATION"}
Abs(n) == IF n < 0 THEN -n ELSE n
Opposite(d) == IF d = "UP" THEN "DOWN" ELSE "UP"

-----------------------------------------------------------------------------
(* strategy/reasoner.py and the exchange receipt of strategy/models.py.     *)

deadline_for(s) == Min({s + HardTimeout, input.cutoff})

\* ReasonerExchange: the fields its constructor and the validator read.
ReasonerExchange(status, error, s, responded, raw) ==
    [status |-> status, error |-> error, started |-> s, responded |-> responded,
     deadline |-> deadline_for(s), created |-> deadline_for(s), raw |-> raw]

\* __post_init__: what every exchange must satisfy, or building it raises.
exchange_constructible(x) ==
    /\ x.started <= x.deadline
    /\ x.started <= x.created
    /\ x.responded # Nil => x.started <= x.responded
    /\ IF x.status = "COMPLETED" THEN x.raw # Nil /\ x.responded # Nil /\ x.error = Nil
                                 ELSE x.error # Nil

-----------------------------------------------------------------------------
(* strategy/contracts.py: the frozen validator.                             *)

\* _reaction_relation: confirmation can keep a direction, never make one.
_reaction_relation(d) ==
    LET c == input.confirmation IN
    IF d = "UNCERTAIN" THEN "NOT_APPLICABLE"
    ELSE IF c = Nil THEN "NONE"
    ELSE IF Abs(c) < Epsilon THEN "NONE"
    ELSE IF /\ input.candidate = "MACRO"
            /\ \/ input.volume = Nil
               \/ input.vwap = Nil
               \/ /\ input.volume # Nil /\ input.vwap # Nil
                  /\ \/ input.volume < VolumeMin
                     \/ c > 0 /\ input.vwap <= 0
                     \/ c < 0 /\ input.vwap >= 0
         THEN "NONE"
    ELSE IF (d = "UP") = (c > 0) THEN "CONTINUE" ELSE "REVERSE"

_exchange_reason_code(status) ==
    CASE status = "TIMEOUT" -> "REASONER_TIMEOUT"
      [] status = "CANCELED" -> "REASONER_CANCELED"
      [] status = "PROVIDER_ERROR" -> "REASONER_PROVIDER_ERROR"
      [] OTHER -> "REASONER_SCHEMA_INVALID"

When(condition, code) == IF condition THEN {code} ELSE {}

_reasoner_exchange_policy_reasons(x) ==
    When(\/ x.started < input.receiptAt
         \/ x.started > input.cutoff
         \/ x.deadline # deadline_for(x.started), "CLOCK_MISMATCH")
    \cup When(\/ x.responded # Nil /\ x.responded > x.deadline
              \/ x.created > input.cutoff, "LATE_RESPONSE")

Cited(d) == d.evidence_ids \cup d.contradictions
            \cup IF d.falsifier = Nil THEN {} ELSE {d.falsifier}

\* The gates on a parsed answer d: citations, unknown codes, confirmation.
DecisionReasons(d) ==
    LET known == DOMAIN input.evidence
        roles == {input.evidence[e] : e \in d.evidence_ids \cap known}
        directional == d.decision # "UNCERTAIN"
    IN  When(~(Cited(d) \subseteq known), "UNSUPPORTED_CITATION")
        \cup When(~(d.unknowns \subseteq {"TOLERATED", "CRITICAL"}), "UNSUPPORTED_UNKNOWN_CODE")
        \cup When("CRITICAL" \in d.unknowns, "MATERIAL_UNKNOWN")
        \cup When(directional /\ "PRIMARY" \notin roles, "MISSING_PRIMARY_CITATION")
        \cup When(directional /\ "MARKET" \notin roles, "MISSING_MARKET_CITATION")
        \cup When(directional /\ d.falsifier = Nil, "MISSING_FALSIFIER")
        \cup When(~directional, "REASONER_UNCERTAIN")
        \cup When(_reaction_relation(d.decision) = "REVERSE", "CONFIRMATION_OPPOSED")
        \cup When(_reaction_relation(d.decision) = "NONE", "CONFIRMATION_NEUTRAL")

\* validate_strategy_decision: d is the parsed answer, or Nil.
validate_strategy_decision(x, d, code) ==
    LET reasons == When(~input.eligible, "EVENT_INELIGIBLE")
                   \cup When(~input.healthy, "DATA_HEALTH_INVALID")
                   \cup _reasoner_exchange_policy_reasons(x)
                   \cup When(x.status # "COMPLETED", _exchange_reason_code(x.status))
                   \cup When(x.status # "COMPLETED", x.error)
                   \cup When(code # Nil, code)
                   \cup IF d = Nil THEN {_exchange_reason_code(x.status)} ELSE DecisionReasons(d)
        said == IF d = Nil THEN Nil ELSE d.decision
        accepted == said \in {"UP", "DOWN"} /\ reasons = {}
    IN  [said |-> said,
         direction |-> IF accepted THEN said ELSE "UNCERTAIN",
         disposition |-> IF accepted THEN "ACCEPTED"
                         ELSE IF reasons = {"REASONER_UNCERTAIN"} THEN "ABSTAINED" ELSE "REJECTED",
         relation |-> IF d = Nil THEN "NOT_APPLICABLE" ELSE _reaction_relation(said),
         reasons |-> reasons]

\* StrategyDecision.__post_init__: what every decision must satisfy.
decision_constructible(v) ==
    /\ IF v.disposition = "ACCEPTED"
       THEN /\ v.direction # "UNCERTAIN" /\ v.said = v.direction
            /\ v.relation = "CONTINUE" /\ v.reasons = {}
       ELSE v.direction = "UNCERTAIN" /\ v.reasons # {}
    /\ v.disposition = "ABSTAINED" => v.said = "UNCERTAIN" /\ v.relation = "NOT_APPLICABLE"

\* validate_reasoner_response: the raw bytes must be the ones the exchange
\* hashed, and must parse; anything else is an error code, never a guess.
validate_reasoner_response(x, raw) ==
    IF x.status # "COMPLETED" THEN validate_strategy_decision(x, Nil, Nil)
    ELSE IF raw # x.raw THEN validate_strategy_decision(x, Nil, "REASONER_RAW_HASH_MISMATCH")
    ELSE IF raw.kind # "DECISION" THEN validate_strategy_decision(x, Nil, "REASONER_SCHEMA_INVALID")
    ELSE validate_strategy_decision(x, raw, Nil)

-----------------------------------------------------------------------------
(* strategy/engine.py.                                                      *)

_preflight_code(s) ==
    IF ~input.eligible THEN "PREFLIGHT_INELIGIBLE"
    ELSE IF ~input.healthy THEN "PREFLIGHT_DATA_HEALTH"
    ELSE IF s < input.receiptAt THEN "START_BEFORE_FEATURE_RECEIPT"
    ELSE IF s > input.cutoff THEN "START_AFTER_DECISION_CUTOFF"
    ELSE Nil

\* _aborted_exchange: a start after the cutoff is clamped to the deadline.
_aborted_exchange(s, code) ==
    LET deadline == deadline_for(s)
    IN  [ReasonerExchange("CANCELED", code, s, Nil, Nil)
            EXCEPT !.started = Min({s, deadline})]

\* EngineOutcome; sent and returned are when the provider was really called
\* and really answered, which the outcome does not record (history).
EngineOutcome(e, x, v, called, sent, returned) ==
    [engine |-> e, exchange |-> x, decision |-> v, route_invoked |-> called,
     sent |-> sent, returned |-> returned]

\* Returning from decide hands the outcome to whoever called it.
Finish(e, outcome) ==
    /\ last' = outcome
    /\ gate' = CASE e = "BOUNDED" -> [gate EXCEPT !.stage = "ablation", !.bounded = outcome.decision]
                 [] e = "ABLATION" -> [gate EXCEPT !.stage = "compile", !.ablation = outcome.decision]
                 [] OTHER -> gate

\* decide, up to the route call: preflight and the duplicate fence abort with
\* a recorded exchange; otherwise the route is invoked.
Decide(e, s, ablate, adapter) ==
    LET preflight == _preflight_code(s)
        code == IF preflight # Nil THEN preflight
                ELSE IF e \in invoked THEN "DUPLICATE_REASONER_CALL" ELSE Nil
        x == _aborted_exchange(s, code)
    IN  /\ call = Nil
        /\ made < MaxCalls
        /\ made' = made + 1
        /\ IF code # Nil
           THEN /\ Finish(e, EngineOutcome(e, x, validate_strategy_decision(x, Nil, code),
                                           FALSE, Nil, Nil))
                /\ UNCHANGED call
           ELSE /\ call' = [engine |-> e, route |-> adapter, started |-> s, ablate |-> ablate,
                            sent |-> Nil]
                /\ UNCHANGED <<last, gate>>
        /\ UNCHANGED <<input, route, now, invoked, bundle, contacts, dropped>>

\* The host pipeline asks its own engine, with a start time it supplies.
DecideProduction(s) ==
    /\ gate.stage = "idle"
    /\ Decide("PRODUCTION", s, FALSE, route)

\* An exception leaves decide, and compile_gate_c_signals with it: no outcome.
Raise ==
    /\ call' = Nil
    /\ gate' = [gate EXCEPT !.stage = "idle"]
    /\ UNCHANGED <<input, route, now, last, bundle, made>>

\* The validator raises on an answer that parses and cannot be hashed.
Answer(x, raw, sent, returned) ==
    IF x.status = "COMPLETED" /\ raw = x.raw /\ raw.kind = "UNHASHABLE" THEN Raise
    ELSE /\ call' = Nil
         /\ Finish(call.engine, EngineOutcome(call.engine, x,
                       validate_reasoner_response(x, raw), TRUE, sent, returned))
         /\ UNCHANGED <<input, route, now, bundle, made>>

\* A slip: the key is recorded only for a completed exchange.
RouteReturnedFencingCompleted(x, raw, sent, returned) ==
    /\ invoked' = IF x.status = "COMPLETED" THEN invoked \cup {call.engine} ELSE invoked
    /\ Answer(x, raw, sent, returned)
    /\ UNCHANGED dropped

\* The route returned: its key is fenced, then its answer validated.
RouteReturned(x, raw, sent, returned) ==
    /\ invoked' = invoked \cup {call.engine}
    /\ Answer(x, raw, sent, returned)
    /\ UNCHANGED dropped

-----------------------------------------------------------------------------
(* The routes.                                                              *)

Raw(kind) == [kind |-> kind]

\* fake_decision_payload: the sign of the confirmation feature, citing one
\* primary and one market source; without either it abstains.
fake_decision_payload ==
    LET primary == {e \in DOMAIN input.evidence : input.evidence[e] = "PRIMARY"}
        market == {e \in DOMAIN input.evidence : input.evidence[e] = "MARKET"}
        grounded == primary # {} /\ market # {}
        one(S) == CHOOSE e \in S : TRUE
        c == input.confirmation
    IN  [kind |-> "DECISION",
         decision |-> IF ~grounded \/ c = Nil THEN "UNCERTAIN"
                      ELSE IF c > 0 THEN "UP" ELSE IF c < 0 THEN "DOWN" ELSE "UNCERTAIN",
         evidence_ids |-> IF grounded THEN {one(primary), one(market)} ELSE {},
         contradictions |-> {}, unknowns |-> {},
         falsifier |-> IF grounded THEN one(market) ELSE Nil]

\* DeterministicFakeReasoner: answers at once, with the failure it was built
\* to inject; it stamps a response time without any time passing.
FakeRoute ==
    /\ call # Nil
    /\ call.route.kind = "FAKE"
    /\ LET s == call.started
           failure == call.route.failure
           raw == IF failure \in {"MALFORMED_JSON", "HOSTILE_FIELDS"} THEN Raw("MALFORMED")
                  ELSE fake_decision_payload
           hashed == IF failure = "RAW_HASH_DRIFT" THEN Raw("DRIFTED") ELSE raw
           responded == IF failure = "LATE_RESPONSE" THEN deadline_for(s) + 1
                        ELSE s + Min({5, HardTimeout - 1})
       IN  IF failure \in {"TIMEOUT", "CANCELED", "PROVIDER_ERROR"}
           THEN RouteReturned(ReasonerExchange(failure, _exchange_reason_code(failure),
                                               s, Nil, Nil), Nil, Nil, Nil)
           ELSE RouteReturned(ReasonerExchange("COMPLETED", Nil, s, responded, hashed),
                              raw, Nil, Nil)
    /\ UNCHANGED contacts

\* A direct adapter without a transport, one asked for the text ablation, and
\* the packaged V2 Kimi route on the V1 request seam all raise before any
\* provider is called.  The exception leaves decide: no key, no outcome.
route_raises ==
    \/ call.route.kind = "KIMI_V2"
    \/ call.route.kind = "DIRECT" /\ (~call.route.transport \/ call.ablate)

RouteRaises ==
    /\ call # Nil
    /\ call.sent = Nil
    /\ call.route.kind # "FAKE"
    /\ route_raises
    /\ Raise
    /\ UNCHANGED <<invoked, contacts, dropped>>

\* __call__, up to the transport: the request is built, then sent once.
DirectSend ==
    /\ call # Nil
    /\ call.sent = Nil
    /\ call.route.kind = "DIRECT"
    /\ ~route_raises
    /\ call' = [call EXCEPT !.sent = now]
    /\ contacts' = [contacts EXCEPT ![call.engine] = @ + 1]
    /\ UNCHANGED <<input, route, now, invoked, gate, last, bundle, made, dropped>>

\* What the transport may do: raise, return something that is not bytes, or
\* return an envelope around a content, which may be one UTF-8 cannot encode.
TransportResults ==
    {Raw(k) : k \in {"TimeoutError", "Exception", "NotBytes", "BadEnvelope", "UNENCODABLE"}}
    \cup Contents

\* _direct_envelope_result: the response time is the supplied start plus the
\* time the transport alone took, and only a timely response is unwrapped.
responded_at == call.started + (now - call.sent)
late == responded_at > deadline_for(call.started)

\* unwrap_openai_chat_envelope and _invoke_direct_transport_once: the content,
\* or Nil; encoding the content is outside their try.
unwrapped(r) == IF r \in Contents THEN r ELSE Nil
unwrap_raises(r) == r = Raw("UNENCODABLE") /\ ~late

_direct_envelope_result(r) ==
    LET s == call.started
    IN  IF unwrapped(r) # Nil /\ ~late
        THEN ReasonerExchange("COMPLETED", Nil, s, responded_at, r)
        ELSE IF r = Raw("TimeoutError") \/ late
        THEN ReasonerExchange("TIMEOUT", "REASONER_TIMEOUT", s, Nil, Nil)
        ELSE ReasonerExchange("PROVIDER_ERROR", "REASONER_PROVIDER_ERROR", s, Nil, Nil)

\* An exception here leaves decide before the key is recorded.
DirectReturn(r) ==
    /\ call # Nil
    /\ call.sent # Nil
    /\ IF unwrap_raises(r)
       THEN /\ Raise
            /\ dropped' = [dropped EXCEPT ![call.engine] = @ + 1]
            /\ UNCHANGED invoked
       ELSE LET x == _direct_envelope_result(r) IN RouteReturned(x, x.raw, call.sent, now)
    /\ UNCHANGED contacts

-----------------------------------------------------------------------------
(* strategy/baselines.py.                                                   *)

\* price_continuation_signal: the sign of the confirmation when every
\* threshold passes, read without any reasoner.
price_continuation_signal ==
    LET c == input.confirmation
        passed == IF input.candidate = "EARNINGS" THEN Abs(c) >= Epsilon
                  ELSE /\ input.volume >= VolumeMin
                       /\ Abs(c) >= Epsilon
                       /\ (c > 0 /\ input.vwap > 0) \/ (c < 0 /\ input.vwap < 0)
        missing == \/ c = Nil
                   \/ input.candidate = "MACRO" /\ (input.volume = Nil \/ input.vwap = Nil)
    IN  IF missing THEN "UNCERTAIN"
        ELSE IF ~passed THEN "UNCERTAIN"
        ELSE IF c > 0 THEN "UP" ELSE "DOWN"

Flip(d) == IF d = "UNCERTAIN" THEN d ELSE Opposite(d)

\* deterministic_parser_signal: trinary votes, at least two net.
Vote(v, hot) == IF v = Nil THEN 0 ELSE IF v >= hot THEN 1 ELSE IF v <= -hot THEN -1 ELSE 0

deterministic_parser_signal ==
    LET present == {k \in DOMAIN input.parser : input.parser[k] # Nil}
        votes == MapThenSumSet(LAMBDA k : Vote(input.parser[k], 1), DOMAIN input.parser)
        net == IF input.candidate = "EARNINGS" THEN votes ELSE -votes
        enough == IF input.candidate = "EARNINGS" THEN Cardinality(present) >= 2
                  ELSE Cardinality(DOMAIN input.parser) >= 2
    IN  IF ~enough \/ Abs(net) < 2 THEN "UNCERTAIN" ELSE IF net > 0 THEN "UP" ELSE "DOWN"

\* seeded_random_placebo_controls: matched to the bounded arm's abstentions.
seeded_random_placebo_controls(bounded) ==
    [n \in DOMAIN Parity |-> IF bounded = "UNCERTAIN" THEN "UNCERTAIN"
                             ELSE IF Parity[n] = 0 THEN "UP" ELSE "DOWN"]

\* compile_gate_c_signals: one fresh engine per reasoner arm, so the
\* production engine's fence is left alone; then every arm in one bundle.
GateCBegin(s, ablation_route) ==
    /\ call = Nil
    /\ gate.stage = "idle"
    /\ made < MaxCalls
    /\ gate' = [stage |-> "bounded", started |-> s, bounded |-> Nil, ablation |-> Nil,
                ablation_route |-> IF ablation_route = Nil THEN route ELSE ablation_route]
    /\ invoked' = invoked \ {"BOUNDED", "ABLATION"}
    /\ contacts' = [contacts EXCEPT !["BOUNDED"] = 0, !["ABLATION"] = 0]
    /\ dropped' = [dropped EXCEPT !["BOUNDED"] = 0, !["ABLATION"] = 0]
    /\ UNCHANGED <<input, route, now, call, last, bundle, made>>

GateCBounded == gate.stage = "bounded" /\ Decide("BOUNDED", gate.started, FALSE, route)
GateCAblation ==
    gate.stage = "ablation" /\ Decide("ABLATION", gate.started, TRUE, gate.ablation_route)

GateCCompile ==
    /\ gate.stage = "compile"
    /\ LET bounded == gate.bounded.direction IN
       bundle' = [CASH_ALWAYS_UNCERTAIN |-> "UNCERTAIN",
                  PRICE_CONTINUATION |-> price_continuation_signal,
                  PRICE_REVERSAL |-> Flip(price_continuation_signal),
                  DETERMINISTIC_PARSER |-> deterministic_parser_signal,
                  BOUNDED_LLM |-> bounded,
                  NO_TEXT_ABLATION |-> gate.ablation.direction,
                  OPPOSITE_LLM_PLACEBO |-> Flip(bounded),
                  controls |-> seeded_random_placebo_controls(bounded)]
    /\ gate' = [gate EXCEPT !.stage = "idle"]
    /\ UNCHANGED <<input, route, now, invoked, call, last, made, contacts, dropped>>

-----------------------------------------------------------------------------
Tick ==
    /\ now < MaxTime
    /\ now' = now + 1
    /\ UNCHANGED <<input, route, invoked, call, gate, last, bundle, made, contacts, dropped>>

Init ==
    /\ input \in Inputs
    /\ route \in Routes
    /\ now = 0
    /\ invoked = {}
    /\ call = Nil
    /\ gate = [stage |-> "idle", started |-> 0, bounded |-> Nil, ablation |-> Nil,
               ablation_route |-> Nil]
    /\ last = Nil
    /\ bundle = Nil
    /\ made = 0
    /\ contacts = [e \in Engines |-> 0]
    /\ dropped = [e \in Engines |-> 0]

Next ==
    \/ Tick
    \/ \E s \in 0 .. now : \/ DecideProduction(s)
                          \/ \E a \in AblationRoutes : GateCBegin(s, a)
    \/ GateCBounded
    \/ GateCAblation
    \/ GateCCompile
    \/ FakeRoute
    \/ RouteRaises
    \/ DirectSend
    \/ \E r \in TransportResults : DirectReturn(r)

Spec == Init /\ [][Next]_vars

-----------------------------------------------------------------------------
(* Properties.                                                              *)

\* One engine contacts the provider once for one joined input, however often it
\* is asked, whichever start times it is given and whatever is answered, late,
\* failed and unhashable answers included.  It contacts it again only after an
\* answer whose unwrapping raised, which is before decide records the key.
ProviderCalledOnce == \A e \in Engines : contacts[e] <= 1 + dropped[e]

\* Every exchange and every decision the engine builds satisfies the checks of
\* its own constructor, so an abort (a start after the cutoff, a duplicate, a
\* late or malformed answer) is always recorded and never itself raises; only
\* a text that cannot be encoded leaves a call of decide without an outcome.
OutcomesConstructible ==
    last # Nil => /\ exchange_constructible(last.exchange)
                  /\ decision_constructible(last.decision)

\* A direction that survives the validator is the direction the price
\* continuation baseline computes for the same input with no reasoner at all:
\* the bounded arm can drop continuation trades and never adds one.
AcceptedIsContinuation ==
    last # Nil /\ last.decision.disposition = "ACCEPTED"
        => last.decision.direction = price_continuation_signal

\* An accepted direction rests on a provider answer that took at most the hard
\* timeout, that cites a primary and a market source of this snapshot, names a
\* falsifier among them and admits no critical unknown.
AcceptedIsGrounded ==
    last # Nil /\ last.decision.disposition = "ACCEPTED" =>
        LET d == last.exchange.raw IN
        /\ last.route_invoked
        /\ last.sent # Nil => last.returned - last.sent <= HardTimeout
        /\ last.exchange.responded <= input.cutoff
        /\ d.decision = last.decision.direction
        /\ {"PRIMARY", "MARKET"} \subseteq {input.evidence[e] : e \in d.evidence_ids}
        /\ d.falsifier \in DOMAIN input.evidence
        /\ d.unknowns \subseteq {"TOLERATED"}

\* The Gate C arms are matched: the placebo arms abstain exactly where the
\* bounded arm does, each reversal is the other side of its arm, and no arm
\* that trades on the reasoner trades where price continuation would not.
ArmsAreMatched ==
    bundle # Nil =>
        /\ \A arm \in {bundle.OPPOSITE_LLM_PLACEBO} \cup
                {bundle.controls[n] : n \in DOMAIN bundle.controls} :
              (arm = "UNCERTAIN") <=> (bundle.BOUNDED_LLM = "UNCERTAIN")
        /\ bundle.BOUNDED_LLM \in {"UNCERTAIN", bundle.PRICE_CONTINUATION}
        /\ bundle.NO_TEXT_ABLATION \in {"UNCERTAIN", bundle.PRICE_CONTINUATION}
        /\ bundle.PRICE_REVERSAL # "UNCERTAIN"
              => bundle.PRICE_REVERSAL # bundle.PRICE_CONTINUATION
=============================================================================
