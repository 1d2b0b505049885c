--------------------------- MODULE DirectionReceipt ---------------------------
(* The V2 direction receipt (strategy/contracts.py, strategy/host_route.py).  *)
(* A host joins the strategy artifacts with an episodic summary of the risk   *)
(* ledger into a context, projects the context into one provider request,     *)
(* and turns the answer into a receipt that proposes a direction, abstains or *)
(* rejects.  The ledger is written all the while, a row's created_at being    *)
(* the writer's stamp; the host may rebuild its context while the provider    *)
(* works, and the approved route may be replaced.  Building the receipt reads *)
(* the ledger twice, once for the context and once for the request.           *)
(*                                                                            *)
(* An artifact's digest is the artifact, so two requests are equal when their *)
(* routes and contexts are.  The three strategy documents are one record of   *)
(* what the V2 checks ask about them; their own join is StrategyDocuments'.   *)
EXTENDS EpisodicSummary

CONSTANTS
    EvidenceCutoff, DecisionCutoff, \* the snapshot's two cutoffs
    Horizon,                        \* bound: the last instant
    Rows,                           \* ledger rows that may be appended: [table, row]
    Artifacts,                      \* what the host may join into a context
    Asks,                           \* the summaries the host may ask for
    Answers,                        \* what the provider may answer
    Malformed,                      \* bytes that are not an answer
    MaxContexts                     \* bound: contexts built

DirectionAssumption ==
    /\ EvidenceCutoff \in 0..Horizon /\ DecisionCutoff \in EvidenceCutoff..Horizon
    /\ \A r \in Rows : r.table \in {"decisions", "outcomes", "snapshots"}

VARIABLES
    now,
    ledger,         \* [decisions, outcomes, snapshots]: sets of rows
    approved,       \* the version of the approved route
    summary,        \* the host's episodic summary
    context,        \* its V2 context
    built,          \* contexts built so far
    call,           \* the provider call: request, clocks and transport result
    receipt         \* the validation under way, then the receipt

vars == <<now, ledger, approved, summary, context, built, call, receipt>>

Route == "model of the route"
NoCall == [pc |-> "NONE", request |-> Nil, started |-> 0, deadline |-> 0, responded |-> Nil,
           status |-> Nil, raw |-> Nil, error |-> FALSE]

Init ==
    /\ now = 0
    /\ ledger = [decisions |-> {}, outcomes |-> {}, snapshots |-> {}]
    /\ approved = 1
    /\ summary = Nil /\ context = Nil /\ built = 0
    /\ call = NoCall
    /\ receipt = [pc |-> "NONE"]
-----------------------------------------------------------------------------
(* The context: every artifact is checked against V2 and the ledger.          *)

_v2_validate_strategy_artifacts(a) ==
    a.policy = "V2" /\ a.eligible /\ a.healthy /\ a.features = "PRESENT"

current(s) == build(s.ask, ledger.decisions, ledger.outcomes, ledger.snapshots) = s.result

\* A slip: the summary's instant is not compared with the evidence cutoff.
summary_of_any_instant(s) ==
    /\ current(s)
    /\ s.ask.policy = "V2" /\ s.ask.candidates # {}

_v2_validate_episodic_summary(s) ==
    /\ current(s)
    /\ s.ask.policy = "V2" /\ s.ask.candidates # {}
    /\ s.ask.as_of <= EvidenceCutoff

\* Only the catalyst lane asks for a scan, and then the ticker must be ready.
_v2_validate_universe(a) ==
    a.lane = "CATALYST" => a.universe # Nil /\ a.universe.ready

\* News belongs to the catalyst lane: complete, known by the cutoff, and each
\* observation attributed to the ticker by its own digest.
_v2_validate_news(a) ==
    IF a.lane # "CATALYST" THEN a.news = {}
    ELSE /\ a.news # {}
         /\ \A n \in a.news : n.retrieved <= EvidenceCutoff /\ n.attributed

build_ok(a, s) ==
    /\ _v2_validate_strategy_artifacts(a) /\ _v2_validate_episodic_summary(s)
    /\ _v2_validate_universe(a) /\ _v2_validate_news(a)

\* Rebuilding a context from its own artifacts under the present ledger.
validate_strategy_v2_context(c) == build_ok(c.artifacts, c.summary)

build_episodic_summary(ask) ==
    /\ ask.as_of <= now /\ built < MaxContexts
    /\ summary' = [ask |-> ask,
                   result |-> build(ask, ledger.decisions, ledger.outcomes, ledger.snapshots)]
    /\ summary' # summary
    /\ UNCHANGED <<now, ledger, approved, context, built, call, receipt>>

build_strategy_v2_context(a) ==
    /\ summary # Nil /\ built < MaxContexts /\ receipt.pc = "NONE"
    /\ build_ok(a, summary)
    /\ built' = built + 1
    /\ context' = [artifacts |-> a, summary |-> summary]
    /\ UNCHANGED <<now, ledger, approved, summary, call, receipt>>
-----------------------------------------------------------------------------
(* The request.                                                               *)

\* A slip: the context is taken to be as it was when it was last validated.
payload_as_validated(c) == c.summary.ask.model = Route

\* The context is validated once more and the summary fits the route's model.
_canonical_strategy_v2_payload(c) ==
    validate_strategy_v2_context(c) /\ c.summary.ask.model = Route

build_kimi_k3_v2_request ==
    /\ call.pc = "NONE" /\ context # Nil
    /\ _canonical_strategy_v2_payload(context)
    /\ \E deadline \in now..Horizon :
          call' = [NoCall EXCEPT !.pc = "SENT", !.request = [route |-> approved, context |-> context],
                                 !.started = now, !.deadline = deadline]
    /\ UNCHANGED <<now, ledger, approved, summary, context, built, receipt>>

\* What the provider can see: the ids of the evidence, the news and the rows.
_v2_direction_allowed_citation_ids(c) ==
    c.artifacts.evidence
    \cup {<<"news", n.id>> : n \in c.artifacts.news}
    \cup {<<"episode", c.summary.result.rows[n].decision.id>> : n \in DOMAIN c.summary.result.rows}
    \cup {<<"outcome", c.summary.result.rows[n].outcome.id>> :
             n \in {m \in DOMAIN c.summary.result.rows : c.summary.result.rows[m].outcome # Nil}}

\* The transport returns: an answer or malformed bytes, or one of the failures.
transport(status, raw, error, timed) ==
    /\ call.pc = "SENT"
    /\ status = "COMPLETED" \/ (raw = Nil /\ ~error)
    /\ call' = [call EXCEPT !.pc = "RETURNED", !.status = status, !.raw = raw, !.error = error,
                            !.responded = IF timed THEN now ELSE Nil]
    /\ UNCHANGED <<now, ledger, approved, summary, context, built, receipt>>
-----------------------------------------------------------------------------
(* The receipt.                                                               *)
when(condition, reason) == IF condition THEN {reason} ELSE {}

cited(answer) ==
    answer.evidence \cup answer.contradicted
    \cup IF answer.falsifier = Nil THEN {} ELSE {answer.falsifier}

\* First read of the ledger: the route, then the context.
validate_context ==
    /\ call.pc = "RETURNED" /\ receipt.pc = "NONE"
    /\ LET route_ok == call.request.route = approved
           valid == route_ok /\ validate_strategy_v2_context(context)
       IN  receipt' = [pc |-> "CHECKED", context |-> context, valid |-> valid,
                       reasons |-> when(~route_ok, "ROUTE_DRIFT")
                                   \cup when(route_ok /\ ~valid, "CONTEXT_DRIFT")
                                   \cup when(route_ok /\ ~valid, "REQUEST_UNVERIFIABLE")]
    /\ UNCHANGED <<now, ledger, approved, summary, context, built, call>>

\* Second read of the ledger: the request is rebuilt and compared.
request_reasons(r) ==
    LET rebuilt == _canonical_strategy_v2_payload(r.context)
    IN  when(r.valid /\ ~rebuilt, "REQUEST_REBUILD_FAILED")
        \cup when(r.valid /\ rebuilt /\ call.request.context # r.context, "REQUEST_DRIFT")

clock_reasons(r) ==
    when(r.valid /\ call.deadline > DecisionCutoff, "DEADLINE_DRIFT")
    \cup when(call.responded = Nil, "REASONER_RESPONSE_TIME_MISSING")
    \cup when(/\ call.responded # Nil
              /\ \/ r.valid /\ call.responded > DecisionCutoff
                 \/ call.responded > call.deadline,
              "LATE_RESPONSE")

answered == call.status = "COMPLETED" /\ call.raw # Nil /\ call.raw # Malformed

\* An answer may parse and hold a text that UTF-8 cannot encode: hashing the
\* parsed decision then raises, and only contract rejections are caught.
hash_raises == answered /\ ~call.raw.hashable

transport_reasons ==
    when(call.status # "COMPLETED", "REASONER_FAILED")
    \cup when(call.status = "COMPLETED" /\ call.raw = Nil, "REASONER_RESPONSE_MISSING")
    \cup when(call.status = "COMPLETED" /\ call.raw = Malformed, "REASONER_SCHEMA_INVALID")
    \cup when(call.status = "COMPLETED" /\ call.error, "REASONER_TRANSPORT_ERROR")

\* The answer's citations and unknowns; an unregistered unknown is refused too.
answer_reasons(r) ==
    LET answer == call.raw
    IN  when(r.valid /\ ~(cited(answer) \subseteq _v2_direction_allowed_citation_ids(r.context)),
             "UNSUPPORTED_CITATION")
        \cup when(r.valid /\ answer.direction # "UNCERTAIN" /\ answer.evidence = {},
                  "MISSING_CITATION")
        \cup when(r.valid /\ answer.unknown = "unregistered", "UNSUPPORTED_UNKNOWN_CODE")
        \cup when(r.valid /\ answer.unknown = "critical", "CRITICAL_UNKNOWN")
        \cup when(answer.direction = "UNCERTAIN", "REASONER_UNCERTAIN")

state_of(direction, reasons) ==
    CASE direction \in {"UP", "DOWN"} /\ reasons = {} -> "PROPOSED_UNCONFIRMED"
      [] direction = "UNCERTAIN" /\ reasons = {"REASONER_UNCERTAIN"} -> "ABSTAINED"
      [] OTHER -> "REJECTED"

\* The receipt type's own rules; a receipt that breaks one is not constructed.
StrategyV2DirectionDecision(d) ==
    /\ d.state = "PROPOSED_UNCONFIRMED" =>
          /\ d.direction \in {"UP", "DOWN"} /\ d.reasoner_direction = d.direction
          /\ d.reasons = {} /\ d.raw # Nil /\ d.semantic
          /\ d.raw.evidence # {} /\ cited(d.raw) \subseteq d.allowed
    /\ d.state # "PROPOSED_UNCONFIRMED" => d.direction = "UNCERTAIN" /\ d.reasons # {}
    /\ d.state = "ABSTAINED" =>
          d.reasoner_direction = "UNCERTAIN" /\ d.reasons = {"REASONER_UNCERTAIN"}

validate_strategy_v2_direction_decision ==
    /\ receipt.pc = "CHECKED"
    /\ LET reasons == receipt.reasons \cup request_reasons(receipt) \cup transport_reasons
                      \cup clock_reasons(receipt)
                      \cup (IF answered THEN answer_reasons(receipt) ELSE {})
           direction == IF answered THEN call.raw.direction ELSE Nil
           state == state_of(direction, reasons)
           d == [state |-> state, reasons |-> reasons, raw |-> call.raw, semantic |-> answered,
                 reasoner_direction |-> direction, status |-> call.status,
                 direction |-> IF state = "PROPOSED_UNCONFIRMED" THEN direction ELSE "UNCERTAIN",
                 allowed |-> IF receipt.valid
                             THEN _v2_direction_allowed_citation_ids(receipt.context) ELSE {}]
       IN  receipt' = [pc |-> IF ~hash_raises /\ StrategyV2DirectionDecision(d)
                              THEN "RECEIPT" ELSE "RAISED",
                       context |-> receipt.context, valid |-> receipt.valid, decision |-> d]
    /\ UNCHANGED <<now, ledger, approved, summary, context, built, call>>
-----------------------------------------------------------------------------
(* The other actors.                                                          *)
append(r) ==
    /\ r.row.created_at <= now /\ r.row \notin ledger[r.table]
    /\ receipt.pc \in {"NONE", "CHECKED"}
    /\ ledger' = [ledger EXCEPT ![r.table] = @ \cup {r.row}]
    /\ UNCHANGED <<now, approved, summary, context, built, call, receipt>>

replace_route ==
    /\ approved = 1 /\ call.pc # "NONE" /\ receipt.pc = "NONE"
    /\ approved' = 2
    /\ UNCHANGED <<now, ledger, summary, context, built, call, receipt>>

Tick ==
    /\ now < Horizon /\ receipt.pc = "NONE"
    /\ now' = now + 1
    /\ UNCHANGED <<ledger, approved, summary, context, built, call, receipt>>

Next ==
    \/ \E ask \in Asks : build_episodic_summary(ask)
    \/ \E a \in Artifacts : build_strategy_v2_context(a)
    \/ build_kimi_k3_v2_request
    \/ \E status \in {"COMPLETED", "TIMEOUT"}, raw \in Answers \cup {Nil, Malformed},
          error, timed \in BOOLEAN : transport(status, raw, error, timed)
    \/ validate_context \/ validate_strategy_v2_direction_decision
    \/ \E r \in Rows : append(r)
    \/ replace_route \/ Tick

Spec == Init /\ [][Next]_vars
-----------------------------------------------------------------------------
Receipted == receipt.pc = "RECEIPT"
Proposed == Receipted /\ receipt.decision.state = "PROPOSED_UNCONFIRMED"

(* Bad provider output and drifted inputs become a receipt: the reasons       *)
(* validate_strategy_v2_direction_decision collects never lead to a state     *)
(* that the receipt type refuses to construct.  The one answer it raises on   *)
(* is one that parses and cannot be hashed.                                   *)
ReceiptAlwaysBuilt == receipt.pc = "RAISED" => hash_raises

(* A step that proposes a direction is one in which the ledger still derives  *)
(* the very summary that the provider was shown, under the approved route.    *)
ProposalStepIsCurrent ==
    Proposed' /\ ~Proposed =>
        /\ current(call.request.context.summary)
        /\ call.request.context = receipt.context
        /\ call.request.route = approved

(* A proposal's citations are ids the request that was sent put before the    *)
(* provider, whatever context the host has built since.                       *)
CitationsWereSent ==
    Proposed => cited(call.raw) \subseteq _v2_direction_allowed_citation_ids(call.request.context)

(* The memory behind a proposal was on record by the evidence cutoff: no      *)
(* episode or outcome the provider saw was stamped later.                     *)
MemoryKnownAtCutoff ==
    Proposed => \A n \in DOMAIN receipt.context.summary.result.rows :
        LET row == receipt.context.summary.result.rows[n]
        IN  /\ row.decision.created_at <= EvidenceCutoff
            /\ row.outcome # Nil => row.outcome.created_at <= EvidenceCutoff

(* A proposal was answered by its own deadline and by the decision cutoff.    *)
ProposalInTime ==
    Proposed => call.responded # Nil /\ call.responded <= call.deadline
                /\ call.responded <= DecisionCutoff
=============================================================================
