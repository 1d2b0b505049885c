----------------------------- MODULE MCDecisions -----------------------------
(***************************************************************************)
(* Small instances of what stands between a strategy input and an order    *)
(* package: the decision engine and its Gate C arms, the route packages    *)
(* and host adapters, the V2 direction receipt, the expression compiler    *)
(* and the Gate D tournament.  They share no state, so a behaviour         *)
(* explores one of them, its part.                                         *)
(***************************************************************************)
EXTENDS Integers, FiniteSets, Sequences, TLC

CONSTANTS Nil, malformed

VARIABLES
    part,
    input, route, now, invoked, call, gate, last, bundle, made, contacts, dropped,   \* DecisionEngine
    packaged, cache, supplied, result, adapter, objects, edits, deploys,     \* RouteApproval
    clock, ledger, approved, summary, context, built, exchange, receipt,     \* DirectionReceipt
    snapshot, policy, package, rows, gate_d, events, report                  \* Expressions

engine_vars == <<input, route, now, invoked, call, gate, last, bundle, made, contacts, dropped>>
route_vars == <<packaged, cache, supplied, result, adapter, objects, edits, deploys>>
receipt_vars == <<clock, ledger, approved, summary, context, built, exchange, receipt>>
compiler_vars == <<snapshot, policy, package, rows>>
tournament_vars == <<gate_d, events, report>>
vars == <<part, engine_vars, route_vars, receipt_vars, compiler_vars, tournament_vars>>
-----------------------------------------------------------------------------
(* The engine: an eligible earnings input, a macro one, and the ones each  *)
(* preflight or confirmation gate turns away; only the sound fake route    *)
(* sees the latter, the direct routes see two of the inputs and a failing  *)
(* fake one.                                                               *)
mcEvidence == [p1 |-> "PRIMARY", m1 |-> "MARKET", o1 |-> "OTHER"]
mcEarnings(c) ==
    [candidate |-> "EARNINGS", eligible |-> TRUE, healthy |-> TRUE, receiptAt |-> 1, cutoff |-> 3,
     evidence |-> mcEvidence, confirmation |-> c, volume |-> Nil, vwap |-> Nil,
     parser |-> [sue |-> 1, revenue |-> 1, guidance |-> Nil]]
mcMacro(c, volume, vwap) ==
    [mcEarnings(c) EXCEPT !.candidate = "MACRO", !.volume = volume, !.vwap = vwap,
                          !.parser = [c1 |-> -1, c2 |-> -1]]
mcReached == {mcEarnings(2), mcMacro(-2, 1, -1)}
mcInputs ==
    mcReached \cup {mcEarnings(c) : c \in {1, -2, Nil}}
    \cup {[mcEarnings(2) EXCEPT !.eligible = FALSE], [mcEarnings(2) EXCEPT !.healthy = FALSE],
          [mcEarnings(2) EXCEPT !.evidence = [p1 |-> "PRIMARY", o1 |-> "OTHER"]],
          mcMacro(2, 1, 1), mcMacro(2, 1, 0), mcMacro(-2, 0, -1), mcMacro(2, Nil, 1)}

mcFake(failure) == [kind |-> "FAKE", failure |-> failure, transport |-> FALSE]
mcDirect(transport) == [kind |-> "DIRECT", failure |-> "NONE", transport |-> transport]
mcRoutes ==
    {mcFake(f) : f \in {"NONE", "TIMEOUT", "CANCELED", "PROVIDER_ERROR", "LATE_RESPONSE",
                        "RAW_HASH_DRIFT", "MALFORMED_JSON"}}
    \cup {mcDirect(TRUE), mcDirect(FALSE), [mcDirect(TRUE) EXCEPT !.kind = "KIMI_V2"]}

mcSays(direction, ids, contradictions, unknowns, falsifier) ==
    [kind |-> "DECISION", decision |-> direction, evidence_ids |-> ids,
     contradictions |-> contradictions, unknowns |-> unknowns, falsifier |-> falsifier]
mcContents ==
    {mcSays(d, {"p1", "m1"}, {}, {}, "m1") : d \in {"UP", "DOWN", "UNCERTAIN"}}
    \cup {mcSays("UP", {"p1"}, {}, {}, "m1"), mcSays("UP", {"m1", "o1"}, {}, {}, "m1"),
          mcSays("UP", {"p1", "m1"}, {"unknown"}, {}, "m1"),
          mcSays("DOWN", {"p1", "m1"}, {}, {}, Nil),
          mcSays("UP", {"p1", "m1"}, {"o1"}, {"TOLERATED"}, "m1"),
          mcSays("UP", {"p1", "m1"}, {}, {}, "unknown"),
          mcSays("UP", {"p1", "m1"}, {}, {"CRITICAL"}, "m1"),
          mcSays("UP", {"p1", "m1"}, {}, {"FOREIGN"}, "p1"), [kind |-> "MALFORMED"],
          [kind |-> "UNHASHABLE"]}

Engine ==
    INSTANCE DecisionEngine WITH
        Inputs <- mcInputs, Routes <- mcRoutes, Contents <- mcContents, HardTimeout <- 2,
        AblationRoutes <- {Nil, mcFake("NONE")},
        MaxTime <- 4, MaxCalls <- 3, Epsilon <- 2, VolumeMin <- 1,
        Parity <- [n \in 1..2 |-> n % 2]

mcSees(r, i) ==
    CASE r = mcFake("NONE") -> TRUE
      [] r.kind = "FAKE" /\ r.failure # "NONE" -> i = mcEarnings(2)
      [] OTHER -> i \in mcReached

ASSUME Engine!DeadlineAssumption
-----------------------------------------------------------------------------
(* The routes: the frozen V1, the V2 of the same provider, and a later one *)
(* of another provider on V1's output schema.  One part edits the documents *)
(* a caller supplies, the other replaces packages on disk.                  *)
mcRouteSpec(v) ==
    CASE v = 1 -> [route_id |-> "r1", identity |-> "kimi", policy |-> "p1", caller |-> "T0",
                   effective |-> "T1", wire |-> "w1", tokens |-> 1, approval |-> "a1"]
      [] v = 2 -> [route_id |-> "r2", identity |-> "kimi", policy |-> "p2", caller |-> "T1",
                   effective |-> "T1", wire |-> "w2", tokens |-> 2, approval |-> "a2"]
      [] OTHER -> [route_id |-> "r5", identity |-> "qwen", policy |-> "p2", caller |-> "T0",
                   effective |-> "T0", wire |-> "w5", tokens |-> 2, approval |-> "a5"]

Documents ==
    INSTANCE RouteApproval WITH
        Versions <- {1, 2}, Spec <- mcRouteSpec, MaxEdits <- 2, MaxObjects <- 1, MaxDeploys <- 0

Deployments ==
    INSTANCE RouteApproval WITH
        Versions <- {1, 2, 5}, Spec <- mcRouteSpec, MaxEdits <- 0, MaxObjects <- 3, MaxDeploys <- 1
-----------------------------------------------------------------------------
(* The V2 receipt: evidence cutoff 1, decision cutoff 2.  One part appends  *)
(* rows around the cutoff, the other tries every kind of artifact and       *)
(* answer.                                                                  *)
mcModel == "model of the route"
mcEpisode(id, stamp) ==
    [id |-> id, event |-> 1, candidate |-> "lane", occurred_at |-> 0, cutoff_at |-> 2,
     created_at |-> stamp, policy |-> "V2", model |-> mcModel, disposition |-> "ACCEPTED",
     direction |-> "UP", supersedes |-> Nil]
mcLoss ==
    [id |-> 1, decision |-> 1, event |-> 1, kind |-> "ROUTE_FAILED", terminal_at |-> 0,
     observed_at |-> 0, created_at |-> 1, final_flat |-> FALSE, net_pnl |-> Nil,
     supersedes |-> Nil]
mcRow(table, row) == [table |-> table, row |-> row]

mcAsk(instant, model) ==
    [as_of |-> instant, policy |-> "V2", model |-> model, candidates |-> {"lane"}, limit |-> 2]

mcAnchor ==
    [policy |-> "V2", eligible |-> TRUE, healthy |-> TRUE, features |-> "PRESENT",
     lane |-> "ANCHOR", universe |-> Nil, news |-> {}, evidence |-> {<<"evidence", 1>>}]
mcArticle == [id |-> 1, retrieved |-> 1, attributed |-> TRUE]
mcCatalyst ==
    [mcAnchor EXCEPT !.lane = "CATALYST", !.universe = [ready |-> TRUE], !.news = {mcArticle}]
mcArtifacts ==
    {mcAnchor, mcCatalyst, [mcAnchor EXCEPT !.policy = "V1"], [mcAnchor EXCEPT !.eligible = FALSE],
     [mcAnchor EXCEPT !.healthy = FALSE], [mcAnchor EXCEPT !.features = "UNAVAILABLE"],
     [mcAnchor EXCEPT !.news = {mcArticle}], [mcCatalyst EXCEPT !.universe = Nil],
     [mcCatalyst EXCEPT !.universe.ready = FALSE], [mcCatalyst EXCEPT !.news = {}],
     [mcCatalyst EXCEPT !.news = {[mcArticle EXCEPT !.retrieved = 2]}],
     [mcCatalyst EXCEPT !.news = {[mcArticle EXCEPT !.attributed = FALSE]}]}

mcAnswer(direction, evidence, contradicted, unknown) ==
    [direction |-> direction, evidence |-> evidence, contradicted |-> contradicted,
     unknown |-> unknown, falsifier |-> Nil, hashable |-> TRUE]
mcCites == mcAnswer("UP", {<<"evidence", 1>>}, {}, "none")

Drift ==
    INSTANCE DirectionReceipt WITH
        now <- clock, call <- exchange, EvidenceCutoff <- 1, DecisionCutoff <- 2, Horizon <- 2,
        Malformed <- malformed, MaxContexts <- 2, Artifacts <- {mcAnchor},
        Rows <- {mcRow("decisions", mcEpisode(1, 0)), mcRow("decisions", mcEpisode(2, 2)),
                 mcRow("outcomes", mcLoss)},
        Asks <- {mcAsk(1, mcModel), mcAsk(2, mcModel)},
        Answers <- {mcCites, [mcCites EXCEPT !.falsifier = <<"episode", 2>>],
                    mcAnswer("UP", {<<"episode", 1>>}, {}, "none"),
                    mcAnswer("DOWN", {<<"evidence", 1>>}, {<<"outcome", 1>>}, "none")}

Answering ==
    INSTANCE DirectionReceipt WITH
        now <- clock, call <- exchange, EvidenceCutoff <- 1, DecisionCutoff <- 2, Horizon <- 3,
        Malformed <- malformed, MaxContexts <- 1, Artifacts <- mcArtifacts,
        Rows <- {mcRow("decisions", mcEpisode(1, 0))},
        Asks <- {mcAsk(1, mcModel), mcAsk(1, "another model")},
        Answers <- {mcCites, [mcCites EXCEPT !.falsifier = <<"news", 1>>],
                    [mcCites EXCEPT !.hashable = FALSE], mcAnswer("UP", {}, {}, "none"), mcAnswer("DOWN", {<<"news", 1>>}, {}, "none"),
                    mcAnswer("UNCERTAIN", {}, {}, "none"),
                    mcAnswer("UNCERTAIN", {<<"evidence", 1>>}, {}, "critical"),
                    mcAnswer("UP", {<<"evidence", 1>>}, {}, "critical"),
                    mcAnswer("UP", {<<"evidence", 1>>}, {}, "unregistered")}

ASSUME Drift!DirectionAssumption /\ Answering!DirectionAssumption
-----------------------------------------------------------------------------
(* The expression compiler at instant 10 of day 0: chains of up to three    *)
(* contracts, each sound or broken in one way, and policies that promote    *)
(* each expression; the one for shares also meets a stale and costly share. *)
mcQuote(bid, ask, at) == [bid |-> bid, ask |-> ask, size |-> 1, observed_at |-> at]
mcOption(symbol, type, expiry, strike, quote) ==
    [symbol |-> symbol, occ |-> TRUE, option_type |-> type, expiry |-> expiry, strike |-> strike,
     quote |-> quote, pinned |-> TRUE, data_class |-> "EXECUTABLE_DATA", open_interest |-> 1,
     reported_delta |-> IF type = "CALL" THEN 40 ELSE -40]
mcCall1 == mcOption(1, "CALL", 2, 10, mcQuote(2, 3, 10))
mcCall2 == mcOption(2, "CALL", 2, 12, mcQuote(2, 3, 10))
mcContracts ==
    {mcCall1, mcCall2, mcOption(3, "CALL", 2, 14, mcQuote(1, 1, 10)),
     mcOption(11, "PUT", 2, 14, mcQuote(2, 3, 9)), mcOption(12, "PUT", 2, 12, mcQuote(2, 2, 10)),
     [mcCall2 EXCEPT !.quote.observed_at = 6],               \* stale
     [mcCall2 EXCEPT !.quote.observed_at = 8],               \* fresh but out of step
     [mcCall2 EXCEPT !.occ = FALSE], [mcCall1 EXCEPT !.data_class = "INDICATIVE_DATA"],
     mcOption(4, "CALL", 1, 12, mcQuote(2, 2, 10)),          \* another expiry
     mcOption(6, "CALL", 0, 10, mcQuote(2, 3, 10))}          \* expires today

mcPackage(long, short, bid, ask) ==
    [package_id |-> <<long, short>>, legs |-> <<long, short>>, net_bid |-> bid, net_ask |-> ask,
     cents |-> TRUE, size |-> 1, observed_at |-> 10, pinned |-> TRUE,
     data_class |-> "EXECUTABLE_DATA"]
mcPackages ==
    {mcPackage(1, 2, 1, 1), mcPackage(1, 4, 1, 1), mcPackage(11, 12, 1, 1),
     [mcPackage(1, 2, 1, 1) EXCEPT !.observed_at = 6], [mcPackage(1, 2, 1, 1) EXCEPT !.cents = FALSE],
     [mcPackage(1, 2, 1, 1) EXCEPT !.legs = <<2, 1>>]}
mcShare(quote) == [quote |-> quote, pinned |-> TRUE, data_class |-> "EXECUTABLE_DATA"]
mcFreshShare == mcShare(mcQuote(9, 10, 10))

mcPromote(kind) ==
    [expression_kind |-> kind, operational_loss_budget |-> 350, quote_max_age |-> 3,
     cross_leg_skew_max |-> 1, spread_max_bps |-> 5000, min_quote_size |-> 1, min_dte |-> 1,
     max_dte |-> 3, delta_min |-> 20, delta_max |-> 60, width_min |-> 2, width_max |-> 3,
     liquidity_min_open_interest |-> 1, allows_indicative_data |-> FALSE]
mcPolicies ==
    {mcPromote("CASH_NO_TRADE"), mcPromote("SHARES"),
     [mcPromote("ONE_LONG_OPTION") EXCEPT !.min_dte = 0],
     [mcPromote("DEBIT_VERTICAL") EXCEPT !.allows_indicative_data = TRUE]}

mcRequest(accepted, direction, at) ==
    [decision |-> [accepted |-> accepted, direction |-> direction, decision_at |-> at],
     snapshot_binds |-> TRUE, policy_matches |-> TRUE, receipt_matches |-> TRUE]
mcRequests ==
    LET up == mcRequest(TRUE, "UP", 9)
    IN  {up, mcRequest(TRUE, "DOWN", 9), mcRequest(TRUE, "UNCERTAIN", 9),
         mcRequest(FALSE, "UP", 9), mcRequest(TRUE, "UP", 11), [up EXCEPT !.snapshot_binds = FALSE],
         [up EXCEPT !.policy_matches = FALSE], [up EXCEPT !.receipt_matches = FALSE]}

Compiler ==
    INSTANCE Expressions WITH
        result <- package, Policies <- mcPolicies, Contracts <- mcContracts,
        Packages <- mcPackages, Requests <- mcRequests, Borrows <- {6, 10}, ChainLimit <- 3,
        PackageLimit <- 1, Clock <- 10, Day <- 0,
        Shares <- {mcFreshShare, mcShare(mcQuote(390, 400, 6))},
        Snapshots <- {}, MaxEvents <- 0
-----------------------------------------------------------------------------
(* The tournament over up to three events, whose snapshots make every       *)
(* expression tradable at little or at more cost, only shares, or nothing.  *)
mcMarket(share, quote, bid, ask) ==
    [clock |-> 10, day |-> 0, borrow_locate |-> 10, share |-> mcShare(share),
     chain |-> {mcOption(1, "CALL", 2, 10, quote), mcOption(2, "CALL", 2, 13, quote),
                mcOption(3, "PUT", 2, 13, quote), mcOption(4, "PUT", 2, 10, quote)},
     packages |-> {mcPackage(1, 2, bid, ask), mcPackage(3, 4, bid, ask)}]
mcCheap == mcMarket(mcQuote(10, 10, 10), mcQuote(2, 2, 10), 1, 1)
mcCostly == mcMarket(mcQuote(8, 10, 10), mcQuote(3, 4, 10), 1, 2)
mcOnlyShares == [mcCheap EXCEPT !.chain = {}, !.packages = {}]
mcTournamentPolicies ==
    {[mcPromote("SHARES") EXCEPT !.operational_loss_budget = 450]
        @@ [evidence_min_events |-> least, evidence_threshold |-> threshold] :
        least \in {0, 2}, threshold \in {0, 2000}}

Tournament ==
    INSTANCE Expressions WITH
        policy <- gate_d, result <- package, MaxEvents <- 3, Policies <- mcTournamentPolicies,
        Snapshots <- {mcCostly, mcOnlyShares}, Contracts <- {}, Packages <- {}, Requests <- {},
        Borrows <- {}, ChainLimit <- 0, PackageLimit <- 0, Clock <- 10, Day <- 0, Shares <- {}
-----------------------------------------------------------------------------
engine_idle ==
    /\ input = Nil /\ route = Nil /\ now = Nil /\ invoked = Nil /\ call = Nil
    /\ gate = Nil /\ last = Nil /\ bundle = Nil /\ made = Nil /\ contacts = Nil
    /\ dropped = Nil
route_idle ==
    /\ packaged = Nil /\ cache = Nil /\ supplied = Nil /\ result = Nil
    /\ adapter = Nil /\ objects = Nil /\ edits = Nil /\ deploys = Nil
receipt_idle ==
    /\ clock = Nil /\ ledger = Nil /\ approved = Nil /\ summary = Nil
    /\ context = Nil /\ built = Nil /\ exchange = Nil /\ receipt = Nil
compiler_idle ==
    /\ snapshot = Nil /\ policy = Nil /\ package = Nil /\ rows = Nil
tournament_idle ==
    /\ gate_d = Nil /\ events = Nil /\ report = Nil

Init ==
    /\ part \in {"engine", "documents", "deployments", "drift", "answers", "compiler",
                 "tournament"}
    /\ \/ part = "engine" /\ Engine!Init /\ mcSees(route, input)
       \/ part # "engine" /\ engine_idle
    /\ \/ part = "documents" /\ Documents!Init
       \/ part = "deployments" /\ Deployments!Init
       \/ part \notin {"documents", "deployments"} /\ route_idle
    /\ \/ part = "drift" /\ Drift!Init
       \/ part = "answers" /\ Answering!Init
       \/ part \notin {"drift", "answers"} /\ receipt_idle
    /\ \/ /\ part = "compiler" /\ Compiler!CompilerInit
          /\ snapshot.share = mcFreshShare \/ policy.expression_kind = "SHARES"
       \/ part # "compiler" /\ compiler_idle
    /\ \/ part = "tournament" /\ Tournament!TournamentInit
       \/ part # "tournament" /\ tournament_idle

Next ==
    /\ UNCHANGED part
    /\ \/ part = "engine" /\ Engine!Next
       \/ part # "engine" /\ UNCHANGED engine_vars
    /\ \/ part = "documents" /\ Documents!Next
       \/ part = "deployments" /\ Deployments!Next
       \/ part \notin {"documents", "deployments"} /\ UNCHANGED route_vars
    /\ \/ part = "drift" /\ Drift!Next
       \/ part = "answers" /\ Answering!Next
       \/ part \notin {"drift", "answers"} /\ UNCHANGED receipt_vars
    /\ \/ part = "compiler" /\ Compiler!CompilerNext
       \/ part # "compiler" /\ UNCHANGED compiler_vars
    /\ \/ part = "tournament" /\ Tournament!TournamentNext
       \/ part # "tournament" /\ UNCHANGED tournament_vars

Spec == Init /\ [][Next]_vars
-----------------------------------------------------------------------------
(* Properties, each stated in full where its component is modelled.        *)

(* The engine: an accepted direction is the price continuation's, grounded *)
(* in one timely provider answer; the provider is contacted once per input *)
(* unless unwrapping its answer raised, every abort is recorded, and the   *)
(* Gate C arms are matched.                                                *)
DecisionsAreGrounded ==
    part = "engine" =>
        /\ Engine!ProviderCalledOnce /\ Engine!OutcomesConstructible
        /\ Engine!AcceptedIsContinuation /\ Engine!AcceptedIsGrounded
        /\ Engine!ArmsAreMatched

(* The routes: no edit of a document pair makes a route that its receipt   *)
(* does not bind, V1 is never eligible, and a host adapter holds the very  *)
(* object its lane loaded from the shipped pair.                           *)
RoutesAreBound ==
    /\ part = "documents" => Documents!V1NeverEligible /\ Documents!ValidatedIsBound
    /\ part = "deployments" => Deployments!AdapterIsShipped

(* The V2 receipt: a proposal cites only what its own request showed, from *)
(* memory on record at the evidence cutoff, and answered in time; drifted  *)
(* inputs and bad answers end in a receipt, all but one that parses and    *)
(* cannot be hashed.                                                       *)
ProposalsAreGrounded ==
    /\ part = "drift" => Drift!CitationsWereSent /\ Drift!MemoryKnownAtCutoff
    /\ part = "answers" => Answering!ReceiptAlwaysBuilt /\ Answering!ProposalInTime

(* A step that proposes a direction is one in which the ledger still       *)
(* derives the very summary that the provider was shown, under the         *)
(* approved route.                                                         *)
ProposalIsCurrent == [][part = "drift" => Drift!ProposalStepIsCurrent]_vars

(* The expressions: what the compiler emits the tournament compares, the   *)
(* permit constructor accepts and the policy allows; failures are counted  *)
(* and a promoted expression was right often enough.                       *)
ExpressionsAgree ==
    /\ part = "compiler" => /\ Compiler!ComparedIffCompiled
                            /\ Compiler!PermitBoundaryCompatible
                            /\ Compiler!CompiledWithinPolicy
    /\ part = "tournament" => Tournament!FailuresCounted /\ Tournament!PromotedWasRight
=============================================================================
