------------------------- MODULE StrategyDocuments -------------------------
(* The three canonical documents a strategy decision is made from         *)
(* (strategy/models.py) and the join that admits them together            *)
(* (strategy/contracts.py).  The candidate manifest is the ex-ante list   *)
(* of events, the snapshot holds one event's clocks and evidence, and the *)
(* feature receipt the values computed from that evidence.  A document's  *)
(* digest is the document itself.                                         *)
(*                                                                        *)
(* Instants count half seconds: an even number is a whole second, an odd  *)
(* one a fraction of a second after it.  A day has DaySeconds seconds and *)
(* the wall marks of a day are small seconds, kept in the order of the    *)
(* policy's wall times.                                                   *)
EXTENDS Integers, FiniteSets, Sequences, SequencesExt

CONSTANT Nil              \* no value (None)

DaySeconds == 100
Open == 20                \* 09:30:00
Close == 80               \* 16:00:00
Freeze == 82              \* 16:15:00, the policy's universe freeze
Tolerance == 2            \* 60 seconds of schedule tolerance, in half seconds

At(day, second) == (day * DaySeconds + second) * 2
DateOf(t) == t \div (2 * DaySeconds)
WallSecond(t) == (t % (2 * DaySeconds)) \div 2

Earnings == "EARNINGS_RESIDUAL_CONTINUATION_V1"
Earnings3 == "EARNINGS_RESIDUAL_CONTINUATION_V3"
Macro == "MACRO_SPY_CONTINUATION_CHALLENGER_V1"

\* The candidates and cohorts of the policy the snapshot's digest selects:
\* the V3 package for its own digest, the V1 package for every other one.
candidate_ids(policy) == IF policy = "V3" THEN {Earnings3} ELSE {Earnings, Macro}
registered(policy) == IF policy = "V3" THEN "V3" ELSE "V1"
cohort_ids(candidate) ==
    IF candidate = Macro THEN {"BLS_JOLTS", "BLS_EMPLOYMENT_SITUATION"} ELSE {"BMO", "AMC"}

\* The registered wall clock of a cohort: the five marks of its session.
PolicyClock(candidate, cohort) ==
    CASE candidate = Earnings3 -> <<20, 25, 40, 43, 46>>
      [] candidate = Earnings -> <<20, 25, 27, 30, 33>>
      [] cohort = "BLS_JOLTS" -> <<50, 55, 57, 60, 63>>
      [] OTHER -> <<20, 35, 37, 40, 43>>

timing_of(cohort) ==
    CASE cohort = "BMO" -> "BEFORE_OPEN" [] cohort = "AMC" -> "AFTER_CLOSE"
      [] OTHER -> "SCHEDULED_RELEASE"

release_family(cohort) == IF cohort \in {"BMO", "AMC"} THEN Nil ELSE cohort

\* The source classes a candidate must and may draw on.  RECORDS stands for
\* the exchange calendar, the security master and the corporate actions,
\* MARKET for the licensed prints and quotes.
required_source_classes(candidate) ==
    IF candidate = Macro THEN {"OFFICIAL_BLS_RELEASE", "OFFICIAL_BLS_REVISION_TABLE", "MARKET"}
    ELSE {"ISSUER", "RECORDS", "MARKET"}
permitted_source_classes(candidate) ==
    required_source_classes(candidate) \cup (IF candidate = Macro THEN {} ELSE {"NEWS"})

\* The registered features of a candidate and when each must be PRESENT: one
\* feature of every kind of requirement the policies register.
_policy_feature_specs(candidate) ==
    IF candidate = Macro
    THEN [jolts |-> "COHORT_IS_BLS_JOLTS",
          employment |-> "COHORT_IS_BLS_EMPLOYMENT_SITUATION",
          revision |-> "OFFICIAL_REPORT_PUBLISHES_REVISIONS",
          market |-> "ALWAYS"]
    ELSE [consensus |-> "POINT_IN_TIME_EPS_CONSENSUS_AVAILABLE",
          sue |-> "REQUIRED_WHEN_EPS_CONSENSUS_SURPRISE_IS_UNAVAILABLE",
          market |-> "ALWAYS"]

_conditional_feature_required(required_if, snapshot, features) ==
    CASE required_if = "ALWAYS" -> TRUE
      [] required_if = "COHORT_IS_BLS_JOLTS" -> snapshot.cohort = "BLS_JOLTS"
      [] required_if = "COHORT_IS_BLS_EMPLOYMENT_SITUATION" ->
             snapshot.cohort = "BLS_EMPLOYMENT_SITUATION"
      [] required_if = "OFFICIAL_REPORT_PUBLISHES_REVISIONS" -> snapshot.candidate = Macro
      [] required_if = "REQUIRED_WHEN_EPS_CONSENSUS_SURPRISE_IS_UNAVAILABLE" ->
             features["consensus"].status # "PRESENT"
      [] OTHER -> FALSE

------------------------------------------------------------------------------
(* What each document promises by itself: the constructors' checks.       *)

\* A manifest's events are unique and scheduled after its ex-ante freeze.
CandidateManifest(m) ==
    /\ m.records # {}
    /\ \A r \in m.records :
          /\ r.scheduled_at > m.frozen_at
          /\ \A q \in m.records : q.event = r.event => q = r

\* A snapshot's clocks are ordered and nothing in it is later than its cutoffs.
StrategySnapshot(s) ==
    /\ s.session_open < s.session_close
    /\ s.session_open <= s.clock[1] /\ s.clock[1] < s.clock[2]
    /\ s.clock[2] <= s.session_close
    /\ s.clock[2] <= s.clock[3] /\ s.clock[3] <= s.clock[4] /\ s.clock[4] < s.clock[5]
    /\ s.published_at <= s.clock[3]
    /\ s.universe_frozen_at < s.published_at
    /\ s.created_at <= s.clock[4]
    /\ s.evidence # {}
    /\ \A e \in s.evidence :
          /\ e.published_at # Nil => e.published_at <= s.clock[3]
          /\ e.available_at <= s.clock[3]
          /\ \A f \in s.evidence : f.id = e.id => f = e
    /\ s.critical_unknowns \subseteq s.allowed_unknowns
    /\ IF s.category = "EARNINGS"
       THEN s.family = Nil /\ s.timing \in {"BEFORE_OPEN", "AFTER_CLOSE"}
       ELSE s.family # Nil /\ s.timing = "SCHEDULED_RELEASE"

\* A PRESENT feature cites evidence and says when it was observed, and only a
\* vector has components; any other status carries no value, time or component.
FeatureValue(f, vector) ==
    IF f.status = "PRESENT"
    THEN /\ f.refs # {} /\ f.observed_at # Nil
         /\ vector <=> f.components # {}
         /\ \A c \in f.components : c.status = "PRESENT" => c.refs # {}
    ELSE f.observed_at = Nil /\ f.components = {}

FeatureReceipt(r) ==
    /\ r.created_at >= r.feature_snapshot_at
    /\ r.feature_snapshot_at <= r.decision_cutoff_at
    /\ r.maximum_public_timestamp <= r.decision_cutoff_at
    /\ \A id \in DOMAIN r.features : FeatureValue(r.features[id], id = "revision")

------------------------------------------------------------------------------
(* The join of the three documents.                                       *)

record(m, event) == CHOOSE r \in m.records : r.event = event

evidence_by_id(s, id) == CHOOSE e \in s.evidence : e.id = id

\* A slip: availability is held against the evidence cutoff only.
CitesByCutoff(s, refs, observed_at, status) ==
    /\ refs \subseteq {e.id : e \in s.evidence}
    /\ \A id \in refs : evidence_by_id(s, id).available_at <= s.clock[3]

\* Every cited source is known and was available when the feature was observed.
CitesAvailable(s, refs, observed_at, status) ==
    /\ refs \subseteq {e.id : e \in s.evidence}
    /\ status = "PRESENT" =>
          \A id \in refs : evidence_by_id(s, id).available_at <= observed_at

StrategyInput(m, s, r) ==
    /\ s.manifest = m
    /\ m.candidate = s.candidate /\ m.policy = s.policy /\ m.frozen_at = s.universe_frozen_at
    /\ \E c \in m.records : c.event = s.event
    /\ LET c == record(m, s.event) IN
          c.security = s.security /\ c.cohort = s.cohort /\ c.reasons = s.reasons
    /\ r.snapshot = s
    /\ r.event = s.event /\ r.candidate = s.candidate
    /\ r.cohort = s.cohort /\ r.policy = s.policy
    /\ r.feature_snapshot_at <= s.clock[4] /\ r.created_at <= s.clock[4]
    /\ \A id \in DOMAIN r.features :
          LET f == r.features[id] IN
          /\ f.observed_at # Nil => f.observed_at <= s.clock[3]
          /\ CitesAvailable(s, f.refs, f.observed_at, f.status)
          /\ \A c \in f.components : CitesAvailable(s, c.refs, f.observed_at, c.status)

\* The five clocks are the cohort's, on the date of a full session, and the
\* publication falls where the cohort says.  Wall times are compared by their
\* hour, minute and second.
_validate_snapshot_clock(s) ==
    /\ s.cohort \in cohort_ids(s.candidate)
    /\ s.family = release_family(s.cohort)
    /\ DateOf(s.session_open) = DateOf(s.session_close)
    /\ WallSecond(s.session_open) = Open /\ WallSecond(s.session_close) = Close
    /\ \A i \in 1..5 :
          /\ DateOf(s.clock[i]) = DateOf(s.session_open)
          /\ WallSecond(s.clock[i]) = PolicyClock(s.candidate, s.cohort)[i]
    /\ s.timing = timing_of(s.cohort)
    /\ s.cohort = "BMO" => /\ DateOf(s.published_at) = DateOf(s.session_open)
                           /\ s.published_at < s.session_open
    /\ IF s.cohort = "AMC"
       THEN /\ s.prior_close # Nil
            /\ WallSecond(s.prior_close) = Close
            /\ DateOf(s.prior_close) < DateOf(s.session_open)
            /\ s.prior_close <= s.published_at /\ s.published_at < s.session_open
       ELSE s.prior_close = Nil

_validate_amc_prior_session_binding(m, s) ==
    s.cohort = "AMC" => DateOf(s.prior_close) = DateOf(record(m, s.event).scheduled_at)

\* A macro release is on its frozen schedule, and the one official citation
\* carries the declared publication time.
_validate_macro_release_binding(m, s) ==
    s.category = "MACRO" =>
        LET scheduled == record(m, s.event).scheduled_at
            official == {e \in s.evidence :
                            e.role = "MACRO_PRIMARY" /\ e.class = "OFFICIAL_BLS_RELEASE"} IN
        /\ s.published_at - scheduled <= Tolerance /\ scheduled - s.published_at <= Tolerance
        /\ Cardinality(official) = 1
        /\ \A e \in official : e.published_at = s.published_at

_validate_input_against_policy(m, s, r) ==
    /\ s.policy = registered(s.policy) /\ m.policy = registered(s.policy)
    /\ s.candidate \in candidate_ids(s.policy) /\ m.candidate = s.candidate
    /\ \A c \in m.records : c.cohort \in cohort_ids(s.candidate)
    /\ _validate_snapshot_clock(s)
    /\ _validate_amc_prior_session_binding(m, s)
    /\ _validate_macro_release_binding(m, s)
    /\ {e.class : e \in s.evidence} \subseteq permitted_source_classes(s.candidate)
    /\ required_source_classes(s.candidate) \subseteq {e.class : e \in s.evidence}
    /\ s.allowed_unknowns = {"TOLERATED", "CRITICAL"} /\ s.critical_unknowns = {"CRITICAL"}
    /\ DOMAIN r.features = DOMAIN _policy_feature_specs(s.candidate)
    /\ \A id \in DOMAIN r.features :
          _conditional_feature_required(_policy_feature_specs(s.candidate)[id], s, r.features)
             => r.features[id].status = "PRESENT"

build_strategy_input(m, s, r) ==
    /\ CandidateManifest(m) /\ StrategySnapshot(s) /\ FeatureReceipt(r)
    /\ StrategyInput(m, s, r)
    /\ _validate_input_against_policy(m, s, r)

\* What a direct route demands again of an input it is handed, before it
\* builds a request from it (strategy/host_route.py).
_canonical_strategy_payload(m, s, r) ==
    /\ s.manifest = m /\ r.snapshot = s
    /\ r.created_at <= s.clock[4] /\ r.feature_snapshot_at <= s.clock[4]
==============================================================================
