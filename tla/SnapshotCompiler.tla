-------------------------- MODULE SnapshotCompiler --------------------------
(* The point-in-time snapshot compiler (sourcedata/compiler.py) with the   *)
(* evidence packet it assembles (sourcedata/evidence.py) and the instants  *)
(* it gives its features (sourcedata/features.py).  Source records come in *)
(* while time passes; the host then runs one capture for a capture clock   *)
(* it states itself, and joins what was compiled.                          *)
(*                                                                         *)
(* The calendar names the kind of session of every day.  Prices, volumes   *)
(* and betas are left to the modules about the tape and the price history: *)
(* here the market data is complete or something required is missing, and  *)
(* the calendar, the security master and the corporate actions are one     *)
(* record source, retrieved when the last of them was.  The calendar is    *)
(* shorter than the 10 and 14 days the code looks back and ahead.          *)
EXTENDS StrategyDocuments, FiniteSetsExt

CONSTANTS
    Worlds,       \* what a capture may be set up with (a set of records)
    Instants      \* the instants at which something happens

VARIABLES
    now,          \* the wall clock of the sources
    world,        \* calendar, manifest, health of the records and of the tape
    release,      \* the primary release a source returns, or Nil
    records,      \* the reference records or the revision table, or Nil
    result        \* what the last capture returned, or Nil

vars == <<now, world, release, records, result>>

reject(reason) == [verdict |-> "rejected", reason |-> reason]

\* A list of gates <<condition, reason>>: the first that fails decides.
Fails(gates) == \E i \in DOMAIN gates : gates[i][1]
first_reason(gates) == gates[SelectInSeq(gates, LAMBDA g : g[1])][2]

full_days(calendar) == {d \in DOMAIN calendar : calendar[d] = "full"}

\* BMO reacts in the session of the scheduled date, AMC in the next full one,
\* a macro release in the session of its date, which must be a full one.
_reaction_session(calendar, cohort, scheduled_at) ==
    LET date == DateOf(scheduled_at)
        days == IF cohort = "AMC" THEN {d \in full_days(calendar) : d > date}
                ELSE full_days(calendar) \cap {date} IN
    IF days = {} THEN Nil ELSE Min(days)

prior_session(calendar, day) ==
    LET days == {d \in full_days(calendar) : d < day} IN
    IF days = {} THEN Nil ELSE Max(days)

derive_clocks(candidate, cohort, day) ==
    [i \in 1..5 |-> At(day, PolicyClock(candidate, cohort)[i])]

_validate_release_timing(cohort, published_at, day, prior_day) ==
    \/ published_at >= At(day, Open)
    \/ cohort = "AMC" /\ (prior_day = Nil \/ published_at < At(prior_day, Close))
    \/ cohort = "BMO" /\ DateOf(published_at) # day

\* One packet member: its source class and the instants of its receipt.
entry(id, role, class, published_at, retrieved_at) ==
    [id |-> id, role |-> role, class |-> class,
     published_at |-> published_at, available_at |-> retrieved_at]

\* Market data has no publisher time; it was retrieved at the capture clock.
_market_provenance(role, clock, capture_at) == entry("market", role, "MARKET", Nil, capture_at)

\* Records that do not exist were looked up at the capture clock.
_records_provenance(role, class, rec, capture_at) ==
    entry("records", role, class, IF rec = Nil THEN Nil ELSE rec.published_at,
          IF rec = Nil THEN capture_at ELSE rec.retrieved_at)

_cutoff_gate(e, cutoff) ==
    \/ e.published_at # Nil /\ e.published_at > cutoff
    \/ e.available_at > cutoff

\* Partial retrievals, unverified rights and anything published or retrieved
\* after the evidence cutoff stop the packet.
build_evidence_packet(entries, cutoff, w) ==
    <<<<~w.pages_complete, "PAGINATION_INCOMPLETE">>,
      <<~w.entitled, "SOURCE_RIGHTS_UNVERIFIED">>,
      <<\E e \in entries : e.role \in {"ISSUER_PRIMARY", "MACRO_PRIMARY"}
                              /\ e.published_at = Nil, "PUBLICATION_TIME_UNKNOWN">>,
      <<\E e \in entries : _cutoff_gate(e, cutoff), "RETRIEVED_AFTER_CUTOFF">>>>

\* A feature is not observed before the evidence it cites was available.
_proven_observed_at(entries, refs, lower_bound) ==
    Max({lower_bound} \cup {e.available_at : e \in {x \in entries : x.id \in refs}})

PresentFeature(entries, refs, lower_bound, components) ==
    [status |-> "PRESENT", observed_at |-> _proven_observed_at(entries, refs, lower_bound),
     refs |-> refs, components |-> components]
NullFeature(status) ==
    [status |-> status, observed_at |-> Nil, refs |-> {}, components |-> {}]

\* Consensus is never imputed, so the time-series surprise stands in for it.
build_earnings_features(entries, clock) ==
    LET released == (CHOOSE e \in entries : e.id = "primary").available_at IN
    [consensus |-> NullFeature("UNAVAILABLE"),
     sue |-> PresentFeature(entries, {"primary"}, released, {}),
     market |-> PresentFeature(entries, {"market"}, clock[2], {})]

build_macro_features(entries, clock, cohort, published_at) ==
    LET bls == {"primary", "records"}
        component(c) == IF c = cohort THEN PresentFeature(entries, bls, published_at, {})
                        ELSE NullFeature("NOT_APPLICABLE") IN
    [jolts |-> component("BLS_JOLTS"),
     employment |-> component("BLS_EMPLOYMENT_SITUATION"),
     revision |-> PresentFeature(entries, bls, clock[2],
                                 {[status |-> "PRESENT", refs |-> bls]}),
     market |-> PresentFeature(entries, {"market"}, clock[2], {})]

\* The revisions published by a cutoff, as the source answers for it.
revisions(rec, cutoff) == IF rec = Nil \/ rec.published_at > cutoff THEN Nil ELSE rec

earnings_entries(rel, rec, clock, capture_at) ==
    {entry("primary", "ISSUER_PRIMARY", "ISSUER", rel.published_at, rel.retrieved_at),
     _records_provenance("LIQUIDITY_VOLATILITY", "RECORDS", rec, capture_at),
     _market_provenance("ISSUER_MARKET", clock, capture_at)}

macro_entries(rel, rec, clock, capture_at) ==
    {entry("primary", "MACRO_PRIMARY", "OFFICIAL_BLS_RELEASE",
           rel.provenance_at, rel.retrieved_at),
     _records_provenance("MACRO_PRIMARY", "OFFICIAL_BLS_REVISION_TABLE",
                         revisions(rec, clock[3]), capture_at),
     _market_provenance("MARKET_PROXY", clock, capture_at)}

\* The two documents a capture writes, from the entries of its packet.
CompiledSnapshotOf(w, c, day, clock, entries, published_at, capture_at) ==
    [event |-> c.event, candidate |-> w.manifest.candidate, cohort |-> c.cohort,
     category |-> IF w.manifest.candidate = Macro THEN "MACRO" ELSE "EARNINGS",
     security |-> c.security, policy |-> w.manifest.policy, manifest |-> w.manifest,
     created_at |-> capture_at, universe_frozen_at |-> w.manifest.frozen_at,
     timing |-> timing_of(c.cohort), family |-> release_family(c.cohort),
     published_at |-> published_at,
     session_open |-> At(day, Open), session_close |-> At(day, Close), clock |-> clock,
     evidence |-> entries, reasons |-> {},
     allowed_unknowns |-> {"TOLERATED", "CRITICAL"}, critical_unknowns |-> {"CRITICAL"},
     prior_close |-> IF c.cohort = "AMC" THEN At(prior_session(w.calendar, day), Close) ELSE Nil]

CompiledReceiptOf(s, features, capture_at) ==
    [event |-> s.event, candidate |-> s.candidate, cohort |-> s.cohort, policy |-> s.policy,
     snapshot |-> s, created_at |-> capture_at, feature_snapshot_at |-> s.clock[2],
     decision_cutoff_at |-> s.clock[4],
     maximum_public_timestamp |->
        Max({e.published_at : e \in {x \in s.evidence : x.published_at # Nil}}),
     features |-> features]

\* The constructors refuse what the gates let through.
Compiled(w, s, r) ==
    IF StrategySnapshot(s) /\ FeatureReceipt(r)
    THEN [verdict |-> "compiled", manifest |-> w.manifest, snapshot |-> s, receipt |-> r]
    ELSE reject("VALUE_ERROR")

------------------------------------------------------------------------------
compile_strategy_snapshot(w, rel, rec, capture_at) ==
    LET c == record(w.manifest, w.event)
        day == _reaction_session(w.calendar, c.cohort, c.scheduled_at)
        clock == derive_clocks(w.manifest.candidate, c.cohort, day)
        prior == prior_session(w.calendar, day)
        entries == earnings_entries(rel, rec, clock, capture_at)
        s == CompiledSnapshotOf(w, c, day, clock, entries, rel.published_at, capture_at)
        r == CompiledReceiptOf(s, build_earnings_features(entries, clock), capture_at)
        bound ==
            <<<<w.manifest.policy # registered(w.manifest.policy), "POLICY_HASH_MISMATCH">>,
              <<w.manifest.candidate # (IF w.manifest.policy = "V3" THEN Earnings3 ELSE Earnings),
                "UNSUPPORTED_INPUT">>,
              <<c.reasons # {}, "EVENT_NOT_CONFIRMED">>,
              <<~w.in_universe, "INACTIVE_SECURITY">>,
              <<day = Nil, "CLOCK_MISMATCH">>>>
        timely ==
            <<<<capture_at > clock[4], "RETRIEVED_AFTER_CUTOFF">>,
              <<c.cohort = "AMC" /\ prior = Nil, "PRIMARY_RELEASE_LATE">>,
              <<c.cohort = "AMC" /\ prior # DateOf(c.scheduled_at), "TIMING_BUCKET_CONFLICT">>,
              <<rel = Nil, "PRIMARY_RELEASE_MISSING">>>>
        released ==
            <<<<_validate_release_timing(c.cohort, rel.published_at, day, prior),
                "PRIMARY_RELEASE_LATE">>,
              <<~w.market_complete, "MARKET_OBSERVATION_MISSING">>>>
            \o build_evidence_packet(entries, clock[3], w) IN
    IF Fails(bound) THEN reject(first_reason(bound))
    ELSE IF Fails(timely) THEN reject(first_reason(timely))
    ELSE IF rel.published_at = Nil THEN reject("PUBLICATION_TIME_UNKNOWN")
    ELSE IF Fails(released) THEN reject(first_reason(released))
    ELSE Compiled(w, s, r)

compile_macro_snapshot(w, rel, rec, capture_at) ==
    LET c == record(w.manifest, w.event)
        day == _reaction_session(w.calendar, c.cohort, c.scheduled_at)
        clock == derive_clocks(w.manifest.candidate, c.cohort, day)
        entries == macro_entries(rel, rec, clock, capture_at)
        s == CompiledSnapshotOf(w, c, day, clock, entries, rel.published_at, capture_at)
        r == CompiledReceiptOf(
                s, build_macro_features(entries, clock, c.cohort, rel.published_at), capture_at)
        bound ==
            <<<<w.manifest.policy # "V1", "POLICY_HASH_MISMATCH">>,
              <<w.manifest.candidate # Macro, "UNSUPPORTED_INPUT">>,
              <<c.reasons # {}, "EVENT_NOT_CONFIRMED">>,
              <<~w.on_schedule, "SCHEDULE_NOT_FROZEN">>,
              <<day = Nil, "NON_FULL_REGULAR_SESSION">>>>
        timely ==
            <<<<capture_at > clock[4], "RETRIEVED_AFTER_CUTOFF">>,
              <<rel = Nil, "OFFICIAL_RELEASE_MISSING">>>>
        released ==
            <<<<rel.published_at > clock[3], "OFFICIAL_RELEASE_LATE">>,
              <<~w.market_complete, "MARKET_WINDOW_MISSING">>>>
            \o build_evidence_packet(entries, clock[3], w) IN
    IF Fails(bound) THEN reject(first_reason(bound))
    ELSE IF Fails(timely) THEN reject(first_reason(timely))
    ELSE IF Fails(released) THEN reject(first_reason(released))
    ELSE Compiled(w, s, r)

------------------------------------------------------------------------------
Init ==
    /\ world \in Worlds
    /\ now = Min(Instants)
    /\ release = Nil /\ records = Nil /\ result = Nil

Tick ==
    /\ now < Max(Instants)
    /\ now' = Min({t \in Instants : t > now})
    /\ UNCHANGED <<world, release, records, result>>

is_macro == world.manifest.candidate = Macro

\* A source retrieves the primary release.  Its publisher's time may be
\* missing, and a BLS record states the time twice.
RetrieveRelease ==
    /\ release = Nil
    /\ \E t \in {x \in Instants : x <= now} \cup (IF is_macro THEN {} ELSE {Nil}) :
          \E p \in IF is_macro THEN {t, now, Nil} ELSE {t} :
             release' = [published_at |-> t, provenance_at |-> p, retrieved_at |-> now]
    /\ UNCHANGED <<now, world, records, result>>

RetrieveRecords ==
    /\ records = Nil
    /\ records' = [published_at |-> IF is_macro THEN now ELSE Nil, retrieved_at |-> now]
    /\ UNCHANGED <<now, world, release, result>>

\* One capture run for the capture clock its configuration states.
Capture ==
    /\ \E capture_at \in Instants :
          result' = IF is_macro
                    THEN compile_macro_snapshot(world, release, records, capture_at)
                    ELSE compile_strategy_snapshot(world, release, records, capture_at)
    /\ UNCHANGED <<now, world, release, records>>

Next == Tick \/ RetrieveRelease \/ RetrieveRecords \/ Capture

Spec == Init /\ [][Next]_vars

------------------------------------------------------------------------------
compiled == result # Nil /\ result.verdict = "compiled"

compiled_strategy_input ==
    build_strategy_input(result.manifest, result.snapshot, result.receipt)

\* A compiled earnings event published where its cohort says: a BMO one on the
\* reaction date before the open, an AMC one at or after the close of the
\* scheduled date, with no full session opening between it and the reaction
\* session (sourcedata/compiler.py _reaction_session, _validate_release_timing).
CompiledInCohort ==
    (compiled /\ ~is_macro) =>
        LET s == result.snapshot
            scheduled == DateOf(record(world.manifest, world.event).scheduled_at) IN
        /\ s.published_at < s.session_open
        /\ s.cohort = "BMO" => DateOf(s.published_at) = DateOf(s.session_open)
        /\ s.cohort = "AMC" =>
              /\ s.published_at >= At(scheduled, Close)
              /\ \A d \in full_days(world.calendar) :
                    ~(scheduled < d /\ d < DateOf(s.session_open))

\* The capture clock of a compiled bundle lies after the observation window
\* and at or before the evidence cutoff, although the compiler compares it
\* with the later decision cutoff only: the rest follows from the retrieval
\* time of the market evidence and the receipt's own check.
CaptureByEvidenceCutoff ==
    compiled =>
        /\ result.snapshot.clock[2] <= result.snapshot.created_at
        /\ result.snapshot.created_at <= result.snapshot.clock[3]

\* What the earnings compiler writes, the join admits (sourcedata/compiler.py
\* compiled_strategy_input): the two check the same rules in different forms.
EarningsCompiledJoins == (compiled /\ ~is_macro) => compiled_strategy_input

\* What the macro compiler writes, the join admits exactly when the release
\* kept its schedule and both its publication times agree, the two rules the
\* macro compiler leaves to the join.
MacroCompiledJoins ==
    (compiled /\ is_macro) =>
        LET scheduled == record(world.manifest, world.event).scheduled_at IN
        compiled_strategy_input <=>
            /\ release.published_at - scheduled \in -Tolerance..Tolerance
            /\ release.provenance_at = release.published_at
==============================================================================
