--------------------------- MODULE StrategyInputs ---------------------------
(* Producers draft the three documents of one event, possibly more than   *)
(* once and not always sealing the digests again, and the join            *)
(* (build_strategy_input, strategy/contracts.py) admits or refuses what   *)
(* it is given.  Any field may be edited, so an admitted input shows what *)
(* the join alone guarantees, whoever produced the documents.             *)
EXTENDS StrategyDocuments

CONSTANTS
    Bases,            \* <<candidate, cohort>> pairs whose documents are drafted
    ManifestEdits,    \* <<field, value>> pairs a draft of the manifest may set
    SnapshotEdits,    \* ... of the snapshot
    FeatureEdits,     \* ... of one feature of the receipt
    ReceiptEdits,     \* ... of the receipt
    MaxEdits          \* edits of one draft

VARIABLES manifest, snapshot, receipt, edits, verdict

vars == <<manifest, snapshot, receipt, edits, verdict>>

Reaction == 2         \* the day of the reaction session

\* The schedule of the base event of each cohort.
scheduled(cohort) ==
    CASE cohort = "AMC" -> At(Reaction - 1, 85)
      [] cohort = "BLS_JOLTS" -> At(Reaction, 50)
      [] OTHER -> At(Reaction, 10)

BaseManifest(b) ==
    [candidate |-> b[1], policy |-> IF b[1] = Earnings3 THEN "V3" ELSE "V1",
     frozen_at |-> At(IF b[2] = "AMC" THEN Reaction - 2 ELSE Reaction - 1, Freeze),
     records |-> {[event |-> "e", security |-> "s", cohort |-> b[2],
                   scheduled_at |-> scheduled(b[2]), reasons |-> {}]}]

BaseSnapshot(b) ==
    LET clock == [i \in 1..5 |-> At(Reaction, PolicyClock(b[1], b[2])[i])]
        macro == b[1] = Macro IN
    [event |-> "e", candidate |-> b[1], cohort |-> b[2],
     category |-> IF macro THEN "MACRO" ELSE "EARNINGS", security |-> "s",
     policy |-> BaseManifest(b).policy, manifest |-> BaseManifest(b),
     created_at |-> clock[3], universe_frozen_at |-> BaseManifest(b).frozen_at,
     timing |-> timing_of(b[2]), family |-> release_family(b[2]),
     published_at |-> scheduled(b[2]),
     session_open |-> At(Reaction, Open), session_close |-> At(Reaction, Close), clock |-> clock,
     evidence |-> {[id |-> "primary",
                    role |-> IF macro THEN "MACRO_PRIMARY" ELSE "ISSUER_PRIMARY",
                    class |-> IF macro THEN "OFFICIAL_BLS_RELEASE" ELSE "ISSUER",
                    published_at |-> scheduled(b[2]), available_at |-> clock[2]],
                   [id |-> "market", role |-> "ISSUER_MARKET", class |-> "MARKET",
                    published_at |-> Nil, available_at |-> clock[2] + 2],
                   [id |-> "records", role |-> "LIQUIDITY_VOLATILITY",
                    class |-> IF macro THEN "OFFICIAL_BLS_REVISION_TABLE" ELSE "RECORDS",
                    published_at |-> Nil, available_at |-> clock[1]]},
     reasons |-> {}, allowed_unknowns |-> {"TOLERATED", "CRITICAL"},
     critical_unknowns |-> {"CRITICAL"},
     prior_close |-> IF b[2] = "AMC" THEN At(Reaction - 1, Close) ELSE Nil]

Absent == [status |-> "UNAVAILABLE", observed_at |-> Nil, refs |-> {}, components |-> {}]
Present(observed_at, refs, components) ==
    [status |-> "PRESENT", observed_at |-> observed_at, refs |-> refs, components |-> components]

BaseReceipt(b) ==
    LET s == BaseSnapshot(b)
        primary == Present(s.clock[2], {"primary"}, {})
        market == Present(s.clock[2] + 2, {"market"}, {}) IN
    [event |-> "e", candidate |-> b[1], cohort |-> b[2], policy |-> s.policy, snapshot |-> s,
     created_at |-> s.clock[3], feature_snapshot_at |-> s.clock[2],
     decision_cutoff_at |-> s.clock[4], maximum_public_timestamp |-> s.published_at,
     features |->
        IF b[1] = Macro
        THEN [jolts |-> IF b[2] = "BLS_JOLTS" THEN primary ELSE Absent,
              employment |-> IF b[2] = "BLS_JOLTS" THEN Absent ELSE primary,
              revision |-> Present(s.clock[2], {"primary"},
                                   {[status |-> "PRESENT", refs |-> {"primary"}]}),
              market |-> market]
        ELSE [consensus |-> Absent, sue |-> primary, market |-> market]]

Init ==
    /\ \E b \in Bases : /\ manifest = BaseManifest(b)
                        /\ snapshot = BaseSnapshot(b)
                        /\ receipt = BaseReceipt(b)
    /\ edits = 0
    /\ verdict = "none"

Redraft == edits < MaxEdits /\ edits' = edits + 1 /\ verdict' = "none"

EditManifest ==
    /\ Redraft
    /\ \E e \in ManifestEdits : manifest' = [manifest EXCEPT ![e[1]] = e[2]]
    /\ UNCHANGED <<snapshot, receipt>>

EditSnapshot ==
    /\ Redraft
    /\ \E e \in SnapshotEdits : snapshot' = [snapshot EXCEPT ![e[1]] = e[2]]
    /\ UNCHANGED <<manifest, receipt>>

EditReceipt ==
    /\ Redraft
    /\ \/ \E e \in ReceiptEdits : receipt' = [receipt EXCEPT ![e[1]] = e[2]]
       \/ \E e \in FeatureEdits, id \in DOMAIN receipt.features :
             receipt' = [receipt EXCEPT !.features[id][e[1]] = e[2]]
    /\ UNCHANGED <<manifest, snapshot>>

\* A producer writes the documents out again, each naming the one before it.
Seal ==
    /\ snapshot.manifest # manifest \/ receipt.snapshot # snapshot
    /\ snapshot' = [snapshot EXCEPT !.manifest = manifest]
    /\ receipt' = [receipt EXCEPT !.snapshot = snapshot']
    /\ verdict' = "none"
    /\ UNCHANGED <<manifest, edits>>

Join ==
    /\ verdict = "none"
    /\ verdict' = IF build_strategy_input(manifest, snapshot, receipt)
                  THEN "joined" ELSE "refused"
    /\ UNCHANGED <<manifest, snapshot, receipt, edits>>

Next == EditManifest \/ EditSnapshot \/ EditReceipt \/ Seal \/ Join

Spec == Init /\ [][Next]_vars

------------------------------------------------------------------------------
\* No feature of an admitted input, and no component of one, rests on
\* evidence that was not available when the feature was observed, or that was
\* published or observed after the evidence cutoff, and that cutoff is before
\* the entry deadline (strategy/models.py StrategyInput.__post_init__ and
\* StrategySnapshot.__post_init__).
NoLookAhead ==
    verdict = "joined" =>
        \A id \in DOMAIN receipt.features :
            LET f == receipt.features[id]
                parts == {f} \cup f.components IN
            \A p \in parts : p.status = "PRESENT" =>
                /\ f.observed_at < snapshot.clock[5]
                /\ f.observed_at <= snapshot.clock[3]
                /\ \A e \in {x \in snapshot.evidence : x.id \in p.refs} :
                      /\ e.available_at <= f.observed_at
                      /\ e.published_at # Nil => e.published_at <= snapshot.clock[3]

\* The event of an admitted input was put on the list before it happened, and
\* its results came out where its cohort puts them, measured against the
\* schedule of the retained candidate record and not only against the
\* snapshot's own clocks (strategy/contracts.py
\* _validate_amc_prior_session_binding and _validate_macro_release_binding).
PublishedAsScheduled ==
    verdict = "joined" =>
        LET c == record(manifest, snapshot.event) IN
        /\ manifest.frozen_at < c.scheduled_at /\ manifest.frozen_at < snapshot.published_at
        /\ c.cohort = "AMC" =>
              /\ snapshot.published_at >= At(DateOf(c.scheduled_at), Close)
              /\ DateOf(snapshot.session_open) > DateOf(c.scheduled_at)
        /\ c.cohort = "BMO" =>
              snapshot.published_at \in At(DateOf(snapshot.session_open), 0) ..
                                        (At(DateOf(snapshot.session_open), Open) - 1)
        /\ c.cohort \notin {"BMO", "AMC"} =>
              snapshot.published_at \in (c.scheduled_at - Tolerance) ..
                                        (c.scheduled_at + Tolerance)

\* Some frozen surprise path stands behind an admitted input: when the
\* consensus surprise is not PRESENT the time-series one is, and a macro input
\* carries the components of its own cohort (strategy/contracts.py
\* _conditional_feature_required).
SurpriseIsPresent ==
    verdict = "joined" =>
        IF snapshot.candidate = Macro
        THEN /\ snapshot.cohort = "BLS_JOLTS" => receipt.features["jolts"].status = "PRESENT"
             /\ snapshot.cohort = "BLS_EMPLOYMENT_SITUATION" =>
                   receipt.features["employment"].status = "PRESENT"
        ELSE \E id \in {"consensus", "sue"} : receipt.features[id].status = "PRESENT"

\* A direct route never meets an admitted input it cannot build a request
\* from: the identity checks of strategy/host_route.py accept whatever the
\* join accepted.
InputsRequestable ==
    verdict = "joined" => _canonical_strategy_payload(manifest, snapshot, receipt)

\* The clocks of an admitted input are the registered ones, to the second: the
\* join drops their fractions (strategy/contracts.py observed_seconds).
ClocksAreThePolicys ==
    verdict = "joined" =>
        \A i \in 1..5 : snapshot.clock[i] - At(DateOf(snapshot.session_open),
                            PolicyClock(snapshot.candidate, snapshot.cohort)[i]) \in 0..1
==============================================================================
