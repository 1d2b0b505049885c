---------------------------- MODULE EpisodicSummary ----------------------------
(***************************************************************************)
(* The pure half of autonomy/episodes.py: what a decision, an outcome and  *)
(* a broker-truth snapshot must look like, and the summary that            *)
(* build_episodic_summary derives from the stored ones.  Instants and      *)
(* identifiers are integers (identifiers only for their order), a record's *)
(* SHA-256 is the record, and a correction names its prior by id and hash. *)
(***************************************************************************)
EXTENDS Integers, Sequences, FiniteSets, FiniteSetsExt, SequencesExt

CONSTANT Nil

Unfinished == {"OPEN", "PARTIAL", "MANUAL_REQUIRED"}
Failed == {"ROUTE_FAILED", "RECONCILIATION_FAILED"}
LifecycleOutcomes == {"CLOSED", "CANCELED"} \cup Unfinished \cup Failed

correction_pair(r) == r.supersedes = Nil \/ r.supersedes.id # r.id

decision_payload(d) ==
    /\ d.occurred_at <= d.cutoff_at /\ d.created_at >= d.occurred_at
    /\ (d.disposition = "ACCEPTED") = (d.direction # "UNCERTAIN")
    /\ correction_pair(d)

outcome_payload(o) ==
    /\ o.observed_at >= o.terminal_at /\ o.created_at >= o.observed_at
    /\ o.final_flat = (o.kind \in {"CLOSED", "CANCELED"})
    /\ (o.net_pnl # Nil) = (o.kind = "CLOSED")
    /\ correction_pair(o)

snapshot_payload(s) ==
    /\ s.created_at >= s.observed_at
    /\ s.is_flat = (s.open_exposure = 0)
    /\ correction_pair(s)
-----------------------------------------------------------------------------
(* What a summary as of an instant may see.                                *)
available_decisions(decisions, as_of) ==
    {d \in decisions : d.occurred_at < as_of /\ d.created_at <= as_of}

available_outcomes(outcomes, as_of) ==
    {o \in outcomes : o.terminal_at < as_of /\ o.observed_at <= as_of /\ o.created_at <= as_of}
available_snapshots(snapshots, as_of) ==
    {s \in snapshots : s.observed_at <= as_of /\ s.created_at <= as_of}

(* A slip: corrected records stay in force next to their corrections.      *)
every_record(records) == {r \in records : TRUE}

effective_records(records) ==
    {r \in records : \A c \in records : c.supersedes # Nil => c.supersedes.id # r.id}

compatibility(d, ask) ==
    CASE d.policy # ask.policy /\ d.model # ask.model -> "POLICY_AND_MODEL_MISMATCH"
      [] d.policy # ask.policy /\ d.model = ask.model -> "POLICY_MISMATCH"
      [] d.policy = ask.policy /\ d.model # ask.model -> "MODEL_CONFIG_MISMATCH"
      [] OTHER -> "COMPATIBLE"

(* The order of tuples of integers.                                        *)
before(a, b) ==
    \E n \in DOMAIN a : a[n] < b[n] /\ \A m \in 1..(n - 1) : a[m] = b[m]
outcome_key(o) == <<o.terminal_at, o.observed_at, o.created_at, o.id>>
decision_key(d) == <<d.occurred_at, d.id>>

latest_outcome_for_decision(outcomes, d) ==
    LET linked == {o \in outcomes : o.decision = d.id}
    IN  IF linked = {} THEN Nil
        ELSE CHOOSE o \in linked :
                \A other \in linked \ {o} : before(outcome_key(other), outcome_key(o))

flat_snapshot_after(snapshots, terminal_at) ==
    \E s \in snapshots : s.is_flat /\ s.observed_at >= terminal_at

unavailable_reason(o, d, snapshots) ==
    CASE o = Nil -> "NO_OUTCOME"
      [] o # Nil /\ o.event # d.event -> "OUTCOME_LINK_MISMATCH"
      [] o # Nil /\ o.event = d.event /\ o.kind \in Unfinished \cup Failed -> o.kind
      [] OTHER -> IF flat_snapshot_after(snapshots, o.terminal_at) THEN Nil
                  ELSE IF o.kind = "CANCELED" THEN "OUTCOME_CANCELED_UNVERIFIED"
                  ELSE "OUTCOME_BROKER_NOT_FLAT"

(* Only a row with no reason against it carries a result.                  *)
summary_row_for_decision(d, ask, outcomes, snapshots) ==
    LET fit == compatibility(d, ask)
        o == IF fit = "COMPATIBLE" THEN latest_outcome_for_decision(outcomes, d) ELSE Nil
        reason == IF fit = "COMPATIBLE" THEN unavailable_reason(o, d, snapshots) ELSE fit
    IN  [decision |-> d, outcome |-> o, reason |-> reason,
         net_pnl |-> IF reason = Nil THEN o.net_pnl ELSE Nil]

summary_totals(rows) ==
    LET counted(Test(_)) == Cardinality({n \in DOMAIN rows : Test(rows[n])})
    IN  [completed |-> counted(LAMBDA r : r.reason = Nil),
         realized |-> counted(LAMBDA r : r.reason = Nil /\ r.outcome.kind = "CLOSED"),
         net_pnl |-> MapThenSumSet(LAMBDA n : rows[n].net_pnl,
                                   {n \in DOMAIN rows : rows[n].net_pnl # Nil}),
         route_failures |-> counted(LAMBDA r : r.reason = "ROUTE_FAILED"),
         reconciliation_failures |-> counted(LAMBDA r : r.reason = "RECONCILIATION_FAILED")]

summary_row_payload(row, ask) ==
    /\ row.decision.occurred_at <= row.decision.cutoff_at
    /\ (row.decision.disposition = "ACCEPTED") = (row.decision.direction # "UNCERTAIN")
    /\ compatibility(row.decision, ask) # "COMPATIBLE" =>
          row.reason = compatibility(row.decision, ask) /\ row.outcome = Nil /\ row.net_pnl = Nil
    /\ row.reason = Nil =>
          /\ row.outcome # Nil /\ row.outcome.kind \in {"CLOSED", "CANCELED"}
          /\ (row.net_pnl # Nil) = (row.outcome.kind = "CLOSED")
    /\ row.reason # Nil => row.net_pnl = Nil

(* The summary's own check, which build_episodic_summary runs last.        *)
summary_unsigned_payload(result, ask) ==
    LET rows == result.rows
        shown == summary_totals(rows)
    IN  /\ Len(rows) <= ask.limit
        /\ \A m, n \in DOMAIN rows :
              m < n => before(decision_key(rows[n].decision), decision_key(rows[m].decision))
        /\ \A n \in DOMAIN rows : summary_row_payload(rows[n], ask)
        /\ \A total \in {"completed", "realized", "route_failures", "reconciliation_failures"} :
              result.totals[total] >= shown[total]
        /\ result.totals.realized <= result.totals.completed

latest_snapshot(snapshots) ==
    IF snapshots = {} THEN Nil
    ELSE CHOOSE s \in snapshots : \A other \in snapshots \ {s} :
            before(<<other.observed_at, other.id>>, <<s.observed_at, s.id>>)

(* ask: as_of, policy, model, candidate_ids ({} is no filter) and limit.   *)
build(ask, decisions, outcomes, snapshots) ==
    LET effective == effective_records(available_decisions(decisions, ask.as_of))
        chosen == {d \in effective : ask.candidates = {} \/ d.candidate \in ask.candidates}
        ordered == SetToSortSeq(chosen, LAMBDA a, b : before(decision_key(b), decision_key(a)))
        seen_outcomes == effective_records(available_outcomes(outcomes, ask.as_of))
        seen_snapshots == effective_records(available_snapshots(snapshots, ask.as_of))
        all_rows == [n \in DOMAIN ordered |->
                        summary_row_for_decision(ordered[n], ask, seen_outcomes, seen_snapshots)]
    IN  [rows |-> SubSeq(all_rows, 1, Min({ask.limit, Len(all_rows)})),
         totals |-> summary_totals(all_rows),
         excluded |-> Cardinality(effective \ chosen),
         latest |-> latest_snapshot(seen_snapshots)]
=============================================================================
