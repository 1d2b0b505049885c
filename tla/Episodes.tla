------------------------------- MODULE Episodes -------------------------------
(***************************************************************************)
(* The episode tables of the risk ledger and the functions of              *)
(* autonomy/episodes.py that write and read them.  A writer stamps its     *)
(* record, checks it against the rows it reads and appends it in a later   *)
(* transaction; a reader reads the three tables one after another.  Other  *)
(* writers, and time, come in between, and a caller may die anywhere.      *)
(* alpha/shadow_ledger.py appends its rows to the same tables.             *)
(***************************************************************************)
EXTENDS EpisodicSummary

CONSTANTS
    Callers,
    DecisionInputs, OutcomeInputs, SnapshotInputs,  \* records without stamps
    ShadowRuns,     \* shadow results: sequences of receipts
    Asks,           \* summaries asked for, without as_of
    MaxTime,        \* bound on the clock
    MaxCalls        \* bound on calls in one behaviour

VARIABLES
    decisions, outcomes, snapshots,     \* the three tables
    call,                               \* caller -> its call in progress
    summaries,                          \* summaries built
    now, calls

tables == <<decisions, outcomes, snapshots>>
episode_vars == <<decisions, outcomes, snapshots, call, summaries, now, calls>>

Idle == [pc |-> "idle"]
(* The parsers accept the canonical bytes of their own schema only.        *)
parse_episode(r) == r.schema = "episode"
parsed(rows) == \A r \in rows : parse_episode(r)

EpisodesInit ==
    /\ decisions = {} /\ outcomes = {} /\ snapshots = {}
    /\ call = [p \in Callers |-> Idle] /\ summaries = {} /\ now = 0 /\ calls = 0

begin(p) == call[p] = Idle /\ calls < MaxCalls /\ calls' = calls + 1
goto(p, next) == call' = [call EXCEPT ![p] = next]
-----------------------------------------------------------------------------
(* What a caller may put into a correction: a stored row's id with the     *)
(* hash of that row or with a hash (Nil here) of something else.           *)
corrections(rows) ==
    {Nil} \cup {[id |-> r.id, sha |-> h] : r \in rows, h \in rows \cup {Nil}}

stamped(input, supersedes) ==
    [f \in DOMAIN input \cup {"created_at", "supersedes", "schema"} |->
        CASE f = "created_at" -> now
          [] f = "supersedes" -> supersedes
          [] f = "schema" -> "episode"
          [] OTHER -> input[f]]

names_prior(r, prior) == prior.id = r.supersedes.id /\ prior = r.supersedes.sha

(* linked are the rows that r may correct.                                 *)
verify_exact_correction(r, rows, linked) ==
    \/ r.supersedes = Nil
    \/ parsed(rows) /\ \E prior \in linked : names_prior(r, prior)

accepts_decision(d) ==
    /\ decision_payload(d)
    /\ verify_exact_correction(d, decisions,
          {prior \in decisions : prior.event = d.event /\ prior.candidate = d.candidate})

accepts_outcome(o) ==
    /\ outcome_payload(o) /\ parsed(decisions)
    /\ \E d \in decisions :
          d.id = o.decision /\ d.event = o.event /\ o.terminal_at >= d.occurred_at
    /\ verify_exact_correction(o, outcomes,
          {prior \in outcomes : prior.decision = o.decision /\ prior.event = o.event})

accepts_snapshot(s) ==
    snapshot_payload(s) /\ verify_exact_correction(s, snapshots, snapshots)

append_decision_episode(p) ==
    \E input \in DecisionInputs, supersedes \in corrections(decisions) :
        LET d == stamped(input, supersedes)
        IN  /\ begin(p) /\ UNCHANGED <<tables, summaries, now>>
            /\ goto(p, IF accepts_decision(d) THEN [pc |-> "decision", row |-> d] ELSE Idle)

append_outcome_episode(p) ==
    \E input \in OutcomeInputs, supersedes \in corrections(outcomes) :
        LET o == stamped(input, supersedes)
        IN  /\ begin(p) /\ UNCHANGED <<tables, summaries, now>>
            /\ goto(p, IF accepts_outcome(o) THEN [pc |-> "outcome", row |-> o] ELSE Idle)

append_broker_truth_snapshot(p) ==
    \E input \in SnapshotInputs, supersedes \in corrections(snapshots) :
        LET s == stamped(input, supersedes)
        IN  /\ begin(p) /\ UNCHANGED <<tables, summaries, now>>
            /\ goto(p, IF accepts_snapshot(s) THEN [pc |-> "snapshot", row |-> s] ELSE Idle)

(* One transaction: a new identity is inserted; an exact replay and a      *)
(* conflict leave the table alone (the one returns False, the other        *)
(* raises).                                                                *)
append_episode_row(rows, r) ==
    IF \E other \in rows : other.id = r.id THEN rows ELSE rows \cup {r}

insert_decision(p) ==
    /\ call[p].pc = "decision" /\ decisions' = append_episode_row(decisions, call[p].row)
    /\ goto(p, Idle) /\ UNCHANGED <<outcomes, snapshots, summaries, now, calls>>
insert_outcome(p) ==
    /\ call[p].pc = "outcome" /\ outcomes' = append_episode_row(outcomes, call[p].row)
    /\ goto(p, Idle) /\ UNCHANGED <<decisions, snapshots, summaries, now, calls>>
insert_snapshot(p) ==
    /\ call[p].pc = "snapshot" /\ snapshots' = append_episode_row(snapshots, call[p].row)
    /\ goto(p, Idle) /\ UNCHANGED <<decisions, outcomes, summaries, now, calls>>
-----------------------------------------------------------------------------
(* No append in flight carries a stamp the cutoff covers, and none that    *)
(* starts later can.                                                       *)
settled(as_of) ==
    /\ as_of < now
    /\ \A q \in Callers :
          call[q].pc \in {"decision", "outcome", "snapshot"} => call[q].row.created_at > as_of

(* build_episodic_summary reads the decisions, then the outcomes, then the *)
(* snapshots; a row no parser accepts rejects the summary.                 *)
build_episodic_summary(p) ==
    \E ask \in Asks, as_of \in 1..now :
        /\ begin(p) /\ UNCHANGED <<tables, summaries, now>>
        /\ goto(p, IF parsed(decisions)
                   THEN [pc |-> "read_outcomes", decisions |-> decisions,
                         settled |-> settled(as_of),
                         ask |-> [f \in DOMAIN ask \cup {"as_of"} |->
                                     IF f = "as_of" THEN as_of ELSE ask[f]]]
                   ELSE Idle)

read_outcomes(p) ==
    /\ call[p].pc = "read_outcomes" /\ UNCHANGED <<tables, summaries, now, calls>>
    /\ goto(p, IF parsed(outcomes)
               THEN [f \in DOMAIN call[p] \cup {"outcomes"} |->
                        CASE f = "pc" -> "read_snapshots"
                          [] f = "outcomes" -> outcomes
                          [] OTHER -> call[p][f]]
               ELSE Idle)

read_snapshots(p) ==
    /\ call[p].pc = "read_snapshots" /\ UNCHANGED <<tables, now, calls>>
    /\ LET me == call[p]
           draft == build(me.ask, me.decisions, me.outcomes, snapshots)
       IN  summaries' = IF parsed(snapshots) /\ summary_unsigned_payload(draft, me.ask)
                        THEN summaries \cup {[ask |-> me.ask, settled |-> me.settled,
                                              result |-> draft]}
                        ELSE summaries
    /\ goto(p, Idle)
-----------------------------------------------------------------------------
(* record_shadow_run: for every receipt of an accepted result, in order,   *)
(* the pair of rows whose ids are the hashes of their payloads.            *)
shadow_decision_episode(receipt) ==
    [id |-> receipt.decision_id, schema |-> "shadow", event |-> receipt.event]
shadow_outcome_episode(receipt) ==
    [id |-> receipt.outcome_id, schema |-> "shadow", event |-> receipt.event,
     decision |-> receipt.decision_id]

record_shadow_run(p) ==
    \E todo \in ShadowRuns :
        /\ begin(p) /\ goto(p, [pc |-> "shadow_decision", todo |-> todo])
        /\ UNCHANGED <<tables, summaries, now>>

(* append_shadow_episode_pair: a receipt with no evaluation, or with an    *)
(* entry before its cutoff, ends the run with the earlier pairs in place.  *)
shadow_decision(p) ==
    LET receipt == Head(call[p].todo)
        usable == receipt.evaluated /\ receipt.entry_at >= receipt.cutoff_at
    IN  /\ call[p].pc = "shadow_decision" /\ call[p].todo # <<>>
        /\ decisions' = IF usable
                        THEN append_episode_row(decisions, shadow_decision_episode(receipt))
                        ELSE decisions
        /\ goto(p, IF usable THEN [call[p] EXCEPT !.pc = "shadow_outcome"] ELSE Idle)
        /\ UNCHANGED <<outcomes, snapshots, summaries, now, calls>>

shadow_outcome(p) ==
    LET receipt == Head(call[p].todo)
        rest == Tail(call[p].todo)
    IN  /\ call[p].pc = "shadow_outcome"
        /\ outcomes' = append_episode_row(outcomes, shadow_outcome_episode(receipt))
        /\ goto(p, IF rest = <<>> THEN Idle ELSE [pc |-> "shadow_decision", todo |-> rest])
        /\ UNCHANGED <<decisions, snapshots, summaries, now, calls>>

die(p) == call[p] # Idle /\ goto(p, Idle) /\ UNCHANGED <<tables, summaries, now, calls>>
tick == now < MaxTime /\ now' = now + 1 /\ UNCHANGED <<tables, call, summaries, calls>>

EpisodesNext ==
    \/ tick
    \/ \E p \in Callers :
          \/ append_decision_episode(p) \/ append_outcome_episode(p)
          \/ append_broker_truth_snapshot(p)
          \/ insert_decision(p) \/ insert_outcome(p) \/ insert_snapshot(p)
          \/ build_episodic_summary(p) \/ read_outcomes(p) \/ read_snapshots(p)
          \/ record_shadow_run(p) \/ shadow_decision(p) \/ shadow_outcome(p)
          \/ die(p)

EpisodesSpec == EpisodesInit /\ [][EpisodesNext]_episode_vars
-----------------------------------------------------------------------------
(* A stored row is never changed or removed, by a correction, a conflict,  *)
(* a replay or a shadow row (_append_episode_row).                         *)
EpisodesKept ==
    /\ decisions \subseteq decisions' /\ outcomes \subseteq outcomes'
    /\ snapshots \subseteq snapshots'

(* A stored correction names a stored row by the hash of exactly that row, *)
(* of the same event and candidate or the same decision, although the row  *)
(* was looked up before the transaction that appended the correction.      *)
CorrectionsBind ==
    LET exact(rows, linked(_, _)) ==
            \A r \in rows : r.schema = "episode" /\ r.supersedes # Nil =>
                /\ r.supersedes.sha \in rows /\ r.supersedes.sha.id = r.supersedes.id
                /\ linked(r, r.supersedes.sha)
    IN  /\ exact(decisions, LAMBDA r, prior : r.event = prior.event /\ r.candidate = prior.candidate)
        /\ exact(outcomes, LAMBDA r, prior : r.event = prior.event /\ r.decision = prior.decision)
        /\ exact(snapshots, LAMBDA r, prior : TRUE)

(* No outcome is stored without the decision it is of: append_outcome      *)
(* checks it, and a shadow run appends a pair's decision first, wherever   *)
(* the process dies.                                                       *)
OutcomesHaveDecisions ==
    \A o \in outcomes : \E d \in decisions :
        d.id = o.decision /\ d.event = o.event /\ d.schema = o.schema

(* What a finished summary counts is final: the outcome is the last of its *)
(* decision that the cutoff lets through, nothing the cutoff lets through  *)
(* corrects it, its decision or the flat snapshot behind it, and no        *)
(* outcome is counted twice.  For summaries that nothing in flight could   *)
(* still have changed.                                                     *)
CountedIsFinal ==
    \A s \in summaries : s.settled =>
        LET visible(rows) == {r \in rows : r.created_at <= s.ask.as_of}
            corrected(r, rows) ==
                \E c \in visible(rows) : c.supersedes # Nil /\ c.supersedes.sha = r
            rows == {s.result.rows[n] : n \in DOMAIN s.result.rows}
        IN  /\ \A row \in rows : row.reason = Nil =>
                  /\ row.outcome \in visible(outcomes) /\ ~corrected(row.outcome, outcomes)
                  /\ ~corrected(row.decision, decisions)
                  /\ \A o \in visible(outcomes) :
                        \/ o.decision # row.decision.id \/ o.terminal_at <= row.outcome.terminal_at
                        \/ corrected(o, outcomes) \/ o.terminal_at >= s.ask.as_of
                  /\ \E f \in visible(snapshots) :
                        /\ f.is_flat /\ ~corrected(f, snapshots)
                        /\ f.observed_at >= row.outcome.terminal_at
            /\ \A a, b \in rows : a.outcome # Nil /\ a.outcome = b.outcome => a = b

(* A summary never fails its own check, not even when other callers append *)
(* between the three reads it is made from.                                *)
DraftPassesItsCheck ==
    \A p \in Callers : call[p].pc = "read_snapshots" =>
        summary_unsigned_payload(
            build(call[p].ask, call[p].decisions, call[p].outcomes, snapshots), call[p].ask)

now_built(s) == build(s.ask, decisions, outcomes, snapshots)

(* validate_episodic_summary accepts for ever a summary of a past cutoff   *)
(* that was built when no append stamped at or before that cutoff was in   *)
(* flight, whatever is appended or corrected later.                        *)
SettledSummaryStands ==
    \A s \in summaries : s.settled => now_built(s) = s.result
=============================================================================
