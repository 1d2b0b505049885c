-------------------------- MODULE AutonomousSession --------------------------
(***************************************************************************)
(* The durable autonomous PAPER session and its coordinator                *)
(* (runtime/autonomous.py).                                                *)
(*                                                                         *)
(* One session and its SQLite store: the arm bound to the session, one row *)
(* per opportunity, one per lifecycle, the manual reasons and the final    *)
(* summary.  Every BEGIN IMMEDIATE transaction, every separate read and    *)
(* every port call of AutonomousSessionCoordinator.run is a step of its    *)
(* own; several coordinators may run on one store and any of them may die  *)
(* between two steps.                                                      *)
(*                                                                         *)
(* External: the four ports.  The collector offers opportunities of the    *)
(* due window, the processor and the closer may change what the broker     *)
(* holds (exposed), and their answers are validated as the code does.  A   *)
(* valid answer is taken to be honest: NOT_ATTEMPTED means nothing was     *)
(* sent, CONFIRMED that the state named was seen, UNKNOWN and PARTIAL that *)
(* anything may have happened; so may an exception, an invalid answer or   *)
(* a crash during the call.                                                *)
(*                                                                         *)
(* observed_at is an argument of run, so a later run may carry an earlier  *)
(* time.  The canonical bytes and digests of arms, opportunities and       *)
(* lifecycles are abstracted to identity of the values they bind.          *)
(***************************************************************************)
EXTENDS Naturals, FiniteSets, FiniteSetsExt

CONSTANTS
    Procs,          \* coordinator instances
    Arms,           \* arms that carry the session's identifier
    Offers,         \* opportunities: [id, window, context]
    NumWindows,     \* windows of the arm, in opening order
    Opens, Closes,  \* their clocks
    HardFlatAt,     \* arm.hard_flat_at
    Times,          \* instants at which run may be called
    Lifecycles,     \* lifecycle identifiers a processor may report
    Proofs,         \* terminal-flat proof digests
    NoArm, NoRow, NoLifecycle, NoProof, NoReason, NoId, NoSummary

Windows == 1..NumWindows
Ids == {x.id : x \in Offers}

ASSUME SessionConstants ==
    /\ NumWindows \in Nat
    /\ Opens \in [Windows -> Nat] /\ Closes \in [Windows -> Nat]
    /\ HardFlatAt \in Nat /\ Times \subseteq Nat
    /\ \A x \in Offers : x.id \in Nat /\ x.window \in Windows
    /\ Lifecycles \subseteq Nat
    /\ NoArm \notin Arms /\ NoLifecycle \notin Lifecycles /\ NoProof \notin Proofs
    /\ NoId \notin Ids

VARIABLES
    arm,            \* autonomous_sessions: the arm bound to the session
    session,        \* autonomous_sessions.state
    row,            \* autonomous_opportunities, by identifier
    lifecycle,      \* autonomous_active_lifecycles, by identifier
    reasons,        \* autonomous_manual_reasons
    summary,        \* autonomous_summaries
    job,            \* what each coordinator is executing
    exposed,        \* external: opportunities the broker holds something for
    calls           \* history: processor calls made per opportunity

store == <<arm, session, row, lifecycle, reasons, summary>>
session_vars == <<store, job, exposed, calls>>

Dispositions ==
    {"ABSTAINED", "REJECTED_BEFORE_MUTATION", "ACTIVE", "TERMINAL_FLAT",
     "MANUAL_RECONCILIATION_REQUIRED"}
MutationStates == {"NOT_ATTEMPTED", "CONFIRMED", "UNKNOWN", "PARTIAL"}
ReasonCodes ==
    {"PORT_REASON", "CLAIM_RECOVERY_UNKNOWN", "RECONCILIATION_IDENTITY_MISMATCH",
     "HARD_FLAT_UNRESOLVED", "PORT_EXCEPTION"}

Results ==
    [disposition : Dispositions, mutation : MutationStates, freeze : BOOLEAN,
     lifecycle : Lifecycles \cup {NoLifecycle}, proof : Proofs \cup {NoProof},
     reason : {"PORT_REASON", NoReason}]
CloseResults ==
    [disposition : Dispositions, mutation : MutationStates, proof : Proofs \cup {NoProof},
     reason : {"PORT_REASON", NoReason}]

OpportunityRows ==
    [offer : Offers, state : Dispositions \cup {"CLAIMED"}, proof : Proofs \cup {NoProof}]
LifecycleRows == [id : Ids, state : {"ACTIVE", "TERMINAL_FLAT"}]
Summaries ==
    [counts : [Dispositions -> {0} \cup {Cardinality(S) : S \in SUBSET Ids}],
     active : SUBSET Lifecycles,
     codes : SUBSET (ReasonCodes \cup {NoReason}), flat : BOOLEAN, finalized_at : Times]

ASSUME SessionSentinels ==
    /\ NoRow \notin OpportunityRows \cup LifecycleRows
    /\ NoSummary \notin Summaries

Idle == [pc |-> "idle"]
Ended == {Idle, [pc |-> "returned"], [pc |-> "raised"]}

SessionInit ==
    /\ arm = NoArm /\ session = "NONE"
    /\ row = [i \in Ids |-> NoRow]
    /\ lifecycle = [l \in Lifecycles |-> NoRow]
    /\ reasons = {} /\ summary = NoSummary
    /\ job = [p \in Procs |-> Idle]
    /\ exposed = {}
    /\ calls = [i \in Ids |-> 0]

at(p, pc) == job[p].pc = pc
become(p, locals) == job' = [job EXCEPT ![p] = locals]
returned(p) == become(p, [pc |-> "returned"])
raised(p) == become(p, [pc |-> "raised"])
freeze(p, code, i, l) ==
    become(p, [pc |-> "freeze", t |-> job[p].t,
               reason |-> [code |-> code, id |-> i, lifecycle |-> l]])
candidates(p, todo) ==
    become(p, [pc |-> "candidates", t |-> job[p].t, window |-> job[p].window, todo |-> todo])

-----------------------------------------------------------------------------
(* The store                                                               *)

recorded(state) == {i \in Ids : row[i] # NoRow /\ row[i].state = state}
claimed_opportunity_ids == recorded("CLAIMED")
active_lifecycle_ids == {l \in Lifecycles : lifecycle[l] # NoRow /\ lifecycle[l].state = "ACTIVE"}
disposition_counts ==       \* GROUP BY state: an open claim has a count of its own
    [s \in {row[i].state : i \in {k \in Ids : row[k] # NoRow}} |-> Cardinality(recorded(s))]
counts_by_disposition ==
    [d \in Dispositions |-> IF d \in DOMAIN disposition_counts THEN disposition_counts[d] ELSE 0]
manual_reasons == {r.code : r \in reasons}

ensure_arm(a) ==
    /\ arm \in {NoArm, a}
    /\ arm' = a
    /\ session' = IF arm = NoArm THEN "ARMED" ELSE session

(* A slip: a claim still in progress is taken over.                        *)
claim_state_takes_over(x) ==
    CASE row[x.id] = NoRow \/ row[x.id].state = "CLAIMED" -> "CLAIMED"
      [] row[x.id] # NoRow /\ row[x.id].offer # x -> "CONFLICT"
      [] OTHER -> "RECORDED"

(* A slip: an identifier with other content replaces the stored one.       *)
claim_state_replaces(x) ==
    CASE row[x.id] = NoRow \/ row[x.id].offer # x -> "CLAIMED"
      [] OTHER -> "RECORDED"

(* A new identity is claimed; the same one is in progress or recorded; the *)
(* same identifier with other content is a conflict.                       *)
claim_state(x) ==
    CASE row[x.id] = NoRow -> "CLAIMED"
      [] row[x.id] # NoRow /\ row[x.id].offer # x -> "CONFLICT"
      [] OTHER -> "RECORDED"

claim_opportunity(x) ==
    row' = [row EXCEPT ![x.id] = [offer |-> x, state |-> "CLAIMED", proof |-> NoProof]]

matching(x, state) == row[x.id] # NoRow /\ row[x.id].offer = x /\ row[x.id].state = state

record_terminal_flat(x, proof) ==
    /\ \/ matching(x, "CLAIMED")
       \/ matching(x, "TERMINAL_FLAT") /\ row[x.id].proof = proof
    /\ row' = [row EXCEPT ![x.id] = [offer |-> x, state |-> "TERMINAL_FLAT", proof |-> proof]]

record_disposition(x, state) ==
    /\ matching(x, "CLAIMED") \/ matching(x, state)
    /\ row' = [row EXCEPT ![x.id].state = state]

(* Replaying the same binding of an active opportunity changes nothing.    *)
record_active_lifecycle(x, l) ==
    \/ /\ lifecycle[l] # NoRow /\ lifecycle[l].id = x.id /\ matching(x, "ACTIVE")
       /\ UNCHANGED <<lifecycle, row>>
    \/ /\ lifecycle[l] = NoRow /\ matching(x, "CLAIMED")
       /\ \A k \in Lifecycles : lifecycle[k] # NoRow => lifecycle[k].id # x.id
       /\ lifecycle' = [lifecycle EXCEPT ![l] = [id |-> x.id, state |-> "ACTIVE"]]
       /\ row' = [row EXCEPT ![x.id].state = "ACTIVE"]

record_lifecycle_terminal_flat(l, proof) ==
    \/ /\ lifecycle[l].state = "TERMINAL_FLAT" /\ row[lifecycle[l].id].proof = proof
       /\ UNCHANGED <<lifecycle, row>>
    \/ /\ lifecycle[l].state = "ACTIVE" /\ row[lifecycle[l].id].state = "ACTIVE"
       /\ lifecycle' = [lifecycle EXCEPT ![l].state = "TERMINAL_FLAT"]
       /\ row' = [row EXCEPT ![lifecycle[l].id].state = "TERMINAL_FLAT",
                             ![lifecycle[l].id].proof = proof]

mark_manual_reconciliation_required(reason) ==
    /\ session' = "MANUAL_RECONCILIATION_REQUIRED"
    /\ reasons' = reasons \cup {reason}

build_summary(t) ==
    [counts |-> counts_by_disposition, active |-> active_lifecycle_ids, codes |-> manual_reasons,
     flat |-> active_lifecycle_ids = {} /\ manual_reasons = {}, finalized_at |-> t]

finalize_session(t) ==
    IF summary # NoSummary THEN UNCHANGED <<summary, session>>
    ELSE /\ summary' = build_summary(t)
         /\ session' = IF build_summary(t).flat THEN "FINALIZED"
                       ELSE "MANUAL_RECONCILIATION_REQUIRED"

-----------------------------------------------------------------------------
(* Answers of the processor and of the closer                              *)

validate_processing_result(r) ==
    \/ /\ r.disposition \in {"ABSTAINED", "REJECTED_BEFORE_MUTATION"}
       /\ r.mutation = "NOT_ATTEMPTED"
       /\ r.lifecycle = NoLifecycle /\ r.proof = NoProof /\ r.reason # NoReason
    \/ /\ r.disposition = "TERMINAL_FLAT" /\ r.mutation = "CONFIRMED" /\ ~r.freeze
       /\ r.lifecycle = NoLifecycle /\ r.proof # NoProof /\ r.reason = NoReason
    \/ /\ r.disposition = "MANUAL_RECONCILIATION_REQUIRED"
       /\ r.mutation \in {"UNKNOWN", "PARTIAL"} /\ ~r.freeze
       /\ r.lifecycle = NoLifecycle /\ r.proof = NoProof /\ r.reason # NoReason
    \/ /\ r.disposition = "ACTIVE" /\ r.mutation = "CONFIRMED" /\ ~r.freeze
       /\ r.lifecycle # NoLifecycle /\ r.proof = NoProof /\ r.reason = NoReason

validate_close_result(r) ==
    \/ /\ r.disposition = "TERMINAL_FLAT" /\ r.mutation = "CONFIRMED"
       /\ r.proof # NoProof /\ r.reason = NoReason
    \/ /\ r.disposition = "MANUAL_RECONCILIATION_REQUIRED"
       /\ r.mutation \in {"UNKNOWN", "PARTIAL"}
       /\ r.proof = NoProof /\ r.reason # NoReason

(* External: what an honest answer says of the broker's holding.           *)
holding(i, r) ==
    \/ r.mutation = "NOT_ATTEMPTED" /\ UNCHANGED exposed
    \/ r.mutation = "CONFIRMED" /\ r.disposition = "ACTIVE" /\ exposed' = exposed \cup {i}
    \/ r.mutation = "CONFIRMED" /\ r.disposition # "ACTIVE" /\ exposed' = exposed \ {i}
    \/ r.mutation \in {"UNKNOWN", "PARTIAL"} /\ exposed' \in {exposed \cup {i}, exposed \ {i}}

any_holding(i) == exposed' \in {exposed \cup {i}, exposed \ {i}}
closing(i) == exposed' \in {exposed, exposed \ {i}}      \* a close never opens

-----------------------------------------------------------------------------
(* AutonomousSessionCoordinator.run                                        *)

begin_run(p, a, t) ==
    /\ job[p] \in Ended
    /\ \/ ensure_arm(a) /\ become(p, [pc |-> "claimed", t |-> t])
       \/ arm \notin {NoArm, a} /\ raised(p) /\ UNCHANGED <<arm, session>>
    /\ UNCHANGED <<row, lifecycle, reasons, summary, exposed, calls>>

check_claimed(p) ==
    /\ at(p, "claimed")
    /\ IF claimed_opportunity_ids # {} THEN freeze(p, "CLAIM_RECOVERY_UNKNOWN", NoId, NoLifecycle)
       ELSE become(p, [pc |-> IF job[p].t >= HardFlatAt THEN "flat" ELSE "state", t |-> job[p].t])
    /\ UNCHANGED <<store, exposed, calls>>

check_state(p) ==
    /\ at(p, "state")
    /\ IF session = "MANUAL_RECONCILIATION_REQUIRED" THEN returned(p)
       ELSE become(p, [pc |-> "reconcile", t |-> job[p].t])
    /\ UNCHANGED <<store, exposed, calls>>

(* The port compares the durable active identities with broker truth; the  *)
(* session module lets it answer either way, the host pins it down.        *)
first_due(t, from) ==
    LET due == {w \in Windows : w >= from /\ Opens[w] <= t /\ t < Closes[w]}
    IN  IF due = {} THEN NumWindows + 1 ELSE Min(due)

reconcile(p, complete) ==
    /\ at(p, "reconcile")
    /\ IF complete THEN become(p, [pc |-> "collect", t |-> job[p].t,
                                  window |-> first_due(job[p].t, 1)])
       ELSE freeze(p, "RECONCILIATION_IDENTITY_MISMATCH", NoId, NoLifecycle)
    /\ UNCHANGED <<store, exposed, calls>>

(* An untyped, foreign or self-contradicting batch raises out of run.      *)
consistent(batch) == \A x, y \in batch : x.id = y.id => x = y

collect_due(p) ==
    /\ at(p, "collect")
    /\ \/ job[p].window > NumWindows /\ returned(p)
       \/ /\ job[p].window \in Windows
          /\ \E batch \in SUBSET {x \in Offers : x.window = job[p].window} :
                consistent(batch) /\ candidates(p, batch)
       \/ job[p].window \in Windows /\ raised(p)
    /\ UNCHANGED <<store, exposed, calls>>

next_window(p) ==
    /\ at(p, "candidates") /\ job[p].todo = {}
    /\ become(p, [pc |-> "collect", t |-> job[p].t,
                  window |-> first_due(job[p].t, job[p].window + 1)])
    /\ UNCHANGED <<store, exposed, calls>>

next_offer(todo) == CHOOSE x \in todo : \A y \in todo : x.id <= y.id

claim(p) ==
    /\ at(p, "candidates") /\ job[p].todo # {}
    /\ LET x == next_offer(job[p].todo)
           rest == job[p].todo \ {x}
       IN  \/ /\ claim_state(x) = "CLAIMED" /\ claim_opportunity(x)
              /\ become(p, [pc |-> "process", t |-> job[p].t, window |-> job[p].window,
                            todo |-> rest, offer |-> x])
           \/ claim_state(x) = "RECORDED" /\ candidates(p, rest) /\ UNCHANGED row
           \/ claim_state(x) = "CONFLICT" /\ raised(p) /\ UNCHANGED row
    /\ UNCHANGED <<arm, session, lifecycle, reasons, summary, exposed, calls>>

called(p) == calls' = [calls EXCEPT ![job[p].offer.id] = @ + 1]

process(p) ==
    /\ at(p, "process")
    /\ called(p)
    /\ \/ \E r \in Results :
             /\ validate_processing_result(r)
             /\ holding(job[p].offer.id, r)
             /\ become(p, [pc |-> "record", t |-> job[p].t, window |-> job[p].window,
                           todo |-> job[p].todo, offer |-> job[p].offer, result |-> r])
       \/ /\ any_holding(job[p].offer.id)
          /\ freeze(p, "CLAIM_RECOVERY_UNKNOWN", job[p].offer.id, NoLifecycle)
    /\ UNCHANGED store

(* MANUAL and freeze answers are followed by a second transaction that     *)
(* freezes the session.                                                    *)
after_record(p) ==
    IF job[p].result.disposition = "MANUAL_RECONCILIATION_REQUIRED" \/ job[p].result.freeze
    THEN freeze(p, job[p].result.reason, job[p].offer.id, NoLifecycle)
    ELSE candidates(p, job[p].todo)

record_result(p) ==
    LET x == job[p].offer
        r == job[p].result
    IN  CASE r.disposition = "TERMINAL_FLAT" ->
               record_terminal_flat(x, r.proof) /\ UNCHANGED lifecycle
          [] r.disposition = "ACTIVE" -> record_active_lifecycle(x, r.lifecycle)
          [] OTHER -> record_disposition(x, r.disposition) /\ UNCHANGED lifecycle

record(p) ==
    /\ at(p, "record") /\ record_result(p) /\ after_record(p)
    /\ UNCHANGED <<arm, session, reasons, summary, exposed, calls>>

(* The store refuses the answer: a lifecycle identifier already bound.     *)
record_refused(p) ==
    /\ at(p, "record")
    /\ job[p].result.disposition = "ACTIVE"
    /\ LET x == job[p].offer
           l == job[p].result.lifecycle
       IN  /\ ~(lifecycle[l] # NoRow /\ lifecycle[l].id = x.id /\ matching(x, "ACTIVE"))
           /\ ~(lifecycle[l] = NoRow /\ matching(x, "CLAIMED")
                 /\ \A k \in Lifecycles : lifecycle[k] # NoRow => lifecycle[k].id # x.id)
    /\ raised(p)
    /\ UNCHANGED <<store, exposed, calls>>

mark_frozen(p) ==
    /\ at(p, "freeze")
    /\ mark_manual_reconciliation_required(job[p].reason)
    /\ returned(p)
    /\ UNCHANGED <<arm, row, lifecycle, summary, exposed, calls>>

(* _run_hard_flat: the active identities are read once, before the first   *)
(* close.                                                                  *)
begin_hard_flat(p) ==
    /\ at(p, "flat")
    /\ IF summary # NoSummary THEN returned(p)
       ELSE become(p, [pc |-> "close", t |-> job[p].t, queue |-> active_lifecycle_ids])
    /\ UNCHANGED <<store, exposed, calls>>

close_and_reconcile(p) ==
    /\ at(p, "close") /\ job[p].queue # {}
    /\ LET l == Min(job[p].queue)
           i == lifecycle[l].id
           rest == job[p].queue \ {l}
       IN  \/ \E r \in CloseResults :
                 /\ validate_close_result(r) /\ closing(i)
                 /\ IF r.disposition = "TERMINAL_FLAT"
                    THEN i \notin exposed' /\ become(p, [pc |-> "closed", t |-> job[p].t, queue |-> rest,
                                    lifecycle |-> l, result |-> r])
                    ELSE become(p, [pc |-> "unresolved", t |-> job[p].t, queue |-> rest,
                                    lifecycle |-> l, code |-> r.reason])
           \/ /\ closing(i)
              /\ become(p, [pc |-> "unresolved", t |-> job[p].t, queue |-> rest,
                            lifecycle |-> l, code |-> "HARD_FLAT_UNRESOLVED"])
    /\ UNCHANGED <<store, calls>>

close_queue(p) == become(p, [pc |-> "close", t |-> job[p].t, queue |-> job[p].queue])

record_closed(p) ==
    /\ at(p, "closed")
    /\ record_lifecycle_terminal_flat(job[p].lifecycle, job[p].result.proof)
    /\ close_queue(p)
    /\ UNCHANGED <<arm, session, reasons, summary, exposed, calls>>

closed_refused(p) ==
    /\ at(p, "closed")
    /\ lifecycle[job[p].lifecycle].state = "TERMINAL_FLAT"
    /\ row[lifecycle[job[p].lifecycle].id].proof # job[p].result.proof
    /\ raised(p)
    /\ UNCHANGED <<store, exposed, calls>>

mark_unresolved(p) ==
    /\ at(p, "unresolved")
    /\ mark_manual_reconciliation_required(
           [code |-> job[p].code, id |-> lifecycle[job[p].lifecycle].id,
            lifecycle |-> job[p].lifecycle])
    /\ close_queue(p)
    /\ UNCHANGED <<arm, row, lifecycle, summary, exposed, calls>>

check_flat(p) ==
    /\ at(p, "close") /\ job[p].queue = {}
    /\ become(p, [pc |-> IF active_lifecycle_ids # {} THEN "flat_check" ELSE "finalize",
                  t |-> job[p].t])
    /\ UNCHANGED <<store, exposed, calls>>

mark_not_flat(p) ==
    /\ at(p, "flat_check")
    /\ mark_manual_reconciliation_required(
           [code |-> "HARD_FLAT_UNRESOLVED", id |-> NoId, lifecycle |-> NoLifecycle])
    /\ become(p, [pc |-> "finalize", t |-> job[p].t])
    /\ UNCHANGED <<arm, row, lifecycle, summary, exposed, calls>>

finalize(p) ==
    /\ at(p, "finalize")
    /\ finalize_session(job[p].t)
    /\ returned(p)
    /\ UNCHANGED <<arm, row, lifecycle, reasons, exposed, calls>>

(* The process dies; inside a port call the broker may have been reached.  *)
crash(p) ==
    /\ job[p] \notin Ended
    /\ become(p, Idle)
    /\ \/ at(p, "process") /\ called(p) /\ any_holding(job[p].offer.id)
       \/ /\ at(p, "close") /\ job[p].queue # {} /\ UNCHANGED calls
          /\ closing(lifecycle[Min(job[p].queue)].id)
       \/ UNCHANGED <<calls, exposed>>
    /\ UNCHANGED store

run_step(p) ==
    \/ check_claimed(p) \/ check_state(p)
    \/ collect_due(p) \/ next_window(p) \/ claim(p) \/ process(p)
    \/ record(p) \/ record_refused(p) \/ mark_frozen(p)
    \/ begin_hard_flat(p) \/ close_and_reconcile(p)
    \/ record_closed(p) \/ closed_refused(p) \/ mark_unresolved(p)
    \/ check_flat(p) \/ mark_not_flat(p) \/ finalize(p)

SessionNext ==
    \E p \in Procs :
        \/ \E a \in Arms, t \in Times : begin_run(p, a, t)
        \/ \E complete \in BOOLEAN : reconcile(p, complete)
        \/ run_step(p)
        \/ crash(p)

SessionSpec == SessionInit /\ [][SessionNext]_session_vars

-----------------------------------------------------------------------------
(* Properties                                                              *)

(* ProcessedOnce: whatever the interleaving of coordinators, windows that  *)
(* offer the same opportunity again, and crashes between the claim, the    *)
(* port call and the record, the candidate processor is called at most     *)
(* once for an opportunity, and never for one without a claim.             *)
ProcessedOnce == \A i \in Ids : calls[i] <= (IF row[i] = NoRow THEN 0 ELSE 1)

(* ExposureIsOnRecord: whatever the broker holds for an opportunity is     *)
(* visible in the durable rows as CLAIMED, ACTIVE or MANUAL; an abstained, *)
(* rejected or terminal-flat record never hides a holding.                 *)
ExposureIsOnRecord ==
    \A i \in exposed :
        row[i] # NoRow /\ row[i].state \in {"CLAIMED", "ACTIVE", "MANUAL_RECONCILIATION_REQUIRED"}

(* LifecycleRowsAgree: the lifecycle table and the opportunity table never *)
(* disagree: an ACTIVE opportunity has exactly one lifecycle row, which is *)
(* ACTIVE, and a closed lifecycle's opportunity is TERMINAL_FLAT.          *)
LifecycleRowsAgree ==
    /\ \A l \in Lifecycles : lifecycle[l] # NoRow =>
          row[lifecycle[l].id] # NoRow /\ row[lifecycle[l].id].state = lifecycle[l].state
    /\ \A i \in recorded("ACTIVE") :
          \E l \in Lifecycles : lifecycle[l] # NoRow /\ lifecycle[l].id = i
    /\ \A k, l \in Lifecycles :
          lifecycle[k] # NoRow /\ lifecycle[l] # NoRow /\ lifecycle[k].id = lifecycle[l].id => k = l

(* ReasonsFreeze: once a manual reason is stored the session stays frozen, *)
(* whoever finalizes it before or after; and a session finalized flat has  *)
(* no active lifecycle left on record at that moment.                      *)
ReasonsFreeze ==
    /\ reasons # {} => session = "MANUAL_RECONCILIATION_REQUIRED"
    /\ session = "FINALIZED" => summary # NoSummary /\ summary.flat

(* StoreIsAccounted: an opportunity is processed at most once, a holding   *)
(* is on record, the two tables agree and a stored reason freezes the      *)
(* session.                                                                *)
StoreIsAccounted ==
    /\ ProcessedOnce /\ ExposureIsOnRecord /\ LifecycleRowsAgree /\ ReasonsFreeze

(* The rows implement the abstract opportunity log: claimed once, answered *)
(* once, ACTIVE flattened at most once.                                    *)
recorded_decision == [i \in Ids |-> IF row[i] = NoRow THEN "NONE" ELSE row[i].state]
Log == INSTANCE OpportunityLog WITH Ids <- Ids, decision <- recorded_decision
OpportunityLogRefined == Log!LogSpec
=============================================================================
