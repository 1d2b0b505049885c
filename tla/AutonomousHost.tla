---------------------------- MODULE AutonomousHost ----------------------------
(***************************************************************************)
(* run_autonomous_host_command (runtime/autonomous_host.py): one command   *)
(* invocation takes the state-directory lock, runs the coordinator once    *)
(* per instant of its timeline, reconciles the result against broker truth *)
(* and issues a receipt.  Authority validation, which precedes the lock    *)
(* and writes nothing, is in HostAuthority.                                *)
(*                                                                         *)
(* External: the advisory file lock (freed by a crash of its holder), and  *)
(* broker truth, taken to be honest: is_flat says whether the broker holds *)
(* anything.                                                               *)
(***************************************************************************)
EXTENDS AutonomousSession

CONSTANTS
    NoProc, NoReceipt,
    Plans,          \* what the plan factory may return: [class, bindings]
    NoBinding,      \* a backend without production_binding_sha256
    MaxCrashes      \* bound on crashes in one behaviour

ASSUME HostConstants == NoProc \notin Procs /\ MaxCrashes \in Nat

VARIABLES
    host,           \* what each invocation is executing
    lock,           \* holder of .autonomous-host.lock
    receipt,        \* the last receipt issued
    issued,         \* history: dispositions of all receipts issued
    crashes         \* crashes so far

host_vars == <<session_vars, host, lock, receipt, issued, crashes>>

Out == [pc |-> "out"]

HostInit ==
    /\ SessionInit
    /\ host = [p \in Procs |-> Out]
    /\ lock = NoProc /\ receipt = NoReceipt /\ issued = {} /\ crashes = 0

in_host(p, pc) == host[p].pc = pc
proceed(p, locals) == host' = [host EXCEPT ![p] = locals]

-----------------------------------------------------------------------------
(* The plan, and what the adapters let through to the coordinator          *)

validate_plan(plan) ==
    \/ /\ plan.class = "SYNTHETIC_FAKE"
       /\ \A b \in DOMAIN plan.bindings : plan.bindings[b] = NoBinding
    \/ /\ plan.class = "PAPER_MCP"
       /\ \A b, c \in DOMAIN plan.bindings :
             plan.bindings[b] # NoBinding /\ plan.bindings[b] = plan.bindings[c]

(* HostCandidateProcessorAdapter: the shapes a candidate backend may       *)
(* report; unlike the coordinator it allows freeze only on a rejection.    *)
candidate_outcome_shape(r) ==
    /\ r.freeze => r.disposition = "REJECTED_BEFORE_MUTATION"
    /\ (r.lifecycle # NoLifecycle) <=> (r.disposition = "ACTIVE")
    /\ (r.proof # NoProof) <=> (r.disposition = "TERMINAL_FLAT")
    /\ (r.reason = NoReason) <=> (r.disposition \in {"ACTIVE", "TERMINAL_FLAT"})
    /\ r.mutation \in CASE r.disposition \in {"ABSTAINED", "REJECTED_BEFORE_MUTATION"} -> {"NOT_ATTEMPTED"}
                         [] r.disposition \in {"ACTIVE", "TERMINAL_FLAT"} -> {"CONFIRMED"}
                         [] OTHER -> {"UNKNOWN", "PARTIAL"}

(* HostLifecycleCloserAdapter.                                             *)
lifecycle_outcome_shape(r) ==
    \/ /\ r.disposition = "TERMINAL_FLAT" /\ r.mutation = "CONFIRMED"
       /\ r.proof # NoProof /\ r.reason = NoReason
    \/ /\ r.disposition = "MANUAL_RECONCILIATION_REQUIRED"
       /\ r.mutation \in {"UNKNOWN", "PARTIAL"} /\ r.proof = NoProof /\ r.reason # NoReason

(* Broker truth accepted by HostReconciliationAdapter.reconcile_with_truth *)

(* A slip: broker truth is compared only when something should be open.    *)
truth_accepted_one_way(active, final) == active # {} => exposed # {}

truth_accepted(active, final) ==
    /\ (exposed = {}) <=> (active = {})
    /\ final => exposed = {}

-----------------------------------------------------------------------------
validate_timeline(timeline) ==
    timeline # {} /\ \A t \in timeline : t <= HardFlatAt

host_begin(p, a, timeline) ==
    /\ in_host(p, "out")
    /\ validate_timeline(timeline)
    /\ proceed(p, [pc |-> "lock", arm |-> a, timeline |-> timeline, t |-> Max(timeline),
                   hard |-> HardFlatAt \in timeline, plan |-> NoBinding])
    /\ UNCHANGED <<session_vars, lock, receipt, issued, crashes>>

state_directory_lock(p) ==
    /\ in_host(p, "lock")
    /\ \/ lock = NoProc /\ lock' = p /\ proceed(p, [host[p] EXCEPT !.pc = "arm"])
       \/ lock # NoProc /\ UNCHANGED lock /\ proceed(p, Out)       \* AutonomousHostBusy
    /\ UNCHANGED <<session_vars, receipt, issued, crashes>>

release(p) == lock' = NoProc /\ proceed(p, Out)
to_reconcile(p, plan) ==
    proceed(p, [pc |-> "reconcile", final |-> FALSE, truth |-> FALSE, hard |-> host[p].hard,
                plan |-> plan])

(* ensure_arm, the first read of the summary, and the plan factory, which  *)
(* may fail or return a plan _validate_plan rejects.                       *)
host_arm(p) ==
    /\ in_host(p, "arm")
    /\ \/ arm \notin {NoArm, host[p].arm} /\ release(p) /\ UNCHANGED <<arm, session>>
       \/ ensure_arm(host[p].arm) /\ release(p)
       \/ /\ ensure_arm(host[p].arm) /\ UNCHANGED lock
          /\ \E plan \in Plans :
                /\ validate_plan(plan)
                /\ IF summary # NoSummary THEN to_reconcile(p, plan)
                   ELSE proceed(p, [host[p] EXCEPT !.pc = "loop", !.plan = plan])
    /\ UNCHANGED <<row, lifecycle, reasons, summary, job, exposed, calls, receipt, issued, crashes>>

host_run(p) ==
    /\ in_host(p, "loop")
    /\ IF host[p].timeline = {} THEN to_reconcile(p, host[p].plan) /\ UNCHANGED session_vars
       ELSE LET t == Min(host[p].timeline) IN
            /\ begin_run(p, host[p].arm, t)
            /\ proceed(p, [host[p] EXCEPT !.pc = "running", !.t = t, !.timeline = @ \ {t}])
    /\ UNCHANGED <<lock, receipt, issued, crashes>>

coordinator_step(p) ==
    /\ in_host(p, "running")
    /\ \/ run_step(p)
       \/ \E complete \in BOOLEAN :
            /\ complete => truth_accepted(active_lifecycle_ids, FALSE)
            /\ reconcile(p, complete)
    /\ at(p, "process") /\ job'[p].pc = "record" => candidate_outcome_shape(job'[p].result)
    /\ at(p, "close") /\ job'[p].pc = "closed" => lifecycle_outcome_shape(job'[p].result)
    /\ UNCHANGED <<host, lock, receipt, issued, crashes>>

host_returned(p) ==
    /\ in_host(p, "running")
    /\ \/ at(p, "returned") /\ proceed(p, [host[p] EXCEPT !.pc = "loop"])
       \/ at(p, "raised") /\ proceed(p, [host[p] EXCEPT !.pc = "exception"])
    /\ UNCHANGED <<session_vars, lock, receipt, issued, crashes>>

host_exception(p) ==
    /\ in_host(p, "exception")
    /\ mark_manual_reconciliation_required(
           [code |-> "PORT_EXCEPTION", id |-> NoId, lifecycle |-> NoLifecycle])
    /\ proceed(p, [host[p] EXCEPT !.pc = "loop"])
    /\ UNCHANGED <<arm, row, lifecycle, summary, job, exposed, calls, lock, receipt, issued, crashes>>

(* FINAL at the summary's clock when a summary exists, else CHECKPOINT.    *)
host_reconcile(p) ==
    /\ in_host(p, "reconcile")
    /\ LET final == summary # NoSummary IN
       \/ /\ truth_accepted(active_lifecycle_ids, final)
          /\ proceed(p, [host[p] EXCEPT !.pc = "receipt", !.final = final, !.truth = TRUE])
       \/ proceed(p, [host[p] EXCEPT !.pc = "mark", !.final = final])
    /\ UNCHANGED <<session_vars, lock, receipt, issued, crashes>>

host_mark(p) ==
    /\ in_host(p, "mark")
    /\ mark_manual_reconciliation_required(
           [code |-> "RECONCILIATION_IDENTITY_MISMATCH", id |-> NoId, lifecycle |-> NoLifecycle])
    /\ proceed(p, [host[p] EXCEPT !.pc = "receipt"])
    /\ UNCHANGED <<arm, row, lifecycle, summary, job, exposed, calls, lock, receipt, issued, crashes>>

host_disposition(final, truth) ==
    IF manual_reasons # {} \/ session = "MANUAL_RECONCILIATION_REQUIRED"
    THEN "MANUAL_RECONCILIATION_REQUIRED"
    ELSE IF /\ summary # NoSummary /\ summary.flat
            /\ active_lifecycle_ids = {} /\ final /\ truth
         THEN "TERMINAL" ELSE "INCOMPLETE"

drafted(p) ==
    LET d == host_disposition(host[p].final, host[p].truth)
    IN  [disposition |-> d, class |-> host[p].plan.class, final |-> host[p].final,
         truth |-> host[p].truth, summary |-> summary # NoSummary, flat |-> d = "TERMINAL",
         counts |-> disposition_counts, active |-> active_lifecycle_ids, codes |-> manual_reasons]

(* What _receipt_payload demands; a count of open claims is refused by     *)
(* _canonical_disposition_counts.                                          *)
receipt_payload(r) ==
    /\ DOMAIN r.counts \subseteq Dispositions
    /\ r.final <=> r.summary
    /\ r.disposition = "TERMINAL" => r.final /\ r.truth /\ r.flat /\ r.active = {} /\ r.codes = {}
    /\ r.disposition # "TERMINAL" => ~r.flat
    /\ (r.disposition = "MANUAL_RECONCILIATION_REQUIRED") <=> (r.codes # {})
    /\ r.disposition = "INCOMPLETE" => ~r.summary

(* The command returns its receipt, or raises AutonomousHostRejected and   *)
(* leaves without one; the lock is released either way.                    *)
host_receipt(p) ==
    /\ in_host(p, "receipt")
    /\ \/ /\ receipt_payload(drafted(p))
          /\ receipt' = drafted(p) /\ issued' = issued \cup {drafted(p).disposition}
       \/ ~receipt_payload(drafted(p)) /\ UNCHANGED <<receipt, issued>>
    /\ release(p)
    /\ UNCHANGED <<session_vars, crashes>>

(* The process dies: the operating system frees the lock.                  *)
host_crash(p) ==
    /\ crashes < MaxCrashes /\ crashes' = crashes + 1
    /\ ~in_host(p, "out")
    /\ proceed(p, Out)
    /\ lock' = IF lock = p THEN NoProc ELSE lock
    /\ IF job[p] \in Ended THEN UNCHANGED session_vars ELSE crash(p)
    /\ UNCHANGED <<receipt, issued>>

host_step(p) ==
    \/ state_directory_lock(p) \/ host_arm(p) \/ host_run(p) \/ coordinator_step(p)
    \/ host_returned(p) \/ host_exception(p) \/ host_reconcile(p) \/ host_mark(p)
    \/ host_receipt(p)

HostNext ==
    \E p \in Procs :
        \/ \E a \in Arms, timeline \in SUBSET Times : host_begin(p, a, timeline)
        \/ host_step(p)
        \/ host_crash(p)

HostSpec == HostInit /\ [][HostNext]_host_vars

-----------------------------------------------------------------------------
(* Properties                                                              *)

(* TerminalReceiptIsFinal: once some invocation has issued a TERMINAL      *)
(* receipt, the broker holds nothing for any opportunity of the session    *)
(* and nothing is in progress, from then on: whatever crashes came before, *)
(* and however many invocations, with whatever timelines, come after.      *)
TerminalReceiptIsFinal ==
    "TERMINAL" \in issued =>
        exposed = {} /\ active_lifecycle_ids = {} /\ claimed_opportunity_ids = {}

(* SummaryStaysTrue: the frozen final summary never becomes out of date:   *)
(* after finalize_session no row changes, so its counts and active         *)
(* identities keep describing the store.                                   *)
SummaryStaysTrue ==
    summary # NoSummary =>
        summary.counts = counts_by_disposition /\ summary.active = active_lifecycle_ids

(* ReceiptRenders: the checks _receipt_payload makes when every durable    *)
(* write has already happened refuse nothing that the command hands it,    *)
(* unless a claim is open.  Then the command ends without a receipt, but   *)
(* the session is frozen already and the reason is on record.              *)
ReceiptRenders ==
    \A p \in Procs : in_host(p, "receipt") =>
        IF claimed_opportunity_ids = {} THEN receipt_payload(drafted(p))
        ELSE session = "MANUAL_RECONCILIATION_REQUIRED" /\ reasons # {}

(* OneOriginPerInvocation: an invocation that may touch the broker drives  *)
(* four backends of one origin, and its receipt's execution class, which   *)
(* decides the claims and the data class it carries, is theirs: a          *)
(* synthetic run never carries a production backend.                       *)
OneOriginPerInvocation ==
    \A p \in Procs : host[p].pc \notin {"out", "lock", "arm"} =>
        LET plan == host[p].plan
        IN  /\ \A b, c \in DOMAIN plan.bindings : plan.bindings[b] = plan.bindings[c]
            /\ \A b \in DOMAIN plan.bindings :
                  (plan.bindings[b] = NoBinding) <=> (plan.class = "SYNTHETIC_FAKE")

(* CommandIsAccounted: a TERMINAL receipt is final, the frozen summary     *)
(* stays true, no receipt is refused but over an open claim of a frozen    *)
(* session, and an invocation has one origin.                              *)
CommandIsAccounted ==
    TerminalReceiptIsFinal /\ SummaryStaysTrue /\ ReceiptRenders /\ OneOriginPerInvocation

(* FrozenTakesNothingNew: while the session is frozen, no opportunity is   *)
(* claimed and the broker's holding for the session does not grow.         *)
FrozenTakesNothingNew ==
    session = "MANUAL_RECONCILIATION_REQUIRED" =>
        /\ \A i \in Ids : row[i] = NoRow => row'[i] = NoRow
        /\ exposed' \subseteq exposed

(* Settled: a TERMINAL or a MANUAL_RECONCILIATION_REQUIRED receipt has     *)
(* been issued, or the session is frozen over a claim that no invocation   *)
(* can issue a receipt for.  With finitely many crashes and an operator    *)
(* who keeps invoking the host at hard flat, this comes about.             *)
Settled ==
    \/ issued \cap {"TERMINAL", "MANUAL_RECONCILIATION_REQUIRED"} # {}
    \/ claimed_opportunity_ids # {} /\ session = "MANUAL_RECONCILIATION_REQUIRED"
=============================================================================
