------------------------------ MODULE PaperHost ------------------------------
(***************************************************************************)
(* The production PAPER host: the scheduler of runtime/paper_scheduler.py  *)
(* re-runs the host command over growing prefixes of the session's         *)
(* timeline, and the command drives the four backends of                   *)
(* runtime/paper_mcp_composition.py against one broker account.  The       *)
(* durable state is the session store, the persistence sidecar             *)
(* (runtime/host_persistence.py), the blocked-state journal, the lifecycle *)
(* intents of the risk ledger and the episodes.  A crash may come between  *)
(* any two durable writes.                                                 *)
(*                                                                         *)
(* Window o opens at instant o and brings opportunity o, whose permit      *)
(* names its lifecycle; the instant after the last window is hard flat.    *)
(* The session store's own rules are in AutonomousSession, the broker      *)
(* worker's in MonitoredLifecycle and the pages of account activities in   *)
(* ActivityAcquisition; here they appear as far as the backends use them.  *)
(*                                                                         *)
(* External: the broker.  An order works until it is filled, in one or two *)
(* parts, or canceled; a call may fail, and a failed submission may still  *)
(* have placed the order.                                                  *)
(***************************************************************************)
EXTENDS Integers, FiniteSets, Sequences, SequencesExt, FiniteSetsExt

CONSTANTS
    Opportunities,      \* 1..n, in the order of their windows
    Launchers,          \* who starts the host: "scheduler", "operator"
    Gates,              \* the mutation_permitted flags in use: FALSE is a rehearsal
    RetryBudget,
    Faults,             \* broker faults: "read", "submit", "cancel", "activities", "partial"
    MaxStarts           \* bound on starts in one behaviour

PaperConstants ==
    /\ Opportunities = 1..Cardinality(Opportunities) /\ Opportunities # {}
    /\ Gates \subseteq BOOLEAN
    /\ RetryBudget \in Nat \ {0} /\ MaxStarts \in Nat

VARIABLES
    row,        \* session store: opportunity -> disposition
    manual,     \* session store: MANUAL_RECONCILIATION_REQUIRED
    final,      \* session store: the summary was written
    sidecar,    \* host_persistence.jsonl
    blocked,    \* blocked-state journal: subject -> states of its entries
    intent,     \* risk ledger: durable <<opportunity, phase>> intents
    broker,     \* external: opportunity -> [OPEN, CLOSE : order status]
    decision, outcome,      \* risk ledger: opportunities with an episode
    receipt,    \* disposition of the last receipt
    proc,       \* the host process
    clock,      \* the instant the host clock has reached
    starts

others == <<decision, outcome, receipt, clock, starts>>
paper_vars == <<row, manual, final, sidecar, blocked, intent, broker, decision, outcome, receipt,
                proc, clock, starts>>

HardFlat == Cardinality(Opportunities) + 1
Points == 1..HardFlat
Phases == {"OPEN", "CLOSE"}
Down == [pc |-> "down"]
-----------------------------------------------------------------------------
(* External: orders and positions, in half lots.                           *)
Working == {"working", "partial"}
units(status) == CASE status = "filled" -> 2
                   [] status \in {"partial", "residue"} -> 1
                   [] OTHER -> 0
position(o) == units(broker[o].OPEN) - units(broker[o].CLOSE)
open_positions == {o \in Opportunities : position(o) # 0}
working_orders == {w \in Opportunities \X Phases : broker[w[1]][w[2]] \in Working}
is_flat == open_positions = {} /\ working_orders = {}

broker_step(o, phase) ==
    /\ broker[o][phase] \in Working
    /\ \E s \in {"filled", "partial", "residue", "canceled"} :
          /\ s = "filled" \/ "partial" \in Faults
          /\ s = "partial" => broker[o][phase] = "working"
          /\ s = "residue" => broker[o][phase] = "partial"
          /\ s = "canceled" => broker[o][phase] = "working"
          /\ broker' = [broker EXCEPT ![o][phase] = s]
    /\ UNCHANGED <<row, manual, final, sidecar, blocked, intent, decision, outcome, receipt, proc,
                   clock, starts>>
-----------------------------------------------------------------------------
(* HostPersistenceSidecar                                                  *)
entries(kind, o) == SelectSeq(sidecar, LAMBDA e : e.kind = kind /\ e.lifecycle = o)
terminal_flat_proof(o) == entries("TERMINAL", o) # <<>>
rehydrate(o) == entries("ACTIVE", o) # <<>>
active_bundles == {o \in Opportunities : rehydrate(o) /\ ~terminal_flat_proof(o)}
append_entry(kind, o) == sidecar' = Append(sidecar, [kind |-> kind, lifecycle |-> o])

(* _validated_entries: one ACTIVE per lifecycle, then at most one TERMINAL.*)
validated_entries ==
    \A n \in DOMAIN sidecar :
        LET before(kind) == \E m \in 1..(n - 1) :
                sidecar[m] = [kind |-> kind, lifecycle |-> sidecar[n].lifecycle]
        IN  ~before(sidecar[n].kind) /\ (sidecar[n].kind = "TERMINAL" => before("ACTIVE"))

(* BlockedStateJournal: a subject's entries other than RESOLVED count.     *)
Subjects == ({"reconciliation"} \X {"STARTUP", "CHECKPOINT", "FINAL"})
            \cup ({"orphan", "open", "close", "activities"} \X Opportunities)
unresolved(s) == SelectSeq(blocked[s], LAMBDA state : state # "RESOLVED")
is_exhausted(s) == \E n \in DOMAIN blocked[s] : blocked[s][n] = "EXHAUSTED"
failure_state(s) == IF is_exhausted(s) \/ Len(unresolved(s)) + 1 >= RetryBudget
                    THEN "EXHAUSTED" ELSE "BLOCKED"

record_failure(s) == blocked' = [blocked EXCEPT ![s] = Append(@, failure_state(s))]
resolve(s) == blocked' = IF unresolved(s) = <<>> THEN blocked
                         ELSE [blocked EXCEPT ![s] = Append(@, "RESOLVED")]
-----------------------------------------------------------------------------
active_ids == {o \in Opportunities : row[o] = "ACTIVE"}
claimed_ids == {o \in Opportunities : row[o] = "CLAIMED"}
at(pc) == proc.pc = pc
goto(pc) == proc' = [proc EXCEPT !.pc = pc]

(* The next observation of the prefix, or the reconciliation that ends it. *)
advance(summary) ==
    IF proc.t < proc.k THEN proc' = [proc EXCEPT !.pc = "run", !.t = @ + 1]
    ELSE proc' = [proc EXCEPT !.pc = "observe", !.phase = IF summary THEN "FINAL" ELSE "CHECKPOINT"]

PaperInit ==
    /\ row = [o \in Opportunities |-> "NONE"]
    /\ manual = FALSE /\ final = FALSE
    /\ sidecar = <<>>
    /\ blocked = [s \in Subjects |-> <<>>]
    /\ intent = {}
    /\ broker = [o \in Opportunities |-> [OPEN |-> "none", CLOSE |-> "none"]]
    /\ decision = {} /\ outcome = {}
    /\ receipt = "NONE"
    /\ proc = Down /\ starts = 0 /\ clock = 1

(* External: time passes.                                                  *)
tick ==
    /\ clock < HardFlat /\ clock' = clock + 1
    /\ UNCHANGED <<row, manual, final, sidecar, blocked, intent, broker, decision, outcome, receipt,
                   proc, starts>>

(* paper-run starts over its timeline; an operator's invocation brings     *)
(* instants of its own, j to k.                                            *)
launch(by, gate, j, k) ==
    /\ at("down") /\ starts < MaxStarts
    /\ j <= k /\ (by = "scheduler" => k = 1)
    /\ starts' = starts + 1
    /\ proc' = [pc |-> "plan", by |-> by, gate |-> gate, t |-> j, k |-> k]
    /\ UNCHANGED <<row, manual, final, sidecar, blocked, intent, broker, decision, outcome,
                   receipt, clock>>

(* PaperMcpPlanFactory: fresh in-memory state for every command, after an  *)
(* account read; with a summary on record the timeline is not run again.   *)
(* The scheduler waits for the instant that ends its prefix.               *)
plan ==
    /\ at("plan") /\ (proc.by = "scheduler" => clock >= proc.k)
    /\ LET fresh == [pc |-> "run", by |-> proc.by, gate |-> proc.gate, t |-> proc.t, k |-> proc.k,
                     truth |-> FALSE, emitted |-> {}, phase |-> "STARTUP", o |-> 1, todo |-> {}]
       IN  \/ proc' = IF final THEN [fresh EXCEPT !.pc = "observe", !.phase = "FINAL"] ELSE fresh
           \/ "read" \in Faults /\ proc' = Down
    /\ UNCHANGED <<row, manual, final, sidecar, blocked, intent, broker, others>>

(* A slip: a session under manual reconciliation goes on with its windows. *)
run_past_manual ==
    /\ at("run")
    /\ IF claimed_ids # {}
       THEN manual' = TRUE /\ advance(final)
       ELSE /\ UNCHANGED manual
            /\ IF proc.t >= HardFlat
               THEN IF final THEN advance(final)
                    ELSE proc' = [proc EXCEPT !.pc = "close", !.todo = active_ids]
               ELSE proc' = [proc EXCEPT !.pc = "observe", !.phase = "STARTUP"]
    /\ UNCHANGED <<row, final, sidecar, blocked, intent, broker, decision, outcome, receipt, clock,
                   starts>>

(* AutonomousSessionCoordinator.run up to its first port.                  *)
run ==
    /\ at("run")
    /\ IF claimed_ids # {}
       THEN manual' = TRUE /\ advance(final)
       ELSE /\ UNCHANGED manual
            /\ IF proc.t >= HardFlat
               THEN IF final THEN advance(final)
                    ELSE proc' = [proc EXCEPT !.pc = "close", !.todo = active_ids]
               ELSE IF manual THEN advance(final)
               ELSE proc' = [proc EXCEPT !.pc = "observe", !.phase = "STARTUP"]
    /\ UNCHANGED <<row, final, sidecar, blocked, intent, broker, others>>
-----------------------------------------------------------------------------
(* PaperMcpReconciliationBackend.observe_reconciliation                    *)

(* The orders of no active bundle; a bundle names its opening order only.  *)
orphans == {w \in working_orders : ~(w[2] = "OPEN" /\ w[1] \in active_bundles)}

(* HostReconciliationAdapter: flat exactly when nothing is active, and     *)
(* flat at the end.                                                        *)
truth_accepted == (is_flat <=> active_ids = {}) /\ (proc.phase = "FINAL" => is_flat)

observed ==
    proc' = [proc EXCEPT !.truth = @ \/ proc.phase = "STARTUP",
                         !.pc = IF ~truth_accepted THEN "unreconciled"
                                ELSE IF proc.phase = "STARTUP" THEN "collect" ELSE "receipt"]

unobserved ==
    "read" \in Faults /\ record_failure(<<"reconciliation", proc.phase>>) /\ goto("unreconciled")

observe ==
    /\ at("observe")
    /\ \/ orphans = {} /\ observed /\ UNCHANGED blocked
       \/ /\ orphans # {} /\ UNCHANGED blocked
          /\ proc' = [proc EXCEPT !.pc = "cancel", !.todo = orphans]
       \/ unobserved
    /\ UNCHANGED <<row, manual, final, sidecar, intent, broker, others>>

canceled(status) == IF status = "partial" THEN "residue" ELSE "canceled"

(* One orphan after another through the cancel door; an order that is no   *)
(* longer working, or an outage, ends the observation.                     *)
cancel_orphan ==
    /\ at("cancel") /\ proc.todo # {}
    /\ \E w \in proc.todo :
          \/ /\ w \in working_orders
             /\ broker' = [broker EXCEPT ![w[1]][w[2]] = canceled(@)]
             /\ proc' = [proc EXCEPT !.todo = @ \ {w}] /\ UNCHANGED blocked
          \/ /\ w \notin working_orders \/ "cancel" \in Faults
             /\ record_failure(<<"orphan", w[1]>>) /\ goto("unreconciled")
             /\ \/ UNCHANGED broker
                \/ w \in working_orders /\ broker' = [broker EXCEPT ![w[1]][w[2]] = canceled(@)]
    /\ UNCHANGED <<row, manual, final, sidecar, intent, others>>

(* Truth is read again after a cancellation.                               *)
observe_again ==
    /\ at("cancel") /\ proc.todo = {}
    /\ \/ observed /\ UNCHANGED blocked
       \/ unobserved
    /\ UNCHANGED <<row, manual, final, sidecar, intent, broker, others>>

unreconciled ==
    /\ at("unreconciled")
    /\ manual' = TRUE
    /\ IF proc.phase = "STARTUP" THEN advance(final) ELSE goto("receipt")
    /\ UNCHANGED <<row, final, sidecar, blocked, intent, broker, others>>
-----------------------------------------------------------------------------
(* PaperMcpDueWindowBackend and the store's claim                          *)
collect ==
    /\ at("collect")
    /\ IF proc.t \in proc.emitted \/ row[proc.t] # "NONE" THEN advance(final) /\ UNCHANGED row
       ELSE /\ row' = [row EXCEPT ![proc.t] = "CLAIMED"]
            /\ proc' = [proc EXCEPT !.pc = "candidate", !.o = proc.t, !.emitted = @ \cup {proc.t}]
    /\ UNCHANGED <<manual, final, sidecar, blocked, intent, broker, others>>

(* PaperMcpCandidateBackend.process_candidate up to the opening.           *)
candidate ==
    /\ at("candidate")
    /\ IF is_exhausted(<<"open", proc.o>>) THEN goto("dispose") /\ UNCHANGED blocked
       ELSE IF ~proc.truth THEN goto("reject") /\ UNCHANGED blocked
       ELSE \/ record_failure(<<"open", proc.o>>) /\ goto("reject")    \* no capture or no permit
            \/ goto("abstain") /\ UNCHANGED blocked
            \/ goto("freeze") /\ UNCHANGED blocked      \* refresh or startup_reconciliation raises
            \/ /\ clock = proc.t          \* else the kernel's account truth is out of time
               /\ goto(IF proc.gate THEN "submit" ELSE "reject") /\ UNCHANGED blocked
    /\ UNCHANGED <<row, manual, final, sidecar, intent, broker, others>>

recorded(disposition) == row' = [row EXCEPT ![proc.o] = disposition]

disposed ==
    /\ \/ at("reject") /\ recorded("REJECTED") /\ advance(final)
       \/ at("abstain") /\ recorded("ABSTAINED") /\ advance(final)
       \/ at("dispose") /\ recorded("MANUAL") /\ goto("freeze")
    /\ UNCHANGED <<manual, final, sidecar, blocked, intent, broker, others>>

(* The coordinator's mark; the run at this instant ends with it.           *)
freeze ==
    /\ at("freeze")
    /\ manual' = TRUE /\ advance(final)
    /\ UNCHANGED <<row, final, sidecar, blocked, intent, broker, others>>

(* The worker's intent, then the order: acknowledged, failed but placed,   *)
(* or failed.                                                              *)
place(phase, acked, failed) ==
    /\ intent' = intent \cup {<<proc.o, phase>>}
    /\ \E placed \in {TRUE} \cup (IF "submit" \in Faults THEN {FALSE} ELSE {}) :
       \E ack \in {placed} \cup (IF "submit" \in Faults THEN {FALSE} ELSE {}) :
          /\ broker' = IF placed THEN [broker EXCEPT ![proc.o][phase] = "working"] ELSE broker
          /\ goto(IF ack THEN acked ELSE failed)

(* A slip: an outage while submitting is a rejection before mutation.      *)
submit_open_retryable ==
    /\ at("submit")
    /\ place("OPEN", "readback", "reject")
    /\ UNCHANGED <<row, manual, final, sidecar, blocked, others>>

submit_open ==
    /\ at("submit")
    /\ place("OPEN", "readback", "unopened")
    /\ UNCHANGED <<row, manual, final, sidecar, blocked, others>>

(* The worker's clock stands at the instant observed; the adapter stamps   *)
(* what it reads with the host clock, and truth that is too old or from    *)
(* the future is refused, as is a failed read.                             *)
readback(confirmed, next, failed) ==
    \E refused \in BOOLEAN :
        goto(IF confirmed /\ clock = proc.t /\ ~refused THEN next ELSE failed)

(* Fresh truth of a filled opening: the account holds its legs and nothing *)
(* else.                                                                   *)
open_confirmed == broker[proc.o].OPEN = "filled" /\ open_positions = {proc.o}

read_open ==
    /\ at("readback")
    /\ readback(open_confirmed, "episode", "unopened")
    /\ UNCHANGED <<row, manual, final, sidecar, blocked, intent, broker, others>>

unopened ==
    /\ at("unopened")
    /\ record_failure(<<"open", proc.o>>) /\ goto("dispose")
    /\ UNCHANGED <<row, manual, final, sidecar, intent, broker, others>>

(* What a confirmed opening writes, one store after the other.             *)
adopt ==
    /\ \/ /\ at("episode") /\ decision' = decision \cup {proc.o} /\ goto("bundle")
          /\ UNCHANGED <<row, sidecar, blocked>>
       \/ /\ at("bundle") /\ append_entry("ACTIVE", proc.o) /\ goto("opened")
          /\ UNCHANGED <<row, blocked, decision>>
       \/ /\ at("opened") /\ resolve(<<"open", proc.o>>) /\ goto("active")
          /\ UNCHANGED <<row, sidecar, decision>>
       \/ /\ at("active") /\ recorded("ACTIVE") /\ advance(final)
          /\ UNCHANGED <<sidecar, blocked, decision>>
    /\ UNCHANGED <<manual, final, intent, broker, outcome, receipt, clock, starts>>
-----------------------------------------------------------------------------
(* PaperMcpLifecycleBackend.close_lifecycle, for each active lifecycle in  *)
(* turn, and the summary.                                                  *)
close ==
    /\ at("close") /\ proc.todo # {}
    /\ LET o == Min(proc.todo)
           refused == ~proc.gate \/ <<o, "CLOSE">> \in intent
       IN \E refreshed \in {TRUE} \cup (IF "read" \in Faults THEN {FALSE} ELSE {}) :
            proc' = [proc EXCEPT !.o = o, !.todo = @ \ {o},
                        !.pc = CASE terminal_flat_proof(o) -> "flat"
                                 [] ~terminal_flat_proof(o) /\ (~rehydrate(o) \/ ~refreshed) ->
                                        "unresolved"
                                 [] OTHER -> IF refused THEN "unclosed" ELSE "submit_close"]
    /\ UNCHANGED <<row, manual, final, sidecar, blocked, intent, broker, others>>

submit_close ==
    /\ at("submit_close")
    /\ place("CLOSE", "close_readback", "unclosed")
    /\ UNCHANGED <<row, manual, final, sidecar, blocked, others>>

(* The worker calls a close flat only when the account has no residue.     *)
close_confirmed == broker[proc.o].CLOSE = "filled" /\ open_positions = {}

read_close ==
    /\ at("close_readback")
    /\ readback(close_confirmed, "activities", "unclosed")
    /\ UNCHANGED <<row, manual, final, sidecar, blocked, intent, broker, others>>

(* The lifecycle's activities, complete and free of manual routes.         *)
activities ==
    /\ at("activities")
    /\ \/ goto("truth") /\ UNCHANGED blocked
       \/ /\ "activities" \in Faults
          /\ record_failure(<<"activities", proc.o>>) /\ goto("unresolved")
    /\ UNCHANGED <<row, manual, final, sidecar, intent, broker, others>>

flat_truth == is_flat

fresh_truth ==
    /\ at("truth")
    /\ \E outage \in {FALSE, "read" \in Faults} :
          goto(IF flat_truth /\ ~outage THEN "terminal" ELSE "unclosed")
    /\ UNCHANGED <<row, manual, final, sidecar, blocked, intent, broker, others>>

unclosed ==
    /\ at("unclosed")
    /\ record_failure(<<"close", proc.o>>) /\ goto("unresolved")
    /\ UNCHANGED <<row, manual, final, sidecar, intent, broker, others>>

unresolved_close ==
    /\ at("unresolved")
    /\ manual' = TRUE /\ goto("close")
    /\ UNCHANGED <<row, final, sidecar, blocked, intent, broker, others>>

(* What a proved close writes, one store after the other.                  *)
settle ==
    /\ \/ /\ at("terminal") /\ append_entry("TERMINAL", proc.o) /\ goto("outcome")
          /\ UNCHANGED <<row, blocked, outcome>>
       \/ /\ at("outcome") /\ outcome' = outcome \cup {proc.o} /\ goto("closed")
          /\ UNCHANGED <<row, sidecar, blocked>>
       \/ /\ at("closed") /\ resolve(<<"close", proc.o>>) /\ goto("flat")
          /\ UNCHANGED <<row, sidecar, outcome>>
       \/ /\ at("flat") /\ recorded("TERMINAL_FLAT") /\ goto("close")
          /\ UNCHANGED <<sidecar, blocked, outcome>>
    /\ UNCHANGED <<manual, final, intent, broker, decision, receipt, clock, starts>>

finalize ==
    /\ at("close") /\ proc.todo = {}
    /\ IF active_ids # {} /\ ~manual THEN manual' = TRUE /\ UNCHANGED <<final, proc>>
       ELSE final' = TRUE /\ advance(TRUE) /\ UNCHANGED manual
    /\ UNCHANGED <<row, sidecar, blocked, intent, broker, others>>
-----------------------------------------------------------------------------
(* The receipt; the scheduler goes on to the next prefix unless it is      *)
(* manual or terminal.                                                     *)
disposition ==
    IF manual THEN "MANUAL_RECONCILIATION_REQUIRED"
    ELSE IF final /\ active_ids = {} /\ proc.phase = "FINAL" THEN "TERMINAL" ELSE "INCOMPLETE"

(* A slip: the schedule ends before its last point.                        *)
issue_receipt_short ==
    /\ at("receipt")
    /\ receipt' = IF claimed_ids = {} THEN disposition ELSE receipt
    /\ proc' = IF /\ claimed_ids = {} /\ proc.by = "scheduler"
                  /\ disposition = "INCOMPLETE" /\ proc.k + 1 < HardFlat
               THEN [pc |-> "plan", by |-> proc.by, gate |-> proc.gate, t |-> 1, k |-> proc.k + 1]
               ELSE Down
    /\ UNCHANGED <<row, manual, final, sidecar, blocked, intent, broker, decision, outcome,
                   clock, starts>>

(* The counts of a receipt have no place for an open claim: the command    *)
(* raises instead, and the process ends with it.                           *)
issue_receipt ==
    /\ at("receipt")
    /\ receipt' = IF claimed_ids = {} THEN disposition ELSE receipt
    /\ proc' = IF /\ claimed_ids = {} /\ proc.by = "scheduler"
                  /\ disposition = "INCOMPLETE" /\ proc.k < HardFlat
               THEN [pc |-> "plan", by |-> proc.by, gate |-> proc.gate, t |-> 1, k |-> proc.k + 1]
               ELSE Down
    /\ UNCHANGED <<row, manual, final, sidecar, blocked, intent, broker, decision, outcome,
                   clock, starts>>

crash ==
    /\ ~at("down") /\ starts < MaxStarts
    /\ proc' = Down
    /\ UNCHANGED <<row, manual, final, sidecar, blocked, intent, broker, others>>

host_step ==
    \/ plan \/ run \/ observe \/ cancel_orphan \/ observe_again \/ unreconciled \/ collect
    \/ candidate \/ disposed \/ freeze \/ submit_open \/ read_open \/ unopened \/ adopt
    \/ close \/ submit_close \/ read_close \/ activities \/ fresh_truth \/ unclosed
    \/ unresolved_close \/ settle \/ finalize \/ issue_receipt

PaperNext ==
    \/ \E by \in Launchers, gate \in Gates, j, k \in Points : launch(by, gate, j, k)
    \/ host_step
    \/ crash
    \/ \E o \in Opportunities, phase \in Phases : broker_step(o, phase)
    \/ tick

PaperSpec == PaperInit /\ [][PaperNext]_paper_vars
-----------------------------------------------------------------------------
(* Whatever the broker holds or still works for an opportunity, the        *)
(* session store knows of it: the opportunity is claimed, active or        *)
(* manual, never disposed of as though nothing had been sent.  A           *)
(* submission that failed may have placed its order                        *)
(* (process_candidate's outage branch).                                    *)
ExposureAccounted ==
    \A o \in Opportunities :
        position(o) # 0 \/ <<o, "OPEN">> \in working_orders =>
            row[o] \in {"CLAIMED", "ACTIVE", "MANUAL"}

(* A terminal proof is final: once one lifecycle has it, the account has   *)
(* neither a position nor a working order, and none comes later, whatever  *)
(* crashed, was replayed or filled late (close_lifecycle's fresh read).    *)
TerminalIsFlat ==
    (\E o \in Opportunities : terminal_flat_proof(o)) => is_flat

(* A lifecycle the session store calls active can be closed by a process   *)
(* that knows nothing but the disk: its bundle and its decision episode    *)
(* are there already (process_candidate writes them before it returns),    *)
(* and no crash or retry leaves the sidecar failing its own validation.    *)
ActiveIsClosable ==
    /\ validated_entries
    /\ \A o \in Opportunities : row[o] = "ACTIVE" => rehydrate(o) /\ o \in decision

(* Once the session is under manual reconciliation no later window sends   *)
(* an opening, in this process or after any restart (run's early return).  *)
ManualHoldsEntries ==
    manual => \A o \in Opportunities : <<o, "OPEN">> \in intent' => <<o, "OPEN">> \in intent

(* The schedule has ended (run_paper_session): the process is down, and    *)
(* the last receipt is terminal or asks for a person, or there is none to  *)
(* be had because the session is frozen over an open claim.                *)
SessionSettled ==
    /\ at("down")
    /\ \/ receipt \in {"TERMINAL", "MANUAL_RECONCILIATION_REQUIRED"}
       \/ claimed_ids # {} /\ manual
=============================================================================
