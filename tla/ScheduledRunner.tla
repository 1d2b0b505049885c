--------------------------- MODULE ScheduledRunner ---------------------------
(***************************************************************************)
(* The one-shot scheduled PAPER runner: run_scheduled_event_command        *)
(* (runtime/scheduled.py), the lifecycle it drives (run_paper_demo in      *)
(* execution/paper_demo.py, McpPaperBroker in execution/mcp.py) and the    *)
(* three durable things a restart finds again: one atomic state file per   *)
(* event, the exclusive-create attempt markers and the broker's orders.    *)
(*                                                                         *)
(* proc[p] is the program counter and the locals of the invocation process *)
(* p runs.  Each file access and each broker call is a step; a crash may   *)
(* fall between any two, and releases the flock.  An exception the runner  *)
(* does not catch ends the process the same way, so it is a crash too.     *)
(* Dry runs read only and are left out.                                    *)
(*                                                                         *)
(* The broker is external.  A submission may be placed, refused, or stay   *)
(* in flight and arrive later; its reply, like any readback, may be lost.  *)
(***************************************************************************)
EXTENDS Integers

CONSTANTS
    Procs,          \* processes that may be running the command
    Events,         \* event_run_id values
    Manifests,      \* approved manifests, each with permits of its own
    EventOf,        \* manifest -> event_run_id
    Qty,            \* DebitVerticalPermit.quantity
    NotBefore, ExpiresAt,           \* due window of the manifests
    OpenExpiresAt, CloseExpiresAt,  \* expires_at of the two permits
    Horizon,        \* bound on the clock
    MaxFaults,      \* bound on crashes and damaged state files
    NoProc, NoManifest

ASSUME ScheduleConstants ==
    /\ EventOf \in [Manifests -> Events]
    /\ Qty \in Nat \ {0}
    /\ NotBefore \in Nat /\ ExpiresAt \in Nat
    /\ OpenExpiresAt \in Nat /\ CloseExpiresAt \in Nat
    /\ Horizon \in Nat /\ MaxFaults \in Nat
    /\ NoProc \notin Procs /\ NoManifest \notin Manifests

VARIABLES
    store,      \* the state file of each event
    claims,     \* attempt markers, by manifest and mutation
    lock,       \* holder of .one-shot.lock
    proc,       \* what each process is executing
    orders,     \* what the broker holds under each client order id
    calls,      \* how often each mutation was sent to the broker
    now,        \* wall clock
    faults      \* crashes and damaged files so far

files == <<store, claims>>
broker == <<orders, calls>>
vars == <<store, claims, lock, proc, orders, calls, now, faults>>

Terminal == {"CANCELED_FLAT", "CLOSED_FLAT"}
Lifecycles == {"NONE", "INVALID", "RECONCILING", "MANUAL_RECONCILIATION"} \cup Terminal
Mutations == {"open", "cancel", "close"}
OrderKinds == {"open", "close"}
OrderStatus == {"none", "inflight", "new", "partially_filled", "filled", "canceled"}

Idle == [pc |-> "idle"]

Invocations ==
    {Idle}
    \cup [pc : {"own", "others", "expired", "invalid_lock", "invalid", "stop_lock", "stop",
                "lock", "locked"}, m : Manifests, at : 0..Horizon]
    \cup [pc : {"plan"}, m : Manifests, at : 0..Horizon, restart : BOOLEAN]
    \cup [pc : {"demo", "submit_open", "read_open", "resolve", "cancel", "cancel_call", "close",
                "reread", "submit_close", "read_close", "manual"}, m : Manifests]
    \cup [pc : {"flat", "receipt"}, m : Manifests, outcome : Terminal]

RunnerTypeOK ==
    /\ store \in [Events -> [life : Lifecycles, manifest : Manifests \cup {NoManifest}]]
    /\ claims \subseteq Manifests \X Mutations
    /\ lock \in Procs \cup {NoProc}
    /\ proc \in [Procs -> Invocations]
    /\ orders \in [Manifests \X OrderKinds -> [status : OrderStatus, filled : 0..Qty]]
    /\ calls \in [Manifests \X Mutations -> Nat]
    /\ now \in 0..Horizon
    /\ faults \in 0..MaxFaults

RunnerInit ==
    /\ store = [e \in Events |-> [life |-> "NONE", manifest |-> NoManifest]]
    /\ claims = {}
    /\ lock = NoProc
    /\ proc = [p \in Procs |-> Idle]
    /\ orders = [x \in Manifests \X OrderKinds |-> [status |-> "none", filled |-> 0]]
    /\ calls = [x \in Manifests \X Mutations |-> 0]
    /\ now = 0
    /\ faults = 0

-----------------------------------------------------------------------------
at(p, pc) == proc[p].pc = pc
become(p, locals) == proc' = [proc EXCEPT ![p] = locals]
exit(p) == become(p, Idle)

(* The same invocation at another point of the unlocked or locked checks.  *)
goto(p, pc) == become(p, [pc |-> pc, m |-> proc[p].m, at |-> proc[p].at])

(* The lifecycle keeps the manifest alone.                                 *)
proceed(p, pc) == become(p, [pc |-> pc, m |-> proc[p].m])

due(t) == NotBefore <= t /\ t < ExpiresAt

position(m) == orders[<<m, "open">>].filled - orders[<<m, "close">>].filled

-----------------------------------------------------------------------------
(* The state files                                                         *)

(* A slip: an event stopped for a human may be run again.                  *)
own_verdict_manual_resumes(m) ==
    LET s == store[EventOf[m]]
    IN  CASE s.life = "INVALID" -> "invalid"
          [] s.life \notin {"NONE", "INVALID"} /\ s.manifest # m -> "mismatch"
          [] s.life \in Terminal /\ s.manifest = m -> "noop"
          [] OTHER -> "pass"

own_verdict(m) ==
    LET s == store[EventOf[m]]
    IN  CASE s.life = "INVALID" -> "invalid"
          [] s.life = "NONE" -> "pass"
          [] s.life \notin {"NONE", "INVALID"} /\ s.manifest # m -> "mismatch"
          [] s.life = "MANUAL_RECONCILIATION" /\ s.manifest = m -> "manual"
          [] s.life \in Terminal /\ s.manifest = m -> "noop"
          [] s.life = "RECONCILING" /\ s.manifest = m -> "pass"

(* A slip: an event stopped for a human no longer blocks the others.       *)
others_verdict_manual_ignored(m) ==
    LET others == {store[e].life : e \in Events \ {EventOf[m]}}
    IN  IF "INVALID" \in others THEN "invalid"
        ELSE IF "RECONCILING" \in others THEN "overlap" ELSE "pass"

(* active_event_ids: every other file must verify and be terminal.         *)
others_verdict(m) ==
    LET others == {store[e].life : e \in Events \ {EventOf[m]}}
    IN  IF "INVALID" \in others THEN "invalid"
        ELSE IF others \subseteq Terminal \cup {"NONE"} THEN "pass" ELSE "overlap"

existing_state_result(m) ==
    IF own_verdict(m) = "pass" THEN others_verdict(m) ELSE own_verdict(m)

write(m, life) ==
    store' = [store EXCEPT ![EventOf[m]] = [life |-> life, manifest |-> m]]

acquire(p, from, to) ==
    /\ at(p, from)
    /\ \/ lock = NoProc /\ lock' = p /\ goto(p, to)
       \/ lock # NoProc /\ exit(p) /\ UNCHANGED lock
    /\ UNCHANGED <<files, broker, now, faults>>

release == lock' = NoProc

-----------------------------------------------------------------------------
(* run_scheduled_event_command, before the lock                            *)

invoke(p, m) ==
    /\ at(p, "idle")
    /\ become(p, [pc |-> "own", m |-> m, at |-> now])
    /\ UNCHANGED <<files, lock, broker, now, faults>>

check_own(p) ==
    LET verdict == own_verdict(proc[p].m)
    IN  /\ at(p, "own")
        /\ CASE verdict = "pass"    -> goto(p, "others")
             [] verdict = "invalid" -> goto(p, "invalid_lock")
             [] OTHER               -> exit(p)
        /\ UNCHANGED <<files, lock, broker, now, faults>>

route(p) == goto(p, IF due(proc[p].at) THEN "lock" ELSE "expired")

check_others(p) ==
    LET verdict == others_verdict(proc[p].m)
    IN  /\ at(p, "others")
        /\ CASE verdict = "pass"    -> route(p)
             [] verdict = "invalid" -> goto(p, "invalid_lock")
             [] verdict = "overlap" -> exit(p)
        /\ UNCHANGED <<files, lock, broker, now, faults>>

(* A slip: an event caught outside its window is rejected, not stopped.    *)
check_expired_rejects(p) ==
    /\ at(p, "expired")
    /\ exit(p)
    /\ UNCHANGED <<files, lock, broker, now, faults>>

check_expired(p) ==
    /\ at(p, "expired")
    /\ IF store[EventOf[proc[p].m]].life = "RECONCILING" THEN goto(p, "stop_lock") ELSE exit(p)
    /\ UNCHANGED <<files, lock, broker, now, faults>>

-----------------------------------------------------------------------------
(* Under the lock.  A file that does not verify is answered by writing     *)
(* MANUAL_RECONCILIATION for the event being run.                          *)

stop_for_manual(p) ==
    /\ write(proc[p].m, "MANUAL_RECONCILIATION")
    /\ exit(p)
    /\ release
    /\ UNCHANGED <<claims, broker, now, faults>>

leave(p) == exit(p) /\ release /\ UNCHANGED <<files, broker, now, faults>>

recheck_invalid(p) ==
    LET verdict == existing_state_result(proc[p].m)
    IN  /\ at(p, "invalid")
        /\ CASE verdict = "invalid" -> stop_for_manual(p)
             [] verdict = "pass"    -> route(p) /\ release /\ UNCHANGED <<files, broker, now, faults>>
             [] OTHER               -> leave(p)

stop_expired(p) ==
    LET verdict == existing_state_result(proc[p].m)
    IN  /\ at(p, "stop")
        /\ IF verdict \in {"invalid", "pass"} THEN stop_for_manual(p) ELSE leave(p)

recheck_locked(p) ==
    LET m == proc[p].m
        verdict == existing_state_result(m)
    IN  /\ at(p, "locked")
        /\ CASE verdict = "invalid" -> stop_for_manual(p)
             [] verdict = "pass"    ->
                    /\ become(p, [pc |-> "plan", m |-> m, at |-> proc[p].at,
                                  restart |-> store[EventOf[m]].life = "RECONCILING"])
                    /\ UNCHANGED <<files, lock, broker, now, faults>>
             [] OTHER               -> leave(p)

(* The host's plan may be invalid for any reason, and is when a permit has *)
(* expired; an invalid plan stops a restart and rejects a first run.       *)
validate_plan(p) ==
    LET plan_active == proc[p].at < OpenExpiresAt /\ proc[p].at < CloseExpiresAt
    IN  /\ at(p, "plan")
        /\ \/ /\ plan_active
              /\ write(proc[p].m, "RECONCILING")
              /\ proceed(p, "demo")
              /\ UNCHANGED <<claims, lock, broker, now, faults>>
           \/ IF proc[p].restart THEN stop_for_manual(p) ELSE leave(p)

-----------------------------------------------------------------------------
(* run_paper_demo and McpPaperBroker                                       *)

(* A slip: the marker is overwritten, so every run may submit.             *)
claim_overwrites(p, mutation, submit, readback) ==
    /\ claims' = claims \cup {<<proc[p].m, mutation>>}
    /\ proceed(p, submit)

(* FilePaperAttemptStore.claim: a marker that exists forces readback.      *)
claim(p, mutation, submit, readback) ==
    LET marker == <<proc[p].m, mutation>>
    IN  /\ claims' = claims \cup {marker}
        /\ proceed(p, IF marker \in claims THEN readback ELSE submit)

(* The approval and both permits are checked against the clock again.      *)
start_demo(p) ==
    /\ at(p, "demo")
    /\ IF now < ExpiresAt /\ now <= OpenExpiresAt /\ now <= CloseExpiresAt
       THEN claim(p, "open", "submit_open", "read_open")
       ELSE proceed(p, "manual") /\ UNCHANGED claims
    /\ UNCHANGED <<store, lock, broker, now, faults>>

called(m, mutation) == calls' = [calls EXCEPT ![<<m, mutation>>] = @ + 1]

(* One submission: placed, in flight or refused, whatever the reply says;  *)
(* a reply that contradicts the request stops the run.                     *)
submit(p, kind, readback) ==
    LET m == proc[p].m
    IN  /\ called(m, kind)
        /\ \E status \in {"new", "inflight", "none"} :
                orders' = [orders EXCEPT ![<<m, kind>>].status = status]
        /\ proceed(p, readback) \/ proceed(p, "manual")
        /\ UNCHANGED <<files, lock, now, faults>>

submit_open(p) ==
    /\ at(p, "submit_open")
    /\ IF now < OpenExpiresAt
       THEN submit(p, "open", "read_open")
       ELSE proceed(p, "manual") /\ UNCHANGED <<files, lock, broker, now, faults>>

known(m, kind) == orders[<<m, kind>>].status \notin {"none", "inflight"}

(* Readback by client order id; no answer, or an error, is ambiguous.      *)
read_open(p) ==
    /\ at(p, "read_open")
    /\ \/ known(proc[p].m, "open") /\ proceed(p, "resolve")
       \/ proceed(p, "manual")
    /\ UNCHANGED <<files, lock, broker, now, faults>>

(* A slip: an order still working after the cancel counts as cancelled.    *)
resolved_order_cancel_assumed(p, working) ==
    LET m == proc[p].m
        order == orders[<<m, "open">>]
    IN  IF order.status = "new" /\ working = "cancel" THEN proceed(p, "cancel")
        ELSE IF order.status \in {"new", "canceled"} /\ order.filled = 0
        THEN become(p, [pc |-> "flat", m |-> m, outcome |-> "CANCELED_FLAT"])
        ELSE IF order.status = "filled" /\ order.filled = Qty THEN proceed(p, "close")
        ELSE proceed(p, "manual")

(* What resolve_to_flat does with the opening order it reads: a working    *)
(* order is cancelled once, an unfilled terminal one must be flat, a fill  *)
(* is closed, anything else is for a human.                                *)
resolved_order(p, working) ==
    LET m == proc[p].m
        order == orders[<<m, "open">>]
    IN  CASE order.status = "new" -> proceed(p, working)
          [] order.status = "canceled" /\ order.filled = 0 ->
                become(p, [pc |-> "flat", m |-> m, outcome |-> "CANCELED_FLAT"])
          [] order.status = "filled" /\ order.filled = Qty -> proceed(p, "close")
          [] OTHER -> proceed(p, "manual")

resolve_to_flat(p) ==
    /\ at(p, "resolve")
    /\ \/ now < CloseExpiresAt /\ resolved_order(p, "cancel")
       \/ proceed(p, "manual")
    /\ UNCHANGED <<files, lock, broker, now, faults>>

claim_cancel(p) ==
    /\ at(p, "cancel")
    /\ claim(p, "cancel", "cancel_call", "reread")
    /\ UNCHANGED <<store, lock, broker, now, faults>>

(* The cancel takes effect at once, later or never; its errors are         *)
(* swallowed and the order is read again.                                  *)
cancel_open(p) ==
    LET m == proc[p].m
        order == orders[<<m, "open">>]
    IN  /\ at(p, "cancel_call")
        /\ called(m, "cancel")
        /\ \/ /\ order.status \in {"new", "partially_filled"}
              /\ orders' = [orders EXCEPT ![<<m, "open">>].status = "canceled"]
           \/ UNCHANGED orders
        /\ proceed(p, "reread")
        /\ UNCHANGED <<files, lock, now, faults>>

reread_open(p) ==
    /\ at(p, "reread")
    /\ resolved_order(p, "manual") \/ proceed(p, "manual")
    /\ UNCHANGED <<files, lock, broker, now, faults>>

claim_close(p) ==
    /\ at(p, "close")
    /\ claim(p, "close", "submit_close", "read_close")
    /\ UNCHANGED <<store, lock, broker, now, faults>>

submit_close(p) == at(p, "submit_close") /\ submit(p, "close", "read_close")

read_close(p) ==
    LET m == proc[p].m
        order == orders[<<m, "close">>]
    IN  /\ at(p, "read_close")
        /\ \/ /\ order.status = "filled" /\ order.filled = Qty
              /\ become(p, [pc |-> "flat", m |-> m, outcome |-> "CLOSED_FLAT"])
           \/ proceed(p, "manual")
        /\ UNCHANGED <<files, lock, broker, now, faults>>

(* The positions must not name a leg of the event.                         *)
verify_event_flat(p) ==
    /\ at(p, "flat")
    /\ \/ /\ position(proc[p].m) = 0
          /\ become(p, [pc |-> "receipt", m |-> proc[p].m, outcome |-> proc[p].outcome])
       \/ proceed(p, "manual")
    /\ UNCHANGED <<files, lock, broker, now, faults>>

(* The economics are read again and the receipt is verified and stored; a  *)
(* failed readback or receipt is for a human.                              *)
store_receipt(p) ==
    /\ at(p, "receipt")
    /\ \/ /\ write(proc[p].m, proc[p].outcome)
          /\ exit(p)
          /\ release
          /\ UNCHANGED <<claims, broker, now, faults>>
       \/ stop_for_manual(p)

store_manual(p) == at(p, "manual") /\ stop_for_manual(p)

-----------------------------------------------------------------------------
(* The environment                                                         *)

broker_arrive(x) ==
    /\ orders[x].status = "inflight"
    /\ orders' = [orders EXCEPT ![x].status = "new"]
    /\ UNCHANGED <<files, lock, proc, calls, now, faults>>

broker_fill(x) ==
    /\ orders[x].status \in {"new", "partially_filled"}
    /\ orders' = [orders EXCEPT ![x] =
            [status |-> IF @.filled + 1 = Qty THEN "filled" ELSE "partially_filled",
             filled |-> @.filled + 1]]
    /\ UNCHANGED <<files, lock, proc, calls, now, faults>>

broker_cancel(x) ==
    /\ orders[x].status \in {"new", "partially_filled"}
    /\ orders' = [orders EXCEPT ![x].status = "canceled"]
    /\ UNCHANGED <<files, lock, proc, calls, now, faults>>

tick ==
    /\ now < Horizon
    /\ now' = now + 1
    /\ UNCHANGED <<files, lock, proc, broker, faults>>

fault == faults < MaxFaults /\ faults' = faults + 1

crash(p) ==
    /\ ~at(p, "idle")
    /\ fault
    /\ exit(p)
    /\ lock' = IF lock = p THEN NoProc ELSE lock
    /\ UNCHANGED <<files, broker, now>>

(* A state file is damaged on disk and no longer verifies.                 *)
damage(e) ==
    /\ store[e].life \notin {"NONE", "INVALID"}
    /\ fault
    /\ store' = [store EXCEPT ![e].life = "INVALID"]
    /\ UNCHANGED <<claims, lock, proc, broker, now>>

Step(p) ==
    \/ check_own(p) \/ check_others(p) \/ check_expired(p)
    \/ acquire(p, "invalid_lock", "invalid") \/ recheck_invalid(p)
    \/ acquire(p, "stop_lock", "stop") \/ stop_expired(p)
    \/ acquire(p, "lock", "locked") \/ recheck_locked(p) \/ validate_plan(p)
    \/ start_demo(p) \/ submit_open(p) \/ read_open(p)
    \/ resolve_to_flat(p) \/ claim_cancel(p) \/ cancel_open(p) \/ reread_open(p)
    \/ claim_close(p) \/ submit_close(p) \/ read_close(p)
    \/ verify_event_flat(p) \/ store_receipt(p) \/ store_manual(p)

Environment ==
    \/ \E x \in Manifests \X OrderKinds : broker_arrive(x) \/ broker_fill(x) \/ broker_cancel(x)
    \/ \E p \in Procs : crash(p)
    \/ \E e \in Events : damage(e)

RunnerNext ==
    \/ \E p \in Procs, m \in Manifests : invoke(p, m)
    \/ \E p \in Procs : Step(p)
    \/ Environment
    \/ tick

RunnerSpec == RunnerInit /\ [][RunnerNext]_vars

-----------------------------------------------------------------------------
(* Properties                                                              *)

(* No opening, cancel or close is sent to the broker twice, and none       *)
(* without its durable marker, through crashes, restarts, overlapping      *)
(* invocations and lost replies (FilePaperAttemptStore.claim before each). *)
OneAttemptEach ==
    \A x \in Manifests \X Mutations : calls[x] <= 1 /\ (calls[x] = 1 => x \in claims)

(* The event of m has something at the broker: a position, or an order     *)
(* that is working or still on its way.                                    *)
exposed(m) ==
    \/ position(m) # 0
    \/ \E k \in OrderKinds :
        orders[<<m, k>>].status \in {"inflight", "new", "partially_filled"}

(* A state file that says CANCELED_FLAT or CLOSED_FLAT is right for good:  *)
(* the event has no position, and no order of it is working or still on    *)
(* its way to the broker.                                                  *)
TerminalIsFlat ==
    \A m \in Manifests : store[EventOf[m]].life \in Terminal => ~exposed(m)

(* At any moment one event at most has anything at the broker.  An event   *)
(* left RECONCILING, stopped for a human or with a damaged file keeps      *)
(* every other event out.                                                  *)
OneEventExposed ==
    \A m, n \in Manifests : exposed(m) /\ exposed(n) => EventOf[m] = EventOf[n]

(* MANUAL_RECONCILIATION and the terminal states are final for the runner: *)
(* no invocation, also one that began before, moves the event out of them  *)
(* (only damage to the file does) or sends the broker anything for it.     *)
StoppedStaysStopped ==
    [][\A m \in Manifests :
        LET s == store[EventOf[m]]
        IN  s.life \in Terminal \cup {"MANUAL_RECONCILIATION"} =>
            /\ store'[EventOf[m]] = s \/ store'[EventOf[m]].life = "INVALID"
            /\ \A k \in Mutations : calls'[<<m, k>>] = calls[<<m, k>>]]_vars

(* A change of manifest never takes over an event: once a manifest began   *)
(* reconciling, no other manifest of the same event reaches the broker.    *)
OneManifestPerEvent ==
    \A x, y \in Manifests \X Mutations :
        calls[x] > 0 /\ calls[y] > 0 /\ EventOf[x[1]] = EventOf[y[1]] => x[1] = y[1]
=============================================================================
