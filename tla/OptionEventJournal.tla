-------------------------- MODULE OptionEventJournal --------------------------
(***************************************************************************)
(* OptionEventJournal (runtime/option_events.py), the append-only SQLite   *)
(* journal of reconciliations, fed by a host that observes an account.     *)
(* record_reconciliation is one BEGIN IMMEDIATE transaction and rolls back *)
(* as a whole, so one action; opening the journal re-derives every row.    *)
(*                                                                         *)
(* External: the account.  Positions change at once, the activity that     *)
(* explains a change is reported the same day or a later one.  The host    *)
(* passes complete coverage only when it has every reported activity of    *)
(* the lifecycle, and otherwise whatever it has.                           *)
(***************************************************************************)
EXTENDS OptionEvents, Sequences

CONSTANTS
    Bindings,       \* terms a host may bind; two of them may name one lifecycle
    Happenings,     \* what may happen to the account's positions, once each
    LastDay,        \* bound on the clock
    MaxDelay,       \* bound on the days until an activity is reported
    MaxReceipts,    \* bound on the journal's length
    MayTamper       \* whether stored rows may be altered

VARIABLES
    bound,          \* option_event_bindings
    observations,   \* option_event_observations
    coverages,      \* option_activity_coverages
    claims,         \* normalized_option_events: activity id -> [binding, event]
    receipts,       \* option_event_receipts: rows [state, raw]
    journal,        \* "open", "closed" or "refused" by validate_stored_state
    tampered,       \* a stored row was altered while the journal was closed
    now, positions, reported    \* the account: day, symbol -> quantity, activities

tables == <<bound, observations, coverages, claims, receipts>>
account == <<now, positions, reported>>
journal_vars == <<tables, journal, tampered, account>>

lifecycle(b) == <<b.session, b.lifecycle>>
account_key(b) == <<b.session, b.authority>>

Init ==
    /\ bound = {} /\ observations = {} /\ coverages = {}
    /\ claims = <<>> /\ receipts = <<>>
    /\ journal = "open" /\ tampered = FALSE
    /\ now = 0 /\ reported = {}
    /\ positions = [s \in UNION {{b.long, b.short, b.underlying} : b \in Bindings} |->
                       CASE s \in {b.long : b \in Bindings}  -> 1
                         [] s \in {b.short : b \in Bindings} -> -1
                         [] OTHER -> 0]

-----------------------------------------------------------------------------
(* Receipts as their rows parse back.                                      *)
Receipt(i) == parse(receipts[i].raw)
of_binding(b) == {i \in DOMAIN receipts : Receipt(i).binding = b}
latest_receipt(b) == Receipt(Max(of_binding(b)))

(* A slip: manual state is looked up for the one lifecycle.                *)
account_manual_per_lifecycle(b) ==
    \E i \in DOMAIN receipts : Receipt(i).binding = b /\ Receipt(i).state = "MANUAL"

(* _account_manual_locked, and account_requires_manual_reconciliation.     *)
account_manual(b) ==
    \E i \in DOMAIN receipts :
        account_key(Receipt(i).binding) = account_key(b) /\ Receipt(i).state = "MANUAL"

sticky(r) == receipt(r.binding, r.observation, r.coverage, r.events, "MANUAL",
                     r.reasons \cup {"PRIOR_MANUAL_STATE_STICKY"})

(* _ensure_binding_locked: one set of terms per lifecycle.                 *)
binding_conflicts(b) == \E f \in bound : lifecycle(f) = lifecycle(b) /\ f # b

(* _claim_event_locked: an activity id belongs to one lifecycle, with one  *)
(* content.                                                                *)
claim_conflicts(b, e) ==
    e.id \in DOMAIN claims /\ claims[e.id] # [binding |-> b, event |-> e]

out_of_order(b, o) ==
    /\ of_binding(b) # {}
    /\ o.at <= latest_receipt(b).at \/ latest_receipt(b).state = "EXPIRY_FLAT_ATTESTED"

(* How record_reconciliation answers: it rejects the inputs, returns the   *)
(* receipt it finds, raises a conflict, or appends.                        *)
candidate_receipt(b, o, c, events) ==
    LET r == reconcile_option_events(b, o, c, events)
    IN  IF account_manual(b) THEN sticky(r) ELSE r

answer(b, o, c, events) ==
    LET r == reconcile_option_events(b, o, c, events) IN
    IF r = NoArtifact THEN "rejected"
    ELSE IF binding_conflicts(b) THEN "conflict"
    ELSE IF of_binding(b) # {} /\ latest_receipt(b) = r THEN "stored"
    ELSE IF out_of_order(b, o) THEN "conflict"
    ELSE IF \E i \in DOMAIN receipts : Receipt(i) = candidate_receipt(b, o, c, events)
    THEN "stored"
    ELSE IF \E e \in events : claim_conflicts(b, e) THEN "conflict"
    ELSE "appended"

append(b, o, c, events) ==
    LET r == candidate_receipt(b, o, c, events)
    IN  /\ observations' = observations \cup {o} /\ coverages' = coverages \cup {c}
        /\ claims' = [id \in DOMAIN claims \cup {e.id : e \in events} |->
                         IF id \in DOMAIN claims THEN claims[id]
                         ELSE [binding |-> b, event |-> CHOOSE e \in events : e.id = id]]
        /\ receipts' = Append(receipts, [state |-> r.state, raw |-> bytes(r)])
        /\ UNCHANGED <<journal, tampered, account>>

record_reconciliation(b, o, c, events) ==
    /\ journal = "open" /\ answer(b, o, c, events) = "appended"
    /\ append(b, o, c, events)
    /\ bound' = bound \cup {b}

(* ensure_binding on its own; an exact replay changes nothing.             *)
ensure_binding(b) ==
    /\ journal = "open" /\ binding_valid(b) /\ ~binding_conflicts(b)
    /\ bound' = bound \cup {b}
    /\ UNCHANGED <<observations, coverages, claims, receipts, journal, tampered, account>>

-----------------------------------------------------------------------------
(* validate_stored_state: every row parses, its columns are those of its   *)
(* bytes, and every receipt is what the reducer gives now from its stored  *)
(* inputs, made sticky by the manual receipts before it; nothing follows   *)
(* a flat attestation and no input is orphaned.                            *)
derived(i) ==
    LET r == Receipt(i)
        d == reconcile_option_events(r.binding, r.observation, r.coverage, r.events)
        prior == \E j \in 1..(i - 1) :
                    /\ account_key(Receipt(j).binding) = account_key(r.binding)
                    /\ Receipt(j).state = "MANUAL"
    IN  IF d # NoArtifact /\ prior THEN sticky(d) ELSE d

row_valid(i) ==
    LET r == Receipt(i)
    IN  /\ r # NoArtifact /\ r.state = receipts[i].state
        /\ r.binding \in bound /\ r.observation \in observations /\ r.coverage \in coverages
        /\ \A e \in r.events :
              e.id \in DOMAIN claims /\ claims[e.id] = [binding |-> r.binding, event |-> e]
        /\ derived(i) = r
        /\ \A j \in 1..(i - 1) :
              ~(Receipt(j).binding = r.binding /\ Receipt(j).state = "EXPIRY_FLAT_ATTESTED")

no_orphans ==
    LET rs == {Receipt(i) : i \in DOMAIN receipts}
    IN  /\ observations = {r.observation : r \in rs}
        /\ coverages = {r.coverage : r \in rs}
        /\ DOMAIN claims = UNION {{e.id : e \in r.events} : r \in rs}

validate_stored_state == (\A i \in DOMAIN receipts : row_valid(i)) /\ no_orphans

close == journal = "open" /\ journal' = "closed" /\ UNCHANGED <<tables, tampered, account>>

reopen ==
    /\ journal = "closed"
    /\ journal' = IF validate_stored_state THEN "open" ELSE "refused"
    /\ UNCHANGED <<tables, tampered, account>>

(* A fault: while closed, one receipt's state is rewritten in its column,  *)
(* in its bytes, or in both under a new digest.                            *)
tamper ==
    /\ MayTamper /\ journal = "closed" /\ ~tampered /\ tampered' = TRUE
    /\ \E i \in DOMAIN receipts, s \in {"ACTIVE_UNCHANGED", "MANUAL", "EXPIRY_FLAT_ATTESTED"} :
          LET forged == [receipts[i].raw.value EXCEPT !.state = s] IN
          /\ s # receipts[i].state
          /\ \E row \in {[receipts[i] EXCEPT !.state = s],
                         [receipts[i] EXCEPT !.raw.value = forged],
                         [state |-> s, raw |-> bytes(forged)]} :
                receipts' = [receipts EXCEPT ![i] = row]
    /\ UNCHANGED <<bound, observations, coverages, claims, journal, account>>

-----------------------------------------------------------------------------
(* External: the account.                                                  *)
tick == now < LastDay /\ now' = now + 1 /\ UNCHANGED <<tables, journal, tampered, positions, reported>>

happen(h, delay) ==
    /\ h.id \notin {e.id : e \in reported}
    /\ h.kind = "EXPIRY" => \E b \in Bindings : h.symbol \in {b.long, b.short} /\ now = b.session_date
    /\ h.kind # "EXERCISE_REJECTED_BUYING_POWER" => positions[h.symbol] # 0
    /\ reported' = reported \cup
          {[id |-> h.id, kind |-> h.kind, symbol |-> h.symbol, contracts |-> 1,
            effective |-> now, at |-> now + delay, shares |-> h.shares, cash |-> h.cash,
            underlying |-> h.underlying, authority |-> h.authority,
            status |-> h.status, replacement |-> h.replacement]}
    /\ positions' = [positions EXCEPT
          ![h.symbol] = IF h.kind = "EXERCISE_REJECTED_BUYING_POWER" THEN @ ELSE 0,
          ![h.underlying] = @ + h.shares]
    /\ UNCHANGED <<tables, journal, tampered, now>>

(* The host: it observes the account now and covers activities up to now   *)
(* or up to yesterday.                                                     *)
visible(b) == {e \in reported : e.at <= now}
about(b, events) == {e \in events : e.symbol \in {b.long, b.short}}

reconcile(b) ==
    /\ Len(receipts) < MaxReceipts
    /\ \E complete \in BOOLEAN, start \in {b.activated, now}, end \in {now - 1, now} :
          \E events \in SUBSET {e \in visible(b) : e.at \in start..end} :
             LET o == observation(b.authority, now, positions) IN
             /\ complete => events = about(b, {e \in visible(b) : e.at \in start..end})
             /\ record_reconciliation(b, o,
                    coverage(b.authority, start, end, now, complete, events), events)

Next ==
    \/ \E b \in Bindings : reconcile(b) \/ ensure_binding(b)
    \/ close \/ reopen \/ tamper \/ tick
    \/ \E h \in Happenings, delay \in 0..MaxDelay : happen(h, delay)

JournalSpec == Init /\ [][Next]_journal_vars

-----------------------------------------------------------------------------
(* record_reconciliation and ensure_binding: however reconciliations of    *)
(* several lifecycles interleave, an activity of the account is evidence   *)
(* for one lifecycle only, with one content, and a lifecycle keeps the     *)
(* terms it was first bound to.                                            *)
OneOwner ==
    /\ \A f, g \in bound : lifecycle(f) = lifecycle(g) => f = g
    /\ ~tampered =>
          \A i, j \in DOMAIN receipts :
             \A e \in Receipt(i).events, f \in Receipt(j).events :
                e.id = f.id => e = f /\ Receipt(i).binding = Receipt(j).binding

(* record_reconciliation: a manual receipt for one lifecycle makes every   *)
(* later one of the same session and account manual, also one whose own    *)
(* evidence is clean, so no lifecycle is attested flat after it.           *)
ManualSticks ==
    ~tampered =>
        \A i, j \in DOMAIN receipts :
            (/\ i < j /\ Receipt(i).state = "MANUAL"
             /\ account_key(Receipt(i).binding) = account_key(Receipt(j).binding))
            => Receipt(j).state = "MANUAL"

(* record_reconciliation: a lifecycle's receipts are in the order of what  *)
(* they observed, whatever order reconciliations arrive in, and none       *)
(* follows the flat attestation.                                           *)
ObservationsAdvance ==
    ~tampered =>
        \A i, j \in DOMAIN receipts :
            (i < j /\ Receipt(i).binding = Receipt(j).binding)
            => Receipt(i).at < Receipt(j).at /\ Receipt(i).state # "EXPIRY_FLAT_ATTESTED"

(* reconcile_option_events: a flat attestation is true of the account:     *)
(* both legs expired and nothing else ever happened to them, activities    *)
(* that were still unreported at the session close included.               *)
AttestedIsTrue ==
    ~tampered =>
        \A i \in DOMAIN receipts :
            Receipt(i).state = "EXPIRY_FLAT_ATTESTED" =>
                LET b == Receipt(i).binding IN
                /\ \A e \in about(b, reported) : e.kind = "EXPIRY"
                /\ {e.symbol : e \in about(b, reported)} = {b.long, b.short}

(* validate_stored_state: a journal this code wrote is accepted at every   *)
(* later start: each stored receipt is derived again from its inputs and   *)
(* the receipts before it.                                                 *)
RestartAccepts == ~tampered => validate_stored_state

(* validate_stored_state: a journal in which one receipt's state was       *)
(* rewritten, its digest recomputed or not, is not opened again.           *)
ForgeryRefused == (tampered /\ journal # "closed") => journal = "refused"
=============================================================================
