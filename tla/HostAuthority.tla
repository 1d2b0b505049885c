---------------------------- MODULE HostAuthority ----------------------------
(***************************************************************************)
(* The append-only release log of contracts/strategy_release.py.  promote  *)
(* runs in one BEGIN IMMEDIATE transaction; load_exact and revoke read row *)
(* by row outside of any transaction, so processes interleave between      *)
(* their statements (Python's sqlite3 opens a transaction only at the      *)
(* INSERT).  A package is what one installation of the program carries: a  *)
(* process evaluates a release against its own package.  A digest is the   *)
(* injective tuple of what it covers.                                      *)
(*                                                                         *)
(* validate_autonomous_host_authority (runtime/autonomous_host.py): a      *)
(* command invocation parses the release, the arm record and the session   *)
(* arm, loads the release from the log while others promote and revoke,    *)
(* and then requires the three and the identities it observes in its own   *)
(* process to agree.  The path checks, which touch no state, are left out. *)
(*                                                                         *)
(* The session arm of runtime/autonomous.py: one trading date, its scan    *)
(* windows, and the identities of opportunities bound to it.  An instant   *)
(* is a number of ticks; date and clock split it the way the New York      *)
(* calendar does (one offset, no daylight-saving change inside a session   *)
(* date).  Bytes carry the payload, the digest written beside it and       *)
(* whether the encoding is the canonical one.                              *)
(***************************************************************************)
EXTENDS Naturals, Sequences, FiniteSets

CONSTANTS
    Procs,          \* processes with the log open
    Releases,       \* releases in circulation
    Packages,       \* [build, ids, contracts, route, latency] of the installations
    Revocations,    \* (reason, operator, time) an operator may record
    NoRelease       \* no predecessor; also the answer of a refused load

VARIABLES
    releases,       \* strategy_releases, by sequence
    revocations,    \* strategy_release_revocations, by release digest
    job,            \* the call each process is executing
    witnessed,      \* history: the release a call names was current during it
    revoked         \* history: <<digest, revocation>> pairs revoke() accepted

log_vars == <<releases, revocations, job, witnessed, revoked>>

release_sha256(r) == <<"release", r>>
Digests == {release_sha256(r) : r \in Releases}

strategy_release_bytes(r) == [payload |-> r, sha |-> release_sha256(r), canonical |-> TRUE]

(* The payload's own checks: PAPER mode, identifiers, digests, version.    *)
release_payload_valid(r) == r.mode = "PAPER" /\ r.version >= 1

parse_strategy_release(raw) ==
    /\ release_payload_valid(raw.payload)
    /\ raw.sha = release_sha256(raw.payload)
    /\ raw = strategy_release_bytes(raw.payload)

(* The first gate that fails, in the order of the code.                    *)
evaluate_release(r, k) ==
    LET gates == <<
            <<release_payload_valid(r), "INVALID_REFERENCE">>,
            <<r.ids = k.ids, "SEMANTIC_ID_MISMATCH">>,
            <<r.lanes, "LANE_BINDINGS_MISMATCH">>,
            <<k.route, "REASONER_ROUTE_INELIGIBLE">>,
            <<k.latency, "LATENCY_PROFILE_INELIGIBLE">>,
            <<r.evidence, "EVIDENCE_UNQUALIFIED">>,
            <<r.security, "SECURITY_FAILED">>,
            <<FALSE, "PROMOTED">> >>
        failed == {g \in DOMAIN gates : ~gates[g][1]}
    IN  gates[CHOOSE g \in failed : \A h \in failed : g <= h][2]

-----------------------------------------------------------------------------
logged(sha) == \E i \in DOMAIN releases : releases[i].sha = sha
superseded(sha) == \E i \in DOMAIN releases : releases[i].supersedes = sha
current(sha) == logged(sha) /\ sha \notin DOMAIN revocations /\ ~superseded(sha)

Idle == [pc |-> "idle"]

ReleaseLogInit ==
    /\ releases = <<>> /\ revocations = <<>>
    /\ job = [p \in Procs |-> Idle]
    /\ witnessed = [p \in Procs |-> FALSE] /\ revoked = {}

at(p, pc) == job[p].pc = pc
goto(p, locals) == job' = [job EXCEPT ![p] = locals]

last_sha == IF releases = <<>> THEN NoRelease ELSE releases[Len(releases)].sha

(* A slip: any logged release may be named as the predecessor.             *)
promote_any_predecessor(p, r, k, decision) ==
    /\ at(p, "idle")
    /\ decision = evaluate_release(r, k) /\ decision = "PROMOTED"
    /\ ~logged(release_sha256(r))
    /\ r.supersedes \in {NoRelease} \cup {releases[i].sha : i \in DOMAIN releases}
    /\ releases' = Append(releases, [sha |-> release_sha256(r),
                       raw |-> strategy_release_bytes(r), supersedes |-> r.supersedes])
    /\ UNCHANGED <<revocations, job, revoked>>

(* The decision handed in is recomputed.  An exact replay answers without  *)
(* writing, as does every refusal.                                         *)
promote(p, r, k, decision) ==
    /\ at(p, "idle")
    /\ decision = evaluate_release(r, k) /\ decision = "PROMOTED"
    /\ ~logged(release_sha256(r))
    /\ r.supersedes = last_sha
    /\ releases' = Append(releases, [sha |-> release_sha256(r),
                       raw |-> strategy_release_bytes(r), supersedes |-> r.supersedes])
    /\ UNCHANGED <<revocations, job, revoked>>

-----------------------------------------------------------------------------
(* load_exact: three SELECTs, then the row is parsed                       *)

load_begin(p, sha, why) ==
    /\ at(p, "idle")
    /\ goto(p, [pc |-> "row", sha |-> sha, why |-> why])
    /\ UNCHANGED <<releases, revocations, revoked>>

refuse(p) == goto(p, Idle)

load_row(p) ==
    /\ at(p, "row")
    /\ IF logged(job[p].sha) THEN goto(p, [job[p] EXCEPT !.pc = "revocation"]) ELSE refuse(p)
    /\ UNCHANGED <<releases, revocations, revoked>>

load_revocation(p) ==
    /\ at(p, "revocation")
    /\ IF job[p].sha \in DOMAIN revocations THEN refuse(p)
       ELSE goto(p, [job[p] EXCEPT !.pc = "superseded"])
    /\ UNCHANGED <<releases, revocations, revoked>>

(* The stored row then parses: its bytes were written by promote and the   *)
(* triggers refuse every UPDATE.                                           *)
load_superseded(p) ==
    /\ at(p, "superseded")
    /\ IF superseded(job[p].sha) THEN refuse(p)
       ELSE goto(p, [job[p] EXCEPT !.pc = "loaded"])
    /\ UNCHANGED <<releases, revocations, revoked>>

load_return(p) ==
    /\ at(p, "loaded") /\ job[p].why = <<"load">>
    /\ goto(p, Idle) /\ UNCHANGED <<releases, revocations, revoked>>

-----------------------------------------------------------------------------
(* revoke: two SELECTs and an INSERT under the PRIMARY KEY                 *)

revoke_begin(p, sha, v) ==
    /\ at(p, "idle") /\ logged(sha)
    /\ goto(p, [pc |-> "existing", sha |-> sha, why |-> <<v>>])
    /\ UNCHANGED <<releases, revocations, revoked>>

revoke_existing(p) ==
    /\ at(p, "existing")
    /\ IF job[p].sha \in DOMAIN revocations
       THEN /\ goto(p, Idle)
            /\ revoked' = revoked \cup
                 {<<job[p].sha, v>> : v \in {job[p].why[1]} \cap {revocations[job[p].sha]}}
       ELSE goto(p, [job[p] EXCEPT !.pc = "insert"]) /\ UNCHANGED revoked
    /\ UNCHANGED <<releases, revocations>>

record_revocation(sha, v) ==
    revocations' = [d \in DOMAIN revocations \cup {sha} |-> IF d = sha THEN v ELSE revocations[d]]

(* A row that appeared since the SELECT makes the INSERT fail.             *)
revoke_insert(p) ==
    /\ at(p, "insert")
    /\ IF job[p].sha \in DOMAIN revocations THEN UNCHANGED <<revocations, revoked>>
       ELSE /\ record_revocation(job[p].sha, job[p].why[1])
            /\ revoked' = revoked \cup {<<job[p].sha, job[p].why[1]>>}
    /\ goto(p, Idle) /\ UNCHANGED releases

-----------------------------------------------------------------------------
(* The history witnessed follows every step: a call in progress remembers  *)
(* whether its release was current at some instant since it began.         *)
witness ==
    witnessed' = [p \in Procs |->
        /\ job'[p] # Idle
        /\ (witnessed[p] /\ job[p] # Idle) \/ current(job[p].sha)']

LogStep(p) ==
    \/ \E r \in Releases, k, d \in Packages : promote(p, r, k, evaluate_release(r, d))
    \/ \E sha \in Digests : load_begin(p, sha, <<"load">>)
    \/ load_row(p) \/ load_revocation(p) \/ load_superseded(p) \/ load_return(p)
    \/ \E sha \in Digests, v \in Revocations : revoke_begin(p, sha, v)
    \/ revoke_existing(p) \/ revoke_insert(p)

-----------------------------------------------------------------------------
(* However promotions from several installations interleave, the log is    *)
(* one chain, so at most one release can be current: there is no "latest"  *)
(* to choose (promote's predecessor check).                                *)
OneCurrentRelease ==
    /\ \A i \in DOMAIN releases :
          releases[i].supersedes = IF i = 1 THEN NoRelease ELSE releases[i-1].sha
    /\ \A a, b \in Digests : current(a) /\ current(b) => a = b

(* load_exact reads three times without a transaction, yet a release it    *)
(* returns was logged, unrevoked and unsuperseded at one and the same      *)
(* instant between the call and its return.                                *)
LoadedWasCurrent == \A p \in Procs : at(p, "loaded") => witnessed[p]

(* A revocation an operator was told is recorded stays recorded, with that *)
(* reason, operator and time, whichever other revocations raced with it.   *)
RevocationStands ==
    \A e \in revoked : e[1] \in DOMAIN revocations /\ revocations[e[1]] = e[2]
-----------------------------------------------------------------------------
CONSTANTS
    Day,            \* ticks in a date
    DecisionTimes,  \* owner policy: clocks of the scans, in order
    HardFlatTime,   \* owner policy: clock of the hard-flat deadline
    CandidateIds,   \* strategy policy: the lanes, in order
    Inputs          \* [release, record, arm : bytes; sha, build, revision,
                    \*  capability, fingerprint, sources, ledger, process]

VARIABLE validated  \* history: [input, package, witnessed] of every acceptance

authority_vars == <<log_vars, validated>>
-----------------------------------------------------------------------------
(* The session arm                                                         *)

ArmClocks ==
    /\ DecisionTimes # <<>> /\ HardFlatTime < Day
    /\ \A i \in DOMAIN DecisionTimes : DecisionTimes[i] < HardFlatTime
    /\ \A i, j \in DOMAIN DecisionTimes : i < j => DecisionTimes[i] < DecisionTimes[j]

(* A build's digest covers the contracts its package carries, and an arm   *)
(* starts at an instant.                                                   *)
AuthorityConstants ==
    /\ ArmClocks
    /\ Day \in Nat \ {0} /\ HardFlatTime \in Nat /\ DecisionTimes \in Seq(Nat)
    /\ \A k, l \in Packages : k.build = l.build => k.contracts = l.contracts
    /\ \A x \in Inputs : x.arm.payload.starts \in Nat

date(t) == t \div Day
clock(t) == t % Day
combine(d, c) == d * Day + c

window_sha256(w) == <<"window", w>>
arm_sha256(a) == <<"arm", a>>

for_trading_date(session, d, build, fingerprint, contracts) ==
    [session |-> session, build |-> build, fingerprint |-> fingerprint,
     contracts |-> contracts, mode |-> "PAPER",
     starts |-> combine(d, DecisionTimes[1]), ends |-> combine(d, HardFlatTime),
     hard_flat |-> combine(d, HardFlatTime),
     windows |-> [i \in DOMAIN DecisionTimes |->
        [id |-> DecisionTimes[i], opens |-> combine(d, DecisionTimes[i]),
         closes |-> combine(d, IF i < Len(DecisionTimes) THEN DecisionTimes[i+1] ELSE HardFlatTime),
         candidates |-> CandidateIds]]]

validate_window_shape(w) == w.closes > w.opens /\ w.candidates # <<>>

(* Sorting by (opening, id) must leave the windows where they are.         *)
sorted_windows(ws) ==
    \A i, j \in DOMAIN ws : i < j =>
        ws[i].opens < ws[j].opens \/ (ws[i].opens = ws[j].opens /\ ws[i].id <= ws[j].id)

validate_arm(a, contracts) ==
    /\ a.mode = "PAPER"
    /\ a.starts <= a.hard_flat /\ a.hard_flat <= a.ends
    /\ a.windows # <<>>
    /\ a.contracts = contracts
    /\ sorted_windows(a.windows)
    /\ \A i, j \in DOMAIN a.windows : a.windows[i].id = a.windows[j].id => i = j
    /\ Len(a.windows) = Len(DecisionTimes)
    /\ \A i \in DOMAIN a.windows : LET w == a.windows[i] IN
          /\ validate_window_shape(w)
          /\ w.opens >= a.starts /\ w.closes <= a.hard_flat
          /\ date(w.opens) = date(a.windows[1].opens)
          /\ date(w.closes) = date(a.windows[1].opens)
          /\ w.candidates = CandidateIds
          /\ clock(w.opens) = DecisionTimes[i]
    /\ clock(a.hard_flat) = HardFlatTime

autonomous_session_arm_bytes(a) ==
    [payload |-> a, sha |-> arm_sha256(a), canonical |-> TRUE]

(* What a parser of this contract accepts: a valid payload, its own        *)
(* digest, and no second spelling of it.                                   *)
parse_autonomous_session_arm(raw, contracts) ==
    /\ validate_arm(raw.payload, contracts)
    /\ raw.sha = arm_sha256(raw.payload)
    /\ raw = autonomous_session_arm_bytes(raw.payload)

(* The windows due at t, as the coordinator selects them.                  *)
due(a, t) == {i \in DOMAIN a.windows : a.windows[i].opens <= t /\ t < a.windows[i].closes}

-----------------------------------------------------------------------------
(* Opportunities of an arm                                                 *)

window_for_arm(a, id) ==
    {a.windows[i] : i \in {j \in DOMAIN a.windows : a.windows[j].id = id}}

for_window(a, w, opportunity, candidate) ==
    [session |-> a.session, opportunity |-> opportunity, window |-> w.id,
     window_sha |-> window_sha256(w), candidate |-> candidate, contracts |-> a.contracts]

validate_opportunity(o, a) ==
    /\ o.session = a.session
    /\ Cardinality(window_for_arm(a, o.window)) = 1
    /\ \E w \in window_for_arm(a, o.window) :
          /\ o.window_sha = window_sha256(w)
          /\ \E c \in DOMAIN w.candidates : o.candidate = w.candidates[c]
    /\ o.contracts = a.contracts
-----------------------------------------------------------------------------
(* The authority of an invocation                                          *)

record_sha256(a) == <<"record", a>>
arm_record_bytes(a) == [payload |-> a, sha |-> record_sha256(a), canonical |-> TRUE]

(* _arm_payload: both authorities retained, sources sorted, a real span.   *)
arm_record_valid(a) ==
    /\ a.flatten /\ a.recovery
    /\ a.sources # <<>>
    /\ \A i, j \in DOMAIN a.sources : i < j => a.sources[i] < a.sources[j]
    /\ a.expires > a.starts

parse_arm_record(raw) ==
    /\ arm_record_valid(raw.payload)
    /\ raw.sha = record_sha256(raw.payload)
    /\ raw = arm_record_bytes(raw.payload)

AuthorityInit == ReleaseLogInit /\ validated = {}

(* Everything that precedes the log: parsing and the package's own gates.  *)
validate_begin(p, x, k) ==
    /\ at(p, "idle")
    /\ x.build = k.build
    /\ parse_strategy_release(x.release)
    /\ parse_arm_record(x.record)
    /\ parse_autonomous_session_arm(x.arm, k.contracts)
    /\ evaluate_release(x.release.payload, k) = "PROMOTED"
    /\ goto(p, [pc |-> "row", sha |-> x.sha, why |-> <<x, k>>])
    /\ UNCHANGED <<releases, revocations, revoked, validated>>

rebuilt(x, k) ==
    LET a == x.arm.payload
    IN  for_trading_date(a.session, date(a.starts), x.build, x.fingerprint, k.contracts)

bound(x, k) ==
    LET r == x.release.payload  c == x.record.payload  a == x.arm.payload
    IN  /\ release_sha256(r) = x.sha /\ c.release = x.sha
        /\ r.build = x.build /\ a.build = x.build
        /\ r.revision = x.revision
        /\ c.capability = x.capability /\ a.fingerprint = x.fingerprint
        /\ c.sources = x.sources /\ c.ledger = x.ledger /\ c.process = x.process
        /\ c.id = a.session
        /\ c.starts = a.starts /\ c.expires = a.hard_flat
        /\ autonomous_session_arm_bytes(rebuilt(x, k)) = x.arm

validate_end(p) ==
    /\ at(p, "loaded") /\ Len(job[p].why) = 2
    /\ LET x == job[p].why[1]  k == job[p].why[2]
       IN  validated' = validated \cup
             {[input |-> x, package |-> k, logged |-> sha] :
                 sha \in IF strategy_release_bytes(job[p].sha[2]) = x.release /\ bound(x, k)
                         THEN {job[p].sha} ELSE {}}
    /\ goto(p, Idle) /\ UNCHANGED <<releases, revocations, revoked>>

AuthorityNext ==
    /\ \E p \in Procs :
          \/ LogStep(p) /\ UNCHANGED validated
          \/ \E x \in Inputs, k \in Packages : validate_begin(p, x, k)
          \/ validate_end(p)
    /\ witness

AuthoritySpec == AuthorityInit /\ [][AuthorityNext]_authority_vars

-----------------------------------------------------------------------------
(* The bytes a host accepted are those of the log entry it loaded, and     *)
(* that entry was promotable under the very package the host runs.         *)
AcceptedIsLogged ==
    \A v \in validated :
        /\ v.input.release = strategy_release_bytes(v.logged[2])
        /\ v.logged[2].build = v.package.build
        /\ evaluate_release(v.logged[2], v.package) = "PROMOTED"
        /\ v.input.record.payload.release = v.logged

(* Hosts accepted for the same session and date under one release and      *)
(* account hold the same session arm, byte for byte, so the session store  *)
(* never sees two arms for it: the arm is rebuilt, not trusted.            *)
OneArmPerSession ==
    \A v, w \in validated :
        LET a == v.input.arm.payload  b == w.input.arm.payload
        IN  ( /\ v.logged = w.logged /\ a.session = b.session
              /\ a.fingerprint = b.fingerprint /\ date(a.starts) = date(b.starts) )
            => v.input.arm = w.input.arm

(* An accepted arm gives every instant from its start to the hard-flat     *)
(* deadline exactly one due window, and none outside it.                   *)
WindowsTile ==
    \A v \in validated : LET a == v.input.arm.payload IN
        \A t \in 0..(a.hard_flat + Day) :
            Cardinality(due(a, t)) = IF a.starts <= t /\ t < a.hard_flat THEN 1 ELSE 0

(* An opportunity bound to a window of one accepted arm is valid under     *)
(* another only if that arm has the identical window: work named for one   *)
(* trading date is never taken up on another date of the same session id.  *)
NoReplayAcrossDates ==
    \A v, w \in validated :
        LET a == v.input.arm.payload  b == w.input.arm.payload
        IN  \A i \in DOMAIN a.windows :
                LET o == for_window(a, a.windows[i], "opportunity", a.windows[i].candidates[1])
                IN  validate_opportunity(o, b) => date(a.starts) = date(b.starts)

(* AuthorityIsBound: at most one release is current, a loaded one was      *)
(* current at some instant of the call, a revocation stands, an accepted   *)
(* host's release is the log's, and its arm the one its session date       *)
(* determines.                                                             *)
AuthorityIsBound ==
    /\ OneCurrentRelease /\ LoadedWasCurrent /\ RevocationStands
    /\ AcceptedIsLogged /\ OneArmPerSession /\ WindowsTile /\ NoReplayAcrossDates
=============================================================================
