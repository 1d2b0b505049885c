-------------------------- MODULE HostAuthorityProofs --------------------------
(***************************************************************************)
(* What the release log and the authority of an invocation promise for any *)
(* number of processes, releases, packages and inputs.                     *)
(*                                                                         *)
(* The log is a chain, so its last row alone can be current.  A load that  *)
(* found its row unrevoked has either seen its release current or will     *)
(* find it superseded: that is what its later points rely on.  What a host *)
(* accepted was rebuilt from the release, the account and the date, and    *)
(* the properties of accepted arms follow from the rebuilt arm alone.      *)
(***************************************************************************)
EXTENDS HostAuthority, FiniteSetTheorems, WellFoundedInduction, TLAPS

Rows ==
    {[sha |-> release_sha256(r), raw |-> strategy_release_bytes(r), supersedes |-> r.supersedes] :
        r \in Releases}

Chain ==
    \A i \in DOMAIN releases :
        releases[i].supersedes = IF i = 1 THEN NoRelease ELSE releases[i-1].sha

Points == {"row", "revocation", "superseded", "loaded", "existing", "insert"}

(* A call's locals.                                                        *)
JobShape(j) == j = Idle \/ (j.pc \in Points /\ j = [pc |-> j.pc, sha |-> j.sha, why |-> j.why])

(* What validate_begin established for the call.                           *)
Admitted(x, k, sha) ==
    /\ x \in Inputs /\ k \in Packages
    /\ x.build = k.build /\ sha = x.sha
    /\ parse_autonomous_session_arm(x.arm, k.contracts)
    /\ evaluate_release(x.release.payload, k) = "PROMOTED"

(* What the later points of a call rely on.                                *)
JobOK(p) ==
    LET j == job[p]
    IN  /\ JobShape(j)
        /\ j.pc = "revocation" => logged(j.sha)
        /\ j.pc = "superseded" => logged(j.sha) /\ (superseded(j.sha) \/ witnessed[p])
        /\ j.pc = "loaded" => witnessed[p]
        /\ j # Idle /\ Len(j.why) = 2 => Admitted(j.why[1], j.why[2], j.sha)

JobsOK == job = [p \in Procs |-> job[p]] /\ \A p \in Procs : JobOK(p)

(* What validate_end required of an acceptance.                            *)
Accepted(v) ==
    /\ Admitted(v.input, v.package, v.logged)
    /\ strategy_release_bytes(v.logged[2]) = v.input.release
    /\ bound(v.input, v.package)

AuthorityInv ==
    /\ releases \in Seq(Rows)
    /\ Chain
    /\ JobsOK
    /\ RevocationStands
    /\ \A v \in validated : Accepted(v)

-----------------------------------------------------------------------------
(* Steps of a call                                                         *)

(* One call moves.                                                         *)
LEMMA GotoMoves ==
    ASSUME JobsOK, NEW p \in Procs, NEW j, goto(p, j)
    PROVE  /\ job' = [q \in Procs |-> job'[q]]
           /\ job'[p] = j
           /\ \A q \in Procs : q # p => job'[q] = job[q]
BY DEF JobsOK, goto

(* The log grows: what was logged or superseded stays so.                  *)
LogGrows ==
    /\ \A sha : logged(sha) => logged(sha)'
    /\ \A sha : superseded(sha) => superseded(sha)'

(* A step that appends no release leaves what was logged and superseded.   *)
LEMMA LogStays ==
    ASSUME UNCHANGED releases
    PROVE  LogGrows
BY Zenon DEF LogGrows, logged, superseded

(* A call that does not move keeps what it relies on.                      *)
LEMMA OthersOK ==
    ASSUME NEW q \in Procs, JobOK(q), job'[q] = job[q], LogGrows, witness
    PROVE  JobOK(q)'
<1>1. job[q] # Idle /\ witnessed[q] => witnessed'[q]
  BY DEF witness
<1>2. Idle.pc \notin {"superseded", "loaded"}
  BY DEF Idle
<1> QED
  BY Zenon, <1>1, <1>2 DEF JobOK, LogGrows

(* An idle process relies on nothing.                                      *)
LEMMA IdleOK ==
    ASSUME NEW p \in Procs, job'[p] = Idle
    PROVE  JobOK(p)'
BY DEF JobOK, JobShape, Idle

(* A call that moves to the point pc keeps its digest and its reason.      *)
LEMMA PointMoves ==
    ASSUME NEW p \in Procs, JobOK(p), job[p] # Idle, NEW pc \in Points,
           job'[p] = [job[p] EXCEPT !.pc = pc]
    PROVE  /\ JobShape(job[p])' /\ job'[p] # Idle
           /\ job'[p].pc = pc /\ job'[p].sha = job[p].sha /\ job'[p].why = job[p].why
<1>1. job[p] = [pc |-> job[p].pc, sha |-> job[p].sha, why |-> job[p].why]
  BY Zenon DEF JobOK, JobShape
<1>2. /\ job'[p] = [pc |-> pc, sha |-> job[p].sha, why |-> job[p].why]
      /\ job'[p].pc = pc /\ job'[p].sha = job[p].sha /\ job'[p].why = job[p].why
  BY <1>1
<1>3. pc # "idle"
  BY DEF Points
<1> QED
  BY <1>2, <1>3 DEF JobShape, Idle

(* One call moves, the log stays.                                          *)
LEMMA OneMoves ==
    ASSUME JobsOK, NEW p \in Procs, NEW j, goto(p, j), LogGrows, witness, JobOK(p)'
    PROVE  JobsOK'
BY Zenon, GotoMoves, OthersOK DEF JobsOK

-----------------------------------------------------------------------------
(* The actions on the calls                                                *)

(* A call begins.                                                          *)
LEMMA BeginOK ==
    ASSUME JobsOK, UNCHANGED releases, witness, NEW p \in Procs, NEW sha, NEW why,
           NEW pc \in {"row", "existing"},
           goto(p, [pc |-> pc, sha |-> sha, why |-> why]),
           Len(why) = 2 => Admitted(why[1], why[2], sha)
    PROVE  JobsOK'
<1>1. job'[p] = [pc |-> pc, sha |-> sha, why |-> why]
  BY Zenon, GotoMoves
<1>2. JobOK(p)'
  BY <1>1 DEF JobOK, JobShape, Points
<1> QED
  BY Zenon, <1>2, LogStays, OneMoves

(* A call ends.                                                            *)
LEMMA EndOK ==
    ASSUME JobsOK, UNCHANGED releases, witness, NEW p \in Procs, goto(p, Idle)
    PROVE  JobsOK'
BY Zenon, GotoMoves, IdleOK, LogStays, OneMoves

(* A call in progress has its digest's current release witnessed.          *)
LEMMA Witnessed ==
    ASSUME witness, NEW p \in Procs, job'[p] # Idle,
           \/ witnessed[p] /\ job[p] # Idle
           \/ UNCHANGED <<releases, revocations>> /\ current(job'[p].sha)
    PROVE  witnessed'[p]
BY Zenon DEF witness, current, logged, superseded

(* A load reads the row of a release that is logged, or is refused.        *)
LEMMA LoadRowOK ==
    ASSUME JobsOK, witness, NEW p \in Procs, load_row(p)
    PROVE  JobsOK'
<1>1. CASE ~logged(job[p].sha)
  BY Zenon, <1>1, EndOK DEF load_row, refuse
<1>2. CASE logged(job[p].sha)
  <2>1. /\ goto(p, [job[p] EXCEPT !.pc = "revocation"]) /\ UNCHANGED releases
        /\ JobOK(p) /\ job[p] # Idle /\ "revocation" \in Points
    BY <1>2 DEF load_row, at, Idle, JobsOK, Points
  <2>2. job'[p] = [job[p] EXCEPT !.pc = "revocation"]
    BY Zenon, <2>1, GotoMoves
  <2>3. /\ JobShape(job[p])' /\ job'[p].pc = "revocation" /\ job'[p].sha = job[p].sha
        /\ job'[p].why = job[p].why
    BY Zenon, <2>1, <2>2, PointMoves
  <2>4. logged(job[p].sha)'
    BY Zenon, <1>2, <2>1, <2>3 DEF logged
  <2>5. JobOK(p)'
    BY <2>1, <2>3, <2>4 DEF JobOK
  <2> QED
    BY Zenon, <2>1, <2>5, LogStays, OneMoves
<1> QED
  BY Zenon, <1>1, <1>2

(* The row was there and is not revoked: either its release is current at  *)
(* this instant, or another already names it as its predecessor.           *)
LEMMA LoadRevocationOK ==
    ASSUME JobsOK, witness, NEW p \in Procs, load_revocation(p)
    PROVE  JobsOK'
<1>1. CASE job[p].sha \in DOMAIN revocations
  BY Zenon, <1>1, EndOK DEF load_revocation, refuse
<1>2. CASE job[p].sha \notin DOMAIN revocations
  <2>1. /\ goto(p, [job[p] EXCEPT !.pc = "superseded"]) /\ UNCHANGED <<releases, revocations>>
        /\ JobOK(p) /\ job[p] # Idle /\ "superseded" \in Points /\ job[p].pc = "revocation"
    BY <1>2 DEF load_revocation, at, Idle, JobsOK, Points
  <2>2. job'[p] = [job[p] EXCEPT !.pc = "superseded"]
    BY Zenon, <2>1, GotoMoves
  <2>3. /\ JobShape(job[p])' /\ job'[p].pc = "superseded" /\ job'[p].sha = job[p].sha
        /\ job'[p].why = job[p].why /\ job'[p] # Idle
    BY Zenon, <2>1, <2>2, PointMoves
  <2>4. logged(job[p].sha)
    BY Zenon, <2>1 DEF JobOK
  <2>5. logged(job[p].sha)'
    BY Zenon, <2>1, <2>3, <2>4 DEF logged
  <2>6. superseded(job[p].sha)' \/ witnessed'[p]
    <3>1. CASE superseded(job[p].sha)
      BY Zenon, <2>1, <2>3, <3>1 DEF superseded
    <3>2. CASE ~superseded(job[p].sha)
      <4>1. current(job'[p].sha)
        BY Zenon, <1>2, <2>3, <2>4, <3>2 DEF current
      <4> QED
        BY Zenon, <2>1, <2>3, <4>1, Witnessed
    <3> QED
      BY Zenon, <3>1, <3>2
  <2>7. JobOK(p)'
    BY <2>1, <2>3, <2>5, <2>6 DEF JobOK
  <2> QED
    BY Zenon, <2>1, <2>7, LogStays, OneMoves
<1> QED
  BY Zenon, <1>1, <1>2

(* A load that finds its release superseded is refused.                    *)
LEMMA LoadSupersededOK ==
    ASSUME JobsOK, witness, NEW p \in Procs, load_superseded(p)
    PROVE  JobsOK'
<1>1. CASE superseded(job[p].sha)
  BY Zenon, <1>1, EndOK DEF load_superseded, refuse
<1>2. CASE ~superseded(job[p].sha)
  <2>1. /\ goto(p, [job[p] EXCEPT !.pc = "loaded"]) /\ UNCHANGED <<releases, revocations>>
        /\ JobOK(p) /\ job[p] # Idle /\ "loaded" \in Points /\ job[p].pc = "superseded"
    BY <1>2 DEF load_superseded, at, Idle, JobsOK, Points
  <2>2. job'[p] = [job[p] EXCEPT !.pc = "loaded"]
    BY Zenon, <2>1, GotoMoves
  <2>3. /\ JobShape(job[p])' /\ job'[p].pc = "loaded" /\ job'[p].sha = job[p].sha
        /\ job'[p].why = job[p].why /\ job'[p] # Idle
    BY Zenon, <2>1, <2>2, PointMoves
  <2>4. witnessed'[p]
    BY Zenon, <1>2, <2>1, <2>3, Witnessed DEF JobOK
  <2>5. JobOK(p)'
    BY <2>1, <2>3, <2>4 DEF JobOK
  <2> QED
    BY Zenon, <2>1, <2>5, LogStays, OneMoves
<1> QED
  BY Zenon, <1>1, <1>2

(* A revocation finds an earlier one and ends, or goes on to insert its    *)
(* own.                                                                    *)
LEMMA RevokeExistingOK ==
    ASSUME JobsOK, witness, NEW p \in Procs, revoke_existing(p)
    PROVE  JobsOK'
<1>1. CASE job[p].sha \in DOMAIN revocations
  BY Zenon, <1>1, EndOK DEF revoke_existing
<1>2. CASE job[p].sha \notin DOMAIN revocations
  <2>1. /\ goto(p, [job[p] EXCEPT !.pc = "insert"]) /\ UNCHANGED releases
        /\ JobOK(p) /\ job[p] # Idle /\ "insert" \in Points
    BY <1>2 DEF revoke_existing, at, Idle, JobsOK, Points
  <2>2. job'[p] = [job[p] EXCEPT !.pc = "insert"]
    BY Zenon, <2>1, GotoMoves
  <2>3. /\ JobShape(job[p])' /\ job'[p].pc = "insert" /\ job'[p].sha = job[p].sha
        /\ job'[p].why = job[p].why
    BY Zenon, <2>1, <2>2, PointMoves
  <2>4. JobOK(p)'
    BY <2>1, <2>3 DEF JobOK
  <2> QED
    BY Zenon, <2>1, <2>4, LogStays, OneMoves
<1> QED
  BY Zenon, <1>1, <1>2

-----------------------------------------------------------------------------
(* The log                                                                 *)

(* A promotion appends the row whose predecessor is the last one.          *)
LEMMA PromoteOK ==
    ASSUME releases \in Seq(Rows), Chain, JobsOK, witness,
           NEW p \in Procs, NEW r \in Releases, NEW k, NEW decision, promote(p, r, k, decision)
    PROVE  releases' \in Seq(Rows) /\ Chain' /\ JobsOK'
<1> DEFINE e == [sha |-> release_sha256(r), raw |-> strategy_release_bytes(r),
                 supersedes |-> r.supersedes]
<1>1. e \in Rows /\ e.supersedes = last_sha
  BY DEF Rows, promote
<1>2. releases' = Append(releases, e) /\ UNCHANGED job
  BY Zenon DEF promote
<1> HIDE DEF e
<1>3. releases' \in Seq(Rows)
  BY <1>1, <1>2
<1>4. /\ DOMAIN releases = 1..Len(releases) /\ Len(releases) \in Nat
      /\ DOMAIN releases' = 1..(Len(releases) + 1)
      /\ \A i \in 1..Len(releases) : releases'[i] = releases[i]
      /\ releases'[Len(releases) + 1] = e
      /\ Len(releases) = 0 <=> releases = <<>>
  BY <1>2
<1>5. Chain'
  <2> SUFFICES ASSUME NEW i \in DOMAIN releases'
               PROVE  releases'[i].supersedes = IF i = 1 THEN NoRelease ELSE releases'[i-1].sha
    BY Zenon DEF Chain
  <2>1. CASE i \in 1..Len(releases)
    <3>1. releases'[i] = releases[i] /\ (i # 1 => releases'[i-1] = releases[i-1])
      BY <1>4, <2>1
    <3> QED
      BY Zenon, <1>4, <2>1, <3>1 DEF Chain
  <2>2. CASE i = Len(releases) + 1
    <3>1. i = 1 <=> releases = <<>>
      BY <1>4, <2>2
    <3>2. i # 1 => releases'[i-1] = releases[Len(releases)]
      BY <1>4, <2>2
    <3> QED
      BY <1>1, <1>4, <2>2, <3>1, <3>2 DEF last_sha
  <2> QED
    BY <1>4, <2>1, <2>2
<1>6. LogGrows
  <2>1. \A i \in DOMAIN releases : i \in DOMAIN releases' /\ releases'[i] = releases[i]
    BY <1>4
  <2> QED
    BY Zenon, <2>1 DEF LogGrows, logged, superseded
<1>7. job' = [q \in Procs |-> job'[q]] /\ \A q \in Procs : JobOK(q) /\ job'[q] = job[q]
  BY Zenon, <1>2 DEF JobsOK
<1> QED
  BY Zenon, <1>3, <1>5, <1>6, <1>7, OthersOK DEF JobsOK

(* Only the last row of a chain can be current.                            *)
LEMMA LastIsCurrent ==
    ASSUME releases \in Seq(Rows), Chain, NEW a, current(a)
    PROVE  a = releases[Len(releases)].sha
<1>1. PICK i \in DOMAIN releases : releases[i].sha = a
  BY Zenon DEF current, logged
<1>2. DOMAIN releases = 1..Len(releases) /\ Len(releases) \in Nat
  OBVIOUS
<1>3. CASE i = Len(releases)
  BY Zenon, <1>1, <1>3
<1>4. CASE i # Len(releases)
  <2>1. i + 1 \in DOMAIN releases /\ i + 1 # 1 /\ (i + 1) - 1 = i
    BY <1>2, <1>4
  <2>2. releases[i + 1].supersedes = releases[i].sha
    BY <2>1 DEF Chain
  <2> QED
    BY Zenon, <1>1, <2>1, <2>2 DEF current, superseded
<1> QED
  BY Zenon, <1>3, <1>4

(* Revocations                                                             *)
LEMMA RevokeStands ==
    ASSUME RevocationStands, NEW p \in Procs, revoke_existing(p) \/ revoke_insert(p)
    PROVE  RevocationStands'
<1>1. CASE revoke_existing(p)
  <2> SUFFICES ASSUME NEW e \in revoked'
               PROVE  e[1] \in DOMAIN revocations /\ revocations[e[1]] = e[2]
    BY Zenon, <1>1 DEF RevocationStands, revoke_existing
  <2>1. CASE e \in revoked
    BY Zenon, <2>1 DEF RevocationStands
  <2>2. CASE e \notin revoked
    <3>1. PICK v : /\ e = <<job[p].sha, v>> /\ v = revocations[job[p].sha]
                   /\ job[p].sha \in DOMAIN revocations
      BY Zenon, <1>1, <2>2 DEF revoke_existing
    <3> QED
      BY <3>1
  <2> QED
    BY Zenon, <2>1, <2>2
<1>2. CASE revoke_insert(p) /\ job[p].sha \in DOMAIN revocations
  BY Zenon, <1>2 DEF RevocationStands, revoke_insert
<1>3. CASE revoke_insert(p) /\ job[p].sha \notin DOMAIN revocations
  <2> DEFINE d == job[p].sha
             v == job[p].why[1]
  <2>1. /\ revoked' = revoked \cup {<<d, v>>}
        /\ revocations' = [c \in DOMAIN revocations \cup {d} |-> IF c = d THEN v ELSE revocations[c]]
    BY Zenon, <1>3 DEF revoke_insert, record_revocation
  <2>2. d \notin DOMAIN revocations
    BY <1>3
  <2> HIDE DEF d, v
  <2>3. /\ DOMAIN revocations' = DOMAIN revocations \cup {d} /\ revocations'[d] = v
        /\ \A c \in DOMAIN revocations : revocations'[c] = revocations[c]
    BY <2>1, <2>2
  <2> QED
    BY <2>1, <2>3 DEF RevocationStands
<1> QED
  BY Zenon, <1>1, <1>2, <1>3

-----------------------------------------------------------------------------
(* Acceptance                                                              *)

(* A validation that ends well has met every condition of an acceptance.   *)
LEMMA ValidateEndOK ==
    ASSUME JobsOK, \A v \in validated : Accepted(v), NEW p \in Procs, validate_end(p)
    PROVE  \A v \in validated' : Accepted(v)
<1> DEFINE x == job[p].why[1]
           k == job[p].why[2]
           sha == job[p].sha
<1>1. Admitted(x, k, sha)
  BY DEF validate_end, at, JobsOK, JobOK, Idle
<1>2. validated' = validated \cup
        {[input |-> x, package |-> k, logged |-> d] :
            d \in IF strategy_release_bytes(sha[2]) = x.release /\ bound(x, k) THEN {sha} ELSE {}}
  BY Zenon DEF validate_end
<1> HIDE DEF x, k, sha
<1> SUFFICES ASSUME NEW v \in validated', v \notin validated PROVE Accepted(v)
  BY Zenon
<1>3. /\ v = [input |-> x, package |-> k, logged |-> sha]
      /\ strategy_release_bytes(sha[2]) = x.release /\ bound(x, k)
  BY Zenon, <1>2
<1>4. v.input = x /\ v.package = k /\ v.logged = sha
  BY <1>3
<1> QED
  BY Zenon, <1>1, <1>3, <1>4 DEF Accepted

(* No release, no call and nothing accepted.                               *)
LEMMA AuthorityInitInv == AuthorityInit => AuthorityInv
<1> SUFFICES ASSUME AuthorityInit PROVE AuthorityInv
  OBVIOUS
<1>1. /\ releases = <<>> /\ job = [p \in Procs |-> Idle] /\ revoked = {} /\ validated = {}
  BY Zenon DEF AuthorityInit, ReleaseLogInit
<1>2. JobsOK
  BY <1>1 DEF JobsOK, JobOK, JobShape, Idle
<1>3. releases \in Seq(Rows) /\ Chain
  BY <1>1 DEF Chain
<1> QED
  BY Zenon, <1>1, <1>2, <1>3 DEF AuthorityInv, RevocationStands

(* Every step of every call.                                               *)
LEMMA AuthorityStep == AuthorityInv /\ [AuthorityNext]_authority_vars => AuthorityInv'
<1> SUFFICES ASSUME AuthorityInv, [AuthorityNext]_authority_vars PROVE AuthorityInv'
  OBVIOUS
<1>0. /\ releases \in Seq(Rows) /\ Chain /\ JobsOK /\ RevocationStands
      /\ \A v \in validated : Accepted(v)
  BY Zenon DEF AuthorityInv
<1>1. CASE UNCHANGED authority_vars
  <2>1. UNCHANGED <<releases, revocations, job, witnessed, revoked, validated>>
    BY Zenon, <1>1 DEF authority_vars, log_vars
  <2>2. JobsOK'
    BY Zenon, <1>0, <2>1 DEF JobsOK, JobOK, logged, superseded
  <2> QED
    BY Zenon, <1>0, <2>1, <2>2 DEF AuthorityInv, Chain, RevocationStands
<1>2. CASE AuthorityNext
  <2>1. PICK p \in Procs : \/ LogStep(p) /\ UNCHANGED validated
                           \/ \E x \in Inputs, k \in Packages : validate_begin(p, x, k)
                           \/ validate_end(p)
    BY Zenon, <1>2 DEF AuthorityNext
  <2>2. witness
    BY Zenon, <1>2 DEF AuthorityNext
  <2>3. ASSUME UNCHANGED <<releases, revocations, revoked, validated>>, JobsOK' PROVE AuthorityInv'
    BY Zenon, <1>0, <2>3 DEF AuthorityInv, Chain, RevocationStands
  <2>4. ASSUME NEW r \in Releases, NEW k, NEW d, promote(p, r, k, d), UNCHANGED validated
        PROVE  AuthorityInv'
    <3>1. UNCHANGED <<revocations, revoked>>
      BY Zenon, <2>4 DEF promote
    <3>2. releases' \in Seq(Rows) /\ Chain' /\ JobsOK'
      BY Zenon, <1>0, <2>2, <2>4, PromoteOK
    <3> QED
      BY Zenon, <1>0, <2>4, <3>1, <3>2 DEF AuthorityInv, RevocationStands
  <2>5. ASSUME NEW sha \in Digests, load_begin(p, sha, <<"load">>), UNCHANGED validated
        PROVE  AuthorityInv'
    <3>1. Len(<<"load">>) # 2 /\ "row" \in {"row", "existing"}
      OBVIOUS
    <3> QED
      BY Zenon, <1>0, <2>2, <2>3, <2>5, <3>1, BeginOK DEF load_begin
  <2>6. ASSUME NEW sha \in Digests, NEW v \in Revocations, revoke_begin(p, sha, v), UNCHANGED validated
        PROVE  AuthorityInv'
    <3>1. Len(<<v>>) # 2 /\ "existing" \in {"row", "existing"}
      OBVIOUS
    <3> QED
      BY Zenon, <1>0, <2>2, <2>3, <2>6, <3>1, BeginOK DEF revoke_begin
  <2>7. ASSUME load_row(p) \/ load_revocation(p) \/ load_superseded(p) \/ load_return(p),
               UNCHANGED validated
        PROVE  AuthorityInv'
    <3>1. UNCHANGED <<releases, revocations, revoked>>
      BY Zenon, <2>7 DEF load_row, load_revocation, load_superseded, load_return
    <3>2. load_return(p) => goto(p, Idle)
      BY Zenon DEF load_return
    <3> QED
      BY Zenon, <1>0, <2>2, <2>3, <2>7, <3>1, <3>2, LoadRowOK, LoadRevocationOK, LoadSupersededOK, EndOK
  <2>8. ASSUME revoke_existing(p) \/ revoke_insert(p), UNCHANGED validated PROVE AuthorityInv'
    <3>1. UNCHANGED releases /\ (revoke_insert(p) => goto(p, Idle))
      BY Zenon, <2>8 DEF revoke_existing, revoke_insert
    <3>2. JobsOK'
      BY Zenon, <1>0, <2>2, <2>8, <3>1, RevokeExistingOK, EndOK
    <3> QED
      BY Zenon, <1>0, <2>8, <3>1, <3>2, RevokeStands DEF AuthorityInv, Chain
  <2>9. ASSUME NEW x \in Inputs, NEW k \in Packages, validate_begin(p, x, k) PROVE AuthorityInv'
    <3>1. Admitted(x, k, x.sha)
      BY Zenon, <2>9 DEF validate_begin, Admitted
    <3>2. <<x, k>>[1] = x /\ <<x, k>>[2] = k /\ "row" \in {"row", "existing"}
      OBVIOUS
    <3>3. Admitted(<<x, k>>[1], <<x, k>>[2], x.sha)
      BY Zenon, <3>1, <3>2
    <3>4. JobsOK'
      BY Zenon, <1>0, <2>2, <2>9, <3>2, <3>3, BeginOK DEF validate_begin
    <3> QED
      BY Zenon, <2>3, <2>9, <3>4 DEF validate_begin
  <2>10. ASSUME validate_end(p) PROVE AuthorityInv'
    <3>1. UNCHANGED <<releases, revocations, revoked>> /\ goto(p, Idle)
      BY Zenon, <2>10 DEF validate_end
    <3>2. JobsOK'
      BY Zenon, <1>0, <2>2, <3>1, EndOK
    <3>3. \A v \in validated' : Accepted(v)
      BY Zenon, <1>0, <2>10, ValidateEndOK
    <3> QED
      BY Zenon, <1>0, <3>1, <3>2, <3>3 DEF AuthorityInv, Chain, RevocationStands
  <2> QED
    BY Zenon, <2>1, <2>4, <2>5, <2>6, <2>7, <2>8, <2>9, <2>10 DEF LogStep
<1> QED
  BY Zenon, <1>1, <1>2

-----------------------------------------------------------------------------
(* What an accepted arm is                                                 *)

(* The arm of an acceptance is the one rebuilt for its date.               *)
LEMMA ArmRebuilt ==
    ASSUME NEW v, Accepted(v)
    PROVE  LET a == v.input.arm.payload
               d == date(a.starts)
           IN  /\ v.input.arm = autonomous_session_arm_bytes(a)
               /\ a = for_trading_date(a.session, d, a.build, a.fingerprint, v.package.contracts)
               /\ a.build = v.package.build
               /\ validate_arm(a, v.package.contracts)
<1> DEFINE x == v.input
           k == v.package
           a == x.arm.payload
           b == rebuilt(x, k)
<1>1. /\ autonomous_session_arm_bytes(b) = x.arm /\ a.build = x.build /\ a.fingerprint = x.fingerprint
      /\ x.build = k.build /\ validate_arm(a, k.contracts)
      /\ x.arm = autonomous_session_arm_bytes(a)
  BY Zenon DEF Accepted, Admitted, bound, parse_autonomous_session_arm
<1>2. b = for_trading_date(a.session, date(a.starts), x.build, x.fingerprint, k.contracts)
  BY Zenon DEF rebuilt
<1> HIDE DEF b
<1>3. autonomous_session_arm_bytes(b).payload = b
  BY DEF autonomous_session_arm_bytes
<1>4. a = b
  BY Zenon, <1>1, <1>3
<1> QED
  BY Zenon, <1>1, <1>2, <1>4

(* What the bytes of a logged release determine.                           *)
LEMMA AcceptedLogged ==
    ASSUME \A v \in validated : Accepted(v)
    PROVE  AcceptedIsLogged
<1> SUFFICES ASSUME NEW v \in validated
             PROVE  /\ v.input.release = strategy_release_bytes(v.logged[2])
                    /\ v.logged[2].build = v.package.build
                    /\ evaluate_release(v.logged[2], v.package) = "PROMOTED"
                    /\ v.input.record.payload.release = v.logged
  BY Zenon DEF AcceptedIsLogged
<1> DEFINE x == v.input
           r == x.release.payload
<1>1. /\ strategy_release_bytes(v.logged[2]) = x.release /\ v.logged = x.sha
      /\ x.build = v.package.build /\ evaluate_release(r, v.package) = "PROMOTED"
      /\ r.build = x.build /\ x.record.payload.release = x.sha
  BY Zenon DEF Accepted, Admitted, bound
<1>2. strategy_release_bytes(v.logged[2]).payload = v.logged[2]
  BY DEF strategy_release_bytes
<1>3. r = v.logged[2]
  BY Zenon, <1>1, <1>2
<1> QED
  BY Zenon, <1>1, <1>3

(* One release, account, session and date: one arm.                        *)
LEMMA AcceptedOneArm ==
    ASSUME AuthorityConstants, \A v \in validated : Accepted(v)
    PROVE  OneArmPerSession
<1> SUFFICES ASSUME NEW v \in validated, NEW w \in validated,
                    v.logged = w.logged,
                    v.input.arm.payload.session = w.input.arm.payload.session,
                    v.input.arm.payload.fingerprint = w.input.arm.payload.fingerprint,
                    date(v.input.arm.payload.starts) = date(w.input.arm.payload.starts)
             PROVE  v.input.arm = w.input.arm
  BY Zenon DEF OneArmPerSession
<1> DEFINE a == v.input.arm.payload
           b == w.input.arm.payload
<1>1. v.package.build = w.package.build
  BY Zenon, AcceptedLogged DEF AcceptedIsLogged
<1>2. v.package \in Packages /\ w.package \in Packages
  BY Zenon DEF Accepted, Admitted
<1>3. v.package.contracts = w.package.contracts
  BY Zenon, <1>1, <1>2 DEF AuthorityConstants
<1>4. /\ v.input.arm = autonomous_session_arm_bytes(a) /\ a.build = v.package.build
      /\ a = for_trading_date(a.session, date(a.starts), a.build, a.fingerprint, v.package.contracts)
  BY Zenon, ArmRebuilt
<1>5. /\ w.input.arm = autonomous_session_arm_bytes(b) /\ b.build = w.package.build
      /\ b = for_trading_date(b.session, date(b.starts), b.build, b.fingerprint, w.package.contracts)
  BY Zenon, ArmRebuilt
<1>6. a = b
  BY Zenon, <1>1, <1>3, <1>4, <1>5
<1> QED
  BY Zenon, <1>4, <1>5, <1>6

(* The first window opens when the arm starts, and all on that date.       *)
LEMMA WindowsOnDate ==
    ASSUME AuthorityConstants, NEW v, Accepted(v), NEW i \in DOMAIN v.input.arm.payload.windows
    PROVE  date(v.input.arm.payload.windows[i].opens) = date(v.input.arm.payload.starts)
<1> DEFINE a == v.input.arm.payload
           d == date(a.starts)
<1>1. a = for_trading_date(a.session, d, a.build, a.fingerprint, v.package.contracts)
      /\ validate_arm(a, v.package.contracts)
  BY Zenon, ArmRebuilt
<1>2. date(a.windows[i].opens) = date(a.windows[1].opens)
  BY Zenon, <1>1 DEF validate_arm
<1> HIDE DEF a, d
<1>3. 1 \in DOMAIN DecisionTimes
  BY DEF AuthorityConstants, ArmClocks
<1>4. a.starts = combine(d, DecisionTimes[1]) /\ a.windows[1].opens = combine(d, DecisionTimes[1])
  BY <1>1, <1>3 DEF for_trading_date
<1> QED
  BY Zenon, <1>2, <1>4 DEF a

(* An opportunity built for a window of one accepted arm is one that no    *)
(* accepted arm of another date takes.                                     *)
LEMMA AcceptedNoReplay ==
    ASSUME AuthorityConstants, \A v \in validated : Accepted(v)
    PROVE  NoReplayAcrossDates
<1> SUFFICES ASSUME NEW v \in validated, NEW w \in validated,
                    NEW i \in DOMAIN v.input.arm.payload.windows,
                    validate_opportunity(for_window(v.input.arm.payload,
                        v.input.arm.payload.windows[i], "opportunity",
                        v.input.arm.payload.windows[i].candidates[1]), w.input.arm.payload)
             PROVE  date(v.input.arm.payload.starts) = date(w.input.arm.payload.starts)
  BY Zenon DEF NoReplayAcrossDates
<1> DEFINE a == v.input.arm.payload
           b == w.input.arm.payload
           o == for_window(a, a.windows[i], "opportunity", a.windows[i].candidates[1])
<1>1. PICK u \in window_for_arm(b, o.window) : o.window_sha = window_sha256(u)
  BY Zenon DEF validate_opportunity
<1>2. PICK j \in DOMAIN b.windows : u = b.windows[j]
  BY Zenon DEF window_for_arm
<1>3. o.window_sha = window_sha256(a.windows[i])
  BY DEF for_window
<1> HIDE DEF a, b, o
<1>4. a.windows[i] = b.windows[j]
  BY <1>1, <1>2, <1>3 DEF window_sha256
<1> QED
  BY Zenon, <1>2, <1>4, WindowsOnDate DEF a, b

-----------------------------------------------------------------------------
(* The windows of an accepted arm                                          *)

(* A non-empty set of naturals has a least element.                        *)
LEMMA LeastNatural ==
    ASSUME NEW S \in SUBSET Nat, S # {}
    PROVE  \E x \in S : \A y \in S : x <= y
<1> DEFINE R == OpToRel(<, Nat)
<1>1. IsWellFoundedOn(R, Nat)
  BY ZenonT(30), NatLessThanWellFounded
<1>2. \E x \in S : \A y \in S : ~(<<y, x>> \in R)
  <2> HIDE DEF R
  <2> QED
    BY ZenonT(30), <1>1, WFMin
<1>3. \A x, y \in Nat : <<y, x>> \in R <=> y < x
  BY DEF OpToRel
<1> HIDE DEF R
<1>4. PICK x \in S : \A y \in S : ~(<<y, x>> \in R)
  BY <1>2
<1>5. \A y \in S : x \in Nat /\ y \in Nat /\ ~(y < x)
  BY ZenonT(30), <1>3, <1>4
<1>6. \A y \in S : x <= y
  BY <1>5
<1> QED
  BY <1>6

(* The clock at which the window after i opens, or the deadline.           *)
NextClock(i) == IF i < Len(DecisionTimes) THEN DecisionTimes[i+1] ELSE HardFlatTime

(* The decision clocks cut the day from the first to the deadline.         *)
LEMMA ClocksTile ==
    ASSUME AuthorityConstants, NEW c \in Int
    PROVE  LET D == {i \in DOMAIN DecisionTimes : DecisionTimes[i] <= c /\ c < NextClock(i)}
           IN  IF DecisionTimes[1] <= c /\ c < HardFlatTime THEN \E i : D = {i} ELSE D = {}
<1> DEFINE DT == DecisionTimes
           n == Len(DT)
           D == {i \in DOMAIN DT : DT[i] <= c /\ c < NextClock(i)}
<1>1. /\ n \in Nat \ {0} /\ DOMAIN DT = 1..n /\ HardFlatTime \in Nat
      /\ \A i \in 1..n : DT[i] \in Nat
  BY DEF AuthorityConstants, ArmClocks
<1>2. /\ \A i \in 1..n : DT[i] < HardFlatTime
      /\ \A i, j \in 1..n : i < j => DT[i] < DT[j]
  BY Zenon, <1>1 DEF AuthorityConstants, ArmClocks
<1>3. /\ \A i \in 1..n : i < n => i + 1 \in 1..n /\ NextClock(i) = DT[i+1]
      /\ NextClock(n) = HardFlatTime
  BY <1>1 DEF NextClock
<1> HIDE DEF DT, n
<1>4. \A i \in 1..n : NextClock(i) \in Nat /\ NextClock(i) <= HardFlatTime /\ DT[1] <= DT[i]
  <2> SUFFICES ASSUME NEW i \in 1..n
               PROVE  NextClock(i) \in Nat /\ NextClock(i) <= HardFlatTime /\ DT[1] <= DT[i]
    OBVIOUS
  <2>1. i < n \/ i = n
    BY <1>1
  <2>2. 1 \in 1..n /\ (1 < i \/ i = 1)
    BY <1>1
  <2>3. DT[1] <= DT[i]
    BY <1>1, <1>2, <2>2
  <2>4. CASE i < n
    <3>1. i + 1 \in 1..n /\ NextClock(i) = DT[i+1]
      BY <1>3, <2>4
    <3>2. DT[i+1] \in Nat /\ DT[i+1] < HardFlatTime
      BY Zenon, <1>1, <1>2, <3>1
    <3> QED
      BY <1>1, <2>3, <3>1, <3>2
  <2>5. CASE i = n
    BY <1>1, <1>3, <2>3, <2>5
  <2> QED
    BY Zenon, <2>1, <2>4, <2>5
<1>5. CASE DT[1] <= c /\ c < HardFlatTime
  <2> DEFINE S == {i \in 1..n : c < NextClock(i)}
  <2>1. S \in SUBSET Nat /\ n \in S
    BY <1>1, <1>3, <1>5
  <2>2. PICK i \in S : \A j \in S : i <= j
    BY Zenon, <2>1, LeastNatural
  <2>3. i \in 1..n /\ c < NextClock(i)
    BY Zenon, <2>2
  <2>4. DT[i] <= c
    <3>1. CASE i = 1
      BY Zenon, <1>5, <3>1
    <3>2. CASE i # 1
      <4>1. i - 1 \in 1..n /\ ~(i <= i - 1) /\ i - 1 < n /\ (i - 1) + 1 = i
        BY <1>1, <2>3, <3>2
      <4>2. i - 1 \notin S
        BY Zenon, <2>2, <4>1
      <4>3. ~(c < NextClock(i - 1)) /\ NextClock(i - 1) = DT[i]
        BY <1>3, <4>1, <4>2
      <4> QED
        BY <1>1, <2>3, <4>3
    <3> QED
      BY Zenon, <3>1, <3>2
  <2>5. \A j \in 1..n : DT[j] <= c /\ c < NextClock(j) => j = i
    <3> SUFFICES ASSUME NEW j \in 1..n, DT[j] <= c, c < NextClock(j) PROVE j = i
      OBVIOUS
    <3>1. i <= j
      BY Zenon, <2>2
    <3>2. CASE i < j
      <4>1. i < n /\ (i + 1 < j \/ i + 1 = j) /\ i + 1 \in 1..n
        BY <1>1, <2>3, <3>2
      <4>2. DT[i + 1] <= DT[j] /\ c < DT[i + 1]
        BY <1>1, <1>2, <1>3, <2>3, <4>1
      <4> QED
        BY <1>1, <4>1, <4>2
    <3> QED
      BY <1>1, <2>3, <3>1, <3>2
  <2>6. D = {i}
    BY <1>1, <2>3, <2>4, <2>5
  <2> QED
    BY Zenon, <1>5, <2>6 DEF DT
<1>6. CASE ~(DT[1] <= c /\ c < HardFlatTime)
  <2>1. \A i \in 1..n : ~(DT[i] <= c /\ c < NextClock(i))
    BY <1>1, <1>4, <1>6
  <2>2. DOMAIN DT = 1..n
    BY Zenon, <1>1
  <2>3. D = {}
    BY <2>1, <2>2
  <2> QED
    BY Zenon, <1>6, <2>3 DEF DT
<1> QED
  BY Zenon, <1>5, <1>6

(* The windows of an accepted arm cover its session, one at a time.        *)
LEMMA AcceptedTile ==
    ASSUME AuthorityConstants, \A v \in validated : Accepted(v)
    PROVE  WindowsTile
<1> SUFFICES ASSUME NEW v \in validated, NEW t \in 0..(v.input.arm.payload.hard_flat + Day)
             PROVE  Cardinality(due(v.input.arm.payload, t)) =
                        IF v.input.arm.payload.starts <= t /\ t < v.input.arm.payload.hard_flat
                        THEN 1 ELSE 0
  BY Zenon DEF WindowsTile
<1> DEFINE a == v.input.arm.payload
           d == date(a.starts)
           M == d * Day
<1>1. a = for_trading_date(a.session, d, a.build, a.fingerprint, v.package.contracts)
  BY Zenon, ArmRebuilt
<1>2. M \in Nat
  <2>1. a.starts \in Nat /\ Day \in Nat \ {0}
    BY Zenon DEF Accepted, Admitted, AuthorityConstants
  <2>2. d \in Nat
    BY <2>1 DEF date
  <2> HIDE DEF d
  <2> QED
    BY <2>1, <2>2
<1>3. t \in Int
  OBVIOUS
<1> HIDE DEF a
<1>4. /\ a.starts = M + DecisionTimes[1] /\ a.hard_flat = M + HardFlatTime
      /\ DOMAIN a.windows = DOMAIN DecisionTimes
      /\ \A i \in DOMAIN DecisionTimes : /\ a.windows[i].opens = M + DecisionTimes[i]
                                         /\ a.windows[i].closes = M + NextClock(i)
  <2> HIDE DEF d
  <2>1. 1 \in DOMAIN DecisionTimes
    BY DEF AuthorityConstants, ArmClocks
  <2> QED
    BY <1>1, <2>1 DEF for_trading_date, combine, NextClock
<1> HIDE DEF M
<1>5. /\ HardFlatTime \in Nat /\ DecisionTimes[1] \in Nat
      /\ \A i \in DOMAIN DecisionTimes : DecisionTimes[i] \in Nat /\ NextClock(i) \in Nat
  BY DEF AuthorityConstants, ArmClocks, NextClock
<1> DEFINE c == t - M
           E == {i \in DOMAIN DecisionTimes : DecisionTimes[i] <= c /\ c < NextClock(i)}
<1>6. c \in Int /\ (a.starts <= t <=> DecisionTimes[1] <= c) /\ (t < a.hard_flat <=> c < HardFlatTime)
  BY <1>2, <1>3, <1>4, <1>5
<1>7. \A i \in DOMAIN DecisionTimes :
        (a.windows[i].opens <= t /\ t < a.windows[i].closes)
        <=> (DecisionTimes[i] <= c /\ c < NextClock(i))
  BY <1>2, <1>3, <1>4, <1>5
<1> HIDE DEF c
<1>8. due(a, t) = E
  BY <1>4, <1>7 DEF due
<1>9. IF DecisionTimes[1] <= c /\ c < HardFlatTime THEN \E i : E = {i} ELSE E = {}
  BY Zenon, <1>6, ClocksTile
<1> HIDE DEF E
<1>10. CASE DecisionTimes[1] <= c /\ c < HardFlatTime
  <2>1. PICK i : E = {i}
    BY Zenon, <1>9, <1>10
  <2>2. Cardinality({i}) = 1
    BY Zenon, FS_Singleton
  <2> QED
    BY Zenon, <1>6, <1>8, <1>10, <2>1, <2>2 DEF a
<1>11. CASE ~(DecisionTimes[1] <= c /\ c < HardFlatTime)
  <2>1. Cardinality({}) = 0
    BY Zenon, FS_EmptySet
  <2> QED
    BY Zenon, <1>6, <1>8, <1>9, <1>11, <2>1 DEF a
<1> QED
  BY Zenon, <1>10, <1>11

-----------------------------------------------------------------------------
(* For any processes, releases, packages, revocations and inputs whose     *)
(* clocks are a session's and whose build digests determine the contracts: *)
(* the log stays one chain with one current release, a loaded release was  *)
(* current during the call, a recorded revocation stands, and what a host  *)
(* accepted is the logged release, under the one arm its session, account  *)
(* and date determine, whose windows tile the session and whose work is    *)
(* valid on no other date.                                                 *)
THEOREM AuthorityBound == AuthorityConstants => (AuthoritySpec => []AuthorityIsBound)
<1> SUFFICES ASSUME AuthorityConstants PROVE AuthoritySpec => []AuthorityIsBound
  OBVIOUS
<1>1. AuthorityInv => AuthorityIsBound
  <2> SUFFICES ASSUME AuthorityInv PROVE AuthorityIsBound
    OBVIOUS
  <2>1. \A v \in validated : Accepted(v)
    BY Zenon DEF AuthorityInv
  <2>2. OneCurrentRelease
    BY Zenon, LastIsCurrent DEF AuthorityInv, OneCurrentRelease, Chain
  <2>3. LoadedWasCurrent
    BY Zenon DEF AuthorityInv, JobsOK, JobOK, LoadedWasCurrent, at
  <2> QED
    BY Zenon, <2>1, <2>2, <2>3, AcceptedLogged, AcceptedOneArm, AcceptedTile, AcceptedNoReplay
       DEF AuthorityInv, AuthorityIsBound
<1> QED
  BY <1>1, AuthorityInitInv, AuthorityStep, PTL DEF AuthoritySpec
=============================================================================
