------------------------ MODULE AutonomousHostProofs ------------------------
(***************************************************************************)
(* Proofs about AutonomousHost, for any number of invocations, crashes,    *)
(* arms and timelines.  HostInv says that the lock has one holder, that    *)
(* only its coordinator is in the middle of a run, that a summary is       *)
(* written in the last run of a timeline, and that broker truth accepted   *)
(* as final found nothing held.  A TERMINAL receipt then stays true of the *)
(* store and of the broker for every later invocation.  A claim that a run *)
(* leaves behind has frozen the session, so a receipt refused over one is  *)
(* refused with a reason on record.                                        *)
(***************************************************************************)
EXTENDS AutonomousHost, AutonomousSessionProofs

Frozen == "MANUAL_RECONCILIATION_REQUIRED"

(* What the rest of a run relies on once it has looked at the store: at    *)
(* hard flat nothing is claimed, and before it the session is not frozen.  *)
RunOK(j) ==
    /\ j.pc \in {"flat", "close", "closed", "unresolved", "flat_check", "finalize"} =>
          claimed_opportunity_ids = {} /\ j.t >= HardFlatAt
    /\ j.pc = "finalize" => active_lifecycle_ids = {} \/ reasons # {}
    /\ j.pc \in {"reconcile", "collect", "candidates", "process", "record"} => session # Frozen

(* A claim left behind has frozen the session.                             *)
ClaimsFreeze == claimed_opportunity_ids = {} \/ session = Frozen

(* The claims a run may find: none once it has looked for them, then its   *)
(* own until that is recorded; a run that returns leaves none, or has      *)
(* frozen the session.                                                     *)
ClaimOK(j) ==
    /\ j.pc \in {"state", "reconcile", "collect", "candidates"} => claimed_opportunity_ids = {}
    /\ j.pc \in {"process", "record"} => claimed_opportunity_ids \subseteq {j.offer.id}
    /\ j.pc = "returned" => ClaimsFreeze

(* An invocation's locals.                                                 *)
HostShape(h) ==
    \/ h = Out
    \/ /\ h.pc \in {"lock", "arm", "loop", "running", "exception"}
       /\ h = [pc |-> h.pc, arm |-> h.arm, timeline |-> h.timeline, t |-> h.t, hard |-> h.hard,
               plan |-> h.plan]
       /\ h.arm \in Arms /\ h.timeline \subseteq Times /\ \A u \in h.timeline : u <= HardFlatAt
    \/ /\ h.pc \in {"reconcile", "mark", "receipt"}
       /\ h = [pc |-> h.pc, final |-> h.final, truth |-> h.truth, hard |-> h.hard, plan |-> h.plan]

Outside == {"out", "lock"}

(* What an invocation relies on: inside it holds the lock, only while it   *)
(* is running does its coordinator do anything, hard flat is the last      *)
(* instant of its timeline, broker truth it accepted as final is that of   *)
(* an empty holding, and a claim it comes upon has frozen the session by   *)
(* the end of its timeline.                                                *)
HostOK(p) ==
    LET h == host[p] IN
    /\ HostShape(h)
    /\ h.pc \notin Outside => lock = p
    /\ h.pc \notin Outside \cup {"arm"} => arm # NoArm /\ validate_plan(h.plan)
    /\ h.pc # "running" => job[p].pc \in Resting
    /\ h.pc = "running" =>
          /\ h.t \in Times /\ h.t <= HardFlatAt /\ \A u \in h.timeline : u > h.t
          /\ job[p].pc \notin Resting => job[p].t = h.t /\ summary = NoSummary
          /\ ClaimOK(job[p])
    /\ RunOK(job[p])
    /\ h.pc \in {"lock", "arm"} => h.timeline # {}
    /\ h.pc = "loop" => h.timeline # {} \/ ClaimsFreeze
    /\ h.pc \in {"reconcile", "mark", "receipt"} => ClaimsFreeze
    /\ h.pc \in {"loop", "running", "exception"} /\ summary # NoSummary => h.timeline = {}
    /\ h.pc \in {"reconcile", "mark"} => h.truth = FALSE
    /\ h.pc \in {"mark", "receipt"} => h.final = (summary # NoSummary)
    /\ h.pc = "receipt" =>
          /\ h.truth /\ h.final => exposed = {}
          /\ ~h.truth => session = Frozen

(* What the store and the receipts say of each other.                      *)
HostStore ==
    /\ session = Frozen => reasons # {}
    /\ summary # NoSummary =>
          /\ claimed_opportunity_ids = {}
          /\ summary.counts = counts_by_disposition /\ summary.active = active_lifecycle_ids
          /\ summary.flat => active_lifecycle_ids = {}
          /\ ~summary.flat => session = Frozen
    /\ "TERMINAL" \in issued => summary # NoSummary /\ exposed = {} /\ active_lifecycle_ids = {}

HostInv ==
    /\ SessionInv /\ FreezeInv
    /\ host = [p \in Procs |-> host[p]] /\ \A p \in Procs : HostOK(p)
    /\ HostStore

(* An empty store and no invocation.                                       *)
LEMMA HostInitInv == HostInit => HostInv
<1> SUFFICES ASSUME HostInit PROVE HostInv
  OBVIOUS
<1>1. SessionInit /\ host = [p \in Procs |-> Out] /\ issued = {} /\ receipt = NoReceipt
  BY Zenon DEF HostInit
<1>2. SessionInv /\ FreezeInv
  BY Zenon, <1>1, SessionInitInv, FreezeInitInv
<1>3. session = "NONE" /\ summary = NoSummary /\ job = [p \in Procs |-> Idle]
  BY Zenon, <1>1 DEF SessionInit
<1>4. ASSUME NEW p \in Procs PROVE HostOK(p)
  <2>1. host[p] = Out /\ job[p] = Idle
    BY Zenon, <1>1, <1>3
  <2>2. Out.pc = "out" /\ Idle.pc = "idle"
    BY DEF Out, Idle
  <2> QED
    BY <2>1, <2>2 DEF HostOK, HostShape, Outside, RunOK, Resting
<1>5. HostStore
  BY <1>1, <1>3 DEF HostStore, Frozen
<1> QED
  BY Zenon, <1>1, <1>2, <1>4, <1>5 DEF HostInv

-----------------------------------------------------------------------------
(* A coordinator's step within a run                                       *)

FlatPoints == {"flat", "close", "closed", "unresolved", "flat_check", "finalize"}

(* A close leaves every claim where it was: there is none.                 *)
LEMMA CloseClaimsNothing ==
    ASSUME SessionInv, NEW p \in Procs, record_closed(p), claimed_opportunity_ids = {}
    PROVE  claimed_opportunity_ids' = {}
<1> DEFINE l == job[p].lifecycle
           i == lifecycle[l].id
           proof == job[p].result.proof
           r == [row[i] EXCEPT !.state = "TERMINAL_FLAT", !.proof = proof]
<1>0. RowsTyped /\ l \in Bound
  BY Zenon DEF SessionInv, record_closed, at, JobOK
<1>1. i \in Ids /\ row[i] \in OpportunityRows
  BY Zenon, <1>0, BoundIsAnswered
<1>2. CASE UNCHANGED row
  BY Zenon, <1>2 DEF claimed_opportunity_ids, recorded
<1>3. CASE row' = [row EXCEPT ![i].state = "TERMINAL_FLAT", ![i].proof = proof]
  <2>1. row' = [row EXCEPT ![i] = r]
    BY Zenon, <1>0, <1>1, <1>3 DEF RowsTyped
  <2>2. r.state = "TERMINAL_FLAT"
    BY Zenon, <1>1 DEF OpportunityRows
  <2> HIDE DEF r, i
  <2>3. row'[i] = r /\ \A k \in Ids : k # i => row'[k] = row[k]
    BY <1>0, <1>1, <2>1 DEF RowsTyped
  <2>4. ASSUME NEW k \in Ids, row'[k] # NoRow, row'[k].state = "CLAIMED" PROVE FALSE
    <3>1. k # i
      BY <2>2, <2>3, <2>4
    <3> QED
      BY Zenon, <2>3, <2>4, <3>1 DEF claimed_opportunity_ids, recorded
  <2> QED
    BY Zenon, <2>4 DEF claimed_opportunity_ids, recorded
<1> QED
  BY Zenon, <1>2, <1>3 DEF record_closed, record_lifecycle_terminal_flat

(* The locals after a step up to the answer of the processor.              *)
LEMMA WindowRuns ==
    ASSUME NEW p \in Procs, RunOK(job[p]),
           \/ \E complete \in BOOLEAN : reconcile(p, complete)
           \/ check_claimed(p) \/ check_state(p) \/ collect_due(p) \/ next_window(p)
           \/ claim(p) \/ process(p) \/ record(p) \/ record_refused(p) \/ mark_frozen(p)
    PROVE  \E c : become(p, c) /\ RunOK(c)' /\ (c.pc \in Resting \/ c.t = job[p].t)
<1> DEFINE Done == \E c : become(p, c) /\ RunOK(c)' /\ (c.pc \in Resting \/ c.t = job[p].t)
<1>1. ASSUME NEW c, become(p, c), c.pc \in Resting \cup {"freeze", "claimed", "state"},
             c.pc \in Resting \/ c.t = job[p].t
      PROVE  Done
  BY <1>1 DEF RunOK, Resting
<1>2. ASSUME NEW c, become(p, c), c.t = job[p].t, session' # Frozen,
             c.pc \in {"reconcile", "collect", "candidates", "process", "record"}
      PROVE  Done
  BY <1>2 DEF RunOK
<1>16. ASSUME NEW c, become(p, c), c.t = job[p].t, c.pc = "flat", claimed_opportunity_ids' = {},
             c.t >= HardFlatAt
      PROVE  Done
  BY <1>16 DEF RunOK
<1>3. ASSUME returned(p) \/ raised(p) PROVE Done
  <2>1. [pc |-> "returned"].pc \in Resting /\ [pc |-> "raised"].pc \in Resting
    BY DEF Resting
  <2> QED
    BY Zenon, <1>1, <1>3, <2>1 DEF returned, raised
<1>4. ASSUME NEW code, NEW i, NEW l, freeze(p, code, i, l) PROVE Done
  <2> DEFINE c == [pc |-> "freeze", t |-> job[p].t, reason |-> [code |-> code, id |-> i, lifecycle |-> l]]
  <2>1. become(p, c) /\ c.pc = "freeze" /\ c.t = job[p].t
    BY <1>4 DEF freeze
  <2> HIDE DEF c
  <2> QED
    BY Zenon, <1>1, <2>1
<1>5. ASSUME NEW todo, candidates(p, todo), session' # Frozen PROVE Done
  <2> DEFINE c == [pc |-> "candidates", t |-> job[p].t, window |-> job[p].window, todo |-> todo]
  <2>1. become(p, c) /\ c.pc = "candidates" /\ c.t = job[p].t
    BY <1>5 DEF candidates
  <2> HIDE DEF c
  <2> QED
    BY Zenon, <1>2, <1>5, <2>1
<1>6. ASSUME at(p, "reconcile") \/ at(p, "collect") \/ at(p, "candidates") \/ at(p, "process") \/ at(p, "record")
      PROVE  session # Frozen
  BY Zenon, <1>6 DEF RunOK, at
<1>7. CASE check_claimed(p)
  <2>1. UNCHANGED row
    BY Zenon, <1>7 DEF check_claimed, store
  <2>2. CASE claimed_opportunity_ids # {}
    BY Zenon, <1>4, <1>7, <2>2 DEF check_claimed
  <2>3. CASE claimed_opportunity_ids = {}
    <3> DEFINE c == [pc |-> IF job[p].t >= HardFlatAt THEN "flat" ELSE "state", t |-> job[p].t]
    <3>1. become(p, c)
      BY Zenon, <1>7, <2>3 DEF check_claimed
    <3>2. c.t = job[p].t /\ (c.pc = "state" \/ (c.pc = "flat" /\ job[p].t >= HardFlatAt))
      OBVIOUS
    <3> HIDE DEF c
    <3>3. CASE c.pc = "state"
      BY Zenon, <1>1, <3>1, <3>2, <3>3
    <3>4. CASE c.pc = "flat"
      <4>1. claimed_opportunity_ids' = {}
        BY Zenon, <2>1, <2>3 DEF claimed_opportunity_ids, recorded
      <4>2. job[p].t >= HardFlatAt
        BY <3>2, <3>4
      <4> QED
        BY Zenon, <1>16, <3>1, <3>2, <3>4, <4>1, <4>2
    <3> QED
      BY Zenon, <3>2, <3>3, <3>4
  <2> QED
    BY Zenon, <2>2, <2>3
<1>8. CASE check_state(p)
  <2>1. UNCHANGED session
    BY Zenon, <1>8 DEF check_state, store
  <2>2. CASE session = Frozen
    BY Zenon, <1>3, <1>8, <2>2 DEF check_state, Frozen
  <2>3. CASE session # Frozen
    <3> DEFINE c == [pc |-> "reconcile", t |-> job[p].t]
    <3>1. become(p, c)
      BY Zenon, <1>8, <2>3 DEF check_state, Frozen
    <3>2. c.pc = "reconcile" /\ c.t = job[p].t
      OBVIOUS
    <3> HIDE DEF c
    <3> QED
      BY Zenon, <1>2, <2>1, <2>3, <3>1, <3>2
  <2> QED
    BY Zenon, <2>2, <2>3
<1>9. ASSUME NEW complete \in BOOLEAN, reconcile(p, complete) PROVE Done
  <2>1. UNCHANGED session /\ session # Frozen
    BY Zenon, <1>6, <1>9 DEF reconcile, store
  <2>2. CASE ~complete
    BY Zenon, <1>4, <1>9, <2>2 DEF reconcile
  <2>3. CASE complete
    <3> DEFINE c == [pc |-> "collect", t |-> job[p].t, window |-> first_due(job[p].t, 1)]
    <3>1. become(p, c)
      BY Zenon, <1>9, <2>3 DEF reconcile
    <3>2. c.pc = "collect" /\ c.t = job[p].t
      OBVIOUS
    <3> HIDE DEF c
    <3> QED
      BY Zenon, <1>2, <2>1, <3>1, <3>2
  <2> QED
    BY Zenon, <2>2, <2>3
<1>10. CASE collect_due(p)
  <2>1. UNCHANGED session /\ session # Frozen
    BY Zenon, <1>6, <1>10 DEF collect_due, store
  <2> QED
    BY Zenon, <1>3, <1>5, <1>10, <2>1 DEF collect_due
<1>11. CASE next_window(p)
  <2> DEFINE c == [pc |-> "collect", t |-> job[p].t, window |-> first_due(job[p].t, job[p].window + 1)]
  <2>1. UNCHANGED session /\ session # Frozen /\ become(p, c)
    BY Zenon, <1>6, <1>11 DEF next_window, store
  <2>2. c.pc = "collect" /\ c.t = job[p].t
    OBVIOUS
  <2> HIDE DEF c
  <2> QED
    BY Zenon, <1>2, <2>1, <2>2
<1>12. CASE claim(p)
  <2> DEFINE x == next_offer(job[p].todo)
             c == [pc |-> "process", t |-> job[p].t, window |-> job[p].window,
                   todo |-> job[p].todo \ {x}, offer |-> x]
  <2>1. UNCHANGED session /\ session # Frozen
    BY Zenon, <1>6, <1>12 DEF claim
  <2>2. become(p, c) \/ raised(p) \/ candidates(p, job[p].todo \ {x})
    BY Zenon, <1>12 DEF claim
  <2>3. c.pc = "process" /\ c.t = job[p].t
    OBVIOUS
  <2> HIDE DEF c
  <2> QED
    BY Zenon, <1>2, <1>3, <1>5, <2>1, <2>2, <2>3
<1>13. CASE process(p)
  <2>1. UNCHANGED session /\ session # Frozen
    BY Zenon, <1>6, <1>13 DEF process, store
  <2>2. ASSUME NEW r, become(p, [pc |-> "record", t |-> job[p].t, window |-> job[p].window,
                            todo |-> job[p].todo, offer |-> job[p].offer, result |-> r])
        PROVE  Done
    <3> DEFINE c == [pc |-> "record", t |-> job[p].t, window |-> job[p].window,
                     todo |-> job[p].todo, offer |-> job[p].offer, result |-> r]
    <3>1. c.pc = "record" /\ c.t = job[p].t /\ become(p, c)
      BY <2>2
    <3> HIDE DEF c
    <3> QED
      BY Zenon, <1>2, <2>1, <3>1
  <2> QED
    BY Zenon, <1>4, <1>13, <2>2 DEF process
<1>14. CASE record(p)
  <2>1. UNCHANGED session /\ session # Frozen
    BY Zenon, <1>6, <1>14 DEF record
  <2> QED
    BY Zenon, <1>4, <1>5, <1>14, <2>1 DEF record, after_record
<1>15. CASE record_refused(p) \/ mark_frozen(p)
  BY Zenon, <1>3, <1>15 DEF record_refused, mark_frozen
<1> QED
  BY Zenon, <1>7, <1>8, <1>9, <1>10, <1>11, <1>12, <1>13, <1>14, <1>15

(* The locals after a step of the hard-flat run.                           *)
LEMMA FlatRuns ==
    ASSUME SessionInv, NEW p \in Procs, RunOK(job[p]),
           \/ begin_hard_flat(p) \/ close_and_reconcile(p) \/ record_closed(p)
           \/ closed_refused(p) \/ mark_unresolved(p) \/ check_flat(p) \/ mark_not_flat(p)
           \/ finalize(p)
    PROVE  \E c : become(p, c) /\ RunOK(c)' /\ (c.pc \in Resting \/ c.t = job[p].t)
<1> DEFINE Done == \E c : become(p, c) /\ RunOK(c)' /\ (c.pc \in Resting \/ c.t = job[p].t)
<1>0. job[p].pc \in FlatPoints /\ claimed_opportunity_ids = {} /\ job[p].t >= HardFlatAt
  <2>1. job[p].pc \in FlatPoints
    BY Zenon DEF begin_hard_flat, close_and_reconcile, record_closed, closed_refused,
                 mark_unresolved, check_flat, mark_not_flat, finalize, at, FlatPoints
  <2> QED
    BY Zenon, <2>1 DEF RunOK, FlatPoints
<1>1. ASSUME NEW c, become(p, c), c.t = job[p].t, claimed_opportunity_ids' = {},
             c.pc \in FlatPoints, c.pc = "finalize" => active_lifecycle_ids' = {} \/ reasons' # {}
      PROVE  Done
  <2>1. c.pc \notin {"reconcile", "collect", "candidates", "process", "record"}
    BY <1>1 DEF FlatPoints
  <2>2. c.t >= HardFlatAt
    BY Zenon, <1>0, <1>1
  <2>3. RunOK(c)'
    BY Zenon, <1>1, <2>1, <2>2 DEF RunOK
  <2> QED
    BY Zenon, <1>1, <2>3
<1>2. ASSUME returned(p) \/ raised(p) PROVE Done
  <2>1. ASSUME NEW c, become(p, c), c.pc \in Resting PROVE Done
    BY <2>1 DEF RunOK, Resting
  <2>2. [pc |-> "returned"].pc \in Resting /\ [pc |-> "raised"].pc \in Resting
    BY DEF Resting
  <2> QED
    BY Zenon, <1>2, <2>1, <2>2 DEF returned, raised
<1>3. UNCHANGED row => claimed_opportunity_ids' = {}
  BY Zenon, <1>0 DEF claimed_opportunity_ids, recorded
<1>4. ASSUME NEW c, become(p, c), c.t = job[p].t, claimed_opportunity_ids' = {},
             c.pc \in FlatPoints \ {"finalize"}
      PROVE  Done
  BY Zenon, <1>1, <1>4
<1>5. CASE begin_hard_flat(p)
  <2> DEFINE c == [pc |-> "close", t |-> job[p].t, queue |-> active_lifecycle_ids]
  <2>1. (returned(p) \/ become(p, c)) /\ UNCHANGED row
    BY Zenon, <1>5 DEF begin_hard_flat, store
  <2>2. c.pc \in FlatPoints \ {"finalize"} /\ c.t = job[p].t
    BY DEF FlatPoints
  <2> HIDE DEF c
  <2> QED
    BY Zenon, <1>2, <1>3, <1>4, <2>1, <2>2
<1>6. CASE close_and_reconcile(p)
  <2>1. UNCHANGED row
    BY Zenon, <1>6 DEF close_and_reconcile, store
  <2>2. ASSUME NEW l, NEW rest, NEW r,
               become(p, [pc |-> "closed", t |-> job[p].t, queue |-> rest, lifecycle |-> l, result |-> r])
        PROVE  Done
    <3> DEFINE c == [pc |-> "closed", t |-> job[p].t, queue |-> rest, lifecycle |-> l, result |-> r]
    <3>1. c.pc \in FlatPoints \ {"finalize"} /\ c.t = job[p].t /\ become(p, c)
      BY <2>2 DEF FlatPoints
    <3> HIDE DEF c
    <3> QED
      BY Zenon, <1>3, <1>4, <2>1, <3>1
  <2>3. ASSUME NEW l, NEW rest, NEW r,
               become(p, [pc |-> "unresolved", t |-> job[p].t, queue |-> rest, lifecycle |-> l, code |-> r])
        PROVE  Done
    <3> DEFINE c == [pc |-> "unresolved", t |-> job[p].t, queue |-> rest, lifecycle |-> l, code |-> r]
    <3>1. c.pc \in FlatPoints \ {"finalize"} /\ c.t = job[p].t /\ become(p, c)
      BY <2>3 DEF FlatPoints
    <3> HIDE DEF c
    <3> QED
      BY Zenon, <1>3, <1>4, <2>1, <3>1
  <2> QED
    BY Zenon, <1>6, <2>2, <2>3 DEF close_and_reconcile
<1>7. ASSUME close_queue(p), claimed_opportunity_ids' = {} PROVE Done
  <2> DEFINE c == [pc |-> "close", t |-> job[p].t, queue |-> job[p].queue]
  <2>1. become(p, c)
    BY Zenon, <1>7 DEF close_queue
  <2>2. c.pc \in FlatPoints \ {"finalize"} /\ c.t = job[p].t
    BY DEF FlatPoints
  <2> HIDE DEF c
  <2> QED
    BY Zenon, <1>4, <1>7, <2>1, <2>2
<1>8. CASE record_closed(p)
  BY Zenon, <1>0, <1>7, <1>8, CloseClaimsNothing DEF record_closed
<1>9. CASE mark_unresolved(p)
  BY Zenon, <1>3, <1>7, <1>9 DEF mark_unresolved
<1>10. CASE check_flat(p)
  <2> DEFINE c == [pc |-> IF active_lifecycle_ids # {} THEN "flat_check" ELSE "finalize", t |-> job[p].t]
  <2>1. become(p, c) /\ UNCHANGED <<row, lifecycle>>
    BY Zenon, <1>10 DEF check_flat, store
  <2>2. /\ c.pc \in FlatPoints /\ c.t = job[p].t
        /\ c.pc = "finalize" => active_lifecycle_ids = {}
    BY DEF FlatPoints
  <2> HIDE DEF c
  <2>3. active_lifecycle_ids' = active_lifecycle_ids
    BY Zenon, <2>1 DEF active_lifecycle_ids
  <2> QED
    BY Zenon, <1>1, <1>3, <2>1, <2>2, <2>3
<1>11. CASE mark_not_flat(p)
  <2> DEFINE c == [pc |-> "finalize", t |-> job[p].t]
  <2>1. become(p, c) /\ UNCHANGED row
    BY Zenon, <1>11 DEF mark_not_flat
  <2>2. c.pc \in FlatPoints /\ c.t = job[p].t
    BY DEF FlatPoints
  <2>3. reasons' # {}
    BY Zenon, <1>11 DEF mark_not_flat, mark_manual_reconciliation_required
  <2> HIDE DEF c
  <2> QED
    BY Zenon, <1>1, <1>3, <2>1, <2>2, <2>3
<1>12. CASE closed_refused(p) \/ finalize(p)
  BY Zenon, <1>2, <1>12 DEF closed_refused, finalize
<1> QED
  BY Zenon, <1>5, <1>6, <1>8, <1>9, <1>10, <1>11, <1>12

(* The claims after any step of a run: a candidate is claimed when nothing *)
(* else is, and recording its answer ends the claim.                       *)
LEMMA ClaimsRun ==
    ASSUME SessionInv, NEW p \in Procs, RunOK(job[p]), ClaimOK(job[p]),
           (\E complete \in BOOLEAN : reconcile(p, complete)) \/ run_step(p)
    PROVE  ClaimOK(job[p])'
<1>0. RowsTyped /\ DOMAIN job = Procs /\ row \in [Ids -> OpportunityRows \cup {NoRow}]
  BY Zenon DEF SessionInv, RowsTyped
<1>1. \A c : become(p, c) => job'[p] = c
  BY Zenon, <1>0 DEF become
<1>2. UNCHANGED row => claimed_opportunity_ids' = claimed_opportunity_ids
  BY Zenon DEF claimed_opportunity_ids, recorded
<1>3. ASSUME claimed_opportunity_ids' = {} PROVE ClaimOK(job[p])'
  BY Zenon, <1>3 DEF ClaimOK, ClaimsFreeze
<1>4. ASSUME NEW c, become(p, c), c.pc \in {"raised", "freeze"} PROVE ClaimOK(job[p])'
  <2>1. job'[p] = c
    BY Zenon, <1>1, <1>4
  <2> QED
    BY <1>4, <2>1 DEF ClaimOK
<1>5. ASSUME raised(p) \/ \E code, i, l : freeze(p, code, i, l) PROVE ClaimOK(job[p])'
  <2>1. [pc |-> "raised"].pc \in {"raised", "freeze"}
    OBVIOUS
  <2>2. \A r : [pc |-> "freeze", t |-> job[p].t, reason |-> r].pc \in {"raised", "freeze"}
    OBVIOUS
  <2> QED
    BY Zenon, <1>4, <1>5, <2>1, <2>2 DEF raised, freeze
<1>6. ASSUME at(p, "state") \/ at(p, "reconcile") \/ at(p, "collect") \/ at(p, "candidates")
      PROVE  claimed_opportunity_ids = {}
  BY Zenon, <1>6 DEF ClaimOK, at
<1>7. CASE check_claimed(p)
  <2>1. UNCHANGED row
    BY Zenon, <1>7 DEF check_claimed, store
  <2> QED
    BY Zenon, <1>2, <1>3, <1>5, <1>7, <2>1 DEF check_claimed
<1>8. CASE (\E complete \in BOOLEAN : reconcile(p, complete)) \/ check_state(p) \/ collect_due(p)
           \/ next_window(p)
  <2>1. UNCHANGED row /\ claimed_opportunity_ids = {}
    BY Zenon, <1>6, <1>8 DEF reconcile, check_state, collect_due, next_window, store
  <2> QED
    BY Zenon, <1>2, <1>3, <2>1
<1>9. CASE claim(p)
  <2> DEFINE x == next_offer(job[p].todo)
             c == [pc |-> "process", t |-> job[p].t, window |-> job[p].window,
                   todo |-> job[p].todo \ {x}, offer |-> x]
  <2>1. claimed_opportunity_ids = {}
    BY Zenon, <1>6, <1>9 DEF claim
  <2>2. CASE UNCHANGED row
    BY Zenon, <1>2, <1>3, <2>1, <2>2
  <2>3. CASE claim_opportunity(x) /\ become(p, c)
    <3>1. c.pc = "process" /\ c.offer = x
      OBVIOUS
    <3> HIDE DEF c
    <3>2. job'[p].pc = "process" /\ job'[p].offer = x
      BY Zenon, <1>1, <2>3, <3>1
    <3> HIDE DEF x
    <3>3. \A k \in Ids : k # x.id => row'[k] = row[k]
      BY <1>0, <2>3 DEF claim_opportunity
    <3>4. claimed_opportunity_ids' \subseteq {x.id}
      BY Zenon, <2>1, <3>3 DEF claimed_opportunity_ids, recorded
    <3>5. job'[p].pc \notin {"state", "reconcile", "collect", "candidates", "returned"}
      BY <3>2
    <3> QED
      BY Zenon, <3>2, <3>4, <3>5 DEF ClaimOK
  <2> QED
    BY Zenon, <1>9, <2>2, <2>3 DEF claim
<1>10. CASE process(p)
  <2>1. UNCHANGED row /\ claimed_opportunity_ids \subseteq {job[p].offer.id}
    BY Zenon, <1>10 DEF process, store, ClaimOK, at
  <2>2. ASSUME NEW r, become(p, [pc |-> "record", t |-> job[p].t, window |-> job[p].window,
                            todo |-> job[p].todo, offer |-> job[p].offer, result |-> r])
        PROVE  ClaimOK(job[p])'
    <3>1. job'[p].pc = "record" /\ job'[p].offer = job[p].offer
      BY <1>1, <2>2
    <3>2. job'[p].pc \notin {"state", "reconcile", "collect", "candidates", "returned"}
      BY <3>1
    <3> QED
      BY Zenon, <1>2, <2>1, <3>1, <3>2 DEF ClaimOK
  <2> QED
    BY Zenon, <1>5, <1>10, <2>2 DEF process
<1>11. CASE record(p)
  <2> DEFINE i == job[p].offer.id
  <2>1. i \in Ids /\ claimed_opportunity_ids \subseteq {i}
    BY Zenon, <1>11, OwnedClaim DEF record, ClaimOK, at
  <2>2. PICK r \in OpportunityRows : row' = [row EXCEPT ![i] = r] /\ r.state = job[p].result.disposition
    BY Zenon, <1>11, RecordWrites
  <2>3. r.state # "CLAIMED"
    <3>1. job[p].result \in Results
      BY Zenon, <1>11 DEF SessionInv, JobOK, record, at
    <3> QED
      BY <2>2, <3>1 DEF Results, Dispositions
  <2> HIDE DEF i
  <2>4. row'[i] = r /\ \A k \in Ids : k # i => row'[k] = row[k]
    BY <1>0, <2>1, <2>2
  <2>5. claimed_opportunity_ids' = {}
    BY Zenon, <2>1, <2>3, <2>4 DEF claimed_opportunity_ids, recorded
  <2> QED
    BY Zenon, <1>3, <2>5
<1>12. CASE record_refused(p)
  BY Zenon, <1>5, <1>12 DEF record_refused
<1>13. CASE mark_frozen(p)
  <2>1. session' = Frozen /\ job'[p] = [pc |-> "returned"]
    BY Zenon, <1>1, <1>13 DEF mark_frozen, returned, mark_manual_reconciliation_required, Frozen
  <2>2. job'[p].pc = "returned"
    BY <2>1
  <2> QED
    BY <2>1, <2>2 DEF ClaimOK, ClaimsFreeze
<1>14. CASE \/ begin_hard_flat(p) \/ close_and_reconcile(p) \/ record_closed(p)
            \/ closed_refused(p) \/ mark_unresolved(p) \/ check_flat(p) \/ mark_not_flat(p)
            \/ finalize(p)
  <2>1. claimed_opportunity_ids = {}
    <3>1. job[p].pc \in FlatPoints
      BY Zenon, <1>14 DEF begin_hard_flat, close_and_reconcile, record_closed, closed_refused,
                   mark_unresolved, check_flat, mark_not_flat, finalize, at, FlatPoints
    <3> QED
      BY Zenon, <3>1 DEF RunOK, FlatPoints
  <2>2. CASE record_closed(p)
    BY Zenon, <1>3, <2>1, <2>2, CloseClaimsNothing
  <2>3. CASE ~record_closed(p)
    <3>1. UNCHANGED row
      BY Zenon, <1>14, <2>3 DEF begin_hard_flat, close_and_reconcile, closed_refused,
                   mark_unresolved, check_flat, mark_not_flat, finalize, store
    <3> QED
      BY Zenon, <1>2, <1>3, <2>1, <3>1
  <2> QED
    BY Zenon, <2>2, <2>3
<1> QED
  BY Zenon, <1>7, <1>8, <1>9, <1>10, <1>11, <1>12, <1>13, <1>14 DEF run_step

(* Only finalize stores a summary.                                         *)
LEMMA OnlyFinalize ==
    ASSUME NEW p \in Procs,
           (\E complete \in BOOLEAN : reconcile(p, complete)) \/ run_step(p), summary' # summary
    PROVE  finalize(p)
BY ZenonT(30) DEF run_step, reconcile, check_claimed, check_state, collect_due, next_window, claim,
         process, record, record_refused, mark_frozen, begin_hard_flat, close_and_reconcile,
         record_closed, closed_refused, mark_unresolved, check_flat, mark_not_flat, store

(* The locals after any step, and what the step means for the store.       *)
LEMMA CoordinatorRuns ==
    ASSUME SessionInv, FreezeInv, HostStore, NEW p \in Procs, RunOK(job[p]), summary = NoSummary,
           (\E complete \in BOOLEAN : reconcile(p, complete)) \/ run_step(p),
           UNCHANGED <<receipt, issued>>
    PROVE  /\ \E c : become(p, c) /\ RunOK(c)' /\ (c.pc \in Resting \/ c.t = job[p].t)
           /\ HostStore'
           /\ summary' # NoSummary => job'[p].pc \in Resting /\ job[p].t >= HardFlatAt
<1>1. \E c : become(p, c) /\ RunOK(c)' /\ (c.pc \in Resting \/ c.t = job[p].t)
  BY Zenon, WindowRuns, FlatRuns DEF run_step
<1>2. "TERMINAL" \notin issued'
  BY Zenon DEF HostStore
<1>3. CASE UNCHANGED <<session, reasons, summary>>
  BY Zenon, <1>1, <1>2, <1>3 DEF HostStore
<1>4. CASE /\ session' = Frozen /\ UNCHANGED summary /\ \E r : reasons' = reasons \cup {r}
  BY Zenon, <1>1, <1>2, <1>4 DEF HostStore
<1>5. ASSUME NEW t \in Times, UNCHANGED reasons, summary' = build_summary(t), summary' # summary,
             session' = IF summary'.flat THEN "FINALIZED" ELSE Frozen
      PROVE  /\ HostStore'
             /\ job'[p].pc \in Resting /\ job[p].t >= HardFlatAt
  <2>1. finalize(p)
    BY Zenon, <1>5, OnlyFinalize
  <2>2. /\ UNCHANGED <<row, lifecycle>> /\ job'[p] = [pc |-> "returned"]
        /\ at(p, "finalize")
    BY Zenon, <2>1 DEF finalize, returned, become, SessionInv, RowsTyped
  <2>3. /\ claimed_opportunity_ids = {} /\ job[p].t >= HardFlatAt
        /\ active_lifecycle_ids = {} \/ reasons # {}
    BY Zenon, <2>2 DEF RunOK, at
  <2>4. /\ claimed_opportunity_ids' = claimed_opportunity_ids
        /\ active_lifecycle_ids' = active_lifecycle_ids
        /\ counts_by_disposition' = counts_by_disposition
    BY Zenon, <2>2 DEF claimed_opportunity_ids, active_lifecycle_ids, counts_by_disposition,
     disposition_counts, recorded
  <2>5. /\ summary'.counts = counts_by_disposition /\ summary'.active = active_lifecycle_ids
        /\ summary'.flat = (active_lifecycle_ids = {} /\ manual_reasons = {})
    BY <1>5 DEF build_summary
  <2>6. manual_reasons = {} <=> reasons = {}
    BY Zenon DEF manual_reasons
  <2>7. session' = Frozen => reasons' # {}
    <3>1. "FINALIZED" # Frozen
      BY DEF Frozen
    <3> QED
      BY Zenon, <1>5, <2>3, <2>5, <2>6, <3>1
  <2>8. HostStore'
    BY Zenon, <1>2, <1>5, <2>3, <2>4, <2>5, <2>7 DEF HostStore
  <2>9. job'[p].pc \in Resting
    BY <2>2 DEF Resting
  <2> QED
    BY Zenon, <2>3, <2>8, <2>9
<1>6. \A t \in Times : build_summary(t) # NoSummary
  BY Zenon, SummaryStored DEF FreezeInv
<1>7. \/ UNCHANGED <<session, reasons, summary>>
      \/ session' = Frozen /\ UNCHANGED summary /\ \E r : reasons' = reasons \cup {r}
      \/ /\ UNCHANGED reasons /\ \E t \in Times : summary' = build_summary(t)
         /\ session' = IF summary'.flat THEN "FINALIZED" ELSE Frozen
  BY Zenon, SessionWrites DEF Frozen
<1> QED
  BY Zenon, <1>1, <1>3, <1>4, <1>5, <1>6, <1>7

-----------------------------------------------------------------------------
(* Invocations                                                             *)

(* One invocation moves.                                                   *)
LEMMA HostMoves ==
    ASSUME host = [p \in Procs |-> host[p]], NEW p \in Procs, NEW h, proceed(p, h)
    PROVE  /\ host' = [q \in Procs |-> host'[q]] /\ host'[p] = h
           /\ \A q \in Procs : q # p => host'[q] = host[q]
BY DEF proceed

(* Nobody else is inside while an invocation holds the lock or it is free. *)
LEMMA OthersOutside ==
    ASSUME HostInv, NEW p \in Procs,
           host[p].pc \notin Outside \/ lock = NoProc \/ lock = p
    PROVE  \A q \in Procs : q # p => host[q].pc \in Outside
BY Zenon, HostConstants DEF HostInv, HostOK

(* An invocation outside relies on nothing; one that saw no change relies  *)
(* on what it did.                                                         *)
LEMMA OutsideOK ==
    ASSUME NEW q \in Procs, HostOK(q), host[q].pc \in Outside, host'[q] = host[q], job'[q] = job[q]
    PROVE  HostOK(q)'
<1>1. host[q].pc \notin {"arm", "running", "loop", "exception", "reconcile", "mark", "receipt"}
  BY DEF Outside
<1>2. job[q].pc \in Resting
  BY Zenon, <1>1 DEF HostOK
<1>3. RunOK(job[q])'
  BY <1>2 DEF RunOK, Resting
<1> QED
  BY Zenon, <1>1, <1>2, <1>3 DEF HostOK, HostShape

(* An invocation that saw neither the lock, the store nor the holding      *)
(* change relies on what it did.                                           *)
LEMMA UndisturbedOK ==
    ASSUME NEW q \in Procs, HostOK(q), UNCHANGED <<lock, store, exposed>>, host'[q] = host[q],
           job'[q] = job[q]
    PROVE  HostOK(q)'
<1>1. UNCHANGED <<lock, arm, session, row, lifecycle, reasons, summary, exposed>>
  BY Zenon DEF store
<1>2. RunOK(job[q])'
  BY Zenon, <1>1 DEF HostOK, RunOK, claimed_opportunity_ids, recorded, active_lifecycle_ids
<1>3. /\ ClaimsFreeze <=> ClaimsFreeze'
      /\ ClaimOK(job[q]) => ClaimOK(job[q])'
  BY Zenon, <1>1 DEF ClaimOK, ClaimsFreeze, claimed_opportunity_ids, recorded
<1> QED
  BY Zenon, <1>1, <1>2, <1>3 DEF HostOK, HostShape

(* A step of one invocation keeps HostInv when it keeps what that one and  *)
(* the store rely on.                                                      *)
LEMMA HostStepOK ==
    ASSUME HostInv, NEW p \in Procs, host' = [q \in Procs |-> host'[q]],
           \A q \in Procs : q # p => host'[q] = host[q] /\ job'[q] = job[q],
           \/ UNCHANGED <<lock, store, exposed>>
           \/ \A q \in Procs : q # p => host[q].pc \in Outside,
           SessionInv', FreezeInv', HostStore', HostOK(p)'
    PROVE  HostInv'
<1>1. ASSUME NEW q \in Procs, q # p PROVE HostOK(q)'
  BY Zenon, <1>1, OutsideOK, UndisturbedOK DEF HostInv
<1> QED
  BY Zenon, <1>1 DEF HostInv

(* A step that leaves the session alone.                                   *)
LEMMA HostQuiet ==
    ASSUME HostInv, NEW p \in Procs, UNCHANGED session_vars, NEW h, proceed(p, h),
           \/ UNCHANGED lock
           \/ \A q \in Procs : q # p => host[q].pc \in Outside,
           HostStore', HostOK(p)'
    PROVE  HostInv'
<1>1. UNCHANGED <<arm, session, row, lifecycle, reasons, summary, job, exposed, calls>>
  BY Zenon DEF session_vars, store
<1>2. SessionInv' /\ FreezeInv'
  BY Zenon, SessionStep, FreezeStep DEF HostInv
<1>3. host' = [q \in Procs |-> host'[q]] /\ \A q \in Procs : q # p => host'[q] = host[q]
  BY Zenon, HostMoves DEF HostInv
<1>4. UNCHANGED lock => UNCHANGED <<lock, store, exposed>>
  BY Zenon DEF session_vars
<1>5. \A q \in Procs : q # p => host'[q] = host[q] /\ job'[q] = job[q]
  BY Zenon, <1>1, <1>3
<1> QED
  BY Zenon, <1>2, <1>3, <1>4, <1>5, HostStepOK

(* The store and the receipts still agree when neither is written.         *)
LEMMA StoreQuiet ==
    ASSUME HostStore, UNCHANGED session_vars, UNCHANGED <<receipt, issued>>
    PROVE  HostStore'
<1>1. UNCHANGED <<session, row, lifecycle, reasons, summary, exposed>>
  BY Zenon DEF session_vars, store
<1>2. /\ claimed_opportunity_ids' = claimed_opportunity_ids
      /\ active_lifecycle_ids' = active_lifecycle_ids /\ counts_by_disposition' = counts_by_disposition
  BY Zenon, <1>1 DEF claimed_opportunity_ids, active_lifecycle_ids, counts_by_disposition,
     disposition_counts, recorded
<1> QED
  BY Zenon, <1>1, <1>2 DEF HostStore

(* RunOK of a coordinator at rest.                                         *)
LEMMA RestingOK ==
    ASSUME NEW p \in Procs, job'[p].pc \in Resting
    PROVE  RunOK(job[p])'
BY DEF RunOK, Resting

(* The locals of an invocation after a change of their point.              *)
LEMMA Repointed ==
    ASSUME NEW h, HostShape(h), h.pc \in {"lock", "arm", "loop", "running", "exception"},
           NEW pc \in {"arm", "loop", "running", "exception"}, NEW k, k = [h EXCEPT !.pc = pc]
    PROVE  /\ HostShape(k) /\ k.pc = pc
           /\ k.arm = h.arm /\ k.timeline = h.timeline /\ k.t = h.t /\ k.plan = h.plan
<1>1. h # Out /\ h.pc \notin {"reconcile", "mark", "receipt"}
  BY DEF Out
<1>2. /\ h = [pc |-> h.pc, arm |-> h.arm, timeline |-> h.timeline, t |-> h.t, hard |-> h.hard,
              plan |-> h.plan]
      /\ h.arm \in Arms /\ h.timeline \subseteq Times /\ \A u \in h.timeline : u <= HardFlatAt
  BY Zenon, <1>1 DEF HostShape
<1>3. k = [pc |-> pc, arm |-> h.arm, timeline |-> h.timeline, t |-> h.t, hard |-> h.hard,
           plan |-> h.plan]
  BY <1>2
<1>4. /\ k.pc = pc /\ k.arm = h.arm /\ k.timeline = h.timeline /\ k.t = h.t /\ k.hard = h.hard
      /\ k.plan = h.plan
  BY <1>3
<1>5. HostShape(k)
  BY Zenon, <1>2, <1>3, <1>4 DEF HostShape
<1> QED
  BY Zenon, <1>4, <1>5

(* ... and of several of them.                                             *)
LEMMA Relocated ==
    ASSUME NEW g, g = [pc |-> g.pc, arm |-> g.arm, timeline |-> g.timeline, t |-> g.t,
                       hard |-> g.hard, plan |-> g.plan],
           NEW plan, NEW t
    PROVE  /\ [g EXCEPT !.pc = "loop", !.plan = plan]
                = [pc |-> "loop", arm |-> g.arm, timeline |-> g.timeline, t |-> g.t,
                   hard |-> g.hard, plan |-> plan]
           /\ [g EXCEPT !.pc = "running", !.t = t, !.timeline = @ \ {t}]
                = [pc |-> "running", arm |-> g.arm, timeline |-> g.timeline \ {t}, t |-> t,
                   hard |-> g.hard, plan |-> g.plan]
<1>1. PICK c, a, l, u, d, b : g = [pc |-> c, arm |-> a, timeline |-> l, t |-> u, hard |-> d, plan |-> b]
  BY Zenon
<1>2. /\ g.pc = c /\ g.arm = a /\ g.timeline = l /\ g.t = u /\ g.hard = d /\ g.plan = b
      /\ DOMAIN g = {"pc", "arm", "timeline", "t", "hard", "plan"}
  BY <1>1
<1>3. [g EXCEPT !.pc = "loop", !.plan = plan]
        = [pc |-> "loop", arm |-> a, timeline |-> l, t |-> u, hard |-> d, plan |-> plan]
  <2> DEFINE o == [g EXCEPT !.pc = "loop"]
  <2>1. [g EXCEPT !.pc = "loop", !.plan = plan] = [o EXCEPT !.plan = plan]
    OBVIOUS
  <2>2. o = [pc |-> "loop", arm |-> a, timeline |-> l, t |-> u, hard |-> d, plan |-> b]
    BY <1>1
  <2> HIDE DEF o
  <2>3. [o EXCEPT !.plan = plan]
          = [pc |-> "loop", arm |-> a, timeline |-> l, t |-> u, hard |-> d, plan |-> plan]
    BY <2>2
  <2> QED
    BY Zenon, <2>1, <2>3
<1> DEFINE e == [g EXCEPT !.pc = "running"]
           f == [g EXCEPT !.pc = "running", !.t = t]
           k == f.timeline \ {t}
<1>4. [g EXCEPT !.pc = "running", !.t = t, !.timeline = @ \ {t}] = [f EXCEPT !.timeline = @ \ {t}]
  OBVIOUS
<1>5. f = [e EXCEPT !.t = t]
  OBVIOUS
<1>6. e = [pc |-> "running", arm |-> a, timeline |-> l, t |-> u, hard |-> d, plan |-> b]
  BY <1>1
<1> HIDE DEF e, f
<1>7. f = [pc |-> "running", arm |-> a, timeline |-> l, t |-> t, hard |-> d, plan |-> b]
  BY <1>5, <1>6
<1>8. [f EXCEPT !.timeline = @ \ {t}] = [f EXCEPT !.timeline = k]
  BY Zenon
<1>9. k = l \ {t}
  BY <1>7
<1> HIDE DEF k
<1>10. [f EXCEPT !.timeline = k]
         = [pc |-> "running", arm |-> a, timeline |-> k, t |-> t, hard |-> d, plan |-> b]
  BY <1>7
<1> QED
  BY Zenon, <1>2, <1>3, <1>4, <1>8, <1>9, <1>10

(* An invocation that is over.                                             *)
LEMMA OverOK ==
    ASSUME NEW p \in Procs, host'[p] = Out, job'[p].pc \in Resting
    PROVE  HostOK(p)'
<1>1. Out.pc = "out" /\ RunOK(job[p])'
  BY Zenon, RestingOK DEF Out
<1> QED
  BY <1>1 DEF HostOK, HostShape, Outside

-----------------------------------------------------------------------------
(* Steps of an invocation that leave the session alone                     *)

(* A command starts with a timeline that ends at hard flat or before; it   *)
(* does not hold the lock yet.                                             *)
LEMMA BeginHostStep ==
    ASSUME HostInv, NEW p \in Procs, NEW a \in Arms, NEW timeline \in SUBSET Times,
           host_begin(p, a, timeline)
    PROVE  HostInv'
<1> DEFINE h == [pc |-> "lock", arm |-> a, timeline |-> timeline, t |-> Max(timeline),
                 hard |-> HardFlatAt \in timeline, plan |-> NoBinding]
<1>1. proceed(p, h) /\ UNCHANGED session_vars /\ UNCHANGED lock /\ UNCHANGED <<receipt, issued>>
      /\ in_host(p, "out") /\ timeline # {} /\ \A u \in timeline : u <= HardFlatAt
  BY Zenon DEF host_begin, validate_timeline
<1>2. /\ h.pc = "lock" /\ h.arm = a /\ h.timeline = timeline
      /\ h = [pc |-> h.pc, arm |-> h.arm, timeline |-> h.timeline, t |-> h.t, hard |-> h.hard,
              plan |-> h.plan]
  BY Zenon
<1> HIDE DEF h
<1>3. host'[p] = h
  BY Zenon, <1>1, HostMoves DEF HostInv
<1>4. job'[p] = job[p] /\ job[p].pc \in Resting
  BY <1>1 DEF session_vars, HostInv, HostOK, in_host
<1>5. RunOK(job[p])'
  BY Zenon, <1>4, RestingOK
<1>6. HostShape(h)
  BY Zenon, <1>1, <1>2 DEF HostShape
<1>7. HostOK(p)'
  BY Zenon, <1>1, <1>2, <1>3, <1>4, <1>5, <1>6 DEF HostOK, Outside, HostShape
<1>8. HostStore'
  BY Zenon, <1>1, StoreQuiet DEF HostInv
<1> QED
  BY Zenon, <1>1, <1>7, <1>8, HostQuiet

(* The lock is taken when it is free, and the invocation leaves as busy    *)
(* when it is not.                                                         *)
LEMMA LockStep ==
    ASSUME HostInv, NEW p \in Procs, state_directory_lock(p)
    PROVE  HostInv'
<1>1. UNCHANGED session_vars /\ UNCHANGED <<receipt, issued>> /\ in_host(p, "lock")
  BY Zenon DEF state_directory_lock
<1>2. job'[p] = job[p] /\ job[p].pc \in Resting
  BY <1>1 DEF session_vars, HostInv, HostOK, in_host
<1>3. RunOK(job[p])'
  BY Zenon, <1>2, RestingOK
<1>6. HostStore'
  BY Zenon, <1>1, StoreQuiet DEF HostInv
<1>4. CASE lock = NoProc /\ lock' = p /\ proceed(p, [host[p] EXCEPT !.pc = "arm"])
  <2> DEFINE h == [host[p] EXCEPT !.pc = "arm"]
  <2>1. host'[p] = h /\ HostOK(p) /\ host[p].pc = "lock"
    BY Zenon, <1>1, <1>4, HostMoves DEF HostInv, in_host
  <2>5. HostShape(host[p]) /\ host[p].timeline # {}
    BY Zenon, <2>1 DEF HostOK
  <2>6. HostShape(h) /\ h.pc = "arm" /\ h.timeline = host[p].timeline
    BY <2>1, <2>5, Repointed
  <2>2. HostShape(h) /\ h.pc = "arm" /\ h.timeline # {}
    BY Zenon, <2>5, <2>6
  <2> HIDE DEF h
  <2>3. HostOK(p)'
    BY <1>2, <1>3, <1>4, <2>1, <2>2 DEF HostOK, Outside, HostShape
  <2>4. \A q \in Procs : q # p => host[q].pc \in Outside
    BY Zenon, <1>4, OthersOutside
  <2> QED
    BY Zenon, <1>1, <1>4, <1>6, <2>3, <2>4, HostQuiet
<1>5. CASE UNCHANGED lock /\ proceed(p, Out)
  <2>1. HostOK(p)'
    BY Zenon, <1>2, <1>5, HostMoves, OverOK DEF HostInv
  <2> QED
    BY Zenon, <1>1, <1>5, <1>6, <2>1, HostQuiet
<1> QED
  BY Zenon, <1>4, <1>5 DEF state_directory_lock

(* The coordinator has returned or raised: the invocation goes on with its *)
(* coordinator at rest.                                                    *)
LEMMA ReturnedStep ==
    ASSUME HostInv, NEW p \in Procs, host_returned(p)
    PROVE  HostInv'
<1>1. UNCHANGED session_vars /\ UNCHANGED lock /\ UNCHANGED <<receipt, issued>>
      /\ in_host(p, "running")
  BY Zenon DEF host_returned
<1>2. UNCHANGED <<arm, summary, job>>
  BY Zenon, <1>1 DEF session_vars, store
<1>3. HostStore'
  BY Zenon, <1>1, StoreQuiet DEF HostInv
<1>4. PICK pc \in {"loop", "exception"} : /\ proceed(p, [host[p] EXCEPT !.pc = pc]) /\ job[p].pc \in Resting
                                          /\ pc = "loop" => job[p].pc = "returned"
  BY DEF host_returned, at, Resting
<1> DEFINE h == [host[p] EXCEPT !.pc = pc]
<1>5. host'[p] = h /\ HostOK(p) /\ host[p].pc = "running"
  BY Zenon, <1>1, <1>4, HostMoves DEF HostInv, in_host
<1>6. HostShape(host[p])
  BY Zenon, <1>5 DEF HostOK
<1>7. HostShape(h) /\ h.pc = pc /\ h.timeline = host[p].timeline /\ h.plan = host[p].plan
  BY <1>5, <1>6, Repointed
<1> HIDE DEF h
<1>8. /\ lock = p /\ arm # NoArm /\ validate_plan(host[p].plan)
      /\ summary # NoSummary => host[p].timeline = {}
  BY Zenon, <1>5 DEF HostOK, Outside
<1>9. RunOK(job[p])'
  BY Zenon, <1>2, <1>4, RestingOK
<1>10. HostOK(p)'
  <2>1. h.pc \notin {"running", "reconcile", "mark", "receipt"}
    BY <1>7
  <2>2. job'[p].pc \in Resting
    BY Zenon, <1>2, <1>4
  <2>5. HostShape(host[p])'
    BY Zenon, <1>5, <1>7 DEF HostShape
  <2>6. host'[p].plan = host[p].plan
    BY Zenon, <1>5, <1>7
  <2>3. validate_plan(host[p].plan)'
    BY Zenon, <1>8, <2>6 DEF validate_plan
  <2>4. summary' # NoSummary => host'[p].timeline = {}
    BY Zenon, <1>2, <1>5, <1>7, <1>8
  <2>7. host'[p].pc = "loop" => ClaimsFreeze'
    <3>1. UNCHANGED <<session, row>>
      BY Zenon, <1>1 DEF session_vars, store
    <3>2. host'[p].pc = "loop" => job[p].pc = "returned"
      BY Zenon, <1>4, <1>5, <1>7
    <3> QED
      BY Zenon, <1>5, <3>1, <3>2 DEF HostOK, ClaimOK, ClaimsFreeze, claimed_opportunity_ids, recorded
  <2>8. host'[p].pc \notin {"lock", "arm", "running", "reconcile", "mark", "receipt"}
    BY <1>5, <1>7
  <2> QED
    BY Zenon, <1>1, <1>2, <1>5, <1>8, <1>9, <2>1, <2>2, <2>3, <2>4, <2>5, <2>7, <2>8 DEF HostOK
<1> QED
  BY Zenon, <1>1, <1>3, <1>4, <1>10, HostQuiet

(* The locals of an invocation that turns to broker truth.                 *)
LEMMA ReconcileOK ==
    ASSUME NEW p \in Procs, NEW plan, NEW hard,
           host'[p] = [pc |-> "reconcile", final |-> FALSE, truth |-> FALSE, hard |-> hard, plan |-> plan],
           lock' = p, arm' # NoArm, validate_plan(plan), job'[p].pc \in Resting, ClaimsFreeze'
    PROVE  HostOK(p)'
<1> DEFINE h == [pc |-> "reconcile", final |-> FALSE, truth |-> FALSE, hard |-> hard, plan |-> plan]
<1>1. /\ h.pc = "reconcile" /\ h.truth = FALSE /\ h.plan = plan
      /\ h = [pc |-> h.pc, final |-> h.final, truth |-> h.truth, hard |-> h.hard, plan |-> h.plan]
  BY Zenon
<1>2. host'[p] = h
  BY Zenon
<1> HIDE DEF h
<1>3. HostShape(h) /\ HostShape(host[p])'
  BY Zenon, <1>1, <1>2 DEF HostShape
<1>4. RunOK(job[p])'
  BY Zenon, RestingOK
<1>5. h.pc \notin {"lock", "arm", "running", "loop", "exception", "receipt", "mark"}
  BY <1>1
<1> QED
  BY Zenon, <1>1, <1>2, <1>3, <1>4, <1>5 DEF HostOK, validate_plan

(* The final check accepts broker truth, with nothing held where there is  *)
(* a summary, or goes on to mark the session.                              *)
LEMMA HostReconcileStep ==
    ASSUME HostInv, NEW p \in Procs, host_reconcile(p)
    PROVE  HostInv'
<1> DEFINE final == summary # NoSummary
<1>1. UNCHANGED session_vars /\ UNCHANGED lock /\ UNCHANGED <<receipt, issued>>
      /\ in_host(p, "reconcile")
  BY Zenon DEF host_reconcile
<1>2. UNCHANGED <<arm, summary, job, exposed, session, row>>
  BY Zenon, <1>1 DEF session_vars, store
<1>3. HostStore'
  BY Zenon, <1>1, StoreQuiet DEF HostInv
<1>4. HostOK(p) /\ host[p].pc = "reconcile"
  BY Zenon, <1>1 DEF HostInv, in_host
<1>5. /\ lock = p /\ arm # NoArm /\ validate_plan(host[p].plan) /\ host[p].truth = FALSE
      /\ job[p].pc \in Resting
  BY Zenon, <1>4 DEF HostOK, Outside
<1>6. host[p] = [pc |-> host[p].pc, final |-> host[p].final, truth |-> host[p].truth,
                 hard |-> host[p].hard, plan |-> host[p].plan]
  <2>1. host[p] # Out /\ host[p].pc \notin {"lock", "arm", "loop", "running", "exception"}
    BY <1>4 DEF Out
  <2> QED
    BY Zenon, <1>4, <2>1 DEF HostOK, HostShape
<1>7. RunOK(job[p])'
  BY Zenon, <1>2, <1>5, RestingOK
<1>11. ClaimsFreeze'
  BY Zenon, <1>2, <1>4 DEF HostOK, ClaimsFreeze, claimed_opportunity_ids, recorded
<1>8. ASSUME NEW pc \in {"mark", "receipt"}, NEW truth \in BOOLEAN, NEW h,
             h = [host[p] EXCEPT !.pc = pc, !.final = final, !.truth = truth], host'[p] = h,
             pc = "mark" => truth = FALSE,
             pc = "receipt" => truth /\ (final => exposed = {})
      PROVE  HostOK(p)'
  <2>1. h = [pc |-> pc, final |-> final, truth |-> truth, hard |-> host[p].hard, plan |-> host[p].plan]
    BY Zenon, <1>6, <1>8
  <2>2. /\ h.pc = pc /\ h.final = final /\ h.truth = truth /\ h.plan = host[p].plan
        /\ h = [pc |-> h.pc, final |-> h.final, truth |-> h.truth, hard |-> h.hard, plan |-> h.plan]
    BY <2>1
  <2>3. HostShape(h) /\ HostShape(host[p])'
    BY Zenon, <1>8, <2>2 DEF HostShape
  <2>4. h.pc \notin {"lock", "arm", "running", "loop", "exception", "reconcile"} /\ (h.pc = "mark" => h.pc # "receipt")
    BY <2>2
  <2>5. host'[p].final = (summary' # NoSummary)
    BY Zenon, <1>2, <1>8, <2>2
  <2>6. /\ host'[p].pc = pc /\ host'[p].truth = truth /\ host'[p].plan = host[p].plan
        /\ job'[p].pc \in Resting
    BY Zenon, <1>2, <1>5, <1>8, <2>2
  <2>7. host'[p].pc = "receipt" => /\ host'[p].truth /\ host'[p].final => exposed' = {}
                                   /\ ~host'[p].truth => session' = Frozen
    BY Zenon, <1>2, <1>8, <2>2, <2>6
  <2>8. host'[p].pc \in {"reconcile", "mark"} => host'[p].truth = FALSE
    BY <1>8, <2>6
  <2>9. validate_plan(host[p].plan)'
    BY Zenon, <1>5, <2>6 DEF validate_plan
  <2> QED
    BY Zenon, <1>1, <1>2, <1>5, <1>7, <1>8, <1>11, <2>2, <2>3, <2>4, <2>5, <2>6, <2>7, <2>8, <2>9 DEF HostOK
<1>9. CASE /\ truth_accepted(active_lifecycle_ids, final)
           /\ proceed(p, [host[p] EXCEPT !.pc = "receipt", !.final = final, !.truth = TRUE])
  <2>1. host'[p] = [host[p] EXCEPT !.pc = "receipt", !.final = final, !.truth = TRUE]
    BY Zenon, <1>9, HostMoves DEF HostInv
  <2>2. final => exposed = {}
    BY Zenon, <1>9 DEF truth_accepted
  <2>3. HostOK(p)'
    BY Zenon, <1>8, <2>1, <2>2
  <2> QED
    BY Zenon, <1>1, <1>3, <1>9, <2>3, HostQuiet
<1>10. CASE proceed(p, [host[p] EXCEPT !.pc = "mark", !.final = final])
  <2>1. [host[p] EXCEPT !.pc = "mark", !.final = final]
          = [host[p] EXCEPT !.pc = "mark", !.final = final, !.truth = FALSE]
    BY Zenon, <1>5, <1>6
  <2>2. host'[p] = [host[p] EXCEPT !.pc = "mark", !.final = final, !.truth = FALSE]
    BY Zenon, <1>10, <2>1, HostMoves DEF HostInv
  <2>3. HostOK(p)'
    BY Zenon, <1>8, <2>2
  <2> QED
    BY Zenon, <1>1, <1>3, <1>10, <2>3, HostQuiet
<1> QED
  BY Zenon, <1>9, <1>10 DEF host_reconcile

(* What the draft of a receipt says.                                       *)
LEMMA Drafted ==
    ASSUME HostInv, NEW p \in Procs, in_host(p, "receipt"), NEW r, r = drafted(p)
    PROVE  /\ r.disposition = "TERMINAL" => summary # NoSummary /\ exposed = {} /\ active_lifecycle_ids = {}
           /\ claimed_opportunity_ids = {} => receipt_payload(r)
<1> DEFINE final == host[p].final
           truth == host[p].truth
           d == host_disposition(final, truth)
           o == [disposition |-> d, class |-> host[p].plan.class, final |-> final, truth |-> truth,
                 summary |-> summary # NoSummary, flat |-> d = "TERMINAL",
                 counts |-> disposition_counts, active |-> active_lifecycle_ids, codes |-> manual_reasons]
<1>1. r = o
  BY Zenon DEF drafted
<1>2. HostOK(p) /\ host[p].pc = "receipt" /\ HostStore /\ RowsTyped
  BY Zenon DEF HostInv, SessionInv, in_host
<1>3. /\ final = (summary # NoSummary)
      /\ truth /\ final => exposed = {}
      /\ ~truth => session = Frozen
  BY Zenon, <1>2 DEF HostOK
<1>4. manual_reasons = {} <=> reasons = {}
  BY Zenon DEF manual_reasons
<1>5. d = IF manual_reasons # {} \/ session = Frozen THEN Frozen
          ELSE IF summary # NoSummary /\ summary.flat /\ active_lifecycle_ids = {} /\ final /\ truth
               THEN "TERMINAL" ELSE "INCOMPLETE"
  BY Zenon DEF host_disposition, Frozen
<1> HIDE DEF d, final, truth
<1>6. /\ r.disposition = d /\ r.final = final /\ r.truth = truth /\ r.summary = (summary # NoSummary)
      /\ r.flat = (d = "TERMINAL") /\ r.active = active_lifecycle_ids /\ r.codes = manual_reasons
      /\ r.counts = disposition_counts
  <2>1. /\ o.disposition = d /\ o.final = final /\ o.truth = truth /\ o.summary = (summary # NoSummary)
        /\ o.flat = (d = "TERMINAL") /\ o.active = active_lifecycle_ids /\ o.codes = manual_reasons
        /\ o.counts = disposition_counts
    BY Zenon DEF o
  <2> HIDE DEF o
  <2> QED
    BY Zenon, <1>1, <2>1
<1>7. "TERMINAL" # Frozen /\ "INCOMPLETE" # Frozen /\ "TERMINAL" # "INCOMPLETE"
  BY DEF Frozen
<1>8. /\ session = Frozen => manual_reasons # {}
      /\ summary # NoSummary /\ ~summary.flat => session = Frozen
      /\ summary # NoSummary /\ summary.flat => active_lifecycle_ids = {}
  BY Zenon, <1>2, <1>4 DEF HostStore
<1>9. d = "TERMINAL" => /\ final /\ truth /\ active_lifecycle_ids = {} /\ manual_reasons = {}
                        /\ summary # NoSummary /\ exposed = {}
  BY Zenon, <1>3, <1>5, <1>7
<1>10. d = Frozen <=> manual_reasons # {}
  BY Zenon, <1>5, <1>7, <1>8
<1>11. d = "INCOMPLETE" => summary = NoSummary
  BY Zenon, <1>3, <1>5, <1>7, <1>8
<1>12. claimed_opportunity_ids = {} => DOMAIN disposition_counts \subseteq Dispositions
  <2> SUFFICES ASSUME claimed_opportunity_ids = {}, NEW i \in Ids, row[i] # NoRow
               PROVE  row[i].state \in Dispositions
    BY Zenon DEF disposition_counts
  <2>1. row[i] \in OpportunityRows
    BY Zenon, <1>2 DEF RowsTyped
  <2>2. row[i].state \in Dispositions \cup {"CLAIMED"}
    BY <2>1 DEF OpportunityRows
  <2>3. row[i].state # "CLAIMED"
    BY Zenon DEF claimed_opportunity_ids, recorded
  <2> QED
    BY Zenon, <2>2, <2>3
<1>13. claimed_opportunity_ids = {} => receipt_payload(r)
  BY Zenon, <1>3, <1>6, <1>9, <1>10, <1>11, <1>12 DEF receipt_payload, Frozen
<1> QED
  BY Zenon, <1>6, <1>9, <1>13

(* The receipt is issued, or refused: the lock is released either way.     *)
LEMMA ReceiptStep ==
    ASSUME HostInv, NEW p \in Procs, host_receipt(p)
    PROVE  HostInv'
<1>1. /\ UNCHANGED session_vars /\ lock' = NoProc /\ proceed(p, Out) /\ in_host(p, "receipt")
      /\ issued' = issued \cup {drafted(p).disposition} \/ issued' = issued
  BY Zenon DEF host_receipt, release
<1>2. UNCHANGED <<session, row, lifecycle, reasons, summary, exposed, job>>
  BY Zenon, <1>1 DEF session_vars, store
<1>3. HostOK(p) /\ host[p].pc = "receipt" /\ HostStore
  BY Zenon, <1>1 DEF HostInv, in_host
<1>4. job[p].pc \in Resting
  BY Zenon, <1>3 DEF HostOK
<1>5. /\ claimed_opportunity_ids' = claimed_opportunity_ids
      /\ active_lifecycle_ids' = active_lifecycle_ids /\ counts_by_disposition' = counts_by_disposition
  BY Zenon, <1>2 DEF claimed_opportunity_ids, active_lifecycle_ids, counts_by_disposition,
     disposition_counts, recorded
<1>6. "TERMINAL" \in issued' => summary # NoSummary /\ exposed = {} /\ active_lifecycle_ids = {}
  BY Zenon, <1>1, <1>3, Drafted DEF HostStore
<1>7. HostStore'
  BY Zenon, <1>2, <1>3, <1>5, <1>6 DEF HostStore
<1>8. HostOK(p)'
  BY Zenon, <1>1, <1>2, <1>4, HostMoves, OverOK DEF HostInv
<1>9. \A q \in Procs : q # p => host[q].pc \in Outside
  <2>1. host[p].pc \notin Outside
    BY <1>3 DEF Outside
  <2> QED
    BY Zenon, <2>1, OthersOutside
<1> QED
  BY Zenon, <1>1, <1>7, <1>8, <1>9, HostQuiet

-----------------------------------------------------------------------------
(* Steps that arm, freeze or run the session                               *)

(* Arming never lifts a freeze: an unarmed session has no reason.          *)
LEMMA ArmingKeeps ==
    ASSUME HostInv, NEW a \in Arms, ensure_arm(a),
           UNCHANGED <<row, lifecycle, reasons, summary, exposed, receipt, issued>>
    PROVE  /\ HostStore' /\ arm' # NoArm /\ manual_reasons' \subseteq Codes /\ ReasonsFreeze'
<1>1. HostStore /\ FreezeInv
  BY Zenon DEF HostInv
<1>2. arm' # NoArm
  BY Zenon, SessionConstants DEF ensure_arm
<1>3. session' = session \/ (reasons = {} /\ session' = "ARMED" /\ session # Frozen)
  BY Zenon, <1>1 DEF ensure_arm, FreezeInv, HostStore
<1>4. "ARMED" # Frozen /\ "ARMED" # "FINALIZED"
  BY DEF Frozen
<1>5. ReasonsFreeze' /\ manual_reasons' \subseteq Codes
  BY Zenon, <1>1, <1>3, <1>4 DEF FreezeInv, ReasonsFreeze, manual_reasons
<1>6. /\ claimed_opportunity_ids' = claimed_opportunity_ids
      /\ active_lifecycle_ids' = active_lifecycle_ids /\ counts_by_disposition' = counts_by_disposition
  BY Zenon DEF claimed_opportunity_ids, active_lifecycle_ids, counts_by_disposition,
     disposition_counts, recorded
<1>8. HostStore'
  BY Zenon, <1>1, <1>3, <1>4, <1>6 DEF HostStore
<1> QED
  BY Zenon, <1>2, <1>5, <1>8

(* The rows and the coordinators' locals are untouched.                    *)
LEMMA RowsUntouched ==
    ASSUME SessionInv, UNCHANGED <<row, lifecycle, job, exposed, calls>>
    PROVE  SessionInv'
<1>1. RowsTyped' /\ ProcessedOnce'
  BY Zenon DEF SessionInv, RowsTyped, ProcessedOnce
<1>2. \A p \in Procs : JobOK(job[p])'
  BY Zenon DEF SessionInv, JobOK, matching, Bound
<1>3. ExposureIsOnRecord' /\ LifecycleRowsAgree'
  BY Zenon DEF SessionInv, ExposureIsOnRecord, LifecycleRowsAgree, recorded
<1> QED
  BY Zenon, <1>1, <1>2, <1>3 DEF SessionInv, Owns

(* The session is armed or was armed before; with a summary the timeline   *)
(* is skipped, and a plan that goes on is a validated one.                 *)
LEMMA ArmStep ==
    ASSUME HostInv, NEW p \in Procs, host_arm(p)
    PROVE  HostInv'
<1>1. /\ UNCHANGED <<row, lifecycle, reasons, summary, job, exposed, calls, receipt, issued>>
      /\ in_host(p, "arm")
  BY Zenon DEF host_arm
<1>2. HostOK(p) /\ host[p].pc = "arm"
  BY Zenon, <1>1 DEF HostInv, in_host
<1>3. lock = p /\ job[p].pc \in Resting /\ HostShape(host[p])
  BY <1>2 DEF HostOK, Outside
<1>4. host[p].arm \in Arms /\ \A u \in host[p].timeline : u <= HardFlatAt
  BY <1>2, <1>3 DEF HostShape, Out
<1>5. \A q \in Procs : q # p => host[q].pc \in Outside
  BY Zenon, <1>3, OthersOutside
<1>6. SessionInv'
  BY Zenon, <1>1, RowsUntouched DEF HostInv
<1>7. job'[p].pc \in Resting
  BY Zenon, <1>1, <1>3
<1>8. ASSUME NEW h, proceed(p, h), HostStore', FreezeInv', HostOK(p)' PROVE HostInv'
  <2>1. host' = [q \in Procs |-> host'[q]] /\ \A q \in Procs : q # p => host'[q] = host[q]
    BY Zenon, <1>8, HostMoves DEF HostInv
  <2>2. \A q \in Procs : q # p => host'[q] = host[q] /\ job'[q] = job[q]
    BY Zenon, <1>1, <2>1
  <2> QED
    BY Zenon, <1>5, <1>6, <1>8, <2>1, <2>2, HostStepOK
<1>9. CASE release(p) /\ UNCHANGED <<arm, session>>
  <2>1. UNCHANGED session_vars
    BY Zenon, <1>1, <1>9 DEF session_vars, store
  <2>2. HostStore'
    BY Zenon, <1>1, <2>1, StoreQuiet DEF HostInv
  <2>3. proceed(p, Out)
    BY Zenon, <1>9 DEF release
  <2>4. HostOK(p)'
    BY Zenon, <1>7, <2>3, HostMoves, OverOK DEF HostInv
  <2> QED
    BY Zenon, <1>5, <2>1, <2>2, <2>3, <2>4, HostQuiet
<1>10. ASSUME ensure_arm(host[p].arm) PROVE HostStore' /\ FreezeInv' /\ arm' # NoArm
  <2>1. HostStore' /\ arm' # NoArm /\ manual_reasons' \subseteq Codes /\ ReasonsFreeze'
    BY Zenon, <1>1, <1>4, <1>10, ArmingKeeps
  <2> QED
    BY Zenon, <1>1, <2>1 DEF FreezeInv, WritesOK, HostInv
<1>11. CASE ensure_arm(host[p].arm) /\ release(p)
  <2>1. proceed(p, Out)
    BY Zenon, <1>11 DEF release
  <2>2. HostOK(p)'
    BY Zenon, <1>7, <2>1, HostMoves, OverOK DEF HostInv
  <2> QED
    BY Zenon, <1>8, <1>10, <1>11, <2>1, <2>2
<1>12. ASSUME NEW plan \in Plans, ensure_arm(host[p].arm), UNCHANGED lock, validate_plan(plan),
              summary # NoSummary, to_reconcile(p, plan)
       PROVE  HostInv'
  <2> DEFINE h == [pc |-> "reconcile", final |-> FALSE, truth |-> FALSE, hard |-> host[p].hard, plan |-> plan]
  <2>1. proceed(p, h)
    BY Zenon, <1>12 DEF to_reconcile
  <2>2. host'[p] = h
    BY Zenon, <2>1, HostMoves DEF HostInv
  <2>3. lock' = p
    BY Zenon, <1>3, <1>12
  <2>5. ClaimsFreeze'
    <3>1. claimed_opportunity_ids = {}
      BY Zenon, <1>12 DEF HostInv, HostStore
    <3> QED
      BY Zenon, <1>1, <3>1 DEF ClaimsFreeze, claimed_opportunity_ids, recorded
  <2>4. HostOK(p)'
    BY Zenon, <1>7, <1>10, <1>12, <2>2, <2>3, <2>5, ReconcileOK
  <2> QED
    BY Zenon, <1>8, <1>10, <1>12, <2>1, <2>4
<1>13. ASSUME NEW plan \in Plans, ensure_arm(host[p].arm), UNCHANGED lock, validate_plan(plan),
              summary = NoSummary, proceed(p, [host[p] EXCEPT !.pc = "loop", !.plan = plan])
       PROVE  HostInv'
  <2> DEFINE h == [host[p] EXCEPT !.pc = "loop", !.plan = plan]
             g == host[p]
  <2>1. host'[p] = h
    BY Zenon, <1>13, HostMoves DEF HostInv
  <2>2. g = [pc |-> g.pc, arm |-> g.arm, timeline |-> g.timeline, t |-> g.t, hard |-> g.hard, plan |-> g.plan]
        /\ g.timeline \subseteq Times
    <3>1. g # Out /\ g.pc \notin {"reconcile", "mark", "receipt"}
      BY <1>2 DEF Out
    <3> QED
      BY Zenon, <1>3, <3>1 DEF HostShape
  <2>3. h = [pc |-> "loop", arm |-> g.arm, timeline |-> g.timeline, t |-> g.t, hard |-> g.hard, plan |-> plan]
    BY Zenon, <2>2, Relocated
  <2>4. /\ h.pc = "loop" /\ h.plan = plan /\ h.arm = g.arm /\ h.timeline = g.timeline
        /\ h = [pc |-> h.pc, arm |-> h.arm, timeline |-> h.timeline, t |-> h.t, hard |-> h.hard, plan |-> h.plan]
    BY <2>3
  <2> HIDE DEF h
  <2>5. HostShape(h)
    <3>1. h.arm \in Arms /\ h.timeline \subseteq Times /\ \A u \in h.timeline : u <= HardFlatAt
      BY Zenon, <1>4, <2>2, <2>4
    <3> QED
      BY Zenon, <2>4, <3>1 DEF HostShape
  <2>6. HostShape(host[p])' /\ host'[p].pc = "loop" /\ host'[p].plan = plan
    BY Zenon, <2>1, <2>4, <2>5 DEF HostShape
  <2>7. validate_plan(host[p].plan)'
    BY Zenon, <1>13, <2>6 DEF validate_plan
  <2>8. RunOK(job[p])' /\ arm' # NoArm /\ lock' = p /\ summary' = NoSummary
    BY Zenon, <1>1, <1>3, <1>7, <1>10, <1>13, RestingOK
  <2>9. host'[p].pc \notin {"lock", "arm", "running", "reconcile", "mark", "receipt"}
    BY <2>6
  <2>11. host'[p].timeline # {}
    BY Zenon, <1>2, <2>1, <2>4 DEF HostOK
  <2>10. HostOK(p)'
    BY Zenon, <1>7, <2>6, <2>7, <2>8, <2>9, <2>11 DEF HostOK
  <2> QED
    BY Zenon, <1>8, <1>10, <1>13, <2>10
<1> QED
  BY Zenon, <1>9, <1>11, <1>12, <1>13 DEF host_arm

(* The host freezes the session on an exception or on refused truth.       *)
LEMMA HostMarks ==
    ASSUME HostInv, arm # NoArm, NEW reason, reason.code \in Codes,
           mark_manual_reconciliation_required(reason),
           UNCHANGED <<arm, row, lifecycle, summary, job, exposed, calls, receipt, issued>>
    PROVE  SessionInv' /\ FreezeInv' /\ HostStore' /\ session' = Frozen
<1>1. session' = Frozen /\ reasons' = reasons \cup {reason}
  BY Zenon DEF mark_manual_reconciliation_required, Frozen
<1>2. SessionInv'
  BY Zenon, RowsUntouched DEF HostInv
<1>3. manual_reasons' \subseteq Codes
  BY Zenon, <1>1 DEF HostInv, FreezeInv, manual_reasons
<1>4. ReasonsFreeze'
  BY <1>1 DEF ReasonsFreeze, Frozen
<1>5. FreezeInv'
  BY Zenon, <1>3, <1>4 DEF HostInv, FreezeInv, WritesOK
<1>6. /\ claimed_opportunity_ids' = claimed_opportunity_ids
      /\ active_lifecycle_ids' = active_lifecycle_ids /\ counts_by_disposition' = counts_by_disposition
  BY Zenon DEF claimed_opportunity_ids, active_lifecycle_ids, counts_by_disposition,
     disposition_counts, recorded
<1>8. HostStore'
  BY Zenon, <1>1, <1>6 DEF HostInv, HostStore
<1> QED
  BY Zenon, <1>1, <1>2, <1>5, <1>8

(* An exception of a port freezes the session.                             *)
LEMMA ExceptionStep ==
    ASSUME HostInv, NEW p \in Procs, host_exception(p)
    PROVE  HostInv'
<1> DEFINE reason == [code |-> "PORT_EXCEPTION", id |-> NoId, lifecycle |-> NoLifecycle]
           h == [host[p] EXCEPT !.pc = "loop"]
<1>1. /\ UNCHANGED <<arm, row, lifecycle, summary, job, exposed, calls, lock, receipt, issued>>
      /\ in_host(p, "exception") /\ proceed(p, h) /\ mark_manual_reconciliation_required(reason)
  BY Zenon DEF host_exception
<1>2. HostOK(p) /\ host[p].pc = "exception"
  BY Zenon, <1>1 DEF HostInv, in_host
<1>3. /\ lock = p /\ job[p].pc \in Resting /\ HostShape(host[p]) /\ arm # NoArm
      /\ validate_plan(host[p].plan) /\ (summary # NoSummary => host[p].timeline = {})
  BY Zenon, <1>2 DEF HostOK, Outside
<1>4. reason.code \in Codes
  BY DEF Codes, ReasonCodes
<1> HIDE DEF reason
<1>5. SessionInv' /\ FreezeInv' /\ HostStore' /\ ClaimsFreeze'
  BY Zenon, <1>1, <1>3, <1>4, HostMarks DEF ClaimsFreeze, Frozen
<1>6. /\ host' = [q \in Procs |-> host'[q]] /\ \A q \in Procs : q # p => host'[q] = host[q]
      /\ host'[p] = h
  BY Zenon, <1>1, HostMoves DEF HostInv
<1>7. HostShape(h) /\ h.pc = "loop" /\ h.timeline = host[p].timeline /\ h.plan = host[p].plan
  BY <1>2, <1>3, Repointed
<1> HIDE DEF h
<1>8. /\ host'[p].pc = "loop" /\ host'[p].plan = host[p].plan /\ host'[p].timeline = host[p].timeline
      /\ job'[p].pc \in Resting /\ lock' = p /\ arm' # NoArm
  BY Zenon, <1>1, <1>3, <1>6, <1>7
<1>9. HostShape(host[p])'
  BY Zenon, <1>6, <1>7 DEF HostShape
<1>10. validate_plan(host[p].plan)'
  BY Zenon, <1>3, <1>8 DEF validate_plan
<1>11. RunOK(job[p])' /\ (summary' # NoSummary => host'[p].timeline = {})
  BY Zenon, <1>1, <1>3, <1>8, RestingOK
<1>12. host'[p].pc \notin {"lock", "arm", "running", "reconcile", "mark", "receipt"}
  BY <1>8
<1>13. HostOK(p)'
  BY Zenon, <1>5, <1>8, <1>9, <1>10, <1>11, <1>12 DEF HostOK
<1>14. \A q \in Procs : q # p => host[q].pc \in Outside
  BY Zenon, <1>3, OthersOutside
<1>15. \A q \in Procs : q # p => host'[q] = host[q] /\ job'[q] = job[q]
  BY Zenon, <1>1, <1>6
<1> QED
  BY Zenon, <1>5, <1>6, <1>13, <1>14, <1>15, HostStepOK

(* A refused final check freezes the session, so that the receipt will say *)
(* so.                                                                     *)
LEMMA MarkStep ==
    ASSUME HostInv, NEW p \in Procs, host_mark(p)
    PROVE  HostInv'
<1> DEFINE reason == [code |-> "RECONCILIATION_IDENTITY_MISMATCH", id |-> NoId, lifecycle |-> NoLifecycle]
           g == host[p]
           h == [g EXCEPT !.pc = "receipt"]
<1>1. /\ UNCHANGED <<arm, row, lifecycle, summary, job, exposed, calls, lock, receipt, issued>>
      /\ in_host(p, "mark") /\ proceed(p, h) /\ mark_manual_reconciliation_required(reason)
  BY Zenon DEF host_mark
<1>2. HostOK(p) /\ g.pc = "mark"
  BY Zenon, <1>1 DEF HostInv, in_host
<1>3. /\ lock = p /\ job[p].pc \in Resting /\ HostShape(g) /\ arm # NoArm
      /\ validate_plan(g.plan) /\ g.truth = FALSE /\ g.final = (summary # NoSummary)
  BY Zenon, <1>2 DEF HostOK, Outside
<1>4. reason.code \in Codes
  BY DEF Codes, ReasonCodes
<1> HIDE DEF reason
<1>5. SessionInv' /\ FreezeInv' /\ HostStore' /\ session' = Frozen
  BY Zenon, <1>1, <1>3, <1>4, HostMarks
<1>6. /\ host' = [q \in Procs |-> host'[q]] /\ \A q \in Procs : q # p => host'[q] = host[q]
      /\ host'[p] = h
  BY Zenon, <1>1, HostMoves DEF HostInv
<1>7. g = [pc |-> g.pc, final |-> g.final, truth |-> g.truth, hard |-> g.hard, plan |-> g.plan]
  <2>1. g # Out /\ g.pc \notin {"lock", "arm", "loop", "running", "exception"}
    BY <1>2 DEF Out
  <2> QED
    BY Zenon, <1>3, <2>1 DEF HostShape
<1>8. h = [pc |-> "receipt", final |-> g.final, truth |-> g.truth, hard |-> g.hard, plan |-> g.plan]
  BY <1>7
<1>9. /\ h.pc = "receipt" /\ h.final = g.final /\ h.truth = g.truth /\ h.plan = g.plan
      /\ h = [pc |-> h.pc, final |-> h.final, truth |-> h.truth, hard |-> h.hard, plan |-> h.plan]
  BY <1>8
<1> HIDE DEF h
<1>10. HostShape(h)
  BY Zenon, <1>9 DEF HostShape
<1>11. HostShape(host[p])'
  BY Zenon, <1>6, <1>10 DEF HostShape
<1>12. /\ host'[p].pc = "receipt" /\ host'[p].plan = host[p].plan /\ host'[p].truth = FALSE
       /\ host'[p].final = (summary' # NoSummary)
       /\ job'[p].pc \in Resting /\ lock' = p /\ arm' # NoArm
  BY Zenon, <1>1, <1>3, <1>6, <1>9
<1>13. validate_plan(host[p].plan)'
  BY Zenon, <1>3, <1>12 DEF validate_plan
<1>14. RunOK(job[p])'
  BY Zenon, <1>12, RestingOK
<1>15. host'[p].pc \notin {"lock", "arm", "running", "reconcile", "mark", "loop", "exception"}
  BY Zenon, <1>12
<1>16. HostOK(p)'
  BY Zenon, <1>5, <1>11, <1>12, <1>13, <1>14, <1>15 DEF HostOK, ClaimsFreeze
<1>17. \A q \in Procs : q # p => host[q].pc \in Outside
  BY Zenon, <1>3, OthersOutside
<1>18. \A q \in Procs : q # p => host'[q] = host[q] /\ job'[q] = job[q]
  BY Zenon, <1>1, <1>6
<1> QED
  BY Zenon, <1>5, <1>6, <1>16, <1>17, <1>18, HostStepOK

(* The earliest instant left is before the others.                         *)
LEMMA MinIsLeast ==
    ASSUME NEW S \in SUBSET Nat, S # {}
    PROVE  \A u \in S \ {Min(S)} : u > Min(S)
<1>1. PICK x \in S : \A y \in S : x <= y
  BY Zenon, LeastNatural
<1>2. Min(S) \in S /\ \A y \in S : Min(S) <= y
  BY Zenon, <1>1 DEF Min
<1>3. \A y \in S : y \in Nat
  OBVIOUS
<1>4. PICK m \in S : m = Min(S)
  BY Zenon, <1>2
<1>5. \A u \in S \ {m} : u > m
  BY <1>2, <1>3, <1>4
<1> QED
  BY Zenon, <1>4, <1>5

(* The next instant starts a run, or the timeline is over.                 *)
LEMMA RunStep ==
    ASSUME HostInv, NEW p \in Procs, host_run(p)
    PROVE  HostInv'
<1> DEFINE g == host[p]
           t == Min(g.timeline)
           h == [g EXCEPT !.pc = "running", !.t = t, !.timeline = @ \ {t}]
<1>1. UNCHANGED <<lock, receipt, issued>> /\ in_host(p, "loop")
  BY Zenon DEF host_run
<1>2. HostOK(p) /\ g.pc = "loop"
  BY Zenon, <1>1 DEF HostInv, in_host
<1>3. /\ lock = p /\ job[p].pc \in Resting /\ HostShape(g) /\ arm # NoArm
      /\ validate_plan(g.plan) /\ (summary # NoSummary => g.timeline = {})
  BY Zenon, <1>2 DEF HostOK, Outside
<1>4. /\ g = [pc |-> g.pc, arm |-> g.arm, timeline |-> g.timeline, t |-> g.t, hard |-> g.hard, plan |-> g.plan]
      /\ g.arm \in Arms /\ g.timeline \subseteq Times /\ \A u \in g.timeline : u <= HardFlatAt
  <2>1. g # Out /\ g.pc \notin {"reconcile", "mark", "receipt"}
    BY <1>2 DEF Out
  <2> QED
    BY Zenon, <1>3, <2>1 DEF HostShape
<1>5. \A q \in Procs : q # p => host[q].pc \in Outside
  BY Zenon, <1>3, OthersOutside
<1>6. CASE g.timeline = {}
  <2> DEFINE k == [pc |-> "reconcile", final |-> FALSE, truth |-> FALSE, hard |-> g.hard, plan |-> g.plan]
  <2>1. UNCHANGED session_vars /\ proceed(p, k)
    BY Zenon, <1>6 DEF host_run, to_reconcile
  <2>2. host'[p] = k
    BY Zenon, <2>1, HostMoves DEF HostInv
  <2>3. UNCHANGED <<arm, job, session, row>>
    BY Zenon, <2>1 DEF session_vars, store
  <2>6. ClaimsFreeze'
    BY Zenon, <1>2, <1>6, <2>3 DEF HostOK, ClaimsFreeze, claimed_opportunity_ids, recorded
  <2>4. HostOK(p)'
    BY Zenon, <1>1, <1>3, <2>2, <2>3, <2>6, ReconcileOK
  <2>5. HostStore'
    BY Zenon, <1>1, <2>1, StoreQuiet DEF HostInv
  <2> QED
    BY Zenon, <1>1, <2>1, <2>4, <2>5, HostQuiet
<1>7. CASE g.timeline # {}
  <2>1. begin_run(p, g.arm, t) /\ proceed(p, h)
    BY Zenon, <1>7 DEF host_run
  <2>2. t \in g.timeline /\ \A u \in g.timeline \ {t} : u > t
    BY Zenon, <1>4, <1>7, MinIsMember, MinIsLeast, SessionConstants
  <2>3. t \in Times /\ t <= HardFlatAt
    BY Zenon, <1>4, <2>2
  <2> HIDE DEF t
  <2>4. SessionInv' /\ FreezeInv'
    <3>1. [SessionNext]_session_vars
      BY Zenon, <1>4, <2>1, <2>3 DEF SessionNext
    <3> QED
      BY Zenon, <3>1, SessionStep, FreezeStep DEF HostInv
  <2>5. /\ UNCHANGED <<row, lifecycle, reasons, summary, exposed, calls>>
        /\ ensure_arm(g.arm) \/ UNCHANGED <<arm, session>>
        /\ become(p, [pc |-> "claimed", t |-> t]) \/ become(p, [pc |-> "raised"])
    BY Zenon, <2>1 DEF begin_run, raised
  <2>6. HostStore' /\ arm' # NoArm
    <3>1. CASE ensure_arm(g.arm)
      BY Zenon, <1>1, <1>4, <2>5, <3>1, ArmingKeeps
    <3>2. CASE UNCHANGED <<arm, session>>
      <4>1. /\ claimed_opportunity_ids' = claimed_opportunity_ids
            /\ active_lifecycle_ids' = active_lifecycle_ids /\ counts_by_disposition' = counts_by_disposition
        BY Zenon, <2>5 DEF claimed_opportunity_ids, active_lifecycle_ids, counts_by_disposition,
     disposition_counts, recorded
      <4> QED
        BY Zenon, <1>1, <1>3, <2>5, <3>2, <4>1 DEF HostInv, HostStore
    <3> QED
      BY Zenon, <2>5, <3>1, <3>2
  <2>7. /\ host' = [q \in Procs |-> host'[q]] /\ \A q \in Procs : q # p => host'[q] = host[q]
        /\ host'[p] = h
    BY Zenon, <2>1, HostMoves DEF HostInv
  <2>8. h = [pc |-> "running", arm |-> g.arm, timeline |-> g.timeline \ {t}, t |-> t, hard |-> g.hard, plan |-> g.plan]
    BY Zenon, <1>4, Relocated
  <2>9. /\ h.pc = "running" /\ h.arm = g.arm /\ h.timeline = g.timeline \ {t} /\ h.t = t /\ h.plan = g.plan
        /\ h = [pc |-> h.pc, arm |-> h.arm, timeline |-> h.timeline, t |-> h.t, hard |-> h.hard, plan |-> h.plan]
    BY <2>8
  <2> HIDE DEF h
  <2>10. HostShape(h)
    <3>1. h.arm \in Arms /\ h.timeline \subseteq Times /\ \A u \in h.timeline : u <= HardFlatAt
      BY Zenon, <1>4, <2>9
    <3> QED
      BY Zenon, <2>9, <3>1 DEF HostShape
  <2>11. HostShape(host[p])'
    BY Zenon, <2>7, <2>10 DEF HostShape
  <2>12. /\ host'[p].pc = "running" /\ host'[p].plan = host[p].plan /\ host'[p].t = t
         /\ \A u \in host'[p].timeline : u > t
         /\ lock' = p /\ summary' = NoSummary
    BY Zenon, <1>1, <1>3, <1>7, <2>2, <2>5, <2>7, <2>9
  <2>13. /\ DOMAIN job = Procs /\ \A q \in Procs : q # p => job'[q] = job[q]
         /\ job'[p] = [pc |-> "claimed", t |-> t] \/ job'[p] = [pc |-> "raised"]
    BY Zenon, <2>5 DEF HostInv, SessionInv, RowsTyped, become
  <2>14. /\ job'[p].pc \in {"claimed", "raised"}
         /\ job'[p].pc \notin Resting => job'[p].t = t
    BY <2>13 DEF Resting
  <2>15. RunOK(job[p])' /\ ClaimOK(job[p])'
    BY <2>14 DEF RunOK, ClaimOK
  <2>16. validate_plan(host[p].plan)'
    BY Zenon, <1>3, <2>12 DEF validate_plan
  <2>17. host'[p].pc \notin {"lock", "arm", "loop", "reconcile", "mark", "receipt"}
    BY <2>12
  <2>18. HostOK(p)'
    BY Zenon, <2>3, <2>6, <2>11, <2>12, <2>14, <2>15, <2>16, <2>17 DEF HostOK
  <2>19. \A q \in Procs : q # p => host'[q] = host[q] /\ job'[q] = job[q]
    BY Zenon, <2>7, <2>13
  <2> QED
    BY Zenon, <1>5, <2>4, <2>6, <2>7, <2>18, <2>19, HostStepOK
<1> QED
  BY Zenon, <1>6, <1>7

(* The locals of an invocation inside a run.                               *)
LEMMA RunningLocals ==
    ASSUME NEW h, HostShape(h), h.pc = "running"
    PROVE  h.timeline \subseteq Times /\ \A u \in h.timeline : u <= HardFlatAt
<1>1. h # Out /\ h.pc \notin {"reconcile", "mark", "receipt"}
  BY DEF Out
<1> QED
  BY Zenon, <1>1 DEF HostShape

(* A step of the coordinator of a running invocation: until it finalizes   *)
(* there is no summary, and it finalizes in the last run of the timeline.  *)
LEMMA CoordinatorStep ==
    ASSUME HostInv, NEW p \in Procs, coordinator_step(p)
    PROVE  HostInv'
<1>1. /\ (\E complete \in BOOLEAN : reconcile(p, complete)) \/ run_step(p)
      /\ UNCHANGED <<host, lock, receipt, issued>> /\ in_host(p, "running")
  BY Zenon DEF coordinator_step
<1>2. HostOK(p) /\ host[p].pc = "running" /\ job[p].pc \notin Resting
  BY Zenon, <1>1, NotResting DEF HostInv, in_host
<1>3. host[p].pc \notin Outside \cup {"arm", "exception", "loop", "reconcile", "mark", "receipt"}
  BY <1>2 DEF Outside
<1>4. /\ lock = p /\ arm # NoArm /\ validate_plan(host[p].plan) /\ HostShape(host[p])
      /\ host[p].t \in Times /\ host[p].t <= HardFlatAt /\ \A u \in host[p].timeline : u > host[p].t
      /\ job[p].t = host[p].t /\ summary = NoSummary /\ RunOK(job[p]) /\ ClaimOK(job[p])
  BY Zenon, <1>2, <1>3 DEF HostOK
<1>5. \A q \in Procs : q # p => host[q].pc \in Outside
  BY Zenon, <1>4, OthersOutside
<1>6. SessionInv' /\ FreezeInv'
  <2>1. [SessionNext]_session_vars
    BY Zenon, <1>1 DEF SessionNext
  <2> QED
    BY Zenon, <2>1, SessionStep, FreezeStep DEF HostInv
<1>7. /\ \E c : become(p, c) /\ RunOK(c)' /\ (c.pc \in Resting \/ c.t = job[p].t)
      /\ HostStore'
      /\ summary' # NoSummary => job'[p].pc \in Resting /\ job[p].t >= HardFlatAt
  BY Zenon, <1>1, <1>4, CoordinatorRuns DEF HostInv
<1>8. PICK c : become(p, c) /\ RunOK(c)' /\ (c.pc \in Resting \/ c.t = job[p].t)
  BY Zenon, <1>7
<1>9. job'[p] = c /\ \A q \in Procs : q # p => job'[q] = job[q]
  <2>1. DOMAIN job = Procs
    BY DEF HostInv, SessionInv, RowsTyped
  <2> QED
    BY Zenon, <1>8, <2>1 DEF become
<1>10. /\ host'[p].pc = "running" /\ host'[p].plan = host[p].plan /\ host'[p].t = host[p].t
       /\ host'[p].timeline = host[p].timeline /\ host'[p] = host[p] /\ lock' = p
  BY Zenon, <1>1, <1>2, <1>4
<1>11. arm' # NoArm
  BY Zenon, <1>1, <1>4, SessionWrites DEF HostInv
<1>12. summary' # NoSummary => host[p].timeline = {}
  <2> SUFFICES ASSUME summary' # NoSummary, NEW u \in host[p].timeline PROVE FALSE
    BY Zenon
  <2>1. u \in Times /\ u <= HardFlatAt
    BY Zenon, <1>2, <1>4, RunningLocals
  <2>2. Times \subseteq Nat /\ HardFlatAt \in Nat
    BY Zenon, SessionConstants
  <2>3. u > host[p].t /\ host[p].t >= HardFlatAt /\ host[p].t \in Times
    BY Zenon, <1>4, <1>7
  <2>4. \A a, b, d \in Nat : ~(a > b /\ b >= d /\ a <= d)
    OBVIOUS
  <2>5. u \in Nat /\ host[p].t \in Nat /\ HardFlatAt \in Nat
    BY Zenon, <2>1, <2>2, <2>3
  <2> QED
    BY Zenon, <2>1, <2>3, <2>4, <2>5
<1>13. RunOK(job[p])'
  BY <1>8, <1>9 DEF RunOK
<1>14. HostShape(host[p])' /\ validate_plan(host[p].plan)'
  <2>1. host'[p] = host[p] /\ HostShape(host[p])
    BY Zenon, <1>4, <1>10
  <2>2. HostShape(host[p])'
    BY Zenon, <2>1 DEF HostShape
  <2>3. host'[p].plan = host[p].plan /\ validate_plan(host[p].plan)
    BY Zenon, <1>4, <1>10
  <2>4. validate_plan(host[p].plan)'
    BY Zenon, <2>3 DEF validate_plan
  <2> QED
    BY Zenon, <2>2, <2>4
<1>15. job'[p].pc \notin Resting => job'[p].t = host'[p].t /\ summary' = NoSummary
  BY Zenon, <1>4, <1>7, <1>8, <1>9, <1>10
<1>18. ClaimOK(job[p])'
  BY Zenon, <1>1, <1>4, ClaimsRun DEF HostInv
<1>16. HostOK(p)'
  <2>1. host'[p].pc \notin {"lock", "arm", "loop", "reconcile", "mark", "receipt"}
    BY <1>10
  <2> QED
    BY Zenon, <1>4, <1>10, <1>11, <1>12, <1>13, <1>14, <1>15, <1>18, <2>1 DEF HostOK
<1>17. host' = [q \in Procs |-> host'[q]] /\ \A q \in Procs : q # p => host'[q] = host[q] /\ job'[q] = job[q]
  BY Zenon, <1>1, <1>9 DEF HostInv
<1> QED
  BY Zenon, <1>5, <1>6, <1>7, <1>16, <1>17, HostStepOK

(* The process of an invocation dies.  Only in the middle of a run may the *)
(* broker's holding have moved, and then no summary exists yet.            *)
LEMMA HostCrashStep ==
    ASSUME HostInv, NEW p \in Procs, host_crash(p)
    PROVE  HostInv'
<1>1. /\ proceed(p, Out) /\ UNCHANGED <<receipt, issued>>
      /\ lock = p \/ UNCHANGED lock
  BY Zenon DEF host_crash
<1>2. HostOK(p) /\ host'[p] = Out
  BY Zenon, <1>1, HostMoves DEF HostInv
<1>3. lock = p => \A q \in Procs : q # p => host[q].pc \in Outside
  BY Zenon, OthersOutside
<1>4. CASE job[p] \in Ended
  <2>1. UNCHANGED session_vars
    BY Zenon, <1>4 DEF host_crash
  <2>2. job'[p].pc \in Resting
    <3>1. job' = job
      BY Zenon, <2>1 DEF session_vars
    <3>2. job[p].pc \in Resting
      BY <1>4 DEF Ended, Idle, Resting
    <3> QED
      BY Zenon, <3>1, <3>2
  <2>3. HostOK(p)'
    BY Zenon, <1>2, <2>2, OverOK
  <2>4. HostStore'
    BY Zenon, <1>1, <2>1, StoreQuiet DEF HostInv
  <2> QED
    BY Zenon, <1>1, <1>3, <2>1, <2>3, <2>4, HostQuiet
<1>5. CASE job[p] \notin Ended
  <2>1. crash(p)
    BY Zenon, <1>5 DEF host_crash
  <2>2. SessionInv' /\ FreezeInv'
    <3>1. [SessionNext]_session_vars
      BY Zenon, <2>1 DEF SessionNext
    <3> QED
      BY Zenon, <3>1, SessionStep, FreezeStep DEF HostInv
  <2>3. UNCHANGED <<arm, session, row, lifecycle, reasons, summary>> /\ UNCHANGED store
    BY Zenon, <2>1 DEF crash, store
  <2>4. job'[p] = Idle /\ \A q \in Procs : q # p => job'[q] = job[q]
    <3>1. DOMAIN job = Procs
      BY DEF HostInv, SessionInv, RowsTyped
    <3> QED
      BY Zenon, <2>1, <3>1 DEF crash, become
  <2>5. exposed' # exposed => lock = p /\ summary = NoSummary
    <3> SUFFICES ASSUME exposed' # exposed PROVE lock = p /\ summary = NoSummary
      OBVIOUS
    <3>1. job[p].pc = "process" \/ job[p].pc = "close"
      BY Zenon, <2>1 DEF crash, at
    <3>2. job[p].pc \notin Resting
      BY <3>1 DEF Resting
    <3>3. host[p].pc = "running"
      BY Zenon, <1>2, <3>2 DEF HostOK
    <3>4. host[p].pc \notin Outside
      BY <3>3 DEF Outside
    <3> QED
      BY Zenon, <1>2, <3>2, <3>3, <3>4 DEF HostOK
  <2>6. HostOK(p)'
    <3>1. job'[p].pc \in Resting
      BY <2>4 DEF Idle, Resting
    <3> QED
      BY Zenon, <1>2, <3>1, OverOK
  <2>7. HostStore'
    <3>1. /\ claimed_opportunity_ids' = claimed_opportunity_ids
          /\ active_lifecycle_ids' = active_lifecycle_ids /\ counts_by_disposition' = counts_by_disposition
      BY Zenon, <2>3 DEF claimed_opportunity_ids, active_lifecycle_ids, counts_by_disposition,
     disposition_counts, recorded
    <3> QED
      BY Zenon, <1>1, <2>3, <2>5, <3>1 DEF HostInv, HostStore
  <2>8. host' = [q \in Procs |-> host'[q]] /\ \A q \in Procs : q # p => host'[q] = host[q]
    BY Zenon, <1>1, HostMoves DEF HostInv
  <2>9. \/ UNCHANGED <<lock, store, exposed>>
        \/ \A q \in Procs : q # p => host[q].pc \in Outside
    BY Zenon, <1>1, <1>3, <2>3, <2>5
  <2> QED
    BY Zenon, <2>2, <2>4, <2>6, <2>7, <2>8, <2>9, HostStepOK
<1> QED
  BY Zenon, <1>4, <1>5

(* Every step of every invocation.                                         *)
LEMMA HostStep == HostInv /\ [HostNext]_host_vars => HostInv'
<1> SUFFICES ASSUME HostInv, [HostNext]_host_vars PROVE HostInv'
  OBVIOUS
<1>1. CASE UNCHANGED host_vars
  <2>1. UNCHANGED session_vars /\ UNCHANGED <<host, lock, receipt, issued>>
    BY Zenon, <1>1 DEF host_vars
  <2>2. SessionInv' /\ FreezeInv'
    BY Zenon, <2>1, SessionStep, FreezeStep DEF HostInv
  <2>3. HostStore'
    BY Zenon, <2>1, StoreQuiet DEF HostInv
  <2>4. UNCHANGED <<lock, store, exposed>> /\ UNCHANGED job
    BY Zenon, <2>1 DEF session_vars
  <2>5. ASSUME NEW q \in Procs PROVE HostOK(q)'
    BY Zenon, <2>1, <2>4, UndisturbedOK DEF HostInv
  <2> QED
    BY Zenon, <2>1, <2>2, <2>3, <2>5 DEF HostInv
<1>2. ASSUME NEW p \in Procs, NEW a \in Arms, NEW timeline \in SUBSET Times,
             host_begin(p, a, timeline)
      PROVE  HostInv'
  BY Zenon, <1>2, BeginHostStep
<1>3. ASSUME NEW p \in Procs, host_step(p) PROVE HostInv'
  BY Zenon, <1>3, LockStep, ArmStep, RunStep, CoordinatorStep, ReturnedStep, ExceptionStep,
     HostReconcileStep, MarkStep, ReceiptStep DEF host_step
<1>4. ASSUME NEW p \in Procs, host_crash(p) PROVE HostInv'
  BY Zenon, <1>4, HostCrashStep
<1> QED
  BY Zenon, <1>1, <1>2, <1>3, <1>4 DEF HostNext

-----------------------------------------------------------------------------
(* What the command promises                                               *)

(* A TERMINAL receipt stays true whatever later invocations do, the frozen *)
(* summary keeps describing the store, a receipt is refused only over an   *)
(* open claim, and then the session is frozen with a reason on record, and *)
(* an invocation drives backends of one origin: for any number of          *)
(* processes, crashes, offers, arms and timelines.                         *)
THEOREM HostReceiptsFinal == HostSpec => []CommandIsAccounted
<1>1. HostInv => CommandIsAccounted
  <2> SUFFICES ASSUME HostInv PROVE CommandIsAccounted
    OBVIOUS
  <2>1. TerminalReceiptIsFinal /\ SummaryStaysTrue
    BY Zenon DEF HostInv, HostStore, TerminalReceiptIsFinal, SummaryStaysTrue
  <2>4. ReceiptRenders
    <3> SUFFICES ASSUME NEW p \in Procs, in_host(p, "receipt")
                 PROVE  IF claimed_opportunity_ids = {} THEN receipt_payload(drafted(p))
                        ELSE session = Frozen /\ reasons # {}
      BY Zenon DEF ReceiptRenders, Frozen
    <3>1. CASE claimed_opportunity_ids = {}
      BY Zenon, <3>1, Drafted
    <3>2. CASE claimed_opportunity_ids # {}
      <4>1. host[p].pc \in {"reconcile", "mark", "receipt"} /\ HostOK(p)
        BY Zenon DEF in_host, HostInv
      <4> QED
        BY Zenon, <3>2, <4>1 DEF HostInv, HostOK, ClaimsFreeze, HostStore
    <3> QED
      BY Zenon, <3>1, <3>2
  <2>2. ASSUME NEW p \in Procs, host[p].pc \notin {"out", "lock", "arm"}
        PROVE  LET plan == host[p].plan
               IN  /\ \A b, c \in DOMAIN plan.bindings : plan.bindings[b] = plan.bindings[c]
                   /\ \A b \in DOMAIN plan.bindings :
                         (plan.bindings[b] = NoBinding) <=> (plan.class = "SYNTHETIC_FAKE")
    <3>1. host[p].pc \notin Outside \cup {"arm"}
      BY Zenon, <2>2 DEF Outside
    <3>2. validate_plan(host[p].plan)
      BY Zenon, <3>1 DEF HostInv, HostOK
    <3>3. "PAPER_MCP" # "SYNTHETIC_FAKE"
      OBVIOUS
    <3> QED
      BY Zenon, <3>2, <3>3 DEF validate_plan
  <2>3. OneOriginPerInvocation
    BY Zenon, <2>2 DEF OneOriginPerInvocation
  <2> QED
    BY Zenon, <2>1, <2>3, <2>4 DEF CommandIsAccounted
<1> QED
  BY <1>1, HostInitInv, HostStep, PTL DEF HostSpec

(* Under the host command too, whose marks and arming are its own, an      *)
(* opportunity is processed at most once, a holding is on record, the two  *)
(* tables agree and a stored reason freezes the session.                   *)
THEOREM HostSessionAccounted == HostSpec => []StoreIsAccounted
<1>1. HostInv => StoreIsAccounted
  BY Zenon DEF HostInv, SessionInv, FreezeInv, StoreIsAccounted
<1> QED
  BY <1>1, HostInitInv, HostStep, PTL DEF HostSpec

(* A close writes a row that is there.                                     *)
LEMMA CloseKeepsRows ==
    ASSUME SessionInv, NEW p \in Procs, record_closed(p), NEW k \in Ids, row[k] = NoRow
    PROVE  row'[k] = NoRow
<1> DEFINE l == job[p].lifecycle
           i == lifecycle[l].id
           proof == job[p].result.proof
<1>0. RowsTyped /\ l \in Bound
  BY Zenon DEF SessionInv, record_closed, at, JobOK
<1>1. i \in Ids /\ row[i] \in OpportunityRows
  BY Zenon, <1>0, BoundIsAnswered
<1>2. k # i
  BY Zenon, <1>1, SessionSentinels
<1>3. UNCHANGED row \/ row' = [row EXCEPT ![i].state = "TERMINAL_FLAT", ![i].proof = proof]
  BY Zenon DEF record_closed, record_lifecycle_terminal_flat
<1> HIDE DEF i, proof
<1>4. row'[k] = row[k]
  BY <1>0, <1>2, <1>3 DEF RowsTyped
<1> QED
  BY Zenon, <1>4

(* What a coordinator does while the session is frozen.                    *)
LEMMA FrozenRun ==
    ASSUME SessionInv, NEW p \in Procs, RunOK(job[p]), session = Frozen,
           (\E complete \in BOOLEAN : reconcile(p, complete)) \/ run_step(p) \/ crash(p)
    PROVE  (\A i \in Ids : row[i] = NoRow => row'[i] = NoRow) /\ exposed' \subseteq exposed
<1>1. job[p].pc \notin {"candidates", "process", "record"}
  BY Zenon DEF RunOK
<1>2. ~claim(p) /\ ~process(p) /\ ~record(p) /\ ~at(p, "process")
  BY Zenon, <1>1 DEF claim, process, record, at
<1>3. CASE UNCHANGED <<row, exposed>>
  BY Zenon, <1>3
<1>4. CASE record_closed(p)
  <2>1. UNCHANGED exposed
    BY Zenon, <1>4 DEF record_closed
  <2> QED
    BY Zenon, <1>4, <2>1, CloseKeepsRows
<1>5. CASE close_and_reconcile(p)
  BY Zenon, <1>5 DEF close_and_reconcile, closing, store
<1>6. CASE crash(p)
  BY Zenon, <1>2, <1>6 DEF crash, closing, store
<1>7. CASE \/ \E complete \in BOOLEAN : reconcile(p, complete)
           \/ check_claimed(p) \/ check_state(p) \/ collect_due(p) \/ next_window(p)
           \/ record_refused(p) \/ begin_hard_flat(p) \/ closed_refused(p) \/ check_flat(p)
  <2>1. UNCHANGED store /\ UNCHANGED exposed
    BY Zenon, <1>7 DEF reconcile, check_claimed, check_state, collect_due, next_window,
       record_refused, begin_hard_flat, closed_refused, check_flat
  <2> QED
    BY Zenon, <1>3, <2>1 DEF store
<1>8. CASE mark_frozen(p) \/ mark_unresolved(p) \/ mark_not_flat(p) \/ finalize(p)
  BY Zenon, <1>3, <1>8 DEF mark_frozen, mark_unresolved, mark_not_flat, finalize
<1> QED
  BY Zenon, <1>2, <1>4, <1>5, <1>6, <1>7, <1>8 DEF run_step

(* While the session is frozen no step of any invocation claims an         *)
(* opportunity or adds to the broker's holding.                            *)
THEOREM HostFrozen == HostSpec => [][FrozenTakesNothingNew]_host_vars
<1>1. HostInv /\ [HostNext]_host_vars => [FrozenTakesNothingNew]_host_vars
  <2> SUFFICES ASSUME HostInv, HostNext, session = Frozen
               PROVE  /\ \A i \in Ids : row[i] = NoRow => row'[i] = NoRow
                      /\ exposed' \subseteq exposed
    BY Zenon DEF FrozenTakesNothingNew, Frozen
  <2>1. CASE UNCHANGED <<row, exposed>>
    BY Zenon, <2>1
  <2>2. CASE UNCHANGED session_vars
    BY Zenon, <2>1, <2>2 DEF session_vars, store
  <2>3. ASSUME NEW p \in Procs, coordinator_step(p) \/ host_crash(p)
        PROVE  /\ \A i \in Ids : row[i] = NoRow => row'[i] = NoRow
               /\ exposed' \subseteq exposed
    <3>1. SessionInv /\ RunOK(job[p])
      BY Zenon DEF HostInv, HostOK
    <3>2. \/ (\E complete \in BOOLEAN : reconcile(p, complete)) \/ run_step(p) \/ crash(p)
          \/ UNCHANGED session_vars
      BY Zenon, <2>3 DEF coordinator_step, host_crash
    <3> QED
      BY Zenon, <2>2, <3>1, <3>2, FrozenRun
  <2>4. ASSUME NEW p \in Procs, NEW a \in Arms, NEW timeline \in SUBSET Times,
               host_begin(p, a, timeline)
        PROVE  UNCHANGED session_vars
    BY Zenon, <2>4 DEF host_begin
  <2>5. ASSUME NEW p \in Procs, host_step(p)
        PROVE  UNCHANGED session_vars \/ UNCHANGED <<row, exposed>> \/ coordinator_step(p)
    <3>1. CASE state_directory_lock(p) \/ host_returned(p) \/ host_reconcile(p) \/ host_receipt(p)
      BY Zenon, <3>1 DEF state_directory_lock, host_returned, host_reconcile, host_receipt
    <3>2. CASE host_arm(p) \/ host_exception(p) \/ host_mark(p)
      BY Zenon, <3>2 DEF host_arm, host_exception, host_mark
    <3>3. CASE host_run(p)
      BY Zenon, <3>3 DEF host_run, begin_run
    <3> QED
      BY Zenon, <2>5, <3>1, <3>2, <3>3 DEF host_step
  <2> QED
    BY Zenon, <2>1, <2>2, <2>3, <2>4, <2>5 DEF HostNext
<1> QED
  BY <1>1, HostInitInv, HostStep, PTL DEF HostSpec
=============================================================================
