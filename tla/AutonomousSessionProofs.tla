---------------------- MODULE AutonomousSessionProofs ----------------------
(***************************************************************************)
(* Proofs about AutonomousSession, for any number of coordinators, offers, *)
(* lifecycles and windows.  SessionInv is what the coordinators and their  *)
(* crashes preserve: a claim belongs to the coordinator that made it until *)
(* its answer is recorded, and the answer is true of the broker.  So       *)
(* whatever the order of their steps the processor is called at most once  *)
(* per opportunity and what the broker holds is on record.  The rows       *)
(* implement the abstract opportunity log: every step of the store is a    *)
(* step of OpportunityLog or leaves its decisions alone.  Once a manual    *)
(* reason is stored the session stays frozen, and only a flat summary      *)
(* makes it FINALIZED.                                                     *)
(***************************************************************************)
EXTENDS AutonomousSession, WellFoundedInduction, TLAPS

(* A nonempty set of naturals has a least element.                         *)
LEMMA LeastNatural ==
    ASSUME NEW S \in SUBSET Nat, S # {}
    PROVE  \E x \in S : \A y \in S : x <= y
<1> DEFINE R == OpToRel(<, Nat)
<1>1. IsWellFoundedOn(R, Nat)
  BY ZenonT(30), NatLessThanWellFounded
<1>2. \E x \in S : \A y \in S : ~(<<y, x>> \in R)
  <2> HIDE DEF R
  <2> QED
    BY ZenonT(30), <1>1, WFMin
<1>3. \A x, y \in Nat : <<y, x>> \in R <=> y < x
  BY DEF OpToRel
<1> HIDE DEF R
<1>4. PICK x \in S : \A y \in S : ~(<<y, x>> \in R)
  BY <1>2
<1>5. \A y \in S : x \in Nat /\ y \in Nat /\ ~(y < x)
  BY ZenonT(30), <1>3, <1>4
<1>6. \A y \in S : x <= y
  BY <1>5
<1> QED
  BY <1>6

(* min() of the lifecycles still to close is one of them.                  *)
LEMMA MinIsMember ==
    ASSUME NEW S \in SUBSET Nat, S # {}
    PROVE  Min(S) \in S
BY ZenonT(30), LeastNatural DEF Min

(* The next candidate of a batch is one of the batch.                      *)
LEMMA NextOfferIsMember ==
    ASSUME NEW todo \in SUBSET Offers, todo # {}
    PROVE  next_offer(todo) \in todo
<1> DEFINE S == {x.id : x \in todo}
<1>1. S \in SUBSET Nat /\ S # {}
  BY SessionConstants
<1>2. PICK i \in S : \A j \in S : i <= j
  <2> HIDE DEF S
  <2> QED
    BY <1>1, LeastNatural
<1>3. PICK x \in todo : x.id = i
  OBVIOUS
<1>4. \A y \in todo : x.id <= y.id
  BY <1>2, <1>3
<1> QED
  BY <1>4 DEF next_offer

-----------------------------------------------------------------------------
(* The rows and the coordinators                                           *)

Bound == {l \in Lifecycles : lifecycle[l] # NoRow}
Owns(p, i) == job[p].pc \in {"process", "record"} /\ job[p].offer.id = i

RowsTyped ==
    /\ row \in [Ids -> OpportunityRows \cup {NoRow}]
    /\ \A i \in Ids : row[i] # NoRow => row[i].offer.id = i
    /\ lifecycle \in [Lifecycles -> LifecycleRows \cup {NoRow}]
    /\ calls \in [Ids -> Nat]
    /\ exposed \subseteq Ids
    /\ DOMAIN job = Procs

(* What a coordinator may rely on between two of its steps: a claim is its *)
(* own until it records the answer, the answer is true of the broker, and  *)
(* the lifecycles it is closing are on record.                             *)
JobOK(j) ==
    /\ j.pc \in {"candidates", "process", "record"} => j.todo \subseteq Offers
    /\ j.pc \in {"process", "record"} => j.offer \in Offers /\ matching(j.offer, "CLAIMED")
    /\ j.pc = "process" => calls[j.offer.id] = 0 /\ j.offer.id \notin exposed
    /\ j.pc = "record" =>
        /\ j.result \in Results /\ validate_processing_result(j.result)
        /\ j.result.disposition \in {"ABSTAINED", "REJECTED_BEFORE_MUTATION", "TERMINAL_FLAT"} =>
             j.offer.id \notin exposed
    /\ j.pc \in {"close", "closed", "unresolved"} => j.queue \subseteq Bound
    /\ j.pc \in {"closed", "unresolved"} => j.lifecycle \in Bound
    /\ j.pc = "closed" => /\ j.result \in CloseResults
                          /\ lifecycle[j.lifecycle].id \notin exposed

(* The inductive invariant: the three properties, with what each           *)
(* coordinator relies on and that no two of them own one claim.            *)
SessionInv ==
    /\ RowsTyped
    /\ \A p \in Procs : JobOK(job[p])
    /\ \A p, q \in Procs, i \in Ids : Owns(p, i) /\ Owns(q, i) => p = q
    /\ ProcessedOnce
    /\ ExposureIsOnRecord
    /\ LifecycleRowsAgree

(* An empty store and idle coordinators.                                   *)
LEMMA SessionInitInv == SessionInit => SessionInv
<1> SUFFICES ASSUME SessionInit PROVE SessionInv
  OBVIOUS
<1>1. RowsTyped
  BY DEF SessionInit, RowsTyped
<1>2. \A p \in Procs : JobOK(job[p]) /\ job[p].pc = "idle"
  BY DEF SessionInit, Idle, JobOK
<1>3. ProcessedOnce /\ ExposureIsOnRecord /\ LifecycleRowsAgree
  BY DEF SessionInit, ProcessedOnce, ExposureIsOnRecord, LifecycleRowsAgree, recorded
<1> QED
  BY <1>1, <1>2, <1>3 DEF SessionInv, Owns

(* A coordinator's step leaves the others' claims and closes alone: the    *)
(* one opportunity i that it touches is not theirs, and a holding may      *)
(* appear only for a claimed one.                                          *)
LEMMA OthersStand ==
    ASSUME SessionInv, NEW q \in Procs, NEW i \in Ids, ~Owns(q, i),
           \A k \in Ids \ {i} : row'[k] = row[k] /\ calls'[k] = calls[k],
           \/ exposed' \subseteq exposed
           \/ exposed' \subseteq exposed \cup {i} /\ row[i] # NoRow /\ row[i].state = "CLAIMED",
           \A l \in Bound : lifecycle'[l] # NoRow /\ lifecycle'[l].id = lifecycle[l].id
    PROVE  JobOK(job[q])' \/ job'[q] # job[q]
<1> SUFFICES ASSUME job'[q] = job[q] PROVE JobOK(job[q])'
  OBVIOUS
<1> DEFINE j == job[q]
<1>0. JobOK(j)
  BY DEF SessionInv
<1>1. Bound \subseteq Bound'
  BY DEF Bound
<1>2. ASSUME j.pc \in {"process", "record"}
      PROVE  /\ j.offer \in Offers /\ j.offer.id \in Ids \ {i}
             /\ matching(j.offer, "CLAIMED") /\ matching(j.offer, "CLAIMED")'
             /\ calls'[j.offer.id] = calls[j.offer.id]
             /\ j.offer.id \notin exposed => j.offer.id \notin exposed'
  <2>1. j.offer \in Offers /\ matching(j.offer, "CLAIMED") /\ j.offer.id # i
    BY Zenon, <1>0, <1>2 DEF JobOK, Owns
  <2>2. j.offer.id \in Ids
    BY <2>1 DEF Ids
  <2> QED
    BY <2>1, <2>2 DEF matching
<1>3. ASSUME j.pc = "closed" PROVE lifecycle'[j.lifecycle].id \notin exposed'
  <2>1. j.lifecycle \in Bound /\ lifecycle[j.lifecycle].id \notin exposed
    BY <1>0, <1>3 DEF JobOK
  <2>2. row[lifecycle[j.lifecycle].id].state # "CLAIMED"
    BY <2>1 DEF SessionInv, RowsTyped, LifecycleRows, LifecycleRowsAgree, Bound
  <2> QED
    BY Zenon, <2>1, <2>2
<1>4. /\ j.pc \in {"candidates", "process", "record"} => j.todo \subseteq Offers
      /\ j.pc = "process" => calls[j.offer.id] = 0 /\ j.offer.id \notin exposed
      /\ j.pc = "record" =>
          /\ j.result \in Results /\ validate_processing_result(j.result)
          /\ j.result.disposition \in {"ABSTAINED", "REJECTED_BEFORE_MUTATION", "TERMINAL_FLAT"} =>
               j.offer.id \notin exposed
      /\ j.pc \in {"close", "closed", "unresolved"} => j.queue \subseteq Bound
      /\ j.pc \in {"closed", "unresolved"} => j.lifecycle \in Bound
      /\ j.pc = "closed" => j.result \in CloseResults
  BY Zenon, <1>0 DEF JobOK
<1>5. validate_processing_result(j.result)' <=> validate_processing_result(j.result)
  BY DEF validate_processing_result
<1> QED
  BY Zenon, <1>1, <1>2, <1>3, <1>4, <1>5 DEF JobOK

(* A step that leaves the tables alone and whose coordinator claims        *)
(* nothing.                                                                *)
LEMMA QuietStep ==
    ASSUME SessionInv, NEW p \in Procs, NEW c, become(p, c), JobOK(c),
           c.pc \notin {"process", "record", "closed"},
           UNCHANGED <<row, lifecycle, calls>>, exposed' \subseteq exposed
    PROVE  SessionInv'
<1>0. DOMAIN job = Procs
  BY DEF SessionInv, RowsTyped
<1>1. job'[p] = c /\ DOMAIN job' = Procs /\ \A q \in Procs \ {p} : job'[q] = job[q]
  BY <1>0 DEF become
<1>2. RowsTyped'
  BY Zenon, <1>1 DEF SessionInv, RowsTyped
<1>3. JobOK(job[p])'
  BY Zenon, <1>1 DEF JobOK, Bound
<1>4. ASSUME NEW q \in Procs \ {p} PROVE JobOK(job[q])'
  <2>1. JobOK(job[q]) /\ job'[q] = job[q]
    BY <1>1 DEF SessionInv
  <2> QED
    BY ZenonT(30), <2>1 DEF JobOK, Bound, matching, validate_processing_result
<1>5. \A q, r \in Procs, i \in Ids : Owns(q, i)' /\ Owns(r, i)' => q = r
  BY <1>1 DEF SessionInv, Owns
<1>6. ProcessedOnce' /\ ExposureIsOnRecord' /\ LifecycleRowsAgree'
  BY Zenon DEF SessionInv, ProcessedOnce, ExposureIsOnRecord, LifecycleRowsAgree, recorded
<1> QED
  BY <1>2, <1>3, <1>4, <1>5, <1>6 DEF SessionInv

(* The step of the owner, or of one who becomes it: opportunity i changes  *)
(* and everything else stands.                                             *)
LEMMA OwnerStep ==
    ASSUME SessionInv, NEW p \in Procs, NEW c, become(p, c), NEW i \in Ids,
           \A q \in Procs \ {p} : ~Owns(q, i),
           c.pc \in {"process", "record"} => c.offer.id = i,
           RowsTyped', JobOK(c)',
           \A k \in Ids \ {i} : row'[k] = row[k] /\ calls'[k] = calls[k],
           \/ exposed' \subseteq exposed
           \/ exposed' \subseteq exposed \cup {i} /\ row[i] # NoRow /\ row[i].state = "CLAIMED",
           \A l \in Bound : lifecycle'[l] # NoRow /\ lifecycle'[l].id = lifecycle[l].id,
           calls'[i] <= (IF row'[i] = NoRow THEN 0 ELSE 1),
           i \in exposed' => row'[i] # NoRow /\ row'[i].state \in
                {"CLAIMED", "ACTIVE", "MANUAL_RECONCILIATION_REQUIRED"},
           LifecycleRowsAgree'
    PROVE  SessionInv'
<1>0. DOMAIN job = Procs
  BY Zenon DEF SessionInv, RowsTyped
<1>1. job'[p] = c /\ \A q \in Procs \ {p} : job'[q] = job[q]
  BY <1>0 DEF become
<1>2. ASSUME NEW q \in Procs PROVE JobOK(job[q])'
  <2>1. CASE q = p
    BY Zenon, <1>1, <2>1 DEF JobOK, Bound, matching, validate_processing_result
  <2>2. CASE q # p
    BY Zenon, <1>1, <2>2, OthersStand
  <2> QED
    BY <2>1, <2>2
<1>3. \A q, r \in Procs, k \in Ids : Owns(q, k)' /\ Owns(r, k)' => q = r
  BY <1>1 DEF SessionInv, Owns
<1>4. ProcessedOnce'
  BY Zenon DEF SessionInv, ProcessedOnce
<1>5. ExposureIsOnRecord'
  BY DEF SessionInv, ExposureIsOnRecord, RowsTyped
<1> QED
  BY Zenon, <1>2, <1>3, <1>4, <1>5 DEF SessionInv

(* Claiming: the identifier had no row, so nobody owned it, nothing was    *)
(* sent for it and nothing is held.                                        *)
LEMMA ClaimStep == ASSUME SessionInv, NEW p \in Procs, claim(p) PROVE SessionInv'
<1> DEFINE x == next_offer(job[p].todo)
           rest == job[p].todo \ {x}
<1>0. JobOK(job[p]) /\ RowsTyped
  BY DEF SessionInv
<1>1. job[p].todo \in SUBSET Offers /\ x \in job[p].todo
  BY Zenon, <1>0, NextOfferIsMember DEF claim, at, JobOK
<1>2. x \in Offers /\ x.id \in Ids /\ rest \subseteq Offers
  BY <1>1 DEF Ids
<1> HIDE DEF x, rest
<1>3. CASE claim_state(x) # "CLAIMED"
  <2>1. PICK c : become(p, c) /\ JobOK(c) /\ c.pc \notin {"process", "record", "closed"}
    <3>1. JobOK([pc |-> "candidates", t |-> job[p].t, window |-> job[p].window, todo |-> rest])
      BY <1>2 DEF JobOK
    <3>2. JobOK([pc |-> "raised"])
      BY DEF JobOK
    <3>3. candidates(p, rest) \/ raised(p)
      BY Zenon, <1>3 DEF claim, x, rest
    <3> QED
      BY <3>1, <3>2, <3>3 DEF candidates, raised
  <2>2. UNCHANGED <<row, lifecycle, calls, exposed>>
    BY Zenon, <1>3 DEF claim, x
  <2> QED
    BY <2>1, <2>2, QuietStep
<1>4. CASE claim_state(x) = "CLAIMED"
  <2> DEFINE i == x.id
             c == [pc |-> "process", t |-> job[p].t, window |-> job[p].window, todo |-> rest,
                   offer |-> x]
             r == [offer |-> x, state |-> "CLAIMED", proof |-> NoProof]
  <2>1. row[i] = NoRow /\ become(p, c) /\ row' = [row EXCEPT ![i] = r]
        /\ UNCHANGED <<lifecycle, calls, exposed>>
    BY ZenonT(30), <1>4 DEF claim, claim_state, claim_opportunity, x, rest
  <2>2. r \in OpportunityRows /\ r # NoRow
    BY <1>2, SessionSentinels DEF OpportunityRows
  <2>3. row'[i] = r /\ \A k \in Ids \ {i} : row'[k] = row[k]
    BY <1>0, <1>2, <2>1 DEF RowsTyped
  <2>4. RowsTyped'
    <3>1. DOMAIN job' = Procs
      BY <1>0, <2>1 DEF RowsTyped, become
    <3>2. row' \in [Ids -> OpportunityRows \cup {NoRow}]
      BY ZenonT(30), <1>0, <2>1, <2>2 DEF RowsTyped
    <3>3. \A k \in Ids : row'[k] # NoRow => row'[k].offer.id = k
      BY <1>0, <2>3 DEF RowsTyped
    <3> QED
      BY Zenon, <1>0, <2>1, <3>1, <3>2, <3>3 DEF RowsTyped
  <2>5. calls[i] = 0 /\ i \notin exposed /\ \A q \in Procs : ~Owns(q, i)
    <3>1. calls[i] <= 0 /\ calls[i] \in Nat
      BY Zenon, <1>0, <1>2, <2>1 DEF SessionInv, ProcessedOnce, RowsTyped
    <3>2. i \notin exposed
      BY <2>1 DEF SessionInv, ExposureIsOnRecord
    <3>3. ASSUME NEW q \in Procs, Owns(q, i) PROVE FALSE
      BY Zenon, <2>1, <3>3 DEF SessionInv, JobOK, Owns, matching
    <3> QED
      BY <3>1, <3>2, <3>3
  <2>6. PICK d : d = c
    BY ZenonT(30)
  <2>7. JobOK(d)'
    <3>1. d.pc = "process" /\ d.todo \subseteq Offers /\ d.offer = x
      BY <1>2, <2>6
    <3>2. r.offer = x /\ r.state = "CLAIMED"
      OBVIOUS
    <3>3. row'[i] # NoRow /\ row'[i].offer = x /\ row'[i].state = "CLAIMED"
      <4> HIDE DEF r
      <4> QED
        BY <2>2, <2>3, <3>2
    <3>4. calls'[i] = 0 /\ i \notin exposed'
      BY Zenon, <2>1, <2>5
    <3>5. matching(d.offer, "CLAIMED")'
      BY <3>1, <3>3 DEF matching
    <3> HIDE DEF r, c
    <3> QED
      BY Zenon, <1>2, <3>1, <3>4, <3>5 DEF JobOK
  <2>8. LifecycleRowsAgree'
    <3>1. \A l \in Lifecycles : lifecycle[l] # NoRow => lifecycle[l].id # i
      BY Zenon, <2>1 DEF SessionInv, LifecycleRowsAgree
    <3>2. \A k \in recorded("ACTIVE")' : k \in recorded("ACTIVE")
      BY <2>3 DEF recorded
    <3>3. \A l \in Lifecycles : lifecycle[l] # NoRow => lifecycle[l].id \in Ids
      BY <1>0 DEF RowsTyped, LifecycleRows
    <3> QED
      BY <2>1, <2>3, <3>1, <3>2, <3>3 DEF SessionInv, LifecycleRowsAgree
  <2> HIDE DEF c, r, i
  <2>9. become(p, d) /\ d.offer.id = i /\ i \in Ids
    BY <1>2, <2>1, <2>6 DEF c, i
  <2>10. /\ \A q \in Procs \ {p} : ~Owns(q, i)
         /\ \A k \in Ids \ {i} : row'[k] = row[k] /\ calls'[k] = calls[k]
         /\ exposed' \subseteq exposed
         /\ calls'[i] <= (IF row'[i] = NoRow THEN 0 ELSE 1)
         /\ i \notin exposed'
    BY <2>1, <2>3, <2>5
  <2>11. \A l \in Bound : lifecycle'[l] # NoRow /\ lifecycle'[l].id = lifecycle[l].id
    BY <2>1 DEF Bound
  <2> QED
    BY Zenon, <2>4, <2>7, <2>8, <2>9, <2>10, <2>11, OwnerStep
<1> QED
  BY <1>3, <1>4

(* A claim's owner is alone with it.                                       *)
LEMMA OwnedClaim ==
    ASSUME SessionInv, NEW p \in Procs, at(p, "process") \/ at(p, "record")
    PROVE  /\ job[p].offer \in Offers /\ job[p].offer.id \in Ids
           /\ row[job[p].offer.id] \in OpportunityRows /\ row[job[p].offer.id] # NoRow
           /\ row[job[p].offer.id].state = "CLAIMED"
           /\ row[job[p].offer.id].offer = job[p].offer
           /\ \A q \in Procs \ {p} : ~Owns(q, job[p].offer.id)
<1>1. JobOK(job[p]) /\ RowsTyped
  BY DEF SessionInv
<1>2. job[p].offer \in Offers /\ job[p].offer.id \in Ids /\ matching(job[p].offer, "CLAIMED")
  BY Zenon, <1>1 DEF JobOK, at, Ids
<1>3. Owns(p, job[p].offer.id)
  BY DEF Owns, at
<1> QED
  BY Zenon, <1>1, <1>2, <1>3 DEF SessionInv, RowsTyped, matching

(* A port call of the owner, answered or cut short by a crash.             *)
LEMMA CallStep ==
    ASSUME SessionInv, NEW p \in Procs, at(p, "process"), called(p), UNCHANGED store,
           exposed' \subseteq exposed \cup {job[p].offer.id},
           NEW c, become(p, c), JobOK(c)', c.pc \in {"process", "record"} => c.offer = job[p].offer
    PROVE  SessionInv'
<1> DEFINE i == job[p].offer.id
<1>0. RowsTyped /\ calls[i] = 0
  BY Zenon DEF SessionInv, JobOK, at
<1>1. /\ i \in Ids /\ row[i] # NoRow /\ row[i].state = "CLAIMED"
      /\ \A q \in Procs \ {p} : ~Owns(q, i)
  BY Zenon, OwnedClaim
<1>2. calls' = [calls EXCEPT ![i] = @ + 1] /\ UNCHANGED <<row, lifecycle>>
  BY Zenon DEF called, store
<1>3. calls'[i] = 1 /\ calls' \in [Ids -> Nat] /\ \A k \in Ids \ {i} : calls'[k] = calls[k]
  BY <1>0, <1>1, <1>2 DEF RowsTyped
<1> HIDE DEF i
<1>4. exposed' \subseteq exposed \cup {i} /\ (c.pc \in {"process", "record"} => c.offer.id = i)
  BY DEF i
<1>5. DOMAIN job' = Procs
  BY <1>0 DEF RowsTyped, become
<1>6. RowsTyped'
  BY Zenon, <1>0, <1>1, <1>2, <1>3, <1>4, <1>5 DEF RowsTyped
<1>7. LifecycleRowsAgree'
  BY Zenon, <1>2 DEF SessionInv, LifecycleRowsAgree, recorded
<1>8. \A l \in Bound : lifecycle'[l] # NoRow /\ lifecycle'[l].id = lifecycle[l].id
  BY <1>2 DEF Bound
<1>9. /\ \A k \in Ids \ {i} : row'[k] = row[k] /\ calls'[k] = calls[k]
      /\ calls'[i] <= (IF row'[i] = NoRow THEN 0 ELSE 1)
      /\ i \in exposed' => row'[i] # NoRow /\ row'[i].state \in
                {"CLAIMED", "ACTIVE", "MANUAL_RECONCILIATION_REQUIRED"}
  BY <1>1, <1>2, <1>3
<1> QED
  BY Zenon, <1>1, <1>4, <1>6, <1>7, <1>8, <1>9, OwnerStep

(* Processing: an answer that leaves nothing at the broker says so.        *)
LEMMA ProcessStep == ASSUME SessionInv, NEW p \in Procs, process(p) PROVE SessionInv'
<1> DEFINE i == job[p].offer.id
<1>0. /\ JobOK(job[p]) /\ job[p].todo \subseteq Offers /\ i \notin exposed
      /\ job[p].offer \in Offers /\ matching(job[p].offer, "CLAIMED")
  BY ZenonT(30) DEF SessionInv, process, at, JobOK
<1>1. at(p, "process") /\ called(p) /\ UNCHANGED store
  BY DEF process
<1>3. CASE \E r \in Results :
             /\ validate_processing_result(r)
             /\ holding(i, r)
             /\ become(p, [pc |-> "record", t |-> job[p].t, window |-> job[p].window,
                           todo |-> job[p].todo, offer |-> job[p].offer, result |-> r])
  <2>1. PICK r \in Results :
             /\ validate_processing_result(r)
             /\ holding(i, r)
             /\ become(p, [pc |-> "record", t |-> job[p].t, window |-> job[p].window,
                           todo |-> job[p].todo, offer |-> job[p].offer, result |-> r])
    BY <1>3
  <2>2. exposed' \subseteq exposed \cup {i}
    BY Zenon, <2>1 DEF holding
  <2>3. r.disposition \in {"ABSTAINED", "REJECTED_BEFORE_MUTATION", "TERMINAL_FLAT"} => i \notin exposed'
    BY Zenon, <1>0, <2>1 DEF holding, validate_processing_result
  <2>4. PICK c : c = [pc |-> "record", t |-> job[p].t, window |-> job[p].window,
                      todo |-> job[p].todo, offer |-> job[p].offer, result |-> r]
    BY ZenonT(30)
  <2>5. /\ c.pc = "record" /\ c.todo = job[p].todo /\ c.offer = job[p].offer /\ c.result = r
    BY <2>4
  <2>6. /\ c.offer \in Offers /\ row'[c.offer.id] # NoRow /\ row'[c.offer.id].offer = c.offer
        /\ row'[c.offer.id].state = "CLAIMED"
    BY Zenon, <1>0, <1>1, <2>5 DEF matching, store
  <2>7. JobOK(c)'
    BY ZenonT(30), <1>0, <2>1, <2>3, <2>5, <2>6 DEF JobOK, matching, validate_processing_result
  <2> HIDE DEF i
  <2>8. become(p, c) /\ c.offer = job[p].offer /\ exposed' \subseteq exposed \cup {job[p].offer.id}
    BY <2>1, <2>2, <2>4, <2>5 DEF i
  <2> QED
    BY Zenon, <1>1, <2>7, <2>8, CallStep
<1>4. CASE /\ any_holding(i)
           /\ freeze(p, "CLAIM_RECOVERY_UNKNOWN", i, NoLifecycle)
  <2>1. exposed' \subseteq exposed \cup {i}
    BY <1>4 DEF any_holding
  <2>2. PICK c : become(p, c) /\ c.pc = "freeze"
    BY <1>4 DEF freeze
  <2>3. JobOK(c)'
    BY Zenon, <2>2 DEF JobOK
  <2> QED
    BY Zenon, <1>1, <2>1, <2>2, <2>3, CallStep
<1> QED
  BY Zenon, <1>3, <1>4 DEF process

(* The program counters at which a coordinator carries nothing that the    *)
(* invariant speaks of.                                                    *)
Free ==
    {"idle", "returned", "raised", "claimed", "flat", "state", "reconcile", "collect", "freeze",
     "flat_check", "finalize"}

(* A step of p that writes no row, calls nobody and carries nothing on.    *)
LEMMA FreeStep ==
    ASSUME SessionInv, NEW p \in Procs, UNCHANGED <<row, lifecycle, calls>>, UNCHANGED exposed,
           NEW c, become(p, c), c.pc \in Free
    PROVE  SessionInv'
<1>1. JobOK(c) /\ c.pc \notin {"process", "record", "closed"}
  BY Zenon DEF JobOK, Free
<1> QED
  BY <1>1, QuietStep

(* A step of p that only sets out to close lifecycles on record.           *)
LEMMA QueueStep ==
    ASSUME SessionInv, NEW p \in Procs, UNCHANGED <<row, lifecycle, calls>>, UNCHANGED exposed,
           NEW c, become(p, c), c.pc = "close", c.queue \subseteq Bound
    PROVE  SessionInv'
<1>1. JobOK(c) /\ c.pc \notin {"process", "record", "closed"}
  BY DEF JobOK
<1> QED
  BY <1>1, QuietStep

(* A run begins: the arm is taken, or another one is in the way.           *)
LEMMA BeginStep ==
    ASSUME SessionInv, NEW p \in Procs, NEW a \in Arms, NEW t \in Times, begin_run(p, a, t)
    PROVE  SessionInv'
<1>1. UNCHANGED <<row, lifecycle, calls>> /\ UNCHANGED exposed
  BY DEF begin_run
<1>2. \E c : become(p, c) /\ c.pc \in Free
  BY DEF begin_run, raised, Free
<1> QED
  BY <1>1, <1>2, FreeStep

(* The steps before the first window: claims left behind, a frozen session *)
(* and the comparison with the broker.                                     *)
LEMMA CheckStep ==
    ASSUME SessionInv, NEW p \in Procs,
           \/ check_claimed(p) \/ check_state(p)
           \/ \E complete \in BOOLEAN : reconcile(p, complete)
    PROVE  SessionInv'
<1>1. UNCHANGED <<row, lifecycle, calls>> /\ UNCHANGED exposed
  BY ZenonT(30) DEF check_claimed, check_state, reconcile, store
<1>2. \E c : become(p, c) /\ c.pc \in Free
  BY DEF check_claimed, check_state, reconcile, freeze, returned, Free
<1> QED
  BY <1>1, <1>2, FreeStep

(* A window's batch is a set of offers; the next window follows when it    *)
(* has been worked off.                                                    *)
LEMMA CollectStep ==
    ASSUME SessionInv, NEW p \in Procs, collect_due(p) \/ next_window(p)
    PROVE  SessionInv'
<1>1. UNCHANGED <<row, lifecycle, calls>> /\ UNCHANGED exposed
  BY ZenonT(30) DEF collect_due, next_window, store
<1>2. ASSUME \E c : become(p, c) /\ c.pc \in Free PROVE SessionInv'
  BY <1>1, <1>2, FreeStep
<1>3. CASE \E batch \in SUBSET Offers : candidates(p, batch)
  <2>1. PICK c : become(p, c) /\ c.pc = "candidates" /\ c.todo \subseteq Offers
    BY <1>3 DEF candidates
  <2>2. JobOK(c) /\ c.pc \notin {"process", "record", "closed"}
    BY Zenon, <2>1 DEF JobOK
  <2> QED
    BY <1>1, <2>1, <2>2, QuietStep
<1>4. CASE returned(p) \/ raised(p)
  BY <1>2, <1>4 DEF returned, raised, Free
<1>5. CASE next_window(p)
  BY <1>2, <1>5 DEF next_window, Free
<1>6. \A w : SUBSET {x \in Offers : x.window = w} \subseteq SUBSET Offers
  OBVIOUS
<1> QED
  BY Zenon, <1>3, <1>4, <1>5, <1>6 DEF collect_due

(* A refusal by the store raises out of run; a freeze ends it.             *)
LEMMA RefusedStep ==
    ASSUME SessionInv, NEW p \in Procs, record_refused(p) \/ closed_refused(p) \/ mark_frozen(p)
    PROVE  SessionInv'
<1>1. UNCHANGED <<row, lifecycle, calls>> /\ UNCHANGED exposed
  BY ZenonT(30) DEF record_refused, closed_refused, mark_frozen, store
<1>2. raised(p) \/ returned(p)
  BY ZenonT(30) DEF record_refused, closed_refused, mark_frozen
<1>3. \E c : become(p, c) /\ c.pc \in Free
  BY <1>2 DEF returned, raised, Free
<1> QED
  BY <1>1, <1>3, FreeStep

(* The steps of the hard flat that write the session's own state only.     *)
LEMMA FlatStep ==
    ASSUME SessionInv, NEW p \in Procs, check_flat(p) \/ mark_not_flat(p) \/ finalize(p)
    PROVE  SessionInv'
<1>1. UNCHANGED <<row, lifecycle, calls>> /\ UNCHANGED exposed
  BY ZenonT(30) DEF check_flat, mark_not_flat, finalize, store
<1>2. \E c : become(p, c) /\ c.pc \in Free
  BY DEF check_flat, mark_not_flat, finalize, returned, Free
<1> QED
  BY <1>1, <1>2, FreeStep

(* The hard flat sets out with the lifecycles recorded as active, and goes *)
(* on with the rest of them after one that could not be closed.            *)
LEMMA HardFlatStep ==
    ASSUME SessionInv, NEW p \in Procs, begin_hard_flat(p) \/ mark_unresolved(p)
    PROVE  SessionInv'
<1>1. UNCHANGED <<row, lifecycle, calls>> /\ UNCHANGED exposed
  BY ZenonT(30) DEF begin_hard_flat, mark_unresolved, store
<1>2. CASE returned(p)
  <2>1. \E c : become(p, c) /\ c.pc \in Free
    BY <1>2 DEF returned, Free
  <2> QED
    BY <1>1, <2>1, FreeStep
<1>3. ASSUME \E c : become(p, c) /\ c.pc = "close" /\ c.queue \subseteq Bound PROVE SessionInv'
  BY <1>1, <1>3, QueueStep
<1>4. CASE become(p, [pc |-> "close", t |-> job[p].t, queue |-> active_lifecycle_ids])
  <2>1. active_lifecycle_ids \subseteq Bound
    BY DEF active_lifecycle_ids, Bound
  <2> QED
    BY <1>3, <1>4, <2>1
<1>5. CASE mark_unresolved(p)
  <2>1. job[p].queue \subseteq Bound
    BY ZenonT(30), <1>5 DEF SessionInv, mark_unresolved, at, JobOK
  <2> QED
    BY <1>3, <1>5, <2>1 DEF mark_unresolved, close_queue
<1> QED
  BY <1>2, <1>4, <1>5 DEF begin_hard_flat

-----------------------------------------------------------------------------
(* The answer is written, lifecycles are closed, coordinators crash        *)

(* The one row that a coordinator writes, and what stays typed.            *)
LEMMA RowWritten ==
    ASSUME SessionInv, NEW p \in Procs, NEW c, become(p, c), NEW i \in Ids,
           NEW r \in OpportunityRows, r.offer.id = i, row' = [row EXCEPT ![i] = r],
           lifecycle' \in [Lifecycles -> LifecycleRows \cup {NoRow}],
           UNCHANGED <<calls, exposed>>
    PROVE  /\ RowsTyped' /\ r # NoRow
           /\ row'[i] = r /\ \A k \in Ids \ {i} : row'[k] = row[k] /\ calls'[k] = calls[k]
<1>0. RowsTyped
  BY DEF SessionInv
<1>1. DOMAIN job' = Procs
  BY <1>0 DEF RowsTyped, become
<1>2. row' \in [Ids -> OpportunityRows \cup {NoRow}]
  BY <1>0 DEF RowsTyped
<1>3. row'[i] = r /\ \A k \in Ids \ {i} : row'[k] = row[k]
  BY <1>0 DEF RowsTyped
<1>4. \A k \in Ids : row'[k] # NoRow => row'[k].offer.id = k
  BY <1>0, <1>3 DEF RowsTyped
<1>5. r # NoRow
  BY SessionSentinels
<1> QED
  BY Zenon, <1>0, <1>1, <1>2, <1>3, <1>4, <1>5 DEF RowsTyped

(* What recording an answer writes: the claimed row takes the answer's     *)
(* disposition, and an ACTIVE one is bound to a lifecycle not yet in use.  *)
LEMMA RecordWrites ==
    ASSUME SessionInv, NEW p \in Procs, record(p)
    PROVE  \E r \in OpportunityRows :
             /\ row' = [row EXCEPT ![job[p].offer.id] = r] /\ r.offer = job[p].offer
             /\ r.state = job[p].result.disposition
             /\ \/ UNCHANGED lifecycle /\ r.state # "ACTIVE"
                \/ /\ r.state = "ACTIVE"
                   /\ \E l \in Lifecycles :
                         /\ lifecycle[l] = NoRow
                         /\ lifecycle' = [lifecycle EXCEPT ![l] = [id |-> job[p].offer.id,
                                                                  state |-> "ACTIVE"]]
<1> DEFINE x == job[p].offer
           i == x.id
           a == job[p].result
<1>0. RowsTyped
  BY DEF SessionInv
<1>1. /\ x \in Offers /\ i \in Ids /\ row[i] \in OpportunityRows /\ row[i] # NoRow
       /\ row[i].state = "CLAIMED" /\ row[i].offer = x
  BY Zenon, OwnedClaim DEF record
<1>2. a \in Results /\ validate_processing_result(a)
  BY Zenon DEF SessionInv, record, at, JobOK
<1>3. row \in [Ids -> OpportunityRows \cup {NoRow}]
  BY <1>0 DEF RowsTyped
<1>4. CASE a.disposition = "TERMINAL_FLAT"
  <2> DEFINE r == [offer |-> x, state |-> "TERMINAL_FLAT", proof |-> a.proof]
  <2>1. row' = [row EXCEPT ![i] = r] /\ UNCHANGED lifecycle
    BY <1>4 DEF record, record_result, record_terminal_flat
  <2>2. r \in OpportunityRows
    BY Zenon, <1>1, <1>2 DEF OpportunityRows, Results, Dispositions
  <2> QED
    BY ZenonT(30), <1>4, <2>1, <2>2
<1>5. CASE a.disposition = "ACTIVE"
  <2> DEFINE r == [row[i] EXCEPT !.state = "ACTIVE"]
  <2>1. r \in OpportunityRows /\ r.offer = x /\ r.state = "ACTIVE"
    BY Zenon, <1>1 DEF OpportunityRows, Dispositions
  <2>2. a.lifecycle \in Lifecycles
    BY Zenon, <1>2, <1>5 DEF Results, validate_processing_result
  <2>3. record_active_lifecycle(x, a.lifecycle) /\ ~matching(x, "ACTIVE")
    BY Zenon, <1>1, <1>5 DEF record, record_result, matching
  <2>4. /\ lifecycle[a.lifecycle] = NoRow
        /\ lifecycle' = [lifecycle EXCEPT ![a.lifecycle] = [id |-> i, state |-> "ACTIVE"]]
        /\ row' = [row EXCEPT ![i] = r]
    BY Zenon, <2>3 DEF record_active_lifecycle
  <2> QED
    BY ZenonT(30), <1>5, <2>1, <2>2, <2>4
<1>6. CASE a.disposition \notin {"TERMINAL_FLAT", "ACTIVE"}
  <2> DEFINE r == [row[i] EXCEPT !.state = a.disposition]
  <2>1. row' = [row EXCEPT ![i] = r] /\ UNCHANGED lifecycle
    BY Zenon, <1>6 DEF record, record_result, record_disposition
  <2>2. r \in OpportunityRows /\ r.offer = x /\ r.state = a.disposition
    BY Zenon, <1>1, <1>2 DEF OpportunityRows, Results, Dispositions
  <2> QED
    BY ZenonT(30), <1>6, <2>1, <2>2
<1> QED
  BY Zenon, <1>4, <1>5, <1>6

(* Recording: the claimed row takes the answer, and an ACTIVE one gets its *)
(* lifecycle row in the same transaction.                                  *)
LEMMA RecordStep == ASSUME SessionInv, NEW p \in Procs, record(p) PROVE SessionInv'
<1> DEFINE x == job[p].offer
           i == x.id
           a == job[p].result
<1>0. JobOK(job[p]) /\ RowsTyped /\ ProcessedOnce /\ LifecycleRowsAgree
  BY DEF SessionInv
<1>1. /\ x \in Offers /\ i \in Ids /\ row[i] \in OpportunityRows /\ row[i] # NoRow
      /\ row[i].state = "CLAIMED" /\ row[i].offer = x
      /\ \A q \in Procs \ {p} : ~Owns(q, i)
  BY Zenon, OwnedClaim DEF record
<1>2. /\ a \in Results /\ job[p].todo \subseteq Offers /\ validate_processing_result(a)
      /\ a.disposition \in {"ABSTAINED", "REJECTED_BEFORE_MUTATION", "TERMINAL_FLAT"} => i \notin exposed
  BY Zenon, <1>0 DEF record, at, JobOK
<1>3. UNCHANGED <<calls, exposed>>
  BY DEF record
<1>4. PICK c : become(p, c) /\ c.pc \in {"candidates", "freeze"} /\ JobOK(c)'
  <2>2. ASSUME NEW d, d.pc = "candidates", d.todo \subseteq Offers PROVE JobOK(d)'
    BY <2>2 DEF JobOK
  <2>3. ASSUME NEW d, d.pc = "freeze" PROVE JobOK(d)'
    BY <2>3 DEF JobOK
  <2>4. \/ \E d : become(p, d) /\ d.pc = "candidates" /\ d.todo \subseteq Offers
        \/ \E d : become(p, d) /\ d.pc = "freeze"
    BY <1>2 DEF record, after_record, candidates, freeze
  <2> QED
    BY <2>2, <2>3, <2>4
<1>5. \A l \in Lifecycles : lifecycle[l] # NoRow =>
          lifecycle[l].id \in Ids \ {i} /\ row[lifecycle[l].id] # NoRow
  BY <1>0, <1>1 DEF LifecycleRowsAgree, RowsTyped, LifecycleRows
<1>6. PICK r \in OpportunityRows :
          /\ row' = [row EXCEPT ![i] = r] /\ r.offer = x /\ r.state = a.disposition
          /\ \/ UNCHANGED lifecycle /\ r.state # "ACTIVE"
             \/ /\ r.state = "ACTIVE"
                /\ \E l \in Lifecycles :
                      /\ lifecycle[l] = NoRow
                      /\ lifecycle' = [lifecycle EXCEPT ![l] = [id |-> i, state |-> "ACTIVE"]]
  BY Zenon, RecordWrites
<1> HIDE DEF x, i, a
<1>7. /\ lifecycle' \in [Lifecycles -> LifecycleRows \cup {NoRow}]
      /\ \A l \in Bound : lifecycle'[l] # NoRow /\ lifecycle'[l].id = lifecycle[l].id
  <2>0. lifecycle \in [Lifecycles -> LifecycleRows \cup {NoRow}]
    BY <1>0 DEF RowsTyped
  <2>1. [id |-> i, state |-> "ACTIVE"] \in LifecycleRows
    BY <1>1 DEF LifecycleRows
  <2> QED
    BY Zenon, <1>6, <2>0, <2>1 DEF Bound
<1>8. r.offer.id = i
  BY <1>6 DEF i
<1>9. /\ RowsTyped' /\ r # NoRow
      /\ row'[i] = r /\ \A k \in Ids \ {i} : row'[k] = row[k] /\ calls'[k] = calls[k]
  BY ZenonT(30), <1>1, <1>3, <1>4, <1>6, <1>7, <1>8, RowWritten
<1>10. LifecycleRowsAgree'
  <2>1. CASE UNCHANGED lifecycle /\ r.state # "ACTIVE"
    <3>1. recorded("ACTIVE")' \subseteq recorded("ACTIVE")
      BY <1>9, <2>1 DEF recorded
    <3> QED
      BY <1>0, <1>5, <1>9, <2>1, <3>1 DEF LifecycleRowsAgree
  <2>2. ASSUME NEW l \in Lifecycles, r.state = "ACTIVE", lifecycle[l] = NoRow,
               lifecycle' = [lifecycle EXCEPT ![l] = [id |-> i, state |-> "ACTIVE"]]
        PROVE  LifecycleRowsAgree'
    <3>1. /\ lifecycle'[l] = [id |-> i, state |-> "ACTIVE"]
          /\ \A k \in Lifecycles \ {l} : lifecycle'[k] = lifecycle[k]
      BY <1>0, <2>2 DEF RowsTyped
    <3>2. lifecycle'[l] # NoRow
      BY <1>1, <3>1, SessionSentinels DEF LifecycleRows
    <3>3. recorded("ACTIVE")' \subseteq recorded("ACTIVE") \cup {i}
      BY <1>9 DEF recorded
    <3>4. \A k \in Lifecycles : lifecycle'[k] # NoRow =>
             row'[lifecycle'[k].id] # NoRow /\ row'[lifecycle'[k].id].state = lifecycle'[k].state
      BY <1>0, <1>5, <1>9, <2>2, <3>1 DEF LifecycleRowsAgree
    <3>5. \A k \in recorded("ACTIVE")' : \E m \in Lifecycles : lifecycle'[m] # NoRow /\ lifecycle'[m].id = k
      BY <1>0, <2>2, <3>1, <3>2, <3>3 DEF LifecycleRowsAgree
    <3>6. \A k, m \in Lifecycles : lifecycle'[k] # NoRow /\ lifecycle'[m] # NoRow
             /\ lifecycle'[k].id = lifecycle'[m].id => k = m
      BY <1>0, <1>5, <2>2, <3>1 DEF LifecycleRowsAgree
    <3> QED
      BY <3>4, <3>5, <3>6 DEF LifecycleRowsAgree
  <2> QED
    BY <1>6, <2>1, <2>2
<1>11. calls'[i] <= (IF row'[i] = NoRow THEN 0 ELSE 1)
  BY Zenon, <1>0, <1>1, <1>3, <1>9 DEF ProcessedOnce
<1>12. i \in exposed' => row'[i] # NoRow /\ row'[i].state \in
                {"CLAIMED", "ACTIVE", "MANUAL_RECONCILIATION_REQUIRED"}
  BY Zenon, <1>2, <1>3, <1>6, <1>9 DEF Results, Dispositions
<1> QED
  BY Zenon, <1>1, <1>3, <1>4, <1>7, <1>9, <1>10, <1>11, <1>12, OwnerStep

(* A lifecycle on record belongs to an opportunity that no claim holds.    *)
LEMMA BoundIsAnswered ==
    ASSUME SessionInv, NEW l \in Bound
    PROVE  /\ lifecycle[l].id \in Ids /\ lifecycle[l] \in LifecycleRows
           /\ row[lifecycle[l].id] \in OpportunityRows /\ row[lifecycle[l].id] # NoRow
           /\ row[lifecycle[l].id].state = lifecycle[l].state
           /\ row[lifecycle[l].id].offer.id = lifecycle[l].id
           /\ \A q \in Procs : ~Owns(q, lifecycle[l].id)
<1>1. /\ lifecycle[l] \in LifecycleRows /\ lifecycle[l].id \in Ids
      /\ lifecycle[l].state \in {"ACTIVE", "TERMINAL_FLAT"}
  BY Zenon DEF SessionInv, RowsTyped, Bound, LifecycleRows
<1>2. row[lifecycle[l].id] # NoRow /\ row[lifecycle[l].id].state = lifecycle[l].state
  BY Zenon DEF SessionInv, LifecycleRowsAgree, Bound
<1>3. ASSUME NEW q \in Procs, Owns(q, lifecycle[l].id) PROVE FALSE
  BY Zenon, <1>1, <1>2, <1>3 DEF SessionInv, JobOK, Owns, matching
<1> QED
  BY Zenon, <1>1, <1>2, <1>3 DEF SessionInv, RowsTyped

(* A close of the hard flat, answered, failed or cut short by a crash: it  *)
(* can only reduce the holding of a lifecycle that is on record.           *)
LEMMA CloseCallStep ==
    ASSUME SessionInv, NEW p \in Procs, NEW l \in Bound, closing(lifecycle[l].id),
           UNCHANGED <<store, calls>>,
           NEW c, become(p, c), JobOK(c)', c.pc \notin {"process", "record"}
    PROVE  SessionInv'
<1> DEFINE i == lifecycle[l].id
<1>1. i \in Ids /\ row[i] # NoRow /\ \A q \in Procs : ~Owns(q, i)
  BY Zenon, BoundIsAnswered
<1>2. UNCHANGED <<row, lifecycle, calls>> /\ exposed' \subseteq exposed
  BY DEF store, closing
<1> HIDE DEF i
<1>3. RowsTyped' /\ LifecycleRowsAgree'
  BY <1>2 DEF SessionInv, RowsTyped, LifecycleRowsAgree, recorded, become
<1>4. \A k \in Bound : lifecycle'[k] # NoRow /\ lifecycle'[k].id = lifecycle[k].id
  BY <1>2 DEF Bound
<1>5. /\ \A k \in Ids \ {i} : row'[k] = row[k] /\ calls'[k] = calls[k]
      /\ calls'[i] <= (IF row'[i] = NoRow THEN 0 ELSE 1)
      /\ i \in exposed' => row'[i] # NoRow /\ row'[i].state \in
                {"CLAIMED", "ACTIVE", "MANUAL_RECONCILIATION_REQUIRED"}
  BY <1>1, <1>2 DEF SessionInv, ProcessedOnce, ExposureIsOnRecord
<1> QED
  BY Zenon, <1>1, <1>2, <1>3, <1>4, <1>5, OwnerStep

(* A close, confirmed or not, of a lifecycle on record.                    *)
LEMMA CloseStep == ASSUME SessionInv, NEW p \in Procs, close_and_reconcile(p) PROVE SessionInv'
<1> DEFINE l == Min(job[p].queue)
           rest == job[p].queue \ {l}
<1>1. job[p].queue \subseteq Bound /\ job[p].queue # {}
  BY Zenon DEF SessionInv, close_and_reconcile, at, JobOK
<1>2. l \in Bound /\ rest \subseteq Bound
  BY Zenon, <1>1, MinIsMember, SessionConstants DEF Bound
<1>3. UNCHANGED <<store, calls>> /\ Bound' = Bound /\ lifecycle' = lifecycle
  BY Zenon DEF close_and_reconcile, store, Bound
<1> HIDE DEF l, rest
<1>4. closing(lifecycle[l].id)
  BY ZenonT(30) DEF close_and_reconcile, l
<1>5. PICK c : /\ become(p, c) /\ c.pc \in {"closed", "unresolved"}
               /\ c.queue = rest /\ c.lifecycle = l
               /\ c.pc = "closed" => c.result \in CloseResults /\ lifecycle[l].id \notin exposed'
  <2>1. CASE \E r \in CloseResults :
               /\ lifecycle[l].id \notin exposed'
               /\ become(p, [pc |-> "closed", t |-> job[p].t, queue |-> rest, lifecycle |-> l,
                             result |-> r])
    <3>1. PICK r \in CloseResults :
               /\ lifecycle[l].id \notin exposed'
               /\ become(p, [pc |-> "closed", t |-> job[p].t, queue |-> rest, lifecycle |-> l,
                             result |-> r])
      BY <2>1
    <3> WITNESS [pc |-> "closed", t |-> job[p].t, queue |-> rest, lifecycle |-> l, result |-> r]
    <3> QED
      BY <3>1
  <2>2. CASE \E code : become(p, [pc |-> "unresolved", t |-> job[p].t, queue |-> rest,
                                  lifecycle |-> l, code |-> code])
    <3>1. PICK code : become(p, [pc |-> "unresolved", t |-> job[p].t, queue |-> rest,
                                 lifecycle |-> l, code |-> code])
      BY <2>2
    <3> WITNESS [pc |-> "unresolved", t |-> job[p].t, queue |-> rest, lifecycle |-> l, code |-> code]
    <3> QED
      BY <3>1
  <2> QED
    BY <2>1, <2>2, Zenon DEF close_and_reconcile, l, rest
<1>6. JobOK(c)'
  BY Zenon, <1>2, <1>3, <1>5 DEF JobOK
<1> QED
  BY Zenon, <1>2, <1>3, <1>4, <1>5, <1>6, CloseCallStep

(* Recording a confirmed close flattens the lifecycle and its opportunity  *)
(* together.                                                               *)
LEMMA RecordClosedStep == ASSUME SessionInv, NEW p \in Procs, record_closed(p) PROVE SessionInv'
<1> DEFINE l == job[p].lifecycle
           i == lifecycle[l].id
           proof == job[p].result.proof
           c == [pc |-> "close", t |-> job[p].t, queue |-> job[p].queue]
           r == [row[i] EXCEPT !.state = "TERMINAL_FLAT", !.proof = proof]
           m == [lifecycle[l] EXCEPT !.state = "TERMINAL_FLAT"]
<1>0. /\ RowsTyped /\ ProcessedOnce /\ LifecycleRowsAgree /\ ExposureIsOnRecord
      /\ job[p].queue \subseteq Bound /\ l \in Bound /\ job[p].result \in CloseResults
      /\ i \notin exposed
  BY Zenon DEF SessionInv, record_closed, at, JobOK
<1>1. /\ i \in Ids /\ lifecycle[l] \in LifecycleRows /\ row[i] \in OpportunityRows /\ row[i] # NoRow
      /\ row[i].state = lifecycle[l].state /\ row[i].offer.id = i
      /\ \A q \in Procs : ~Owns(q, i)
  BY Zenon, <1>0, BoundIsAnswered
<1>2. UNCHANGED <<calls, exposed>> /\ become(p, c)
  BY DEF record_closed, close_queue
<1>3. CASE UNCHANGED <<lifecycle, row>>
  <2>1. JobOK(c) /\ c.pc = "close"
    BY Zenon, <1>0 DEF JobOK
  <2> HIDE DEF c
  <2> QED
    BY <1>2, <1>3, <2>1, QuietStep
<1>4. CASE /\ lifecycle' = [lifecycle EXCEPT ![l].state = "TERMINAL_FLAT"]
           /\ row' = [row EXCEPT ![i].state = "TERMINAL_FLAT", ![i].proof = proof]
  <2>1. /\ r \in OpportunityRows /\ r.offer.id = i /\ r.state = "TERMINAL_FLAT"
        /\ m \in LifecycleRows /\ m.id = i /\ m.state = "TERMINAL_FLAT"
    BY ZenonT(30), <1>0, <1>1 DEF OpportunityRows, LifecycleRows, Dispositions, CloseResults
  <2>2. row' = [row EXCEPT ![i] = r] /\ lifecycle' = [lifecycle EXCEPT ![l] = m]
    BY ZenonT(30), <1>0, <1>1, <1>4 DEF RowsTyped, Bound
  <2>3. c.pc = "close" /\ c.queue = job[p].queue
    OBVIOUS
  <2> HIDE DEF c, r, m
  <2>4. /\ lifecycle' \in [Lifecycles -> LifecycleRows \cup {NoRow}] /\ lifecycle'[l] = m
        /\ \A k \in Lifecycles \ {l} : lifecycle'[k] = lifecycle[k]
        /\ m # NoRow
    BY Zenon, <1>0, <2>1, <2>2, SessionSentinels DEF RowsTyped, Bound
  <2>5. /\ \A k \in Bound : lifecycle'[k] # NoRow /\ lifecycle'[k].id = lifecycle[k].id
        /\ Bound \subseteq Bound'
    BY Zenon, <2>1, <2>4 DEF Bound
  <2> HIDE DEF i, l
  <2>6. /\ RowsTyped' /\ r # NoRow
        /\ row'[i] = r /\ \A k \in Ids \ {i} : row'[k] = row[k] /\ calls'[k] = calls[k]
    BY ZenonT(30), <1>1, <1>2, <2>1, <2>2, <2>4, RowWritten
  <2>7. PICK d : d = c
    OBVIOUS
  <2>70. JobOK(d)' /\ become(p, d) /\ d.pc = "close"
    BY Zenon, <1>0, <1>2, <2>3, <2>5, <2>7 DEF JobOK
  <2>8. LifecycleRowsAgree'
    <3>0. /\ \A k \in Lifecycles : lifecycle'[k] # NoRow <=> lifecycle[k] # NoRow
          /\ \A k \in Lifecycles : lifecycle[k] # NoRow => lifecycle'[k].id = lifecycle[k].id
      BY Zenon, <1>0, <2>1, <2>4 DEF Bound, i
    <3>1. recorded("ACTIVE")' \subseteq recorded("ACTIVE")
      BY Zenon, <2>1, <2>6 DEF recorded
    <3>2. \A k \in Lifecycles \ {l} : lifecycle[k] # NoRow => lifecycle[k].id \in Ids \ {i}
      BY <1>0 DEF LifecycleRowsAgree, RowsTyped, LifecycleRows, Bound, i
    <3>3. \A k \in Lifecycles : lifecycle'[k] # NoRow =>
             row'[lifecycle'[k].id] # NoRow /\ row'[lifecycle'[k].id].state = lifecycle'[k].state
      BY <1>0, <2>1, <2>4, <2>6, <3>2 DEF LifecycleRowsAgree
    <3> QED
      BY <1>0, <3>0, <3>1, <3>3 DEF LifecycleRowsAgree
  <2>9. calls'[i] <= (IF row'[i] = NoRow THEN 0 ELSE 1)
    BY Zenon, <1>0, <1>1, <1>2, <2>6 DEF ProcessedOnce
  <2>10. i \notin exposed' /\ exposed' \subseteq exposed
    BY <1>0, <1>2
  <2> QED
    BY Zenon, <1>1, <2>5, <2>6, <2>70, <2>8, <2>9, <2>10, OwnerStep
<1> QED
  BY ZenonT(30), <1>3, <1>4 DEF record_closed, record_lifecycle_terminal_flat

(* A coordinator that dies between two of its steps, or inside a port call *)
(* that may have reached the broker.                                       *)
LEMMA CrashStep == ASSUME SessionInv, NEW p \in Procs, crash(p) PROVE SessionInv'
<1>0. PICK c : c = Idle
  OBVIOUS
<1>1. become(p, c) /\ c.pc = "idle" /\ UNCHANGED store
  BY Zenon, <1>0 DEF crash, Idle
<1>2. JobOK(c)' /\ JobOK(c)
  BY Zenon, <1>1 DEF JobOK
<1>3. CASE at(p, "process") /\ called(p) /\ any_holding(job[p].offer.id)
  <2>1. exposed' \subseteq exposed \cup {job[p].offer.id}
    BY <1>3 DEF any_holding
  <2> QED
    BY Zenon, <1>1, <1>2, <1>3, <2>1, CallStep
<1>4. CASE /\ at(p, "close") /\ job[p].queue # {} /\ UNCHANGED calls
           /\ closing(lifecycle[Min(job[p].queue)].id)
  <2>1. job[p].queue \subseteq Bound
    BY Zenon, <1>4 DEF SessionInv, at, JobOK
  <2>2. Min(job[p].queue) \in Bound
    BY Zenon, <1>4, <2>1, MinIsMember, SessionConstants DEF Bound
  <2>3. UNCHANGED <<store, calls>>
    BY Zenon, <1>1, <1>4
  <2> QED
    BY Zenon, <1>1, <1>2, <1>4, <2>2, <2>3, CloseCallStep
<1>5. CASE UNCHANGED <<calls, exposed>>
  BY Zenon, <1>1, <1>2, <1>5, QuietStep DEF store
<1> QED
  BY Zenon, <1>3, <1>4, <1>5 DEF crash

(* Every step of every coordinator keeps the invariant.                    *)
LEMMA SessionStep == SessionInv /\ [SessionNext]_session_vars => SessionInv'
<1> SUFFICES ASSUME SessionInv, [SessionNext]_session_vars PROVE SessionInv'
  OBVIOUS
<1>1. CASE UNCHANGED session_vars
  <2>1. UNCHANGED <<row, lifecycle, job, exposed, calls>>
    BY <1>1 DEF session_vars, store
  <2>2. RowsTyped' /\ ProcessedOnce'
    BY Zenon, <2>1 DEF SessionInv, RowsTyped, ProcessedOnce
  <2>20. ExposureIsOnRecord' /\ LifecycleRowsAgree'
    BY Zenon, <2>1 DEF SessionInv, ExposureIsOnRecord, LifecycleRowsAgree, recorded
  <2>3. \A p \in Procs : JobOK(job[p])'
    BY ZenonT(30), <2>1 DEF SessionInv, JobOK, Bound, matching
  <2>4. \A p, q \in Procs, i \in Ids : Owns(p, i)' /\ Owns(q, i)' => p = q
    BY Zenon, <2>1 DEF SessionInv, Owns
  <2> QED
    BY Zenon, <2>2, <2>20, <2>3, <2>4 DEF SessionInv
<1>2. CASE SessionNext
  <2>1. PICK p \in Procs :
            \/ \E a \in Arms, t \in Times : begin_run(p, a, t)
            \/ \E complete \in BOOLEAN : reconcile(p, complete)
            \/ run_step(p)
            \/ crash(p)
    BY <1>2 DEF SessionNext
  <2>2. ASSUME run_step(p) PROVE SessionInv'
    <3>1. CASE check_claimed(p) \/ check_state(p) \/ collect_due(p) \/ next_window(p)
      BY <3>1, CheckStep, CollectStep
    <3>2. CASE claim(p) \/ process(p) \/ record(p)
      BY <3>2, ClaimStep, ProcessStep, RecordStep
    <3>3. CASE record_refused(p) \/ closed_refused(p) \/ mark_frozen(p)
      BY <3>3, RefusedStep
    <3>4. CASE begin_hard_flat(p) \/ mark_unresolved(p)
      BY <3>4, HardFlatStep
    <3>5. CASE close_and_reconcile(p) \/ record_closed(p)
      BY <3>5, CloseStep, RecordClosedStep
    <3>6. CASE check_flat(p) \/ mark_not_flat(p) \/ finalize(p)
      BY <3>6, FlatStep
    <3> QED
      BY <2>2, <3>1, <3>2, <3>3, <3>4, <3>5, <3>6, ZenonT(30) DEF run_step
  <2>3. CASE \E a \in Arms, t \in Times : begin_run(p, a, t)
    BY <2>3, BeginStep
  <2>4. CASE \E complete \in BOOLEAN : reconcile(p, complete)
    BY <2>4, CheckStep
  <2> QED
    BY <2>1, <2>2, <2>3, <2>4, CrashStep
<1> QED
  BY <1>1, <1>2

(* Whatever the interleaving of coordinators and their crashes, the        *)
(* processor is called at most once per opportunity, what the broker holds *)
(* is visible in the durable rows, and the two tables agree.               *)
THEOREM SessionAccounted ==
    SessionSpec => []((ProcessedOnce /\ ExposureIsOnRecord) /\ LifecycleRowsAgree)
<1>1. SessionInv => (ProcessedOnce /\ ExposureIsOnRecord) /\ LifecycleRowsAgree
  BY DEF SessionInv
<1> QED
  BY SessionInitInv, SessionStep, <1>1, PTL DEF SessionSpec

-----------------------------------------------------------------------------
(* The rows implement the opportunity log                                  *)

(* Writing one row is writing one decision.                                *)
LEMMA DecisionWritten ==
    ASSUME RowsTyped, NEW i \in Ids, NEW r \in OpportunityRows, row' = [row EXCEPT ![i] = r]
    PROVE  /\ recorded_decision' = [recorded_decision EXCEPT ![i] = r.state]
           /\ recorded_decision[i] = IF row[i] = NoRow THEN "NONE" ELSE row[i].state
<1>1. r # NoRow
  BY SessionSentinels
<1>2. row'[i] = r /\ \A k \in Ids \ {i} : row'[k] = row[k]
  BY DEF RowsTyped
<1>3. recorded_decision \in [Ids -> {recorded_decision[k] : k \in Ids}]
  BY DEF recorded_decision
<1>4. \A k \in Ids : recorded_decision[k] = IF row[k] = NoRow THEN "NONE" ELSE row[k].state
  BY DEF recorded_decision
<1>5. \A k \in Ids : recorded_decision'[k] = [recorded_decision EXCEPT ![i] = r.state][k]
  BY <1>1, <1>2, <1>3, <1>4 DEF recorded_decision
<1>6. recorded_decision' = [k \in Ids |-> recorded_decision'[k]]
  BY DEF recorded_decision
<1>7. [recorded_decision EXCEPT ![i] = r.state]
        = [k \in Ids |-> [recorded_decision EXCEPT ![i] = r.state][k]]
  BY ZenonT(30), <1>3
<1>8. recorded_decision' = [recorded_decision EXCEPT ![i] = r.state]
  BY <1>5, <1>6, <1>7
<1> QED
  BY <1>4, <1>8

(* A claim of the store is a Claim of the log.                             *)
LEMMA ClaimRefines ==
    ASSUME SessionInv, NEW p \in Procs, claim(p)
    PROVE  UNCHANGED recorded_decision \/ Log!LogNext
<1> DEFINE x == next_offer(job[p].todo)
           r == [offer |-> x, state |-> "CLAIMED", proof |-> NoProof]
<1>0. RowsTyped
  BY DEF SessionInv
<1>1. job[p].todo \in SUBSET Offers /\ x \in job[p].todo
  BY Zenon, NextOfferIsMember DEF SessionInv, claim, at, JobOK
<1>2. x \in Offers /\ x.id \in Ids
  BY <1>1 DEF Ids
<1> HIDE DEF x
<1>3. CASE claim_state(x) # "CLAIMED"
  <2>1. UNCHANGED row
    BY Zenon, <1>3 DEF claim, x
  <2> QED
    BY <2>1 DEF recorded_decision
<1>4. CASE claim_state(x) = "CLAIMED"
  <2>1. row[x.id] = NoRow /\ row' = [row EXCEPT ![x.id] = r]
    BY ZenonT(30), <1>4 DEF claim, claim_state, claim_opportunity, x
  <2>2. r \in OpportunityRows /\ r.state = "CLAIMED"
    BY <1>2 DEF OpportunityRows
  <2> HIDE DEF r
  <2>3. PICK w \in OpportunityRows : w.state = "CLAIMED" /\ row' = [row EXCEPT ![x.id] = w]
    BY ZenonT(30), <2>1, <2>2
  <2>4. /\ recorded_decision' = [recorded_decision EXCEPT ![x.id] = w.state]
        /\ recorded_decision[x.id] = IF row[x.id] = NoRow THEN "NONE" ELSE row[x.id].state
    BY ZenonT(30), <1>0, <1>2, <2>3, DecisionWritten
  <2>5. /\ recorded_decision[x.id] = "NONE"
        /\ recorded_decision' = [recorded_decision EXCEPT ![x.id] = "CLAIMED"]
    BY <2>1, <2>3, <2>4
  <2> QED
    BY ZenonT(30), <1>2, <2>5 DEF Log!LogNext, Log!Claim
<1> QED
  BY <1>3, <1>4

(* A recorded answer is an Answer of the log.                              *)
LEMMA RecordRefines ==
    ASSUME SessionInv, NEW p \in Procs, record(p)
    PROVE  Log!LogNext
<1> DEFINE i == job[p].offer.id
<1>1. i \in Ids /\ row[i] # NoRow /\ row[i].state = "CLAIMED"
  BY Zenon, OwnedClaim DEF record
<1>2. PICK r \in OpportunityRows : row' = [row EXCEPT ![i] = r] /\ r.state = job[p].result.disposition
  BY Zenon, RecordWrites
<1>3. r.state \in Log!Answers
  BY Zenon, <1>2 DEF SessionInv, record, at, JobOK, Results, Dispositions, Log!Answers
<1> HIDE DEF i
<1>4. /\ recorded_decision[i] = "CLAIMED"
      /\ recorded_decision' = [recorded_decision EXCEPT ![i] = r.state]
  BY ZenonT(30), <1>1, <1>2, DecisionWritten DEF SessionInv
<1> QED
  BY ZenonT(30), <1>1, <1>3, <1>4 DEF Log!LogNext, Log!Answer

(* A recorded close is a Flatten of the log, or repeats one.               *)
LEMMA CloseRefines ==
    ASSUME SessionInv, NEW p \in Procs, record_closed(p)
    PROVE  UNCHANGED recorded_decision \/ Log!LogNext
<1> DEFINE l == job[p].lifecycle
           i == lifecycle[l].id
           proof == job[p].result.proof
           r == [row[i] EXCEPT !.state = "TERMINAL_FLAT", !.proof = proof]
<1>0. RowsTyped /\ l \in Bound /\ job[p].result \in CloseResults
  BY Zenon DEF SessionInv, record_closed, at, JobOK
<1>1. i \in Ids /\ row[i] \in OpportunityRows /\ row[i] # NoRow
  BY Zenon, <1>0, BoundIsAnswered
<1>2. CASE UNCHANGED <<lifecycle, row>>
  BY Zenon, <1>2 DEF recorded_decision
<1>3. CASE /\ row[i].state = "ACTIVE"
           /\ row' = [row EXCEPT ![i].state = "TERMINAL_FLAT", ![i].proof = proof]
  <2>1. r \in OpportunityRows /\ r.state = "TERMINAL_FLAT"
    BY ZenonT(30), <1>0, <1>1 DEF OpportunityRows, Dispositions, CloseResults
  <2>2. row' = [row EXCEPT ![i] = r]
    BY ZenonT(30), <1>0, <1>1, <1>3 DEF RowsTyped
  <2> HIDE DEF r, i
  <2>3. PICK w \in OpportunityRows : w.state = "TERMINAL_FLAT" /\ row' = [row EXCEPT ![i] = w]
    BY ZenonT(30), <2>1, <2>2
  <2>4. /\ recorded_decision' = [recorded_decision EXCEPT ![i] = w.state]
        /\ recorded_decision[i] = IF row[i] = NoRow THEN "NONE" ELSE row[i].state
    BY ZenonT(30), <1>0, <1>1, <2>3, DecisionWritten
  <2>5. /\ recorded_decision[i] = "ACTIVE"
        /\ recorded_decision' = [recorded_decision EXCEPT ![i] = "TERMINAL_FLAT"]
    BY <1>1, <1>3, <2>3, <2>4
  <2> QED
    BY ZenonT(30), <1>1, <2>5 DEF Log!LogNext, Log!Flatten
<1> QED
  BY ZenonT(30), <1>2, <1>3 DEF record_closed, record_lifecycle_terminal_flat

(* The durable rows of one or several coordinators are the abstract log:   *)
(* an opportunity is claimed once and answered once, and only an ACTIVE    *)
(* one is later made TERMINAL_FLAT.                                        *)
THEOREM SessionRefinesLog == SessionSpec => OpportunityLogRefined
<1>1. SessionInit => Log!LogInit
  BY DEF SessionInit, Log!LogInit, recorded_decision
<1>2. SessionInv /\ [SessionNext]_session_vars => [Log!LogNext]_recorded_decision
  <2> SUFFICES ASSUME SessionInv, [SessionNext]_session_vars
               PROVE  UNCHANGED recorded_decision \/ Log!LogNext
    OBVIOUS
  <2>1. ASSUME UNCHANGED row PROVE UNCHANGED recorded_decision
    BY <2>1 DEF recorded_decision
  <2>2. CASE UNCHANGED session_vars
    BY <2>1, <2>2 DEF session_vars, store
  <2>3. ASSUME NEW p \in Procs,
               \/ \E a \in Arms, t \in Times : begin_run(p, a, t)
               \/ \E complete \in BOOLEAN : reconcile(p, complete)
               \/ run_step(p)
               \/ crash(p),
               ~claim(p), ~record(p), ~record_closed(p)
        PROVE  UNCHANGED row
    BY ZenonT(30), <2>3 DEF begin_run, reconcile, run_step, check_claimed, check_state, collect_due,
           next_window, process, record_refused, mark_frozen, begin_hard_flat,
           close_and_reconcile, closed_refused, mark_unresolved, check_flat, mark_not_flat,
           finalize, crash, store
  <2>4. CASE SessionNext
    BY Zenon, <2>1, <2>3, <2>4, ClaimRefines, RecordRefines, CloseRefines DEF SessionNext, run_step
  <2> QED
    BY <2>2, <2>4
<1> QED
  BY <1>1, <1>2, SessionInitInv, SessionStep, PTL DEF SessionSpec, OpportunityLogRefined, Log!LogSpec

-----------------------------------------------------------------------------
(* The session's own state                                                 *)

Codes == ReasonCodes \cup {NoReason}
Resting == {"idle", "returned", "raised"}

(* What a coordinator may write into the session's state.                  *)
WritesOK(j) ==
    /\ j.pc \notin Resting => j.t \in Times
    /\ j.pc = "freeze" => j.reason.code \in Codes
    /\ j.pc = "unresolved" => j.code \in Codes

(* A session without an arm has not started, so that arming it, the one    *)
(* write that could lift a freeze, finds no reason.                        *)
FreezeInv ==
    /\ \A p \in Procs : WritesOK(job[p])
    /\ arm = NoArm => reasons = {} /\ \A p \in Procs : job[p].pc \in Resting
    /\ manual_reasons \subseteq Codes
    /\ ReasonsFreeze

(* An empty store and idle coordinators.                                   *)
LEMMA FreezeInitInv == SessionInit => FreezeInv
BY DEF SessionInit, FreezeInv, WritesOK, Resting, Idle, manual_reasons, ReasonsFreeze

(* The summary that a finalize stores is not the absent one.               *)
LEMMA SummaryStored ==
    ASSUME NEW t \in Times, manual_reasons \subseteq Codes
    PROVE  build_summary(t) # NoSummary
<1> DEFINE Counts == {0} \cup {Cardinality(S) : S \in SUBSET Ids}
<1>1. ASSUME NEW d \in DOMAIN disposition_counts PROVE disposition_counts[d] \in Counts
  <2>1. disposition_counts[d] = Cardinality(recorded(d))
    BY Zenon DEF disposition_counts
  <2>2. recorded(d) \in SUBSET Ids
    BY Zenon DEF recorded
  <2> QED
    BY Zenon, <2>1, <2>2
<1>2. counts_by_disposition \in [Dispositions -> Counts]
  <2>1. 0 \in Counts
    OBVIOUS
  <2> HIDE DEF Counts
  <2> QED
    BY <1>1, <2>1 DEF counts_by_disposition
<1>3. active_lifecycle_ids \subseteq Lifecycles
  BY Zenon DEF active_lifecycle_ids
<1>4. build_summary(t) \in Summaries
  BY Zenon, <1>2, <1>3 DEF build_summary, Summaries, Codes
<1> QED
  BY Zenon, <1>4, SessionSentinels

(* A step of a coordinator that has started leaves the session armed.      *)
LEMMA Armed ==
    ASSUME FreezeInv, NEW p \in Procs, job[p].pc \notin Resting
    PROVE  arm # NoArm /\ job[p].t \in Times
BY DEF FreezeInv, WritesOK

(* A coordinator that takes a step is in the middle of a run.              *)
LEMMA NotResting ==
    ASSUME NEW p \in Procs, (\E complete \in BOOLEAN : reconcile(p, complete)) \/ run_step(p)
    PROVE  job[p].pc \notin Resting
BY ZenonT(30) DEF run_step, reconcile, check_claimed, check_state, collect_due, next_window, claim,
     process, record, record_refused, mark_frozen, begin_hard_flat, close_and_reconcile,
     record_closed, closed_refused, mark_unresolved, check_flat, mark_not_flat, finalize, at,
     Resting

(* Locals that keep their instant and reach a point where nothing is about *)
(* to be written into the session's state.                                 *)
Onward == {"flat", "state", "collect", "process", "record", "close", "closed", "finalize", "flat_check",
           "candidates", "reconcile"}

(* Whatever else such locals carry, they may be written.                   *)
LEMMA OnwardOK ==
    ASSUME NEW p \in Procs, job[p].t \in Times, NEW pc \in Onward
    PROVE  /\ WritesOK([pc |-> pc, t |-> job[p].t])
           /\ \A w : WritesOK([pc |-> pc, t |-> job[p].t, window |-> w])
           /\ \A w, s : WritesOK([pc |-> pc, t |-> job[p].t, window |-> w, todo |-> s])
           /\ \A w, s, o : WritesOK([pc |-> pc, t |-> job[p].t, window |-> w, todo |-> s, offer |-> o])
           /\ \A w, s, o, r : WritesOK([pc |-> pc, t |-> job[p].t, window |-> w, todo |-> s, offer |-> o,
                                      result |-> r])
           /\ \A q : WritesOK([pc |-> pc, t |-> job[p].t, queue |-> q])
           /\ \A q, l, r : WritesOK([pc |-> pc, t |-> job[p].t, queue |-> q, lifecycle |-> l, result |-> r])
<1>1. \A c : c.pc = pc /\ c.t = job[p].t => WritesOK(c)
  BY DEF WritesOK, Onward
<1>2. WritesOK([pc |-> pc, t |-> job[p].t])
  BY <1>1
<1>3. \A w : WritesOK([pc |-> pc, t |-> job[p].t, window |-> w])
  BY <1>1
<1>4. \A w, s : WritesOK([pc |-> pc, t |-> job[p].t, window |-> w, todo |-> s])
  BY <1>1
<1>5. \A w, s, o : WritesOK([pc |-> pc, t |-> job[p].t, window |-> w, todo |-> s, offer |-> o])
  BY <1>1
<1>6. \A w, s, o, r : WritesOK([pc |-> pc, t |-> job[p].t, window |-> w, todo |-> s, offer |-> o,
                               result |-> r])
  BY <1>1
<1>7. \A q : WritesOK([pc |-> pc, t |-> job[p].t, queue |-> q])
  BY <1>1
<1>8. \A q, l, r : WritesOK([pc |-> pc, t |-> job[p].t, queue |-> q, lifecycle |-> l, result |-> r])
  BY <1>1
<1> QED
  BY Zenon, <1>2, <1>3, <1>4, <1>5, <1>6, <1>7, <1>8

(* The coordinator's locals after any of its steps.                        *)
LEMMA JobWritesOK ==
    ASSUME SessionInv, FreezeInv, NEW p \in Procs,
           \/ \E complete \in BOOLEAN : reconcile(p, complete)
           \/ run_step(p)
           \/ crash(p)
    PROVE  \E c : become(p, c) /\ WritesOK(c)
<1> DEFINE Done == \E c : become(p, c) /\ WritesOK(c)
<1>1. WritesOK(Idle) /\ WritesOK([pc |-> "returned"]) /\ WritesOK([pc |-> "raised"])
  BY DEF WritesOK, Resting, Idle
<1>2. CASE crash(p) \/ returned(p) \/ raised(p)
  BY Zenon, <1>1, <1>2 DEF crash, returned, raised
<1> SUFFICES ASSUME ~crash(p), ~returned(p), ~raised(p),
                    \/ \E complete \in BOOLEAN : reconcile(p, complete)
                    \/ run_step(p)
             PROVE  Done
  BY Zenon, <1>2
<1>3. job[p].t \in Times
  BY Zenon, NotResting, Armed
<1>4. ASSUME NEW code \in Codes, NEW i, NEW l, freeze(p, code, i, l) PROVE Done
  <2> DEFINE c == [pc |-> "freeze", t |-> job[p].t, reason |-> [code |-> code, id |-> i, lifecycle |-> l]]
  <2>1. WritesOK(c)
    BY <1>3 DEF WritesOK
  <2> QED
    BY Zenon, <1>4, <2>1 DEF freeze
<1>5. "CLAIM_RECOVERY_UNKNOWN" \in Codes /\ "RECONCILIATION_IDENTITY_MISMATCH" \in Codes
      /\ "HARD_FLAT_UNRESOLVED" \in Codes /\ "PORT_REASON" \in Codes /\ NoReason \in Codes
  BY Zenon DEF Codes, ReasonCodes
<1>6. /\ "flat" \in Onward /\ "state" \in Onward /\ "collect" \in Onward /\ "process" \in Onward
      /\ "record" \in Onward /\ "close" \in Onward /\ "closed" \in Onward /\ "finalize" \in Onward
      /\ "flat_check" \in Onward /\ "candidates" \in Onward /\ "reconcile" \in Onward
  BY Zenon DEF Onward
<1>7. ASSUME NEW todo, candidates(p, todo) PROVE Done
  BY Zenon, <1>3, <1>6, <1>7, OnwardOK DEF candidates
<1> HIDE DEF Done
<1>8. CASE \E complete \in BOOLEAN : reconcile(p, complete)
  <2>1. CASE become(p, [pc |-> "collect", t |-> job[p].t, window |-> first_due(job[p].t, 1)])
    BY Zenon, <1>3, <1>6, <2>1, OnwardOK DEF Done
  <2> QED
    BY Zenon, <1>4, <1>5, <1>8, <2>1 DEF reconcile
<1>9. CASE check_claimed(p)
  <2>1. CASE become(p, [pc |-> IF job[p].t >= HardFlatAt THEN "flat" ELSE "state", t |-> job[p].t])
    BY Zenon, <1>3, <1>6, <2>1, OnwardOK DEF Done
  <2> QED
    BY Zenon, <1>4, <1>5, <1>9, <2>1 DEF check_claimed
<1>10. CASE check_state(p) \/ next_window(p)
  BY Zenon, <1>3, <1>6, <1>10, OnwardOK DEF Done, check_state, next_window
<1>11. CASE collect_due(p)
  BY Zenon, <1>7, <1>11 DEF collect_due
<1>12. CASE claim(p)
  <2>1. CASE \E todo : candidates(p, todo)
    BY Zenon, <1>7, <2>1
  <2>2. CASE \E w, s, o : become(p, [pc |-> "process", t |-> job[p].t, window |-> w, todo |-> s, offer |-> o])
    BY Zenon, <1>3, <1>6, <2>2, OnwardOK DEF Done
  <2> QED
    BY Zenon, <1>12, <2>1, <2>2 DEF claim
<1>13. CASE process(p)
  <2>1. CASE \E r : become(p, [pc |-> "record", t |-> job[p].t, window |-> job[p].window,
                              todo |-> job[p].todo, offer |-> job[p].offer, result |-> r])
    BY Zenon, <1>3, <1>6, <2>1, OnwardOK DEF Done
  <2> QED
    BY ZenonT(30), <1>4, <1>5, <1>13, <2>1 DEF process
<1>14. CASE record(p)
  <2>1. job[p].result.reason \in Codes
    BY Zenon, <1>5, <1>14 DEF record, at, SessionInv, JobOK, Results
  <2> QED
    BY Zenon, <1>4, <1>7, <1>14, <2>1 DEF record, after_record
<1>15. CASE begin_hard_flat(p) \/ mark_not_flat(p)
  BY Zenon, <1>3, <1>6, <1>15, OnwardOK DEF Done, begin_hard_flat, mark_not_flat
<1>16. CASE check_flat(p)
  <2>1. become(p, [pc |-> IF active_lifecycle_ids # {} THEN "flat_check" ELSE "finalize", t |-> job[p].t])
    BY Zenon, <1>16 DEF check_flat
  <2> QED
    BY Zenon, <1>3, <1>6, <2>1, OnwardOK DEF Done
<1>17. CASE record_closed(p) \/ mark_unresolved(p)
  BY Zenon, <1>3, <1>6, <1>17, OnwardOK DEF Done, record_closed, mark_unresolved, close_queue
<1>18. CASE close_and_reconcile(p)
  <2>1. CASE \E queue, l, r : become(p, [pc |-> "closed", t |-> job[p].t, queue |-> queue,
                                       lifecycle |-> l, result |-> r])
    BY Zenon, <1>3, <1>6, <2>1, OnwardOK DEF Done
  <2>2. CASE \E queue, l : \E code \in Codes :
               become(p, [pc |-> "unresolved", t |-> job[p].t, queue |-> queue, lifecycle |-> l,
                          code |-> code])
    <3>1. \A queue, l : \A code \in Codes :
             WritesOK([pc |-> "unresolved", t |-> job[p].t, queue |-> queue, lifecycle |-> l, code |-> code])
      BY <1>3 DEF WritesOK
    <3> QED
      BY Zenon, <2>2, <3>1 DEF Done
  <2>3. \A r \in CloseResults : r.reason \in Codes
    BY <1>5 DEF CloseResults
  <2> QED
    BY Zenon, <1>5, <1>18, <2>1, <2>2, <2>3 DEF close_and_reconcile
<1> QED
  BY ZenonT(30), <1>8, <1>9, <1>10, <1>11, <1>12, <1>13, <1>14, <1>15, <1>16, <1>17, <1>18
     DEF run_step, record_refused, mark_frozen, closed_refused, finalize

(* Only a freeze adds a reason, and it freezes the session; only arming a  *)
(* session and finalizing one write another state.                         *)
LEMMA SessionWrites ==
    ASSUME FreezeInv, NEW p \in Procs,
           \/ \E complete \in BOOLEAN : reconcile(p, complete)
           \/ run_step(p)
           \/ crash(p)
    PROVE  /\ arm' = arm
           /\ \/ UNCHANGED <<session, reasons, summary>>
              \/ /\ session' = "MANUAL_RECONCILIATION_REQUIRED" /\ UNCHANGED summary
                 /\ \E r : r.code \in Codes /\ reasons' = reasons \cup {r}
              \/ /\ summary = NoSummary /\ UNCHANGED reasons
                 /\ \E t \in Times : summary' = build_summary(t)
                 /\ session' = IF summary'.flat THEN "FINALIZED"
                               ELSE "MANUAL_RECONCILIATION_REQUIRED"
<1>0. WritesOK(job[p])
  BY DEF FreezeInv
<1>1. CASE mark_frozen(p)
  <2>1. job[p].reason.code \in Codes
    BY Zenon, <1>0, <1>1 DEF mark_frozen, at, WritesOK
  <2> QED
    BY Zenon, <1>1, <2>1 DEF mark_frozen, mark_manual_reconciliation_required
<1>2. CASE mark_unresolved(p)
  <2>1. job[p].code \in Codes
    BY Zenon, <1>0, <1>2 DEF mark_unresolved, at, WritesOK
  <2> DEFINE r == [code |-> job[p].code, id |-> lifecycle[job[p].lifecycle].id,
                   lifecycle |-> job[p].lifecycle]
  <2>2. r.code \in Codes /\ reasons' = reasons \cup {r}
        /\ session' = "MANUAL_RECONCILIATION_REQUIRED" /\ UNCHANGED <<arm, summary>>
    BY Zenon, <1>2, <2>1 DEF mark_unresolved, mark_manual_reconciliation_required
  <2> HIDE DEF r
  <2> QED
    BY <2>2
<1>3. CASE mark_not_flat(p)
  <2> DEFINE r == [code |-> "HARD_FLAT_UNRESOLVED", id |-> NoId, lifecycle |-> NoLifecycle]
  <2>1. r.code \in Codes
    BY DEF Codes, ReasonCodes
  <2>2. reasons' = reasons \cup {r}
        /\ session' = "MANUAL_RECONCILIATION_REQUIRED" /\ UNCHANGED <<arm, summary>>
    BY <1>3 DEF mark_not_flat, mark_manual_reconciliation_required
  <2> HIDE DEF r
  <2> QED
    BY <2>1, <2>2
<1>4. CASE finalize(p)
  <2>1. job[p].t \in Times
    BY Zenon, <1>0, <1>4 DEF finalize, at, WritesOK, Resting
  <2>2. UNCHANGED <<arm, reasons>> /\ finalize_session(job[p].t)
    BY <1>4 DEF finalize
  <2> QED
    BY <2>1, <2>2 DEF finalize_session
<1>5. CASE ~mark_frozen(p) /\ ~mark_unresolved(p) /\ ~mark_not_flat(p) /\ ~finalize(p)
  BY ZenonT(30), <1>5 DEF reconcile, run_step, check_claimed, check_state, collect_due, next_window, claim,
         process, record, record_refused, begin_hard_flat, close_and_reconcile, record_closed,
         closed_refused, check_flat, crash, store
<1> QED
  BY Zenon, <1>1, <1>2, <1>3, <1>4, <1>5

(* Every step of every coordinator keeps the reasons and their summary.    *)
LEMMA FreezeStep == SessionInv /\ FreezeInv /\ [SessionNext]_session_vars => FreezeInv'
<1> SUFFICES ASSUME SessionInv, FreezeInv, [SessionNext]_session_vars PROVE FreezeInv'
  OBVIOUS
<1>0. DOMAIN job = Procs
  BY DEF SessionInv, RowsTyped
<1>1. CASE UNCHANGED session_vars
  BY Zenon, <1>1 DEF session_vars, store, FreezeInv, WritesOK, manual_reasons, ReasonsFreeze
<1>2. ASSUME NEW p \in Procs, \E c : become(p, c) /\ WritesOK(c), arm' # NoArm,
             manual_reasons' \subseteq Codes, ReasonsFreeze'
      PROVE  FreezeInv'
  <2>1. PICK c : become(p, c) /\ WritesOK(c)
    BY <1>2
  <2>2. job'[p] = c /\ \A q \in Procs \ {p} : job'[q] = job[q]
    BY <1>0, <2>1 DEF become
  <2>3. \A q \in Procs : WritesOK(job[q])'
    BY Zenon, <2>1, <2>2 DEF FreezeInv, WritesOK
  <2> QED
    BY Zenon, <1>2, <2>3 DEF FreezeInv
<1>3. ASSUME NEW p \in Procs, NEW a \in Arms, NEW t \in Times, begin_run(p, a, t)
      PROVE  FreezeInv'
  <2>1. \E c : become(p, c) /\ WritesOK(c)
    BY <1>3 DEF begin_run, raised, WritesOK, Resting
  <2>2. arm' # NoArm /\ UNCHANGED <<reasons, summary>>
    BY Zenon, <1>3, SessionConstants DEF begin_run, ensure_arm
  <2>3. session' = session \/ (reasons = {} /\ session' = "ARMED")
    <3>1. arm = NoArm => reasons = {}
      BY DEF FreezeInv
    <3>2. session' = session \/ (arm = NoArm /\ session' = "ARMED")
      BY Zenon, <1>3 DEF begin_run, ensure_arm
    <3> QED
      BY <3>1, <3>2
  <2>4. manual_reasons' \subseteq Codes
    BY Zenon, <2>2 DEF FreezeInv, manual_reasons
  <2>5. ReasonsFreeze'
    BY <2>2, <2>3 DEF FreezeInv, ReasonsFreeze
  <2> QED
    BY <1>2, <2>1, <2>2, <2>4, <2>5
<1>4. ASSUME NEW p \in Procs, crash(p) PROVE FreezeInv'
  <2>1. job'[p] = Idle /\ \A q \in Procs \ {p} : job'[q] = job[q]
    BY Zenon, <1>0, <1>4 DEF crash, become
  <2>2. UNCHANGED <<arm, reasons, session, summary>>
    BY Zenon, <1>4 DEF crash, store
  <2>3. \A q \in Procs : WritesOK(job[q])'
    BY <2>1 DEF FreezeInv, WritesOK, Resting, Idle
  <2>4. arm = NoArm => \A q \in Procs : job'[q].pc \in Resting
    BY <2>1 DEF FreezeInv, Resting, Idle
  <2> QED
    BY Zenon, <2>2, <2>3, <2>4 DEF FreezeInv, manual_reasons, ReasonsFreeze
<1>5. ASSUME NEW p \in Procs, (\E complete \in BOOLEAN : reconcile(p, complete)) \/ run_step(p)
      PROVE  FreezeInv'
  <2>1. \E c : become(p, c) /\ WritesOK(c)
    BY <1>5, JobWritesOK
  <2>2. job[p].pc \notin Resting
    BY Zenon, <1>5, NotResting
  <2>3. arm' = arm /\ arm # NoArm
    BY Zenon, <1>5, <2>2, Armed, SessionWrites
  <2>4. CASE UNCHANGED <<session, reasons, summary>>
    <3>1. manual_reasons' \subseteq Codes /\ ReasonsFreeze'
      BY Zenon, <2>4 DEF FreezeInv, manual_reasons, ReasonsFreeze
    <3> QED
      BY <1>2, <2>1, <2>3, <3>1
  <2>5. CASE /\ session' = "MANUAL_RECONCILIATION_REQUIRED"
             /\ \E r : r.code \in Codes /\ reasons' = reasons \cup {r}
    <3>1. manual_reasons' \subseteq Codes
      BY Zenon, <2>5 DEF FreezeInv, manual_reasons
    <3>2. ReasonsFreeze'
      BY <2>5 DEF ReasonsFreeze
    <3> QED
      BY <1>2, <2>1, <2>3, <3>1, <3>2
  <2>6. ASSUME NEW t \in Times, UNCHANGED reasons, summary' = build_summary(t),
               session' = IF summary'.flat THEN "FINALIZED" ELSE "MANUAL_RECONCILIATION_REQUIRED"
        PROVE  FreezeInv'
    <3>1. manual_reasons \subseteq Codes /\ manual_reasons' = manual_reasons
      BY <2>6 DEF FreezeInv, manual_reasons
    <3>2. summary' # NoSummary
      BY <2>6, <3>1, SummaryStored
    <3>3. summary'.flat => manual_reasons = {}
      BY ZenonT(30), <2>6 DEF build_summary
    <3>4. summary'.flat => reasons' = {}
      BY ZenonT(30), <2>6, <3>3 DEF manual_reasons
    <3>5. ReasonsFreeze'
      BY <2>6, <3>2, <3>4 DEF ReasonsFreeze
    <3> QED
      BY <1>2, <2>1, <2>3, <3>1, <3>5
  <2> QED
    BY Zenon, <1>5, <2>4, <2>5, <2>6, SessionWrites
<1> QED
  BY <1>1, <1>3, <1>4, <1>5 DEF SessionNext

(* A stored manual reason freezes the session for good, and a session that *)
(* reads FINALIZED has a flat summary, with any number of coordinators,    *)
(* crashes and finalizations in any order.                                 *)
THEOREM SessionReasonsFreeze == SessionSpec => []ReasonsFreeze
<1>1. FreezeInv => ReasonsFreeze
  BY DEF FreezeInv
<1> QED
  BY <1>1, SessionInitInv, SessionStep, FreezeInitInv, FreezeStep, PTL DEF SessionSpec

(* However coordinators interleave, crash and finalize, an opportunity is  *)
(* processed at most once, a holding is on record, the two tables agree    *)
(* and a stored reason freezes the session: for any offers and any number  *)
(* of coordinators, conflicting offers of one id included.                 *)
THEOREM SessionStoreAccounted == SessionSpec => []StoreIsAccounted
<1>1. SessionInv /\ ReasonsFreeze => StoreIsAccounted
  BY Zenon DEF SessionInv, StoreIsAccounted
<1> QED
  BY <1>1, SessionInitInv, SessionStep, SessionReasonsFreeze, PTL DEF SessionSpec
=============================================================================
