-------------------------- MODULE RiskLedgerProofs --------------------------
(***************************************************************************)
(* Proofs about RiskLedger, for every set of events, candidates and broker *)
(* orders and every policy limit.                                          *)
(***************************************************************************)
EXTENDS RiskLedger, FiniteSetTheorems, TLAPS

(* The rows, the order identities, NOT_RUN and the receipts are inductive  *)
(* together: RowsAgree says from which states a transaction may start.     *)
RowsInv == TypeOK /\ RowsAgree /\ NotRunNeverEnters /\ PassportExplainsRows

(* In an initial ledger every table is empty.                              *)
LEMMA RowsInit == LedgerInit => RowsInv
  BY LimitsAreNaturals, SentinelsAreFresh
  DEF LedgerInit, RowsInv, TypeOK, RowsAgree, NotRunNeverEnters, PassportExplainsRows,
      ReservationStates, PermitStates, IntentStates, FillIds, ReceiptTypes

(* Every transaction keeps them.                                           *)
LEMMA RowsStep == RowsInv /\ [LedgerNext]_ledger => RowsInv'
<1> SUFFICES ASSUME RowsInv, [LedgerNext]_ledger PROVE RowsInv'
  OBVIOUS
<1> USE LimitsAreNaturals, SentinelsAreFresh
<1> USE DEF RowsInv, TypeOK, RowsAgree, NotRunNeverEnters, PassportExplainsRows,
            ReservationStates, PermitStates, IntentStates, FillIds, ReceiptTypes,
            append_passport, rows, intents
<1>1. ASSUME NEW e \in Events, NEW c \in Candidates,
            freeze_candidate(e, c)
     PROVE  RowsInv'
  BY <1>1 DEF freeze_candidate
<1>2. ASSUME NEW e \in Events,
            mark_not_run(e)
     PROVE  RowsInv'
  BY <1>2 DEF mark_not_run
<1>3. ASSUME NEW e \in Events, NEW c \in Candidates, NEW day \in Days,
            reserve_and_issue_permit(e, c, day)
     PROVE  RowsInv'
  BY <1>3 DEF reserve_and_issue_permit, reserve_accepts
<1>4. ASSUME NEW e \in Events, NEW o \in Orders, NEW append \in BOOLEAN,
            record_submission(e, o, append)
     PROVE  RowsInv'
  BY <1>4 DEF record_submission, submission_accepts
<1>5. ASSUME NEW e \in Events, NEW obs \in Observations,
            reconcile_observed_order(e, obs)
     PROVE  RowsInv'
  BY <1>5 DEF reconcile_observed_order, reconcile_accepts, reconcile_bound, ObservedFilled, ObservedCanceled, Observations
<1>6. ASSUME NEW e \in Events,
            release_consumed_after_flat(e)
     PROVE  RowsInv'
  BY <1>6 DEF release_consumed_after_flat, release_accepts
<1>7. ASSUME NEW e \in Events, NEW o \in Orders,
            record_fill(e, o)
     PROVE  RowsInv'
  BY <1>7 DEF record_fill
<1>8. ASSUME NEW e \in Events, NEW phase \in Phases,
            record_lifecycle_intent(e, phase)
     PROVE  RowsInv'
  BY <1>8 DEF record_lifecycle_intent
<1>9. ASSUME NEW e \in Events, NEW phase \in Phases, NEW o \in Orders,
            bind_lifecycle_intent(e, phase, o)
     PROVE  RowsInv'
  BY <1>9 DEF bind_lifecycle_intent, bind_accepts
<1>10. ASSUME NEW e \in Events, NEW phase \in Phases,
            mark_lifecycle_intent_reconciled(e, phase)
     PROVE  RowsInv'
  BY <1>10 DEF mark_lifecycle_intent_reconciled
<1>11. CASE UNCHANGED ledger
  BY <1>11 DEF ledger
<1> HIDE DEF RowsInv
<1> QED
  BY <1>1, <1>2, <1>3, <1>4, <1>5, <1>6, <1>7, <1>8, <1>9, <1>10, <1>11 DEF LedgerNext, EntryNext, IntentNext

(* For every ledger, the rows of an event agree, a NOT_RUN event never     *)
(* enters, and the passport explains every row.                            *)
THEOREM LedgerRows == LedgerSpec => [](TypeOK /\ RowsAgree /\ NotRunNeverEnters /\ PassportExplainsRows)
<1>1. LedgerInit => RowsInv
  BY RowsInit
<1>2. RowsInv /\ [LedgerNext]_ledger => RowsInv'
  BY RowsStep
<1>3. RowsInv => TypeOK /\ RowsAgree /\ NotRunNeverEnters /\ PassportExplainsRows
  BY DEF RowsInv
<1> QED
  BY <1>1, <1>2, <1>3, PTL DEF LedgerSpec

-----------------------------------------------------------------------------
(* An event is entered at most once: no transaction of a ledger whose rows *)
(* agree takes a reservation or a candidate back.                          *)
THEOREM LedgerEnteredOnce == LedgerSpec => EnteredOnce
<1> DEFINE Kept == \A e \in Events :
        /\ reservation[e] # "NONE" => reservation'[e] # "NONE"
        /\ reservation[e] = "RELEASED" => reservation'[e] = "RELEASED"
        /\ reservation[e] = "CONSUMED" => reservation'[e] # "RESERVED"
        /\ candidate[e] # NoCandidate => candidate'[e] = candidate[e]
<1>1. RowsInv /\ [LedgerNext]_ledger => [Kept]_ledger
  <2> SUFFICES ASSUME RowsInv, LedgerNext PROVE Kept
    OBVIOUS
  <2> USE DEF RowsInv, TypeOK, ReservationStates, rows, intents
  <2>1. CASE EntryNext
    BY ZenonT(30), <2>1 DEF EntryNext, freeze_candidate, mark_not_run, reserve_and_issue_permit,
       reserve_accepts, record_submission, reconcile_observed_order, reconcile_accepts,
       reconcile_bound, release_consumed_after_flat, release_accepts
  <2>2. CASE IntentNext
    BY ZenonT(30), <2>2 DEF IntentNext, record_fill, record_lifecycle_intent, bind_lifecycle_intent,
       mark_lifecycle_intent_reconciled
  <2> QED
    BY <2>1, <2>2 DEF LedgerNext
<1>2. LedgerSpec => []RowsInv
  BY RowsInit, RowsStep, PTL DEF LedgerSpec
<1> QED
  BY <1>1, <1>2, PTL DEF LedgerSpec, EnteredOnce

-----------------------------------------------------------------------------
(* Order identities: the UNIQUE constraints on broker_order_id.            *)

(* One broker order belongs to one permit and to one intent.               *)
THEOREM LedgerOrderHasOneOwner == LedgerSpec => []OrderHasOneOwner
<1>1. LedgerInit => OrderHasOneOwner
  BY DEF LedgerInit, OrderHasOneOwner
<1>2. RowsInv /\ OrderHasOneOwner /\ [LedgerNext]_ledger => OrderHasOneOwner'
  <2> SUFFICES ASSUME RowsInv, OrderHasOneOwner, [LedgerNext]_ledger PROVE OrderHasOneOwner'
    OBVIOUS
  <2> USE DEF RowsInv, TypeOK, OrderHasOneOwner, rows, intents
  <2>1. ASSUME NEW e \in Events, NEW o \in Orders, NEW append \in BOOLEAN,
               record_submission(e, o, append)
        PROVE  OrderHasOneOwner'
    BY <2>1 DEF record_submission, submission_accepts
  <2>2. ASSUME NEW e \in Events, NEW phase \in Phases, NEW o \in Orders,
               bind_lifecycle_intent(e, phase, o)
        PROVE  OrderHasOneOwner'
    BY <2>2 DEF bind_lifecycle_intent, bind_accepts
  <2>3. CASE UNCHANGED <<submission, intent_order>>
    BY <2>3
  <2>4. LedgerNext =>
          \/ \E e \in Events, o \in Orders, append \in BOOLEAN : record_submission(e, o, append)
          \/ \E e \in Events, phase \in Phases, o \in Orders : bind_lifecycle_intent(e, phase, o)
          \/ UNCHANGED <<submission, intent_order>>
    BY ZenonT(30) DEF LedgerNext, EntryNext, IntentNext, freeze_candidate, mark_not_run,
       reserve_and_issue_permit, reconcile_observed_order, release_consumed_after_flat,
       record_fill, record_lifecycle_intent, mark_lifecycle_intent_reconciled
  <2> HIDE DEF OrderHasOneOwner
  <2> QED
    BY <2>1, <2>2, <2>3, <2>4 DEF ledger
<1>3. LedgerSpec => []RowsInv
  BY RowsInit, RowsStep, PTL DEF LedgerSpec
<1> QED
  BY <1>1, <1>2, <1>3, PTL DEF LedgerSpec

-----------------------------------------------------------------------------
(* Counts                                                                  *)

(* Sets of events are finite, and adding one event adds at most one.       *)
LEMMA EventCounts ==
    ASSUME NEW S \in SUBSET Events, NEW e \in Events
    PROVE  /\ Cardinality(S) \in Nat
           /\ Cardinality(S \cup {e}) \in Nat
           /\ Cardinality(S \cup {e}) <= Cardinality(S) + 1
<1>1. IsFiniteSet(S) /\ IsFiniteSet(S \cup {e})
  BY FiniteEvents, FS_Subset
<1>2. Cardinality(S) \in Nat /\ Cardinality(S \cup {e}) \in Nat
  BY <1>1, FS_CardinalityType
<1>3. Cardinality(S \cup {e}) <= Cardinality(S) + 1
  BY <1>1, <1>2, FS_AddElement
<1> QED
  BY <1>2, <1>3

(* A new reservation passes both counts; every other transaction leaves    *)
(* the days' entries alone and can only shrink the open reservations.      *)
LEMMA CountStep == RowsInv /\ CountsWithinPolicy /\ [LedgerNext]_ledger => CountsWithinPolicy'
<1> SUFFICES ASSUME RowsInv, CountsWithinPolicy, [LedgerNext]_ledger
             PROVE  CountsWithinPolicy'
  OBVIOUS
<1> USE LimitsAreNaturals
<1>0. /\ TypeOK
      /\ Cardinality(OpenReservations) <= MaxOpen
      /\ \A day \in Days : Cardinality(EntriesOn(day)) <= MaxEntries
  BY DEF CountsWithinPolicy, RowsInv, open_reservation_count
<1>1. ASSUME created' = created, OpenReservations' \subseteq OpenReservations
      PROVE  CountsWithinPolicy'
  <2>1. OpenReservations \in SUBSET Events /\ OpenReservations' \in SUBSET OpenReservations
    BY <1>1 DEF OpenReservations
  <2>2. IsFiniteSet(OpenReservations)
    BY <2>1, FiniteEvents, FS_Subset
  <2>3. /\ Cardinality(OpenReservations') <= Cardinality(OpenReservations)
        /\ Cardinality(OpenReservations) \in Nat /\ Cardinality(OpenReservations') \in Nat
    BY <2>1, <2>2, FS_Subset, FS_CardinalityType
  <2>4. \A day \in Days : EntriesOn(day)' = EntriesOn(day)
    BY <1>1 DEF EntriesOn
  <2> QED
    BY <1>0, <2>3, <2>4 DEF CountsWithinPolicy, open_reservation_count
<1>2. ASSUME NEW e \in Events, NEW c \in Candidates, NEW day \in Days,
             reserve_and_issue_permit(e, c, day)
      PROVE  CountsWithinPolicy'
  <2>1. /\ OpenReservations' = OpenReservations \cup {e}
        /\ EntriesOn(day)' = EntriesOn(day) \cup {e}
        /\ \A d \in Days : d # day => EntriesOn(d)' \subseteq EntriesOn(d)
    BY <1>0, <1>2 DEF reserve_and_issue_permit, OpenReservations, EntriesOn,
       TypeOK, ReservationStates
  <2>2. /\ Cardinality(OpenReservations) < MaxOpen
        /\ Cardinality(EntriesOn(day)) < MaxEntries
    BY <1>2 DEF reserve_and_issue_permit, reserve_accepts, open_reservation_count, entries_today
  <2>3. OpenReservations \in SUBSET Events /\ EntriesOn(day) \in SUBSET Events
    BY DEF OpenReservations, EntriesOn
  <2>4. /\ Cardinality(OpenReservations') <= MaxOpen
        /\ Cardinality(EntriesOn(day)') <= MaxEntries
    BY <2>1, <2>2, <2>3, EventCounts
  <2>5. ASSUME NEW d \in Days, d # day PROVE Cardinality(EntriesOn(d)') <= MaxEntries
    <3>1. IsFiniteSet(EntriesOn(d))
      BY FiniteEvents, FS_Subset DEF EntriesOn
    <3>2. Cardinality(EntriesOn(d)') <= Cardinality(EntriesOn(d))
      BY <2>1, <2>5, <3>1, FS_Subset
    <3>3. Cardinality(EntriesOn(d)) \in Nat /\ Cardinality(EntriesOn(d)') \in Nat
      BY <2>1, <2>5, <3>1, FS_Subset, FS_CardinalityType
    <3> QED
      BY <1>0, <3>2, <3>3
  <2> QED
    BY <2>4, <2>5 DEF CountsWithinPolicy, open_reservation_count
<1>3. ASSUME NEW e \in Events, NEW obs \in Observations, reconcile_observed_order(e, obs)
      PROVE  CountsWithinPolicy'
  BY <1>0, <1>1, <1>3 DEF reconcile_observed_order, reconcile_accepts, reconcile_bound,
     OpenReservations, TypeOK
<1>4. ASSUME NEW e \in Events, release_consumed_after_flat(e)
      PROVE  CountsWithinPolicy'
  BY <1>0, <1>1, <1>4 DEF release_consumed_after_flat, release_accepts, OpenReservations, TypeOK
<1>5. CASE UNCHANGED <<reservation, created>>
  BY <1>1, <1>5 DEF OpenReservations
<1>6. LedgerNext =>
        \/ \E e \in Events, c \in Candidates, day \in Days : reserve_and_issue_permit(e, c, day)
        \/ \E e \in Events, obs \in Observations : reconcile_observed_order(e, obs)
        \/ \E e \in Events : release_consumed_after_flat(e)
        \/ UNCHANGED <<reservation, created>>
  BY ZenonT(30) DEF LedgerNext, EntryNext, IntentNext, freeze_candidate, mark_not_run, record_submission,
     record_fill, record_lifecycle_intent, bind_lifecycle_intent,
     mark_lifecycle_intent_reconciled, rows
<1> QED
  BY <1>2, <1>3, <1>4, <1>5, <1>6 DEF ledger

(* For every policy, the open expressions and the entries of each UTC day  *)
(* stay within the counts that reserve_and_issue_permit rechecks.          *)
THEOREM LedgerCountsWithinPolicy == LedgerSpec => []CountsWithinPolicy
<1>1. LedgerInit => CountsWithinPolicy
  <2> SUFFICES ASSUME LedgerInit PROVE CountsWithinPolicy
    OBVIOUS
  <2>1. OpenReservations = {} /\ \A day \in Days : EntriesOn(day) = {}
    BY SentinelsAreFresh DEF LedgerInit, OpenReservations, EntriesOn
  <2>2. Cardinality({}) = 0
    BY FS_EmptySet
  <2> QED
    BY <2>1, <2>2, LimitsAreNaturals DEF CountsWithinPolicy, open_reservation_count
<1>2. LedgerSpec => []RowsInv
  BY RowsInit, RowsStep, PTL DEF LedgerSpec
<1> QED
  BY <1>1, <1>2, CountStep, PTL DEF LedgerSpec


-----------------------------------------------------------------------------
(* Sums, as counts of units                                                *)

(* The units of finitely many natural amounts are finitely many.           *)
LEMMA UnitsFinite ==
    ASSUME NEW S, IsFiniteSet(S), NEW w, \A x \in S : w[x] \in Nat
    PROVE  IsFiniteSet(Units(w, S))
<1> DEFINE Of == [x \in S |-> {x} \X (1..w[x])]
           Parts == {{x} \X (1..w[x]) : x \in S}
<1>1. Of \in Surjection(S, Parts)
  BY ZenonT(30) DEF Surjection
<1>2. IsFiniteSet(Parts)
  BY <1>1, FS_Surjection
<1>3. ASSUME NEW x \in S PROVE IsFiniteSet({x} \X (1..w[x]))
  <2>1. IsFiniteSet({x})
    BY ZenonT(30), FS_Singleton
  <2>2. IsFiniteSet(1..w[x])
    BY FS_Interval
  <2> QED
    BY Zenon, <2>1, <2>2, FS_Product
<1>4. \A P \in Parts : IsFiniteSet(P)
  BY <1>3
<1> QED
  BY ZenonT(30), <1>2, <1>4, FS_UNION DEF Units

(* A sum of naturals is a natural.                                         *)
LEMMA TotalIsNatural ==
    ASSUME NEW S, IsFiniteSet(S), NEW w, \A x \in S : w[x] \in Nat
    PROVE  Total(w, S) \in Nat
  BY UnitsFinite, FS_CardinalityType DEF Total

(* A further summand adds itself.                                          *)
LEMMA TotalAdds ==
    ASSUME NEW S, IsFiniteSet(S), NEW z, z \notin S, NEW w, \A x \in S \cup {z} : w[x] \in Nat
    PROVE  Total(w, S \cup {z}) = Total(w, S) + w[z]
<1> DEFINE One == {z} \X (1..w[z])
<1>1. Units(w, S \cup {z}) = Units(w, S) \cup One
  BY DEF Units
<1>2. Units(w, S) \cap One = {}
  BY DEF Units
<1>3. IsFiniteSet(Units(w, S)) /\ IsFiniteSet(One) /\ Cardinality(One) = w[z]
  <2>1. IsFiniteSet({z}) /\ Cardinality({z}) = 1
    BY FS_Singleton
  <2>2. IsFiniteSet(1..w[z]) /\ Cardinality(1..w[z]) = w[z]
    BY FS_Interval
  <2>3. Cardinality(One) = 1 * w[z] /\ IsFiniteSet(One)
    BY <2>1, <2>2, FS_Product
  <2> QED
    BY <2>3, UnitsFinite
<1>4. Cardinality(Units(w, S) \cup One) = Cardinality(Units(w, S)) + w[z] - 0
  <2>1. Cardinality(Units(w, S) \cup One)
              = Cardinality(Units(w, S)) + Cardinality(One) - Cardinality(Units(w, S) \cap One)
    BY <1>3, FS_Union
  <2>2. Cardinality(Units(w, S) \cap One) = 0
    BY <1>2, FS_EmptySet
  <2> QED
    BY <1>3, <2>1, <2>2
<1>5. Cardinality(Units(w, S)) \in Nat
  BY <1>3, FS_CardinalityType
<1>6. w[z] \in Nat
  OBVIOUS
<1>7. Total(w, S \cup {z}) = Cardinality(Units(w, S) \cup One)
  BY <1>1 DEF Total
<1> QED
  BY <1>4, <1>5, <1>6, <1>7 DEF Total

(* Fewer summands sum to no more.                                          *)
LEMMA TotalShrinks ==
    ASSUME NEW S, IsFiniteSet(S), NEW T \in SUBSET S, NEW w, \A x \in S : w[x] \in Nat
    PROVE  Total(w, T) <= Total(w, S)
<1>1. Units(w, T) \in SUBSET Units(w, S)
  BY DEF Units
<1> QED
  BY <1>1, UnitsFinite, FS_Subset DEF Total

(* A sum depends on its summands only.                                     *)
LEMMA TotalDepends ==
    ASSUME NEW S, NEW v, NEW w, \A x \in S : v[x] = w[x]
    PROVE  Total(v, S) = Total(w, S)
  BY ZenonT(30) DEF Total, Units

-----------------------------------------------------------------------------
(* Exposure                                                                *)

(* The events are finite and their amounts natural, in every typed ledger. *)
LEMMA AmountsAreNatural ==
    ASSUME TypeOK
    PROVE  /\ \A e \in Events : amount[e] \in Nat
           /\ \A S \in SUBSET Events : IsFiniteSet(S)
<1>1. \A e \in Events : amount[e] \in Nat
  BY ExposureIsAmount DEF TypeOK, amount
<1>2. \A S \in SUBSET Events : IsFiniteSet(S)
  BY FiniteEvents, FS_Subset
<1> QED
  BY <1>1, <1>2

(* A transaction opens one reservation, for the frozen candidate, or none; *)
(* and what stays open keeps its candidate.                                *)
LEMMA OpenStep ==
    ASSUME RowsInv, [LedgerNext]_ledger
    PROVE  \/ \E e \in Events, c \in Candidates, day \in Days :
                 /\ reserve_and_issue_permit(e, c, day)
                 /\ e \notin OpenReservations /\ OpenReservations' = OpenReservations \cup {e}
           \/ /\ OpenReservations' \subseteq OpenReservations
              /\ \A e \in OpenReservations' : candidate'[e] = candidate[e]
<1> USE DEF RowsInv, TypeOK, OpenReservations, rows, intents
<1>1. ASSUME NEW e \in Events, NEW c \in Candidates, NEW day \in Days,
             reserve_and_issue_permit(e, c, day)
      PROVE  e \notin OpenReservations /\ OpenReservations' = OpenReservations \cup {e}
  BY <1>1 DEF reserve_and_issue_permit, reserve_accepts
<1>2. ASSUME NEW e \in Events, NEW c \in Candidates, freeze_candidate(e, c)
      PROVE  /\ OpenReservations' \subseteq OpenReservations
             /\ \A f \in OpenReservations' : candidate'[f] = candidate[f]
  BY <1>2 DEF freeze_candidate, RowsAgree
<1>3. ASSUME \/ \E e \in Events, obs \in Observations : reconcile_observed_order(e, obs)
             \/ \E e \in Events : release_consumed_after_flat(e)
             \/ UNCHANGED <<candidate, reservation>>
      PROVE  /\ OpenReservations' \subseteq OpenReservations
             /\ \A f \in OpenReservations' : candidate'[f] = candidate[f]
  BY ZenonT(30), <1>3 DEF reconcile_observed_order, reconcile_accepts, reconcile_bound,
     release_consumed_after_flat, release_accepts
<1>4. LedgerNext =>
        \/ \E e \in Events, c \in Candidates, day \in Days : reserve_and_issue_permit(e, c, day)
        \/ \E e \in Events, c \in Candidates : freeze_candidate(e, c)
        \/ \E e \in Events, obs \in Observations : reconcile_observed_order(e, obs)
        \/ \E e \in Events : release_consumed_after_flat(e)
        \/ UNCHANGED <<candidate, reservation>>
  BY ZenonT(30) DEF LedgerNext, EntryNext, IntentNext, mark_not_run, record_submission,
     record_fill, record_lifecycle_intent, bind_lifecycle_intent,
     mark_lifecycle_intent_reconciled
<1> QED
  BY Zenon, <1>1, <1>2, <1>3, <1>4 DEF ledger

(* The sum over the open reservations grows by the entry being made, and   *)
(* by nothing else.                                                        *)
LEMMA ExposureStep == RowsInv /\ ExposureWithinPolicy /\ [LedgerNext]_ledger => ExposureWithinPolicy'
<1> SUFFICES ASSUME RowsInv, ExposureWithinPolicy, [LedgerNext]_ledger
             PROVE  ExposureWithinPolicy'
  OBVIOUS
<1> USE LimitsAreNaturals
<1>0. TypeOK /\ RowsInv'
  BY RowsStep DEF RowsInv
<1>1. OpenReservations \in SUBSET Events
  BY DEF OpenReservations
<1>2. /\ Total(amount, OpenReservations) \in Nat
      /\ Total(amount, OpenReservations) <= AggregateLimit
  BY <1>0, <1>1, AmountsAreNatural, TotalIsNatural DEF ExposureWithinPolicy, open_reservation_total
<1>3. ASSUME NEW e \in Events, NEW c \in Candidates, NEW day \in Days,
             reserve_and_issue_permit(e, c, day),
             e \notin OpenReservations, OpenReservations' = OpenReservations \cup {e}
      PROVE  ExposureWithinPolicy'
  <2>1. /\ Total(amount, OpenReservations) + Exposure[c] <= AggregateLimit
        /\ candidate' = candidate /\ candidate[e] = c
    BY <1>3 DEF reserve_and_issue_permit, reserve_accepts, open_reservation_total
  <2>2. amount' = amount /\ amount[e] = Exposure[c]
    BY <2>1, SentinelsAreFresh DEF amount
  <2>3. Total(amount, OpenReservations \cup {e}) = Total(amount, OpenReservations) + amount[e]
    BY ZenonT(30), <1>0, <1>1, <1>3, AmountsAreNatural, TotalAdds
  <2> QED
    BY <1>3, <2>1, <2>2, <2>3 DEF ExposureWithinPolicy, open_reservation_total
<1>4. ASSUME OpenReservations' \subseteq OpenReservations,
             \A e \in OpenReservations' : candidate'[e] = candidate[e]
      PROVE  ExposureWithinPolicy'
  <2>1. \A e \in OpenReservations' : amount'[e] = amount[e]
    BY <1>1, <1>4 DEF amount
  <2>2. Total(amount', OpenReservations') = Total(amount, OpenReservations')
    BY <2>1, TotalDepends
  <2>3. Total(amount, OpenReservations') <= Total(amount, OpenReservations)
    BY <1>0, <1>1, <1>4, AmountsAreNatural, TotalShrinks
  <2>4. Total(amount, OpenReservations') \in Nat
    BY <1>0, <1>1, <1>4, AmountsAreNatural, TotalIsNatural
  <2> QED
    BY <1>2, <2>2, <2>3, <2>4 DEF ExposureWithinPolicy, open_reservation_total
<1> QED
  BY <1>3, <1>4, OpenStep

(* For every policy and every set of candidates, the aggregate limits of   *)
(* the policy hold: the open exposure, the open expressions and the        *)
(* entries of each day (the rechecks of reserve_and_issue_permit).         *)
THEOREM LedgerWithinPolicy == LedgerSpec => []WithinPolicy
<1>1. LedgerInit => ExposureWithinPolicy
  <2> SUFFICES ASSUME LedgerInit PROVE ExposureWithinPolicy
    OBVIOUS
  <2>1. OpenReservations = {}
    BY DEF LedgerInit, OpenReservations
  <2>2. Units(amount, {}) = {}
    BY DEF Units
  <2>3. Cardinality({}) = 0
    BY FS_EmptySet
  <2> QED
    BY <2>1, <2>2, <2>3, LimitsAreNaturals
    DEF ExposureWithinPolicy, open_reservation_total, Total
<1>2. LedgerSpec => []RowsInv
  BY RowsInit, RowsStep, PTL DEF LedgerSpec
<1>3. ExposureWithinPolicy /\ CountsWithinPolicy => WithinPolicy
  BY DEF WithinPolicy
<1> QED
  BY <1>1, <1>2, <1>3, ExposureStep, LedgerCountsWithinPolicy, PTL DEF LedgerSpec

(* The Trade Passport alone tells the state of every row,                  *)
(* since every transaction appends its receipts in the same commit.        *)
THEOREM LedgerPassport == LedgerSpec => []PassportExplainsRows
BY LedgerRows, PTL
=============================================================================
