-------------------------- MODULE RiskKernelProofs --------------------------
(***************************************************************************)
(* Proofs about RiskKernel: however many kernels share a ledger, they only *)
(* perform its transactions; and one kernel at a time never leaves KILL    *)
(* nor enters outside ACTIVE.                                              *)
(***************************************************************************)
EXTENDS RiskKernel, RiskLedgerProofs

(* What the refinement needs of the locals: the arguments a kernel holds   *)
(* on to until its transaction are ones a caller could have passed.        *)
CallTypeOK ==
    /\ call \in [Kernels -> Calls]
    /\ control \in ControlStates

(* The table maps control states to control states.                        *)
LEMMA NextControlType ==
    ASSUME NEW s \in ControlStates, NEW t \in ControlTriggers
    PROVE  next_control_state(s, t) \in ControlStates
BY DEF next_control_state, Transitions, TruthTransition, ActiveOnlyTransition,
       ControlStates, ControlTriggers

(* The locals by program counter.                                          *)
LEMMA CallShapes ==
    ASSUME NEW c \in Calls
    PROVE  /\ c.pc \in {"bind", "truth"} =>
                c \in [pc : {"bind", "truth"}, event : Events, cand : Candidates, day : Days]
           /\ c.pc \in {"snapshot", "peak", "concentration", "reserve"} =>
                c \in [pc : {"snapshot", "peak", "concentration", "reserve"}, event : Events,
                       cand : Candidates, day : Days, equity : Equities, gross : Amounts]
           /\ c.pc = "fill" => c \in [pc : {"fill"}, event : Events, obs : Observations]
           /\ c.pc = "flat" => c \in [pc : {"flat"}, event : Events]
           /\ c.pc = "trigger" => c \in [pc : {"trigger"}, trigger : ControlTriggers]
           /\ c.pc = "write" =>
                c \in [pc : {"write"}, trigger : ControlTriggers, updated : ControlStates]
BY DEF Calls, Idle

(* Every step of a kernel leaves locals of one of the shapes.              *)
LEMMA CallStep == CallTypeOK /\ [KernelNext]_kernel_vars => CallTypeOK'
<1> SUFFICES ASSUME CallTypeOK, [KernelNext]_kernel_vars PROVE CallTypeOK'
  OBVIOUS
<1> USE DEF CallTypeOK, at
<1>1. ASSUME NEW k \in Kernels, NEW c \in Calls, become(k, c), control' \in ControlStates
      PROVE  CallTypeOK'
  BY <1>1 DEF become
<1>2. Idle \in Calls /\ [pc |-> "resolve"] \in Calls
  BY DEF Calls
<1>3. ASSUME NEW k \in Kernels, NEW t \in ControlTriggers, raise_trigger(k, t),
             UNCHANGED control
      PROVE  CallTypeOK'
  <2>1. [pc |-> "trigger", trigger |-> t] \in Calls
    BY DEF Calls
  <2> QED
    BY <1>1, <1>3, <2>1 DEF raise_trigger
<1>4. ASSUME NEW k \in Kernels, reject(k), UNCHANGED control PROVE CallTypeOK'
  BY <1>1, <1>2, <1>4 DEF reject
<1>5. ASSUME NEW k \in Kernels, KernelStep(k) PROVE CallTypeOK'
  <2>1. CASE apply_trigger_read(k)
    <3>1. call[k].trigger \in ControlTriggers
      BY <2>1, CallShapes DEF apply_trigger_read
    <3>2. [pc |-> "write", trigger |-> call[k].trigger,
           updated |-> next_control_state(control, call[k].trigger)] \in Calls
      BY <3>1, NextControlType DEF Calls
    <3> QED
      BY <1>1, <1>4, <2>1, <3>2 DEF apply_trigger_read
  <2>2. CASE apply_trigger_write(k)
    <3>1. call[k].updated \in ControlStates
      BY <2>2, CallShapes DEF apply_trigger_write
    <3> QED
      BY <1>1, <1>2, <2>2, <3>1 DEF apply_trigger_write
  <2>3. CASE startup_truth(k) \/ startup_resolve(k)
    <3>1. BadTruth \cup {"NON_FLAT_STATE", "RESOLVED"} \subseteq ControlTriggers
      BY DEF BadTruth, ControlTriggers
    <3> QED
      BY Zenon, <1>1, <1>2, <1>3, <2>3, <3>1 DEF startup_truth, startup_resolve
  <2>4. ASSUME NEW e \in Events, NEW c \in Candidates, NEW day \in Days,
               authorize_control(k, e, c, day)
        PROVE  CallTypeOK'
    <3>1. [pc |-> "bind", event |-> e, cand |-> c, day |-> day] \in Calls
      BY Zenon DEF Calls
    <3> QED
      BY <1>1, <2>4, <3>1 DEF authorize_control
  <2>5. CASE validate_candidate_binding(k)
    <3>1. [call[k] EXCEPT !.pc = "truth"] \in Calls
      BY <2>5, CallShapes DEF validate_candidate_binding, Calls
    <3>2. goto(k, "truth") => become(k, [call[k] EXCEPT !.pc = "truth"])
      BY DEF goto, become
    <3> QED
      BY <1>1, <1>4, <2>5, <3>1, <3>2 DEF validate_candidate_binding
  <2>6. CASE authorize_truth(k)
    <3>1. ASSUME NEW equity \in Equities, NEW gross \in Amounts
          PROVE  [pc |-> "snapshot", event |-> call[k].event, cand |-> call[k].cand,
                  day |-> call[k].day, equity |-> equity, gross |-> gross] \in Calls
      BY ZenonT(30), <2>6, CallShapes DEF authorize_truth, Calls
    <3>2. BadTruth \subseteq ControlTriggers
      BY DEF BadTruth, ControlTriggers
    <3> QED
      BY ZenonT(30), <1>1, <1>3, <1>4, <2>6, <3>1, <3>2 DEF authorize_truth
  <2>7. ASSUME NEW p \in {"peak", "concentration", "reserve"}, goto(k, p),
               call[k].pc \in {"snapshot", "peak", "concentration"}, UNCHANGED control
        PROVE  CallTypeOK'
    <3>1. [call[k] EXCEPT !.pc = p] \in Calls
      BY <2>7, CallShapes DEF Calls
    <3>2. become(k, [call[k] EXCEPT !.pc = p])
      BY <2>7 DEF goto, become
    <3> QED
      BY <1>1, <2>7, <3>1, <3>2
  <2>8. CASE record_account_snapshot(k)
    BY <2>7, <2>8 DEF record_account_snapshot
  <2>9. CASE authorize_equity_limits(k)
    <3>1. equity_breach(call[k]) \in ControlTriggers \cup {"NONE"}
      BY DEF equity_breach, ControlTriggers
    <3> QED
      BY <1>3, <2>7, <2>9, <3>1 DEF authorize_equity_limits
  <2>10. CASE authorize_concentration(k)
    <3>1. "CONCENTRATION_LIMIT_BREACHED" \in ControlTriggers
      BY DEF ControlTriggers
    <3> QED
      BY <1>3, <2>7, <2>10, <3>1 DEF authorize_concentration
  <2>11. CASE authorize_reserve(k) \/ reconcile_flat(k)
    BY <1>1, <1>2, <2>11 DEF authorize_reserve, reconcile_flat
  <2>12. ASSUME NEW e \in Events, NEW obs \in Observations, reconcile_fill_truth(k, e, obs)
         PROVE  CallTypeOK'
    <3>1. [pc |-> "fill", event |-> e, obs |-> obs] \in Calls
      BY DEF Calls
    <3>2. {"STALE_TRUTH", "CONTRADICTORY_TRUTH"} \subseteq ControlTriggers
      BY DEF ControlTriggers
    <3> QED
      BY Zenon, <1>1, <1>3, <2>12, <3>1, <3>2 DEF reconcile_fill_truth
  <2>13. CASE reconcile_fill(k)
    <3>1. "PARTIAL_FILL_STATE" \in ControlTriggers
      BY DEF ControlTriggers
    <3> QED
      BY Zenon, <1>1, <1>2, <1>3, <1>4, <2>13, <3>1 DEF reconcile_fill
  <2>14. ASSUME NEW e \in Events, reconcile_flat_truth(k, e)
         PROVE  CallTypeOK'
    <3>1. [pc |-> "flat", event |-> e] \in Calls
      BY DEF Calls
    <3>2. BadTruth \cup {"NON_FLAT_STATE"} \subseteq ControlTriggers
      BY DEF BadTruth, ControlTriggers
    <3> QED
      BY Zenon, <1>1, <1>3, <2>14, <3>1, <3>2 DEF reconcile_flat_truth
  <2>15. CASE kernel_transaction(k)
    BY <2>15 DEF kernel_transaction
  <2> HIDE DEF CallTypeOK
  <2> QED
    BY <1>5, <2>1, <2>2, <2>3, <2>4, <2>5, <2>6, <2>8, <2>9, <2>10, <2>11, <2>12, <2>13,
       <2>14, <2>15 DEF KernelStep
<1>6. CASE set_control_state_kill
  BY <1>6 DEF set_control_state_kill, ControlStates
<1>7. CASE UNCHANGED kernel_vars
  BY <1>7 DEF kernel_vars
<1> HIDE DEF CallTypeOK
<1> QED
  BY <1>5, <1>6, <1>7 DEF KernelNext

(* The kernel starts idle on an empty ledger.                              *)
LEMMA CallInit == KernelInit => CallTypeOK
BY DEF KernelInit, CallTypeOK, Calls, ControlStates

(* Whatever the kernels, the policy and the broker's answers, the ledger   *)
(* part of a behaviour of the kernels is a behaviour of the ledger.        *)
THEOREM KernelRefinesLedger == KernelSpec => LedgerRefined
<1>1. KernelInit => LedgerInit
  BY DEF KernelInit
<1>2. CallTypeOK /\ [KernelNext]_kernel_vars => [EntryNext]_ledger
  <2> SUFFICES ASSUME CallTypeOK, [KernelNext]_kernel_vars PROVE EntryNext \/ UNCHANGED ledger
    OBVIOUS
  <2>1. ASSUME NEW k \in Kernels, KernelStep(k) PROVE EntryNext \/ UNCHANGED ledger
    <3>0. call[k] \in Calls
      BY DEF CallTypeOK
    <3>1. CASE authorize_reserve(k)
      <4>1. call[k].event \in Events /\ call[k].cand \in Candidates /\ call[k].day \in Days
        BY Zenon, <3>0, <3>1, CallShapes DEF authorize_reserve, at
      <4> QED
        BY <3>1, <4>1 DEF authorize_reserve, EntryNext
    <3>2. CASE reconcile_fill(k)
      <4>1. call[k].event \in Events /\ call[k].obs \in Observations
        BY Zenon, <3>0, <3>2, CallShapes DEF reconcile_fill, at
      <4> QED
        BY <3>2, <4>1 DEF reconcile_fill, EntryNext
    <3>3. CASE reconcile_flat(k)
      <4>1. call[k].event \in Events
        BY Zenon, <3>0, <3>3, CallShapes DEF reconcile_flat, at
      <4> QED
        BY <3>3, <4>1 DEF reconcile_flat, EntryNext
    <3>4. CASE kernel_transaction(k)
      BY ZenonT(30), <3>4 DEF kernel_transaction, EntryNext
    <3> QED
      BY ZenonT(30), <2>1, <3>1, <3>2, <3>3, <3>4
      DEF KernelStep, apply_trigger_read, apply_trigger_write, startup_truth, startup_resolve,
          authorize_control, validate_candidate_binding, authorize_truth,
          record_account_snapshot, authorize_equity_limits, authorize_concentration,
          reconcile_fill_truth, reconcile_flat_truth
  <2>2. CASE set_control_state_kill
    BY <2>2 DEF set_control_state_kill
  <2>3. CASE UNCHANGED kernel_vars
    BY <2>3 DEF kernel_vars
  <2> QED
    BY <2>1, <2>2, <2>3 DEF KernelNext
<1> QED
  BY <1>1, <1>2, CallInit, CallStep, PTL DEF KernelSpec, LedgerRefined, EntrySpec

(* So the rows agree, the exposure and the counts of the policy hold and   *)
(* no event is entered twice, with any number of kernels running at once.  *)
THEOREM KernelLedgerSafe ==
    KernelSpec => /\ [](TypeOK /\ RowsAgree /\ NotRunNeverEnters /\ PassportExplainsRows)
                  /\ [](OrderHasOneOwner /\ WithinPolicy)
                  /\ EnteredOnce
<1>1. [EntryNext]_ledger => [LedgerNext]_ledger
  BY DEF LedgerNext
<1>2. EntrySpec => LedgerSpec
  BY <1>1, PTL DEF EntrySpec, LedgerSpec
<1> QED
  BY <1>2, KernelRefinesLedger, LedgerRows, LedgerOrderHasOneOwner, LedgerWithinPolicy,
     LedgerEnteredOnce, PTL DEF LedgerRefined

(* A stored high-water mark is an equity some broker reported, or none;    *)
(* only record_account_snapshot moves it.                                  *)
LEMMA PeakStep ==
    ASSUME CallTypeOK, [KernelNext]_kernel_vars, peak \in [Days -> Equities \cup {0}]
    PROVE  peak' \in [Days -> Equities \cup {0}]
<1>1. ASSUME NEW k \in Kernels, record_account_snapshot(k)
      PROVE  peak' \in [Days -> Equities \cup {0}]
  <2>1. call[k].equity \in Equities
    BY <1>1, CallShapes DEF CallTypeOK, record_account_snapshot, at
  <2> QED
    BY ZenonT(30), <1>1, <2>1 DEF record_account_snapshot
<1>2. CASE UNCHANGED peak
  BY <1>2
<1>3. (\E k \in Kernels : record_account_snapshot(k)) \/ UNCHANGED peak
  BY ZenonT(30)
  DEF KernelNext, KernelStep, apply_trigger_read, apply_trigger_write, startup_truth,
      startup_resolve, authorize_control, validate_candidate_binding, authorize_truth,
      authorize_equity_limits, authorize_concentration, authorize_reserve,
      reconcile_fill_truth, reconcile_fill, reconcile_flat_truth, reconcile_flat,
      kernel_transaction, set_control_state_kill, kernel_vars
<1> QED
  BY <1>1, <1>2, <1>3

(* The control state is always one of the table's, so the two gates read   *)
(* from it are defined, and every kernel holds arguments that its caller   *)
(* could have passed, with any number of kernels at once.                  *)
THEOREM KernelTyped == KernelSpec => []KernelTypeOK
<1> DEFINE PeakOK == peak \in [Days -> Equities \cup {0}]
<1>1. KernelInit => PeakOK
  BY DEF KernelInit
<1>2. (CallTypeOK /\ PeakOK) /\ [KernelNext]_kernel_vars => PeakOK'
  BY PeakStep
<1>3. TypeOK /\ CallTypeOK /\ PeakOK => KernelTypeOK
  BY DEF CallTypeOK, KernelTypeOK
<1> HIDE DEF PeakOK
<1> QED
  BY <1>1, <1>2, <1>3, CallInit, CallStep, KernelLedgerSafe, PTL DEF KernelSpec

-----------------------------------------------------------------------------
(* Only RESOLVED computes ACTIVE, and it does so from no state but those   *)
(* in which entries are blocked.                                           *)
LEMMA OnlyResolvedActivates ==
    ASSUME NEW s \in ControlStates, NEW t \in ControlTriggers,
           next_control_state(s, t) = "ACTIVE"
    PROVE  t = "RESOLVED"
BY DEF next_control_state, Transitions, TruthTransition, ActiveOnlyTransition,
       ControlStates, ControlTriggers

(* A pending write of ACTIVE was computed for a RESOLVED trigger.          *)
ActivationPending ==
    \A k \in Kernels : at(k, "write") /\ call[k].updated = "ACTIVE" => call[k].trigger = "RESOLVED"

(* Entries open only through a startup reconciliation, however many        *)
(* kernels write the control state at once.                                *)
THEOREM KernelActivation == KernelSpec => ActiveOnlyByReconciliation
<1>1. KernelInit => ActivationPending
  BY DEF KernelInit, ActivationPending, at, Idle
<1>2. CallTypeOK /\ ActivationPending /\ [KernelNext]_kernel_vars => ActivationPending'
  <2> SUFFICES ASSUME CallTypeOK, ActivationPending, [KernelNext]_kernel_vars,
                      NEW j \in Kernels, at(j, "write")', call'[j].updated = "ACTIVE"
               PROVE  call'[j].trigger = "RESOLVED"
    BY DEF ActivationPending
  <2>1. CASE call'[j] = call[j]
    BY <2>1 DEF ActivationPending, at
  <2>2. CASE call'[j] # call[j]
    <3>1. PICK k \in Kernels : KernelStep(k)
      BY <2>2 DEF KernelNext, set_control_state_kill, kernel_vars
    <3>2. CASE apply_trigger_read(k)
      <4>1. j = k
        BY <2>2, <3>2 DEF apply_trigger_read, become, reject, CallTypeOK
      <4>2. call[k].trigger \in ControlTriggers /\ control \in ControlStates
        BY <3>2, CallShapes DEF apply_trigger_read, at, CallTypeOK
      <4>3. call'[k] = [pc |-> "write", trigger |-> call[k].trigger,
                        updated |-> next_control_state(control, call[k].trigger)]
        BY <3>2, <4>1 DEF apply_trigger_read, become, reject, CallTypeOK, at, Idle
      <4> QED
        BY <4>1, <4>2, <4>3, OnlyResolvedActivates
    <3>3. CASE ~apply_trigger_read(k)
      <4>0. call[k] \in Calls /\ call \in [Kernels -> Calls]
        BY DEF CallTypeOK
      <4>1. CASE call' = [call EXCEPT ![k] = call'[k]] /\ call'[k].pc # "write"
        BY <2>2, <4>0, <4>1 DEF at
      <4>2. CASE apply_trigger_write(k) \/ startup_truth(k) \/ startup_resolve(k)
        BY <4>0, <4>1, <4>2 DEF apply_trigger_write, startup_truth, startup_resolve, become,
           raise_trigger, Idle
      <4>3. CASE \E e \in Events, c \in Candidates, day \in Days : authorize_control(k, e, c, day)
        BY <4>0, <4>1, <4>3 DEF authorize_control, become
      <4>4. CASE validate_candidate_binding(k)
        <5>1. call[k] \in [pc : {"bind", "truth"}, event : Events, cand : Candidates, day : Days]
          BY Zenon, <4>0, <4>4, CallShapes DEF validate_candidate_binding, at
        <5> QED
          BY <4>0, <4>1, <4>4, <5>1 DEF validate_candidate_binding, goto, reject, become, Idle
      <4>5. CASE authorize_truth(k)
        BY <4>0, <4>1, <4>5 DEF authorize_truth, become, reject, raise_trigger, Idle
      <4>6. CASE record_account_snapshot(k) \/ authorize_equity_limits(k)
                   \/ authorize_concentration(k)
        <5>1. call[k] \in [pc : {"snapshot", "peak", "concentration", "reserve"}, event : Events,
                           cand : Candidates, day : Days, equity : Equities, gross : Amounts]
          BY Zenon, <4>0, <4>6, CallShapes
          DEF record_account_snapshot, authorize_equity_limits, authorize_concentration, at
        <5>2. ASSUME NEW p \in {"peak", "concentration", "reserve"}, goto(k, p)
              PROVE  call' = [call EXCEPT ![k] = call'[k]] /\ call'[k].pc # "write"
          BY <4>0, <5>1, <5>2 DEF goto
        <5>3. ASSUME NEW t, raise_trigger(k, t)
              PROVE  call' = [call EXCEPT ![k] = call'[k]] /\ call'[k].pc # "write"
          BY <4>0, <5>3 DEF raise_trigger, become
        <5> QED
          BY Zenon, <4>1, <4>6, <5>2, <5>3
          DEF record_account_snapshot, authorize_equity_limits, authorize_concentration
      <4>7. CASE authorize_reserve(k) \/ reconcile_flat(k) \/ reconcile_fill(k)
        <5>1. ASSUME become(k, Idle) \/ raise_trigger(k, "PARTIAL_FILL_STATE")
              PROVE  call' = [call EXCEPT ![k] = call'[k]] /\ call'[k].pc # "write"
          BY <4>0, <5>1 DEF become, raise_trigger, Idle
        <5> QED
          BY Zenon, <4>1, <4>7, <5>1 DEF authorize_reserve, reconcile_flat, reconcile_fill, reject
      <4>8. CASE \/ \E e \in Events, obs \in Observations : reconcile_fill_truth(k, e, obs)
                 \/ \E e \in Events : reconcile_flat_truth(k, e)
        BY <4>0, <4>1, <4>8 DEF reconcile_fill_truth, reconcile_flat_truth, become, raise_trigger
      <4>9. CASE kernel_transaction(k)
        BY Zenon, <2>2, <4>9 DEF kernel_transaction
      <4> QED
        BY Zenon, <3>1, <3>3, <4>2, <4>3, <4>4, <4>5, <4>6, <4>7, <4>8, <4>9 DEF KernelStep
    <3> QED
      BY <3>2, <3>3
  <2> QED
    BY <2>1, <2>2
<1>3. CallTypeOK /\ ActivationPending /\ [KernelNext]_kernel_vars =>
        [control # "ACTIVE" /\ control' = "ACTIVE" =>
            \E k \in Kernels : at(k, "write") /\ call[k].trigger = "RESOLVED"]_kernel_vars
  <2> SUFFICES ASSUME CallTypeOK, ActivationPending, KernelNext,
                      control # "ACTIVE", control' = "ACTIVE"
               PROVE  \E k \in Kernels : at(k, "write") /\ call[k].trigger = "RESOLVED"
    OBVIOUS
  <2>1. PICK k \in Kernels : KernelStep(k)
    BY DEF KernelNext, set_control_state_kill
  <2>2. apply_trigger_write(k)
    BY ZenonT(30), <2>1 DEF KernelStep, apply_trigger_read, startup_truth, startup_resolve,
       authorize_control, validate_candidate_binding, authorize_truth,
       record_account_snapshot, authorize_equity_limits, authorize_concentration,
       authorize_reserve, reconcile_fill_truth, reconcile_fill, reconcile_flat_truth,
       reconcile_flat, kernel_transaction
  <2> QED
    BY Zenon, <2>2 DEF apply_trigger_write, ActivationPending
<1> QED
  BY <1>1, <1>2, <1>3, CallInit, CallStep, PTL DEF KernelSpec, ActiveOnlyByReconciliation

-----------------------------------------------------------------------------
(* One method at a time.  What a kernel read of the control state is then  *)
(* still true when it acts on it: an authorization under way means ACTIVE, *)
(* a trigger is raised only in a state whose row of the table lists it,    *)
(* and a pending write is what the table says of the present state.        *)

LimitTriggers ==
    {"DAILY_LOSS_LIMIT_BREACHED", "DRAWDOWN_LIMIT_BREACHED", "CLOSE_ONLY_EQUITY_THRESHOLD",
     "CONCENTRATION_LIMIT_BREACHED"}

Justified(t, state) ==
    /\ t \in LimitTriggers \cup BadTruth \cup {"NON_FLAT_STATE", "RESOLVED"}
    /\ t = "RESOLVED" => state \notin {"KILL", "ACTIVE"}
    /\ t \in LimitTriggers => state = "ACTIVE"

LocalOK(c, state) ==
    /\ c.pc \in {"bind", "truth", "snapshot", "peak", "concentration", "reserve"} =>
            state = "ACTIVE"
    /\ c.pc \in {"trigger", "write"} => Justified(c.trigger, state)
    /\ c.pc = "write" => c.updated = next_control_state(state, c.trigger)

SequentialInv ==
    /\ CallTypeOK
    /\ \A j, k \in Kernels : ~at(j, "idle") /\ ~at(k, "idle") => j = k
    /\ \A k \in Kernels : LocalOK(call[k], control)

(* The method that runs keeps its locals in step with the control state.   *)
LEMMA SequentialStep == SequentialInv /\ [SequentialNext]_kernel_vars => SequentialInv'
<1> SUFFICES ASSUME SequentialInv, [SequentialNext]_kernel_vars PROVE SequentialInv'
  OBVIOUS
<1>0. CallTypeOK /\ CallTypeOK'
  <2>1. SequentialNext => KernelNext
    BY DEF SequentialNext, KernelNext
  <2> QED
    BY <2>1, CallStep DEF SequentialInv
<1>1. CASE UNCHANGED kernel_vars
  BY <1>1 DEF SequentialInv, CallTypeOK, kernel_vars, at
<1>2. CASE set_control_state_kill /\ \A k \in Kernels : at(k, "idle")
  BY Zenon, <1>0, <1>2 DEF SequentialInv, set_control_state_kill, at, LocalOK
<1>3. ASSUME NEW k \in Kernels, KernelStep(k), \A j \in Kernels \ {k} : at(j, "idle")
      PROVE  SequentialInv'
  <2>0. /\ call \in [Kernels -> Calls] /\ call[k] \in Calls
        /\ LocalOK(call[k], control)
    BY <1>0 DEF SequentialInv, CallTypeOK
  <2>1. ASSUME NEW c, become(k, c), LocalOK(c, control') PROVE SequentialInv'
    <3>1. call'[k] = c /\ \A j \in Kernels \ {k} : call'[j] = call[j]
      BY <2>0, <2>1 DEF become
    <3>2. \A j \in Kernels \ {k} : LocalOK(call'[j], control')
      BY Zenon, <1>3, <3>1 DEF LocalOK, at
    <3> QED
      BY <1>0, <1>3, <2>1, <3>1, <3>2 DEF SequentialInv, at
  <2>2. LocalOK(Idle, control') /\ LocalOK([pc |-> "resolve"], control')
    BY DEF LocalOK, Idle
  <2>3. ASSUME NEW t, raise_trigger(k, t), Justified(t, control') PROVE SequentialInv'
    BY Zenon, <2>1, <2>3 DEF raise_trigger, LocalOK
  <2>4. CASE apply_trigger_read(k)
    <3>1. Justified(call[k].trigger, control)
      BY Zenon, <2>0, <2>4 DEF LocalOK, apply_trigger_read, at
    <3> QED
      BY Zenon, <2>1, <2>2, <2>4, <3>1 DEF apply_trigger_read, reject, LocalOK
  <2>5. CASE apply_trigger_write(k) \/ authorize_reserve(k) \/ reconcile_flat(k)
    BY Zenon, <2>1, <2>2, <2>5 DEF apply_trigger_write, authorize_reserve, reconcile_flat
  <2>6. CASE startup_truth(k) \/ startup_resolve(k)
    BY Zenon, <2>1, <2>2, <2>3, <2>6 DEF startup_truth, startup_resolve, Justified, LimitTriggers, BadTruth
  <2>7. ASSUME NEW e \in Events, NEW c \in Candidates, NEW day \in Days,
               authorize_control(k, e, c, day)
        PROVE  SequentialInv'
    BY Zenon, <2>1, <2>7 DEF authorize_control, entry_allowed, LocalOK
  <2>8. ASSUME NEW p \in {"truth", "peak", "concentration", "reserve"}, goto(k, p),
               call[k].pc \in {"bind", "snapshot", "peak", "concentration"}, control' = control
        PROVE  SequentialInv'
    <3>1. become(k, [call[k] EXCEPT !.pc = p])
      BY <2>8 DEF goto, become
    <3>2. [call[k] EXCEPT !.pc = p].pc = p
      BY <2>0, <2>8, CallShapes
    <3>3. control' = "ACTIVE"
      BY <2>0, <2>8 DEF LocalOK
    <3> QED
      BY ZenonT(30), <2>1, <3>1, <3>2, <3>3 DEF LocalOK
  <2>9. CASE validate_candidate_binding(k) \/ record_account_snapshot(k)
    BY Zenon, <2>1, <2>2, <2>8, <2>9 DEF validate_candidate_binding, record_account_snapshot, reject, at
  <2>10. CASE authorize_truth(k)
    <3>1. control' = "ACTIVE"
      BY Zenon, <2>0, <2>10 DEF LocalOK, authorize_truth, at
    <3> QED
      BY ZenonT(30), <2>1, <2>2, <2>3, <2>10, <3>1
      DEF authorize_truth, reject, LocalOK, Justified, BadTruth, LimitTriggers
  <2>11. CASE authorize_equity_limits(k) \/ authorize_concentration(k)
    <3>1. control' = "ACTIVE"
      BY Zenon, <2>0, <2>11 DEF LocalOK, authorize_equity_limits, authorize_concentration, at
    <3>2. \A t \in LimitTriggers : Justified(t, control')
      BY <3>1 DEF Justified, LimitTriggers
    <3>3. /\ equity_breach(call[k]) \in LimitTriggers \cup {"NONE"}
          /\ "CONCENTRATION_LIMIT_BREACHED" \in LimitTriggers
      BY DEF equity_breach, LimitTriggers
    <3> QED
      BY Zenon, <2>3, <2>8, <2>11, <3>2, <3>3 DEF authorize_equity_limits, authorize_concentration, at
  <2>12. CASE \/ \E e \in Events, obs \in Observations : reconcile_fill_truth(k, e, obs)
              \/ \E e \in Events : reconcile_flat_truth(k, e)
    BY ZenonT(30), <2>1, <2>3, <2>12
    DEF reconcile_fill_truth, reconcile_flat_truth, LocalOK, Justified, BadTruth, LimitTriggers
  <2>13. CASE reconcile_fill(k)
    BY Zenon, <2>1, <2>2, <2>3, <2>13 DEF reconcile_fill, reject, Justified, BadTruth, LimitTriggers
  <2>14. CASE kernel_transaction(k)
    BY Zenon, <1>0, <2>14 DEF kernel_transaction, SequentialInv, at
  <2> QED
    BY Zenon, <1>3, <2>4, <2>5, <2>6, <2>7, <2>9, <2>10, <2>11, <2>12, <2>13, <2>14 DEF KernelStep
<1> QED
  BY <1>1, <1>2, <1>3 DEF SequentialNext

(* With one kernel method at a time, and KILL set between methods, KILL is *)
(* never left, no entry is reserved outside ACTIVE, and the table's        *)
(* MANUAL_REQUIRED fallback is never taken.                                *)
THEOREM SequentialControl ==
    SequentialSpec => KillTerminal /\ EntryOnlyWhileActive /\ ManualOnlyFromBadTruth
<1>1. KernelInit => SequentialInv
  BY CallInit DEF KernelInit, SequentialInv, LocalOK, at, Idle
<1> DEFINE
  Kill == control = "KILL" => control' = "KILL"
  Entry == (\E e \in Events : reservation[e] = "NONE" /\ reservation'[e] = "RESERVED") =>
                control = "ACTIVE"
  Manual == control # "MANUAL_REQUIRED" /\ control' = "MANUAL_REQUIRED" =>
        \E k \in Kernels : at(k, "write")
            /\ call[k].trigger \in {"CONTRADICTORY_TRUTH", "PARTIAL_FILL_STATE"}
<1>2. TypeOK /\ SequentialInv /\ [SequentialNext]_kernel_vars =>
        [Kill]_kernel_vars /\ [Entry]_kernel_vars /\ [Manual]_kernel_vars
  <2> SUFFICES ASSUME TypeOK, SequentialInv, SequentialNext PROVE Kill /\ Entry /\ Manual
    OBVIOUS
  <2>1. CASE set_control_state_kill
    BY <2>1 DEF set_control_state_kill, ledger
  <2>2. ASSUME NEW k \in Kernels, KernelStep(k) PROVE Kill /\ Entry /\ Manual
    <3>0. LocalOK(call[k], control) /\ control \in ControlStates
      BY DEF SequentialInv, CallTypeOK
    <3>1. CASE apply_trigger_write(k)
      <4>1. /\ control' = next_control_state(control, call[k].trigger)
            /\ Justified(call[k].trigger, control)
            /\ UNCHANGED reservation
        BY Zenon, <3>0, <3>1 DEF LocalOK, apply_trigger_write, at, ledger
      <4>2. control = "KILL" => control' = "KILL"
        BY <4>1 DEF next_control_state
      <4>3. control' = "MANUAL_REQUIRED" /\ control # "MANUAL_REQUIRED" =>
                call[k].trigger \in {"CONTRADICTORY_TRUTH", "PARTIAL_FILL_STATE"}
        BY <3>0, <4>1 DEF next_control_state, Transitions, TruthTransition,
           ActiveOnlyTransition, Justified, LimitTriggers, BadTruth, ControlStates
      <4> QED
        BY Zenon, <3>1, <4>1, <4>2, <4>3 DEF apply_trigger_write
    <3>2. CASE authorize_reserve(k)
      BY Zenon, <3>0, <3>2 DEF LocalOK, authorize_reserve, at
    <3>3. CASE reconcile_fill(k)
      <4>1. \A e \in Events : reservation[e] = "NONE" => reservation'[e] # "RESERVED"
        BY Zenon, <3>3 DEF reconcile_fill, reconcile_observed_order, reconcile_accepts,
           reconcile_bound, ledger, TypeOK
      <4> QED
        BY Zenon, <3>3, <4>1 DEF reconcile_fill
    <3>4. CASE reconcile_flat(k)
      <4>1. \A e \in Events : reservation[e] = "NONE" => reservation'[e] # "RESERVED"
        BY Zenon, <3>4 DEF reconcile_flat, release_consumed_after_flat, release_accepts, ledger, TypeOK
      <4> QED
        BY Zenon, <3>4, <4>1 DEF reconcile_flat
    <3>5. CASE kernel_transaction(k)
      BY ZenonT(30), <3>5 DEF kernel_transaction, freeze_candidate, mark_not_run, record_submission, rows
    <3> QED
      BY ZenonT(30), <2>2, <3>1, <3>2, <3>3, <3>4, <3>5
      DEF KernelStep, apply_trigger_read, startup_truth, startup_resolve,
          authorize_control, validate_candidate_binding, authorize_truth,
          record_account_snapshot, authorize_equity_limits, authorize_concentration,
          reconcile_fill_truth, reconcile_flat_truth, ledger
  <2> QED
    BY Zenon, <2>1, <2>2 DEF SequentialNext
<1>3. SequentialSpec => []TypeOK
  <2>1. [SequentialNext]_kernel_vars => [KernelNext]_kernel_vars
    BY DEF SequentialNext, KernelNext
  <2> QED
    BY <2>1, KernelLedgerSafe, PTL DEF SequentialSpec, KernelSpec
<1> QED
  BY <1>1, <1>2, <1>3, SequentialStep, PTL
  DEF SequentialSpec, KillTerminal, KillKept, EntryOnlyWhileActive, EntersWhileActive,
      ManualOnlyFromBadTruth


(* No entry is reserved but while the control state is ACTIVE, as          *)
(* authorize_entry's first check intends.                                  *)
THEOREM SequentialEntry == SequentialSpec => EntryOnlyWhileActive
BY SequentialControl, PTL

-----------------------------------------------------------------------------
(* Concentration.  The sum authorize_entry read holds until it reserves,   *)
(* because no other method runs in between.                                *)

ConcentrationHeld ==
    \A k \in Kernels : at(k, "reserve") => concentration(call[k]) <= ConcentrationLimit

(* Only the reserving step of authorize_entry makes a reservation.         *)
LEMMA OnlyAuthorizeReserves ==
    ASSUME TypeOK, NEW k \in Kernels, KernelStep(k), ~authorize_reserve(k),
           NEW e \in Events, reservation[e] = "NONE"
    PROVE  reservation'[e] # "RESERVED"
<1> USE DEF TypeOK
<1>1. CASE reconcile_fill(k)
  BY Zenon, <1>1 DEF reconcile_fill, reconcile_observed_order, reconcile_accepts, reconcile_bound, ledger
<1>2. CASE reconcile_flat(k)
  BY Zenon, <1>2 DEF reconcile_flat, release_consumed_after_flat, release_accepts, ledger
<1>3. CASE kernel_transaction(k)
  BY Zenon, <1>3 DEF kernel_transaction, freeze_candidate, mark_not_run, record_submission, rows
<1> QED
  BY ZenonT(30), <1>1, <1>2, <1>3
  DEF KernelStep, apply_trigger_read, apply_trigger_write, startup_truth, startup_resolve,
      authorize_control, validate_candidate_binding, authorize_truth,
      record_account_snapshot, authorize_equity_limits, authorize_concentration,
      reconcile_fill_truth, reconcile_flat_truth, ledger

(* A method arrives at its reserving step only from the comparison.        *)
LEMMA ReserveFollowsComparison ==
    ASSUME CallTypeOK, NEW k \in Kernels, KernelStep(k), call'[k].pc = "reserve"
    PROVE  authorize_concentration(k) /\ goto(k, "reserve")
<1>0. call \in [Kernels -> Calls] /\ call[k] \in Calls
  BY Zenon DEF CallTypeOK
<1>1. ASSUME NEW c, become(k, c) PROVE call'[k] = c
  BY <1>0, <1>1 DEF become
<1>2. ASSUME NEW t PROVE ~raise_trigger(k, t)
  <2> SUFFICES ASSUME raise_trigger(k, t) PROVE FALSE
    BY Zenon
  <2> QED
    BY <1>1 DEF raise_trigger
<1>3. ~reject(k) /\ ~become(k, Idle) /\ ~become(k, [pc |-> "resolve"])
  BY <1>1 DEF reject, Idle
<1>4. ASSUME NEW p \in {"truth", "peak", "concentration"}, goto(k, p),
             call[k].pc \in {"bind", "snapshot", "peak"}
      PROVE  FALSE
  <2>1. call'[k].pc = p
    BY <1>0, <1>4, CallShapes DEF goto
  <2> QED
    BY <2>1
<1>5. ~apply_trigger_read(k) /\ ~apply_trigger_write(k) /\ ~startup_truth(k) /\ ~startup_resolve(k)
  <2>1. ~apply_trigger_read(k)
    BY <1>1, <1>3 DEF apply_trigger_read
  <2>2. ~apply_trigger_write(k) /\ ~startup_truth(k)
    BY <1>1, <1>2, <1>3 DEF apply_trigger_write, startup_truth
  <2>3. ~startup_resolve(k)
    BY <1>2, <1>3 DEF startup_resolve
  <2> QED
    BY Zenon, <2>1, <2>2, <2>3
<1>6. ~validate_candidate_binding(k) /\ ~record_account_snapshot(k) /\ ~authorize_equity_limits(k)
  BY Zenon, <1>2, <1>3, <1>4
  DEF validate_candidate_binding, record_account_snapshot, authorize_equity_limits, at
<1>7. ~authorize_truth(k) /\ ~authorize_reserve(k)
  <2>1. ASSUME NEW e, NEW c, NEW day, NEW equity, NEW gross,
               become(k, [pc |-> "snapshot", event |-> e, cand |-> c, day |-> day,
                          equity |-> equity, gross |-> gross])
        PROVE  FALSE
    BY <1>1, <2>1
  <2>2. ~authorize_reserve(k)
    BY Zenon, <1>3 DEF authorize_reserve
  <2>3. ~authorize_truth(k)
    BY <1>2, <1>3, <2>1, Zenon DEF authorize_truth
  <2> QED
    BY Zenon, <2>2, <2>3
<1>8. ASSUME NEW e, NEW c, NEW day, authorize_control(k, e, c, day) PROVE FALSE
  BY <1>1, <1>8 DEF authorize_control
<1>9. ASSUME NEW e, NEW obs, reconcile_fill_truth(k, e, obs) PROVE FALSE
  BY <1>1, <1>2, <1>9 DEF reconcile_fill_truth
<1>10. ASSUME NEW e, reconcile_flat_truth(k, e) PROVE FALSE
  BY <1>1, <1>2, <1>10 DEF reconcile_flat_truth
<1>11. ~reconcile_fill(k) /\ ~reconcile_flat(k)
  BY Zenon, <1>2, <1>3 DEF reconcile_fill, reconcile_flat
<1>12. ~kernel_transaction(k)
  BY ZenonT(30) DEF kernel_transaction, at
<1>13. authorize_concentration(k)
  BY ZenonT(30), <1>5, <1>6, <1>7, <1>8, <1>9, <1>10, <1>11, <1>12 DEF KernelStep
<1> QED
  BY Zenon, <1>2, <1>13 DEF authorize_concentration

(* The exposure on an underlying never grows but by the reserved entry.    *)
LEMMA ConcentrationShrinks ==
    ASSUME RowsInv, ConcentrationWithinPolicy,
           OpenReservations' \subseteq OpenReservations,
           \A e \in OpenReservations' : candidate'[e] = candidate[e]
    PROVE  ConcentrationWithinPolicy'
<1> SUFFICES ASSUME NEW c \in Candidates
             PROVE  Total(amount', OpenOn(Underlying[c])') <= ConcentrationLimit
  BY Zenon DEF ConcentrationWithinPolicy, open_reservation_total_for_underlying
<1> DEFINE S == OpenOn(Underlying[c])
<1>0. TypeOK /\ ConcentrationLimit \in Nat
  BY KernelLimitsAreNaturals DEF RowsInv
<1>1. S \in SUBSET Events /\ S' \in SUBSET S
  BY Zenon DEF OpenOn, OpenReservations
<1>2. \A e \in S' : amount'[e] = amount[e]
  BY Zenon, <1>1 DEF amount, OpenOn
<1>3. Total(amount', S') = Total(amount, S')
  BY Zenon, <1>2, TotalDepends
<1>4. /\ Total(amount, S') <= Total(amount, S)
      /\ Total(amount, S') \in Nat /\ Total(amount, S) \in Nat
  BY Zenon, <1>0, <1>1, AmountsAreNatural, TotalShrinks, TotalIsNatural
<1>5. Total(amount, S) <= ConcentrationLimit
  BY DEF ConcentrationWithinPolicy, open_reservation_total_for_underlying
<1> HIDE DEF S
<1> QED
  BY <1>0, <1>3, <1>4, <1>5 DEF S

(* One method at a time keeps the sum it compared and so the limit.        *)
LEMMA ConcentrationStep ==
    ASSUME RowsInv, RowsInv', SequentialInv, ConcentrationHeld, ConcentrationWithinPolicy,
           [SequentialNext]_kernel_vars, [EntryNext]_ledger
    PROVE  ConcentrationHeld' /\ ConcentrationWithinPolicy'
<1>0. TypeOK /\ CallTypeOK
  BY DEF RowsInv, SequentialInv
<1>1. [LedgerNext]_ledger
  BY DEF LedgerNext
<1>2. CASE UNCHANGED <<ledger, call>>
  BY Zenon, <1>2 DEF ledger, ConcentrationHeld, ConcentrationWithinPolicy, concentration,
     open_reservation_total_for_underlying, OpenOn, OpenReservations, amount, at
<1>3. ASSUME NEW k \in Kernels, KernelStep(k), \A j \in Kernels \ {k} : at(j, "idle")
      PROVE  ConcentrationHeld' /\ ConcentrationWithinPolicy'
  <2>0. call \in [Kernels -> Calls] /\ call[k] \in Calls
    BY <1>0 DEF CallTypeOK
  <2>1. ConcentrationHeld'
    <3>1. SequentialInv'
      BY SequentialStep
    <3>2. \A j \in Kernels \ {k} : ~at(j, "reserve")'
      <4>1. ASSUME NEW j \in Kernels \ {k} PROVE call'[j] = call[j]
        BY ZenonT(30), <1>3, <2>0, <4>1 DEF KernelStep, apply_trigger_read, apply_trigger_write, startup_truth,
           startup_resolve, authorize_control, validate_candidate_binding, authorize_truth,
           record_account_snapshot, authorize_equity_limits, authorize_concentration,
           authorize_reserve, reconcile_fill_truth, reconcile_fill, reconcile_flat_truth,
           reconcile_flat, kernel_transaction, become, goto, reject, raise_trigger
      <4> QED
        BY Zenon, <1>3, <4>1 DEF at
    <3>3. ASSUME at(k, "reserve")' PROVE (concentration(call[k]) <= ConcentrationLimit)'
      <4>1. authorize_concentration(k) /\ goto(k, "reserve")
        BY Zenon, <1>0, <1>3, <3>3, ReserveFollowsComparison DEF at
      <4>2. /\ ~(concentration(call[k]) > ConcentrationLimit)
            /\ UNCHANGED ledger
        <5>1. ~raise_trigger(k, "CONCENTRATION_LIMIT_BREACHED")
          BY <2>0, <3>3 DEF raise_trigger, become, at
        <5> QED
          BY <4>1, <5>1 DEF authorize_concentration
      <4>3. call'[k].cand = call[k].cand /\ call'[k].gross = call[k].gross
        BY <2>0, <4>1, CallShapes DEF goto, authorize_concentration, at
      <4>4. concentration(call[k])' = concentration(call[k])
        BY Zenon, <4>2, <4>3 DEF concentration, ledger, open_reservation_total_for_underlying,
           OpenOn, OpenReservations, amount
      <4>5. concentration(call[k]) \in Int /\ ConcentrationLimit \in Int
        <5>1. call[k].cand \in Candidates /\ call[k].gross \in Nat
          BY Zenon, <2>0, <4>1, CallShapes, KernelLimitsAreNaturals DEF authorize_concentration, at
        <5>2. OpenOn(Underlying[call[k].cand]) \in SUBSET Events
          BY DEF OpenOn, OpenReservations
        <5>3. open_reservation_total_for_underlying(Underlying[call[k].cand]) \in Nat
          BY Zenon, <1>0, <5>2, AmountsAreNatural, TotalIsNatural DEF open_reservation_total_for_underlying
        <5> QED
          BY <5>1, <5>3, ExposureIsAmount, KernelLimitsAreNaturals DEF concentration
      <4> QED
        BY <4>2, <4>4, <4>5
    <3> QED
      BY Zenon, <3>2, <3>3 DEF ConcentrationHeld
  <2>2. ASSUME NEW e \in Events, NEW c \in Candidates, NEW day \in Days,
               reserve_and_issue_permit(e, c, day)
        PROVE  ConcentrationWithinPolicy'
    <3>1. reservation[e] = "NONE" /\ reservation'[e] = "RESERVED"
      BY Zenon, <1>0, <2>2 DEF reserve_and_issue_permit, reserve_accepts, TypeOK
    <3>2. authorize_reserve(k)
      BY Zenon, <1>0, <1>3, <3>1, OnlyAuthorizeReserves
    <3>3. /\ reserve_and_issue_permit(call[k].event, call[k].cand, call[k].day)
          /\ at(k, "reserve") /\ concentration(call[k]) <= ConcentrationLimit
      BY Zenon, <3>1, <3>2 DEF authorize_reserve, ledger, ConcentrationHeld
    <3> DEFINE f == call[k].event
               b == call[k].cand
    <3>4. f \in Events /\ b \in Candidates /\ call[k].gross \in Nat
      BY Zenon, <2>0, <3>3, CallShapes, KernelLimitsAreNaturals DEF at
    <3>5. /\ candidate' = candidate /\ candidate[f] = b
          /\ OpenReservations' = OpenReservations \cup {f} /\ f \notin OpenReservations
      BY ZenonT(30), <1>0, <3>3, <3>4 DEF reserve_and_issue_permit, reserve_accepts, OpenReservations, TypeOK
    <3>6. amount' = amount /\ amount[f] = Exposure[b]
      BY Zenon, <3>4, <3>5, SentinelsAreFresh DEF amount
    <3>7. ASSUME NEW a \in Candidates
          PROVE  Total(amount, OpenOn(Underlying[a])') <= ConcentrationLimit
      <4> DEFINE S == OpenOn(Underlying[a])
      <4>1. S \in SUBSET Events /\ f \notin S
        BY Zenon, <3>5 DEF OpenOn, OpenReservations
      <4>2. Total(amount, S) \in Nat /\ Total(amount, S) <= ConcentrationLimit
        BY Zenon, <1>0, <4>1, AmountsAreNatural, TotalIsNatural
        DEF ConcentrationWithinPolicy, open_reservation_total_for_underlying
      <4>3. CASE Underlying[a] = Underlying[b]
        <5>1. S' = S \cup {f}
          BY Zenon, <3>4, <3>5, <4>3 DEF OpenOn
        <5>2. Total(amount, S \cup {f}) = Total(amount, S) + Exposure[b]
          BY ZenonT(30), <1>0, <3>4, <3>6, <4>1, AmountsAreNatural, TotalAdds
        <5>3. call[k].gross + Total(amount, S) + Exposure[b] <= ConcentrationLimit
          BY Zenon, <3>3, <4>3 DEF concentration, open_reservation_total_for_underlying
        <5>4. Exposure[b] \in Nat /\ ConcentrationLimit \in Nat
          BY Zenon, <3>4, ExposureIsAmount, KernelLimitsAreNaturals
        <5> HIDE DEF S
        <5> QED
          BY <3>4, <4>2, <5>1, <5>2, <5>3, <5>4 DEF S
      <4>4. CASE Underlying[a] # Underlying[b]
        <5>1. S' = S
          BY Zenon, <3>4, <3>5, <4>4 DEF OpenOn
        <5> QED
          BY Zenon, <4>2, <5>1
      <4> QED
        BY Zenon, <4>3, <4>4
    <3> QED
      BY Zenon, <3>6, <3>7 DEF ConcentrationWithinPolicy, open_reservation_total_for_underlying
  <2>3. ConcentrationWithinPolicy'
    BY Zenon, <1>1, <2>2, OpenStep, ConcentrationShrinks
  <2> QED
    BY <2>1, <2>3
<1> QED
  BY <1>2, <1>3 DEF SequentialNext, set_control_state_kill, kernel_vars

(* With one kernel method at a time, the exposure on every underlying      *)
(* stays within the concentration limit, whatever gross positions the      *)
(* broker reports; the theorem fails for concurrent kernels, since the sum *)
(* is read outside the reserving transaction.                              *)
THEOREM SequentialConcentration == SequentialSpec => []ConcentrationWithinPolicy
<1>1. KernelInit => ConcentrationHeld /\ ConcentrationWithinPolicy
  <2> SUFFICES ASSUME KernelInit PROVE ConcentrationHeld /\ ConcentrationWithinPolicy
    OBVIOUS
  <2>1. ConcentrationHeld
    BY DEF KernelInit, ConcentrationHeld, at, Idle
  <2>2. \A c \in Candidates : Units(amount, OpenOn(Underlying[c])) = {}
    BY Zenon DEF KernelInit, LedgerInit, OpenOn, OpenReservations, Units
  <2>3. Cardinality({}) = 0
    BY FS_EmptySet
  <2> QED
    BY <2>1, <2>2, <2>3, KernelLimitsAreNaturals
    DEF ConcentrationWithinPolicy, open_reservation_total_for_underlying, Total
<1>2. KernelInit => SequentialInv
  BY CallInit DEF KernelInit, SequentialInv, LocalOK, at, Idle
<1>3. SequentialSpec => KernelSpec
  <2>1. [SequentialNext]_kernel_vars => [KernelNext]_kernel_vars
    BY DEF SequentialNext, KernelNext
  <2> QED
    BY <2>1, PTL DEF SequentialSpec, KernelSpec
<1>4. SequentialSpec => []RowsInv
  <2>1. TypeOK /\ RowsAgree /\ NotRunNeverEnters /\ PassportExplainsRows => RowsInv
    BY DEF RowsInv
  <2> QED
    BY <1>3, <2>1, KernelLedgerSafe, PTL
<1>5. SequentialSpec => [][EntryNext]_ledger
  BY <1>3, KernelRefinesLedger, PTL DEF LedgerRefined, EntrySpec
<1>6. /\ RowsInv /\ RowsInv' /\ SequentialInv /\ ConcentrationHeld /\ ConcentrationWithinPolicy
      /\ [SequentialNext]_kernel_vars /\ [EntryNext]_ledger
      => ConcentrationHeld' /\ ConcentrationWithinPolicy'
  BY ConcentrationStep
<1> QED
  BY <1>1, <1>2, <1>4, <1>5, <1>6, SequentialStep, PTL DEF SequentialSpec
=============================================================================
