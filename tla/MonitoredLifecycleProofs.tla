---------------------- MODULE MonitoredLifecycleProofs ----------------------
(***************************************************************************)
(* Proofs about MonitoredLifecycle, for any number of events, workers and  *)
(* broker orders: an event never has two opening or two closing orders,    *)
(* every order has its durable intent, and the worker's transactions are   *)
(* those of the risk ledger; a close never sells more than was opened, and *)
(* budget is given back only when the broker is flat.                      *)
(***************************************************************************)
EXTENDS MonitoredLifecycle, RiskLedgerProofs

(* The worker that committed the intent of x is the only one that may      *)
(* place an order for x, and until it has, no such order exists.           *)
Submitting(w, x) == at(w, "submit") /\ <<job[w].event, job[w].phase>> = x

(* A job that carries an order carries the one placed for it.              *)
Owns(j) ==
    j.pc \in {"bind", "submission", "truth", "recover_truth", "persist", "mark"} =>
        /\ placed(j.order)
        /\ broker[j.order].event = j.event
        /\ broker[j.order].phase = j.phase

(* Quantities play no part in the argument.                                *)
SomeOrders == [event : Events, phase : Phases, status : BrokerStatus, filled : Nat]

OrderInv ==
    /\ broker \in [Orders -> SomeOrders \cup {Unplaced}]
    /\ job \in [Workers -> Jobs]
    /\ OneOrderPerPhase
    /\ IntentBeforeOrder
    /\ \A w \in Workers, x \in Events \X Phases : Submitting(w, x) =>
        /\ intent[x] # "NONE"
        /\ \A o \in Orders : placed(o) => <<broker[o].event, broker[o].phase>> # x
        /\ \A v \in Workers : Submitting(v, x) => v = w
    /\ \A w \in Workers : Owns(job[w])
    /\ \A x \in Events \X Phases :
        intent[x] \in {"SUBMITTED", "RECONCILED"} => intent_order[x] # NoOrder

(* The locals by program counter.                                          *)
LEMMA JobShapes ==
    ASSUME NEW j \in Jobs
    PROVE  /\ j.pc \in {"intent", "submit"} =>
                j \in [pc : {"intent", "submit"}, event : Events, phase : Phases]
           /\ j.pc \in {"bind", "submission", "truth", "recover_truth"} =>
                j \in [pc : {"bind", "submission", "truth", "recover_truth"}, event : Events,
                       phase : Phases, order : Orders]
           /\ j.pc \in {"persist", "mark"} =>
                j \in [pc : {"persist", "mark"}, event : Events, phase : Phases,
                       order : Orders, state : LifecycleStates]
BY DEF Jobs, Idle

(* An empty broker and idle workers.                                       *)
LEMMA OrderInit == LifecycleInit => OrderInv
BY DEF LifecycleInit, LedgerInit, OrderInv, OneOrderPerPhase, IntentBeforeOrder, Submitting,
       placed, at, Jobs, Idle, Owns

(* A step that leaves the broker and the intents alone, and whose worker   *)
(* afterwards submits nothing and owns the order it carries.               *)
LEMMA QuietStep ==
    ASSUME OrderInv, NEW w \in Workers, NEW j \in Jobs, become(w, j),
           j.pc # "submit", Owns(j), UNCHANGED <<broker, intent, intent_order>>
    PROVE  OrderInv'
<1>1. job'[w] = j /\ job' \in [Workers -> Jobs] /\ \A v \in Workers \ {w} : job'[v] = job[v]
  BY DEF become, OrderInv
<1>2. \A v \in Workers, x \in Events \X Phases :
        Submitting(v, x)' => v # w /\ Submitting(v, x)
  BY <1>1 DEF Submitting, at
<1>3. \A v \in Workers : Owns(job[v])'
  BY <1>1 DEF Owns, placed, OrderInv
<1> QED
  BY <1>1, <1>2, <1>3 DEF OrderInv, OneOrderPerPhase, IntentBeforeOrder, placed

(* Every step of a worker, of the broker or of the kernel keeps it.        *)
LEMMA OrderStep == TypeOK /\ OrderInv /\ [LifecycleNext]_lifecycle_vars => OrderInv'
<1> SUFFICES ASSUME TypeOK, OrderInv, [LifecycleNext]_lifecycle_vars PROVE OrderInv'
  OBVIOUS
<1>0. /\ broker \in [Orders -> SomeOrders \cup {Unplaced}] /\ job \in [Workers -> Jobs]
      /\ OneOrderPerPhase /\ IntentBeforeOrder
      /\ intent \in [Events \X Phases -> IntentStates]
      /\ intent_order \in [Events \X Phases -> Orders \cup {NoOrder}]
  BY DEF OrderInv, TypeOK
<1>i. Idle \in Jobs /\ Idle.pc # "submit" /\ Owns(Idle)
  BY DEF Jobs, Idle, Owns
<1>1. ASSUME NEW w \in Workers, record_intent(w) PROVE OrderInv'
  <2> DEFINE e == job[w].event
             phase == job[w].phase
             x == <<e, phase>>
  <2>0. e \in Events /\ phase \in Phases
    BY <1>0, <1>1, JobShapes DEF record_intent, at
  <2>1. CASE reject(w) /\ UNCHANGED ledger
    BY Zenon, <1>1, <1>i, <2>1, QuietStep DEF reject, record_intent, ledger
  <2>2. CASE record_lifecycle_intent(e, phase)
               /\ become(w, [pc |-> "submit", event |-> e, phase |-> phase])
    <3>1. /\ job'[w] = [pc |-> "submit", event |-> e, phase |-> phase]
          /\ job' \in [Workers -> Jobs] /\ \A v \in Workers \ {w} : job'[v] = job[v]
      BY <1>0, <2>0, <2>2 DEF become, Jobs
    <3>2. /\ intent[x] = "NONE" /\ intent'[x] = "INTENDED"
          /\ \A y \in Events \X Phases : y # x => intent'[y] = intent[y]
          /\ UNCHANGED <<broker, intent_order>>
      BY Zenon, <1>0, <1>1, <2>0, <2>2 DEF record_lifecycle_intent, record_intent
    <3>3. /\ \A o \in Orders : placed(o) => <<broker[o].event, broker[o].phase>> # x
          /\ \A v \in Workers : ~Submitting(v, x)
      BY <2>0, <3>2 DEF OrderInv, IntentBeforeOrder
    <3>4. \A v \in Workers, y \in Events \X Phases :
            Submitting(v, y)' <=> (v = w /\ y = x) \/ (v # w /\ Submitting(v, y))
      BY <2>0, <3>1, <1>1 DEF Submitting, at
    <3>5. \A v \in Workers : Owns(job[v])'
      BY <3>1, <3>2 DEF OrderInv, Owns, placed
    <3>6. OneOrderPerPhase' /\ IntentBeforeOrder'
      BY Zenon, <1>0, <2>0, <3>2 DEF OneOrderPerPhase, IntentBeforeOrder, placed, SomeOrders
    <3>7. ASSUME NEW v \in Workers, NEW y \in Events \X Phases, Submitting(v, y)'
          PROVE  /\ intent'[y] # "NONE"
                 /\ \A o \in Orders : placed(o)' => <<broker'[o].event, broker'[o].phase>> # y
                 /\ \A u \in Workers : Submitting(u, y)' => u = v
      <4>1. CASE y = x
        BY Zenon, <3>2, <3>3, <3>4, <3>7, <4>1 DEF placed
      <4>2. CASE y # x
        <5>1. Submitting(v, y)
          BY <3>4, <3>7, <4>2
        <5> QED
          BY <3>2, <3>4, <4>2, <5>1 DEF OrderInv, placed
      <4> QED
        BY <4>1, <4>2
    <3> QED
      BY ZenonT(30), <1>0, <3>1, <3>2, <3>5, <3>6, <3>7 DEF OrderInv
  <2> QED
    BY <1>1, <2>1, <2>2 DEF record_intent
<1>2. ASSUME NEW w \in Workers, broker_submit(w) PROVE OrderInv'
  <2> DEFINE e == job[w].event
             phase == job[w].phase
             x == <<e, phase>>
  <2>0. e \in Events /\ phase \in Phases /\ Submitting(w, x)
    BY <1>0, <1>2, JobShapes DEF broker_submit, at, Submitting
  <2>1. CASE reject(w) /\ UNCHANGED broker
    BY Zenon, <1>2, <1>i, <2>1, QuietStep DEF reject, broker_submit, ledger
  <2>2. ASSUME NEW o \in Orders, ~placed(o),
               broker' = [broker EXCEPT ![o] =
                    [event |-> e, phase |-> phase, status |-> "new", filled |-> 0]],
               NEW j \in Jobs, become(w, j),
               j = Idle \/ j = [pc |-> "bind", event |-> e, phase |-> phase, order |-> o]
        PROVE  OrderInv'
    <3>1. /\ job'[w] = j /\ job' \in [Workers -> Jobs]
          /\ \A v \in Workers \ {w} : job'[v] = job[v]
      BY Zenon, <1>0, <2>2 DEF become
    <3>2. [event |-> e, phase |-> phase, status |-> "new", filled |-> 0] \in SomeOrders
      BY <2>0, LifecycleConstants DEF SomeOrders, BrokerStatus
    <3>3. /\ broker' \in [Orders -> SomeOrders \cup {Unplaced}]
          /\ broker'[o].event = e /\ broker'[o].phase = phase
          /\ \A p \in Orders \ {o} : broker'[p] = broker[p]
          /\ UNCHANGED <<intent, intent_order>>
      BY Zenon, <1>0, <1>2, <2>2, <3>2 DEF broker_submit, ledger
    <3>4. placed(o)'
      BY Zenon, <1>0, <2>2, <3>2 DEF placed, Unplaced, SomeOrders
    <3>5. \A v \in Workers, y \in Events \X Phases :
            Submitting(v, y)' => v # w /\ y # x /\ Submitting(v, y)
      BY <2>0, <2>2, <3>1 DEF Submitting, at, Idle, OrderInv
    <3>6. intent[x] # "NONE" /\ \A p \in Orders : placed(p) => <<broker[p].event, broker[p].phase>> # x
      BY ZenonT(30), <2>0 DEF OrderInv
    <3>7. OneOrderPerPhase'
      <4> SUFFICES ASSUME NEW p \in Orders, NEW q \in Orders, placed(p)', placed(q)',
                          broker'[p].event = broker'[q].event, broker'[p].phase = broker'[q].phase
                   PROVE  p = q
        BY DEF OneOrderPerPhase
      <4>1. CASE p # o /\ q # o
        BY ZenonT(30), <1>0, <3>3, <4>1 DEF OneOrderPerPhase, placed
      <4>2. CASE p = o \/ q = o
        BY <3>3, <3>6, <4>2 DEF placed
      <4> QED
        BY <4>1, <4>2
    <3>8. IntentBeforeOrder'
      <4>1. \A p \in Orders : placed(p)' => intent'[<<broker'[p].event, broker'[p].phase>>] # "NONE"
        BY Zenon, <1>0, <3>3, <3>6 DEF IntentBeforeOrder, placed
      <4>2. \A y \in Events \X Phases : intent_order[y] # NoOrder => intent_order[y] # o
        BY Zenon, <1>0, <2>2 DEF IntentBeforeOrder
      <4> QED
        BY <1>0, <3>3, <4>1, <4>2 DEF IntentBeforeOrder, placed
    <3>9. ASSUME NEW v \in Workers, NEW y \in Events \X Phases, Submitting(v, y)'
          PROVE  /\ intent'[y] # "NONE"
                 /\ \A p \in Orders : placed(p)' => <<broker'[p].event, broker'[p].phase>> # y
                 /\ \A u \in Workers : Submitting(u, y)' => u = v
      <4>1. y # x /\ Submitting(v, y)
        BY <3>5, <3>9
      <4>2. /\ intent[y] # "NONE"
            /\ \A p \in Orders : placed(p) => <<broker[p].event, broker[p].phase>> # y
            /\ \A u \in Workers : Submitting(u, y) => u = v
        BY Zenon, <4>1 DEF OrderInv
      <4> QED
        BY Zenon, <3>3, <3>5, <4>1, <4>2 DEF placed
    <3>10. ASSUME NEW v \in Workers PROVE Owns(job[v])'
      <4>1. CASE v = w
        BY <2>2, <3>1, <3>3, <3>4, <4>1 DEF Owns, Idle, placed
      <4>2. CASE v # w
        <5>1. job'[v] = job[v] /\ Owns(job[v]) /\ job[v] \in Jobs
          BY Zenon, <1>0, <3>1, <4>2 DEF OrderInv
        <5>2. job[v].pc \in {"bind", "submission", "truth", "recover_truth", "persist", "mark"} =>
                job[v].order \in Orders
          BY Zenon, <5>1, JobShapes
        <5>3. \A p \in Orders : placed(p) => placed(p)' /\ broker'[p] = broker[p]
          BY Zenon, <2>2, <3>3 DEF placed
        <5> QED
          BY Zenon, <5>1, <5>2, <5>3 DEF Owns
      <4> QED
        BY Zenon, <4>1, <4>2
    <3> QED
      BY Zenon, <3>1, <3>3, <3>7, <3>8, <3>9, <3>10 DEF OrderInv
  <2>3. ASSUME NEW o \in Orders
        PROVE  [pc |-> "bind", event |-> e, phase |-> phase, order |-> o] \in Jobs
    BY Zenon, <2>0 DEF Jobs
  <2> QED
    BY ZenonT(30), <1>2, <1>i, <2>1, <2>2, <2>3 DEF broker_submit, reject
<1>3. ASSUME NEW w \in Workers, bind_ack(w) PROVE OrderInv'
  <2> DEFINE e == job[w].event
             phase == job[w].phase
             o == job[w].order
             j == [pc |-> IF phase = "OPEN" THEN "submission" ELSE "truth",
                   event |-> e, phase |-> phase, order |-> o]
  <2>0. e \in Events /\ phase \in Phases /\ o \in Orders /\ at(w, "bind")
    <3>1. at(w, "bind") /\ job[w] \in Jobs
      BY Zenon, <1>0, <1>3 DEF bind_ack
    <3> QED
      BY <3>1, JobShapes DEF at
  <2>1. CASE reject(w) /\ UNCHANGED ledger
    BY Zenon, <1>3, <1>i, <2>1, QuietStep DEF reject, bind_ack, ledger
  <2>2. CASE bind_lifecycle_intent(e, phase, o) /\ become(w, j)
    <3>1. j \in Jobs /\ j.pc # "submit"
      BY Zenon, <2>0 DEF Jobs
    <3>2. /\ job'[w] = j /\ job' \in [Workers -> Jobs]
          /\ \A v \in Workers \ {w} : job'[v] = job[v]
      BY Zenon, <1>0, <2>2, <3>1 DEF become
    <3>3. /\ UNCHANGED broker
          /\ \A y \in Events \X Phases : intent[y] # "NONE" => intent'[y] # "NONE"
          /\ \A y \in Events \X Phases :
                intent_order'[y] = IF y = <<e, phase>> THEN o ELSE intent_order[y]
      BY Zenon, <1>0, <1>3, <2>0, <2>2 DEF bind_lifecycle_intent, bind_ack
    <3>4. placed(o) /\ <<broker[o].event, broker[o].phase>> = <<e, phase>>
      BY Zenon, <2>0 DEF OrderInv, Owns, at
    <3>5. \A v \in Workers, x \in Events \X Phases :
            Submitting(v, x)' => v # w /\ Submitting(v, x)
      BY Zenon, <3>1, <3>2 DEF Submitting, at
    <3>6. \A v \in Workers : Owns(job[v])'
      BY <3>2, <3>3, <3>4 DEF OrderInv, Owns, placed
    <3>7. IntentBeforeOrder'
      <4>1. \A p \in Orders : placed(p)' => intent'[<<broker'[p].event, broker'[p].phase>>] # "NONE"
        <5>1. \A p \in Orders : placed(p) => <<broker[p].event, broker[p].phase>> \in Events \X Phases
          BY <1>0 DEF placed, SomeOrders
        <5> QED
          BY Zenon, <1>0, <3>3, <5>1 DEF IntentBeforeOrder, placed
      <4>2. \A y \in Events \X Phases : intent_order'[y] # NoOrder =>
                /\ placed(intent_order[y])'
                /\ <<broker'[intent_order'[y]].event, broker'[intent_order'[y]].phase>> = y
        BY Zenon, <1>0, <2>0, <3>3, <3>4 DEF IntentBeforeOrder, placed
      <4> QED
        BY Zenon, <4>1, <4>2 DEF IntentBeforeOrder
    <3>8. \A y \in Events \X Phases :
            intent'[y] \in {"SUBMITTED", "RECONCILED"} => intent_order'[y] # NoOrder
      BY Zenon, <1>0, <2>0, <2>2, <3>3, SentinelsAreFresh DEF OrderInv, bind_lifecycle_intent
    <3> QED
      BY <3>2, <3>3, <3>5, <3>6, <3>7, <3>8 DEF OrderInv, OneOrderPerPhase, placed
  <2> QED
    BY Zenon, <1>3, <2>1, <2>2 DEF bind_ack
<1>4. ASSUME NEW w \in Workers, mark_reconciled(w) PROVE OrderInv'
  <2> DEFINE e == job[w].event
             phase == job[w].phase
  <2>0. e \in Events /\ phase \in Phases /\ job[w].state \in LifecycleStates
    BY <1>0, <1>4, JobShapes DEF mark_reconciled, at
  <2>1. CASE reject(w) /\ UNCHANGED ledger
    BY Zenon, <1>4, <1>i, <2>1, QuietStep DEF reject, mark_reconciled, ledger
  <2>2. CASE mark_lifecycle_intent_reconciled(e, phase) /\ done(w, e, job[w].state)
    <3>1. PICK j \in Jobs : become(w, j) /\ j.pc = "done"
      BY <2>0, <2>2 DEF done, Jobs
    <3>2. /\ job'[w] = j /\ job' \in [Workers -> Jobs]
          /\ \A v \in Workers \ {w} : job'[v] = job[v]
      BY Zenon, <1>0, <3>1 DEF become
    <3>3. /\ UNCHANGED <<broker, intent_order>>
          /\ \A y \in Events \X Phases : intent[y] # "NONE" => intent'[y] # "NONE"
      BY Zenon, <1>0, <1>4, <2>0, <2>2 DEF mark_lifecycle_intent_reconciled, mark_reconciled
    <3>4. \A v \in Workers, x \in Events \X Phases :
            Submitting(v, x)' => v # w /\ Submitting(v, x)
      BY Zenon, <3>1, <3>2 DEF Submitting, at
    <3>5. \A v \in Workers : Owns(job[v])'
      BY <3>1, <3>2, <3>3 DEF OrderInv, Owns, placed
    <3>6. IntentBeforeOrder'
      <4>1. \A p \in Orders : placed(p) => <<broker[p].event, broker[p].phase>> \in Events \X Phases
        BY <1>0 DEF placed, SomeOrders
      <4> QED
        BY Zenon, <1>0, <3>3, <4>1 DEF IntentBeforeOrder, placed
    <3>7. \A y \in Events \X Phases :
            intent'[y] \in {"SUBMITTED", "RECONCILED"} => intent_order'[y] # NoOrder
      BY Zenon, <1>0, <2>0, <2>2, <3>3 DEF OrderInv, mark_lifecycle_intent_reconciled
    <3> QED
      BY <3>2, <3>3, <3>4, <3>5, <3>6, <3>7 DEF OrderInv, OneOrderPerPhase, placed
  <2> QED
    BY Zenon, <1>4, <2>1, <2>2 DEF mark_reconciled
<1>5. ASSUME NEW w \in Workers, NEW e \in Events,
             open(w, e) \/ close(w, e) \/ recover_open_state(w, e) \/ recover_flatness(w, e)
      PROVE  OrderInv'
  <2>1. ASSUME NEW phase \in Phases
        PROVE  LET j == [pc |-> "intent", event |-> e, phase |-> phase]
               IN  j \in Jobs /\ j.pc # "submit" /\ Owns(j)
    BY Zenon DEF Jobs, Owns
  <2>2. LET j == [pc |-> "done", event |-> e, state |-> "MANUAL_REQUIRED"]
        IN  j \in Jobs /\ j.pc # "submit" /\ Owns(j)
    BY Zenon DEF Jobs, LifecycleStates, Owns
  <2>3. ASSUME NEW phase \in Phases, intent[<<e, phase>>] \in {"SUBMITTED", "RECONCILED"}
        PROVE  LET j == [pc |-> "recover_truth", event |-> e, phase |-> phase,
                         order |-> intent_order[<<e, phase>>]]
               IN  j \in Jobs /\ j.pc # "submit" /\ Owns(j)
    <3>1. intent_order[<<e, phase>>] \in Orders
      BY <1>0, <2>3 DEF OrderInv
    <3>2. /\ placed(intent_order[<<e, phase>>])
          /\ broker[intent_order[<<e, phase>>]].event = e
          /\ broker[intent_order[<<e, phase>>]].phase = phase
      BY Zenon, <1>0, <2>3 DEF OrderInv, IntentBeforeOrder
    <3> QED
      BY Zenon, <3>1, <3>2 DEF Jobs, Owns
  <2>4. UNCHANGED <<broker, intent, intent_order>>
    BY Zenon, <1>5 DEF open, close, recover_open_state, recover_flatness, ledger
  <2>5. CASE open(w, e)
    BY Zenon, <2>1, <2>4, <2>5, QuietStep DEF open, Phases
  <2>6. CASE close(w, e)
    BY Zenon, <2>1, <2>4, <2>6, QuietStep DEF close, Phases
  <2>7. CASE recover_open_state(w, e)
    BY Zenon, <2>3, <2>4, <2>7, QuietStep DEF recover_open_state, durable_submitted_request, Phases
  <2>8. CASE recover_flatness(w, e)
    BY Zenon, <2>2, <2>3, <2>4, <2>8, QuietStep DEF recover_flatness, durable_submitted_request, done, Phases
  <2> QED
    BY <1>5, <2>5, <2>6, <2>7, <2>8
<1>6. ASSUME NEW w \in Workers, record_open_submission(w) PROVE OrderInv'
  <2>1. job[w] \in [pc : {"bind", "submission", "truth", "recover_truth"}, event : Events,
                    phase : Phases, order : Orders]
    BY <1>0, <1>6, JobShapes DEF record_open_submission, at
  <2>2. UNCHANGED <<broker, intent, intent_order>>
    BY <1>6 DEF record_open_submission, record_submission, intents, ledger
  <2>3. LET j == [job[w] EXCEPT !.pc = "truth"] IN j \in Jobs /\ j.pc # "submit" /\ Owns(j)
    BY <1>6, <2>1 DEF OrderInv, Owns, Jobs, record_open_submission, at
  <2> QED
    BY ZenonT(30), <1>6, <1>i, <2>2, <2>3, QuietStep DEF record_open_submission, reject
<1>7. ASSUME NEW w \in Workers, fresh_bound_truth(w) \/ recovered_truth(w) PROVE OrderInv'
  <2> DEFINE j == job[w]
  <2>1. j \in [pc : {"bind", "submission", "truth", "recover_truth"}, event : Events,
               phase : Phases, order : Orders]
    BY Zenon, <1>0, <1>7, JobShapes DEF fresh_bound_truth, recovered_truth, at
  <2>2. placed(j.order) /\ broker[j.order].event = j.event /\ broker[j.order].phase = j.phase
    BY Zenon, <2>1 DEF OrderInv, Owns
  <2>3. broker[j.order].status \in BrokerStatus
    BY <1>0, <2>1, <2>2 DEF placed, SomeOrders
  <2>4. reduced(j) \in LifecycleStates
    BY Zenon, <2>3 DEF reduced, reduce_open_order, reduce_close_order, BrokerStatus, LifecycleStates
  <2>5. UNCHANGED <<broker, intent, intent_order>>
    BY Zenon, <1>7 DEF fresh_bound_truth, recovered_truth, ledger
  <2>6. LET k == [pc |-> "persist", event |-> j.event, phase |-> j.phase, order |-> j.order,
                  state |-> reduced(j)]
        IN  k \in Jobs /\ k.pc # "submit" /\ Owns(k)
    BY Zenon, <2>1, <2>2, <2>4 DEF Jobs, Owns
  <2>7. ASSUME NEW s \in LifecycleStates
        PROVE  LET k == [pc |-> "done", event |-> j.event, state |-> s]
               IN  k \in Jobs /\ k.pc # "submit" /\ Owns(k)
    BY Zenon, <2>1 DEF Jobs, Owns
  <2>8. CASE fresh_bound_truth(w)
    BY Zenon, <1>i, <2>5, <2>6, <2>8, QuietStep DEF fresh_bound_truth, reject
  <2>9. CASE recovered_truth(w)
    <3>1. (IF j.phase = "CLOSE" /\ reduced(j) # "CLOSED_FLAT" THEN "MANUAL_REQUIRED" ELSE reduced(j))
            \in LifecycleStates
      BY <2>4 DEF LifecycleStates
    <3> QED
      BY Zenon, <1>i, <2>5, <2>7, <2>9, <3>1, QuietStep DEF recovered_truth, reject, done
  <2> QED
    BY <1>7, <2>8, <2>9
<1>8. ASSUME NEW w \in Workers, record_open_transition(w) \/ release_after_close(w)
      PROVE  OrderInv'
  <2> DEFINE j == job[w]
             obs == observation(j.order, j.state)
  <2>1. j \in [pc : {"persist", "mark"}, event : Events, phase : Phases, order : Orders,
               state : LifecycleStates]
    BY <1>0, <1>8, JobShapes DEF record_open_transition, release_after_close, at
  <2>2. LET k == [j EXCEPT !.pc = "mark"] IN k \in Jobs /\ k.pc # "submit" /\ Owns(k)
    BY <2>1 DEF OrderInv, Owns, Jobs
  <2>3. LET k == [pc |-> "done", event |-> j.event, state |-> j.state]
        IN  k \in Jobs /\ k.pc # "submit" /\ Owns(k)
    BY Zenon, <2>1 DEF Jobs, Owns
  <2>4. CASE record_open_transition(w)
    <3>1. UNCHANGED broker
      BY <2>4 DEF record_open_transition
    <3>2. CASE reconcile_observed_order(j.event, obs) /\ become(w, [j EXCEPT !.pc = "mark"])
      BY ZenonT(30), <2>2, <3>1, <3>2, QuietStep DEF reconcile_observed_order, intents
    <3>3. CASE record_fill(j.event, j.order) /\ done(w, j.event, j.state)
      BY Zenon, <2>3, <3>1, <3>3, QuietStep DEF record_fill, done, intents
    <3>4. CASE reject(w) /\ UNCHANGED ledger
      BY <1>i, <3>1, <3>4, QuietStep DEF reject, ledger
    <3> QED
      BY <2>4, <3>2, <3>3, <3>4 DEF record_open_transition
  <2>5. CASE release_after_close(w)
    <3>1. UNCHANGED broker
      BY <2>5 DEF release_after_close
    <3>2. CASE release_consumed_after_flat(j.event) /\ become(w, [j EXCEPT !.pc = "mark"])
      BY ZenonT(30), <2>2, <3>1, <3>2, QuietStep DEF release_consumed_after_flat, intents
    <3>3. CASE reject(w) /\ UNCHANGED ledger
      BY <1>i, <3>1, <3>3, QuietStep DEF reject, ledger
    <3> QED
      BY <2>5, <3>2, <3>3 DEF release_after_close
  <2> QED
    BY <1>8, <2>4, <2>5
<1>9. ASSUME NEW w \in Workers, crash(w) PROVE OrderInv'
  BY <1>9, <1>i, QuietStep DEF crash, ledger
<1>10. ASSUME NEW o \in Orders, broker_fill(o) \/ broker_cancel(o) PROVE OrderInv'
  <2>1. broker[o] \in SomeOrders
    BY <1>0, <1>10 DEF broker_fill, broker_cancel, working, Unplaced
  <2>2. /\ broker' \in [Orders -> SomeOrders \cup {Unplaced}]
        /\ \A p \in Orders : /\ placed(p)' <=> placed(p)
                             /\ broker'[p].event = broker[p].event
                             /\ broker'[p].phase = broker[p].phase
    <3>1. CASE broker_fill(o)
      <4> DEFINE f == [broker EXCEPT ![o].filled = @ + 1]
                 g(s) == [f EXCEPT ![o].status = s]
      <4>1. /\ f \in [Orders -> SomeOrders \cup {Unplaced}] /\ f[o] \in SomeOrders
            /\ f[o].event = broker[o].event /\ f[o].phase = broker[o].phase
            /\ \A p \in Orders \ {o} : f[p] = broker[p]
        BY <1>0, <2>1 DEF SomeOrders
      <4>2. PICK s \in BrokerStatus : broker' = g(s)
        BY Zenon, <3>1 DEF broker_fill, BrokerStatus
      <4> HIDE DEF f
      <4>3. /\ broker' \in [Orders -> SomeOrders \cup {Unplaced}] /\ broker'[o] \in SomeOrders
            /\ broker'[o].event = f[o].event /\ broker'[o].phase = f[o].phase
            /\ \A p \in Orders \ {o} : broker'[p] = f[p]
        BY <4>1, <4>2 DEF SomeOrders
      <4>4. Unplaced \notin SomeOrders
        BY DEF SomeOrders, Unplaced
      <4> QED
        BY Zenon, <2>1, <4>1, <4>3, <4>4 DEF placed
    <3>2. CASE broker_cancel(o)
      BY <1>0, <2>1, <3>2 DEF broker_cancel, placed, SomeOrders, BrokerStatus, Unplaced
    <3> QED
      BY Zenon, <1>10, <3>1, <3>2
  <2>3. UNCHANGED <<job, intent, intent_order>>
    BY <1>10 DEF broker_fill, broker_cancel, ledger
  <2>4. OneOrderPerPhase'
    BY Zenon, <1>0, <2>2 DEF OneOrderPerPhase
  <2>5. IntentBeforeOrder'
    BY ZenonT(30), <1>0, <2>2, <2>3 DEF IntentBeforeOrder, placed
  <2>6. \A v \in Workers : Owns(job[v])'
    <3>1. ASSUME NEW v \in Workers,
                 job[v].pc \in {"bind", "submission", "truth", "recover_truth", "persist", "mark"}
          PROVE  job[v].order \in Orders
      BY <1>0, <3>1, JobShapes
    <3>2. ASSUME NEW v \in Workers PROVE Owns(job[v])
      BY Zenon DEF OrderInv
    <3> QED
      BY ZenonT(30), <2>2, <2>3, <3>1, <3>2 DEF Owns
  <2>7. \A v \in Workers, x \in Events \X Phases : Submitting(v, x)' <=> Submitting(v, x)
    BY <2>3 DEF Submitting, at
  <2> QED
    BY Zenon, <1>0, <2>2, <2>3, <2>4, <2>5, <2>6, <2>7 DEF OrderInv
<1>11. ASSUME UNCHANGED <<broker, job, intent, intent_order>> PROVE OrderInv'
  <2>1. OneOrderPerPhase' /\ IntentBeforeOrder'
    BY Zenon, <1>0, <1>11 DEF OneOrderPerPhase, IntentBeforeOrder, placed
  <2>2. \A v \in Workers, x \in Events \X Phases : Submitting(v, x)' <=> Submitting(v, x)
    BY <1>11 DEF Submitting, at
  <2>3. \A v \in Workers : Owns(job[v])'
    BY Zenon, <1>11 DEF OrderInv, Owns, placed
  <2> QED
    BY Zenon, <1>0, <1>11, <2>1, <2>2, <2>3 DEF OrderInv, placed
<1>12. CASE kernel_authorizes
  BY <1>11, <1>12 DEF kernel_authorizes, freeze_candidate, reserve_and_issue_permit, intents
<1>13. CASE tick \/ UNCHANGED lifecycle_vars
  BY <1>11, <1>13 DEF tick, lifecycle_vars, ledger
<1> QED
  BY <1>1, <1>2, <1>3, <1>4, <1>5, <1>6, <1>7, <1>8, <1>9, <1>10, <1>12, <1>13
  DEF LifecycleNext, WorkerStep

(* Whatever a worker, the broker or the kernel does, the ledger takes one  *)
(* of its own transactions or none.                                        *)
LEMMA LedgerStep ==
    OrderInv /\ [LifecycleNext]_lifecycle_vars => [LedgerNext]_ledger
<1> SUFFICES ASSUME OrderInv, [LifecycleNext]_lifecycle_vars PROVE [LedgerNext]_ledger
  OBVIOUS
<1>0. job \in [Workers -> Jobs]
  BY Zenon DEF OrderInv
<1>1. ASSUME NEW w \in Workers, record_intent(w) PROVE [LedgerNext]_ledger
  <2>1. job[w].event \in Events /\ job[w].phase \in Phases
    BY <1>0, <1>1, JobShapes DEF record_intent, at
  <2> QED
    BY Zenon, <1>1, <2>1 DEF record_intent, LedgerNext, IntentNext
<1>2. ASSUME NEW w \in Workers, bind_ack(w) PROVE [LedgerNext]_ledger
  <2>1. job[w].event \in Events /\ job[w].phase \in Phases /\ job[w].order \in Orders
    BY <1>0, <1>2, JobShapes DEF bind_ack, at
  <2> QED
    BY Zenon, <1>2, <2>1 DEF bind_ack, LedgerNext, IntentNext
<1>3. ASSUME NEW w \in Workers, record_open_submission(w) PROVE [LedgerNext]_ledger
  <2>1. job[w].event \in Events /\ job[w].order \in Orders
    BY <1>0, <1>3, JobShapes DEF record_open_submission, at
  <2> QED
    BY ZenonT(30), <1>3, <2>1 DEF record_open_submission, LedgerNext, EntryNext
<1>4. ASSUME NEW w \in Workers, record_open_transition(w) PROVE [LedgerNext]_ledger
  <2> DEFINE obs == observation(job[w].order, job[w].state)
  <2>1. job[w].event \in Events /\ job[w].order \in Orders
    BY <1>0, <1>4, JobShapes DEF record_open_transition, at
  <2>2. obs \in Observations
    BY Zenon, <2>1 DEF observation, Observations
  <2>3. \/ reconcile_observed_order(job[w].event, obs)
        \/ record_fill(job[w].event, job[w].order)
        \/ UNCHANGED ledger
    BY <1>4 DEF record_open_transition
  <2> QED
    BY Zenon, <2>1, <2>2, <2>3 DEF LedgerNext, EntryNext, IntentNext
<1>5. ASSUME NEW w \in Workers, release_after_close(w) PROVE [LedgerNext]_ledger
  <2>1. job[w].event \in Events
    BY <1>0, <1>5, JobShapes DEF release_after_close, at
  <2> QED
    BY <1>5, <2>1 DEF release_after_close, LedgerNext, EntryNext
<1>6. ASSUME NEW w \in Workers, mark_reconciled(w) PROVE [LedgerNext]_ledger
  <2>1. job[w].event \in Events /\ job[w].phase \in Phases
    BY <1>0, <1>6, JobShapes DEF mark_reconciled, at
  <2> QED
    BY Zenon, <1>6, <2>1 DEF mark_reconciled, LedgerNext, IntentNext
<1>7. CASE kernel_authorizes
  BY <1>7 DEF kernel_authorizes, LedgerNext, EntryNext
<1>8. ASSUME NEW w \in Workers,
             \/ \E e \in Events : \/ open(w, e) \/ close(w, e)
                                  \/ recover_open_state(w, e) \/ recover_flatness(w, e)
             \/ broker_submit(w) \/ fresh_bound_truth(w) \/ recovered_truth(w) \/ crash(w)
      PROVE  UNCHANGED ledger
  BY ZenonT(30), <1>8 DEF open, close, recover_open_state, recover_flatness, broker_submit,
              fresh_bound_truth, recovered_truth, crash
<1>9. CASE tick \/ UNCHANGED lifecycle_vars \/ \E o \in Orders : broker_fill(o) \/ broker_cancel(o)
  BY ZenonT(30), <1>9 DEF tick, lifecycle_vars, broker_fill, broker_cancel
<1> QED
  BY Zenon, <1>1, <1>2, <1>3, <1>4, <1>5, <1>6, <1>7, <1>8, <1>9 DEF LifecycleNext, WorkerStep

(* One invariant for both: the ledger's rows and the broker's orders.      *)
LEMMA LifecycleInvariant == LifecycleSpec => [](RowsInv /\ OrderInv)
<1>1. LifecycleInit => RowsInv /\ OrderInv
  BY OrderInit, RowsInit DEF LifecycleInit
<1>2. RowsInv /\ OrderInv /\ [LifecycleNext]_lifecycle_vars => (RowsInv /\ OrderInv)'
  BY OrderStep, LedgerStep, RowsStep DEF RowsInv
<1> QED
  BY <1>1, <1>2, PTL DEF LifecycleSpec

(* An event never has two opening or two closing orders at the broker, and *)
(* every order has its durable intent (_record_intent before submit_open   *)
(* and submit_close), for any number of workers, crashes and lost          *)
(* acknowledgements.                                                       *)
THEOREM LifecycleOrders == LifecycleSpec => [](OneOrderPerPhase /\ IntentBeforeOrder)
<1>1. OrderInv => OneOrderPerPhase /\ IntentBeforeOrder
  BY Zenon DEF OrderInv
<1> QED
  BY <1>1, LifecycleInvariant, PTL

(* The monitored lifecycle implements the ledger: its workers change the   *)
(* durable rows only by whole transactions of RiskLedger.                  *)
THEOREM LifecycleRefinesLedger == LifecycleSpec => LedgerRefined
<1>1. LifecycleInit => LedgerInit
  BY DEF LifecycleInit
<1>2. OrderInv /\ [LifecycleNext]_lifecycle_vars => [LedgerNext]_ledger
  BY LedgerStep
<1> QED
  BY <1>1, <1>2, LifecycleInvariant, PTL DEF LifecycleSpec, LedgerRefined, LedgerSpec

(* What is proved of the ledger therefore holds of the whole lifecycle:    *)
(* its rows agree and are explained by their receipts, an order has one    *)
(* owner, the exposure and the counts of the policy hold and an event is   *)
(* entered once.                                                           *)
THEOREM LifecycleLedgerSafe ==
    LifecycleSpec => /\ [](RowsAgree /\ PassportExplainsRows /\ OrderHasOneOwner /\ WithinPolicy)
                     /\ EnteredOnce
BY LifecycleRefinesLedger, LedgerRows, LedgerOrderHasOneOwner, LedgerWithinPolicy,
   LedgerEnteredOnce, PTL DEF LedgerRefined

-----------------------------------------------------------------------------
(* Fills and flatness                                                      *)

-----------------------------------------------------------------------------
(* Quantities                                                              *)

(* The broker holds a final order for this event and phase.                *)
Settled(e, phase, status, qty) ==
    \E o \in Orders : /\ placed(o)
                      /\ broker[o].event = e /\ broker[o].phase = phase
                      /\ broker[o].status = status /\ broker[o].filled = qty

Opened(e) == Settled(e, "OPEN", "filled", Qty)
Unopened(e) == Settled(e, "OPEN", "canceled", 0)
Closed(e) == Settled(e, "CLOSE", "filled", Qty)

(* A working order can still fill, a filled one is complete, and a closing *)
(* one follows a complete opening.                                         *)
FillOK(o) ==
    placed(o) => /\ broker[o].filled \in 0..Qty
                 /\ working(o) => broker[o].filled < Qty
                 /\ broker[o].status = "filled" => broker[o].filled = Qty
                 /\ broker[o].phase = "CLOSE" => Opened(broker[o].event)

(* What a job is about to do rests on an order that no longer changes.     *)
JobOK(j) ==
    /\ j.pc \in {"intent", "submit"} /\ j.phase = "CLOSE" => Opened(j.event)
    /\ j.pc \in {"persist", "mark"} =>
        /\ j.state = "OPEN_FILLED" => Opened(j.event)
        /\ j.state = "OPEN_CANCELED" => Unopened(j.event)
        /\ j.state = "CLOSED_FLAT" => Closed(j.event)

(* So do the terminal rows of the ledger.                                  *)
RowOK(e) ==
    /\ permit[e] = "FILLED" => Opened(e)
    /\ reservation[e] = "RELEASED" => Unopened(e) \/ (Opened(e) /\ Closed(e))

FillInv ==
    /\ \A o \in Orders : FillOK(o)
    /\ \A w \in Workers : JobOK(job[w])
    /\ \A e \in Events : RowOK(e)

(* What a step may do to an order.                                         *)
LEMMA BrokerChange ==
    ASSUME OrderInv, [LifecycleNext]_lifecycle_vars, NEW o \in Orders
    PROVE  \/ broker'[o] = broker[o]
           \/ /\ ~placed(o)
              /\ \E w \in Workers :
                    /\ at(w, "submit")
                    /\ broker'[o] = [event |-> job[w].event, phase |-> job[w].phase,
                                     status |-> "new", filled |-> 0]
           \/ /\ working(o)
              /\ broker'[o] = [broker[o] EXCEPT !.filled = @ + 1,
                                 !.status = IF broker[o].filled + 1 = Qty
                                            THEN "filled" ELSE "partially_filled"]
           \/ working(o) /\ broker'[o] = [broker[o] EXCEPT !.status = "canceled"]
<1>0. broker \in [Orders -> SomeOrders \cup {Unplaced}]
  BY DEF OrderInv
<1>1. ASSUME NEW p \in Orders, broker_fill(p)
      PROVE  \/ broker'[o] = broker[o]
             \/ /\ working(o)
                /\ broker'[o] = [broker[o] EXCEPT !.filled = @ + 1,
                                   !.status = IF broker[o].filled + 1 = Qty
                                              THEN "filled" ELSE "partially_filled"]
  BY ZenonT(30), <1>0, <1>1 DEF broker_fill
<1>2. ASSUME NEW p \in Orders, broker_cancel(p)
      PROVE  \/ broker'[o] = broker[o]
             \/ working(o) /\ broker'[o] = [broker[o] EXCEPT !.status = "canceled"]
  BY <1>0, <1>2 DEF broker_cancel
<1>3. ASSUME NEW w \in Workers, broker_submit(w)
      PROVE  \/ broker'[o] = broker[o]
             \/ /\ ~placed(o) /\ at(w, "submit")
                /\ broker'[o] = [event |-> job[w].event, phase |-> job[w].phase,
                                 status |-> "new", filled |-> 0]
  BY ZenonT(30), <1>0, <1>3 DEF broker_submit
<1>4. ASSUME NEW w \in Workers, WorkerStep(w), ~broker_submit(w) PROVE UNCHANGED broker
  BY ZenonT(30), <1>4 DEF WorkerStep, open, close, recover_open_state, recover_flatness, record_intent,
     bind_ack, record_open_submission, fresh_bound_truth, recovered_truth,
     record_open_transition, release_after_close, mark_reconciled, crash
<1>5. CASE kernel_authorizes \/ tick \/ UNCHANGED lifecycle_vars
  BY <1>5 DEF kernel_authorizes, tick, lifecycle_vars
<1> QED
  BY ZenonT(30), <1>1, <1>2, <1>3, <1>4, <1>5 DEF LifecycleNext

(* An order that is settled stays as it is.                                *)
LEMMA SettledStands ==
    ASSUME OrderInv, [LifecycleNext]_lifecycle_vars,
           NEW e, NEW phase, NEW status \in {"filled", "canceled"}, NEW qty,
           Settled(e, phase, status, qty)
    PROVE  Settled(e, phase, status, qty)'
<1>1. PICK o \in Orders : /\ placed(o)
                          /\ broker[o].event = e /\ broker[o].phase = phase
                          /\ broker[o].status = status /\ broker[o].filled = qty
  BY DEF Settled
<1>2. broker'[o] = broker[o]
  BY ZenonT(30), <1>1, BrokerChange DEF working
<1> QED
  BY <1>1, <1>2 DEF Settled, placed

(* The rows become terminal only by the transactions of a worker that has  *)
(* read the terminal order.                                                *)
LEMMA RowChange ==
    ASSUME TypeOK, OrderInv, [LifecycleNext]_lifecycle_vars, NEW e \in Events
    PROVE  /\ permit'[e] = "FILLED" => \/ permit[e] = "FILLED"
                                       \/ \E w \in Workers : /\ at(w, "persist")
                                                             /\ job[w].event = e
                                                             /\ job[w].state = "OPEN_FILLED"
           /\ reservation'[e] = "RELEASED" =>
                \/ reservation[e] = "RELEASED"
                \/ \E w \in Workers : /\ at(w, "persist")
                                      /\ job[w].event = e
                                      /\ \/ job[w].state = "OPEN_CANCELED"
                                         \/ job[w].state = "CLOSED_FLAT" /\ permit[e] = "FILLED"
<1>0. job \in [Workers -> Jobs]
  BY DEF OrderInv
<1>1. CASE UNCHANGED <<permit, reservation>>
  BY <1>1
<1>2. ASSUME NEW w \in Workers, record_open_submission(w)
      PROVE  permit'[e] # "FILLED" \/ permit'[e] = permit[e]
  BY <1>2 DEF record_open_submission, record_submission, TypeOK, ledger
<1>3. ASSUME NEW w \in Workers, record_open_submission(w) PROVE UNCHANGED reservation
  BY <1>3 DEF record_open_submission, record_submission, ledger
<1>4. ASSUME NEW w \in Workers, record_open_transition(w)
      PROVE  \/ UNCHANGED <<permit, reservation>>
             \/ job[w].event # e /\ permit'[e] = permit[e] /\ reservation'[e] = reservation[e]
             \/ /\ at(w, "persist") /\ job[w].event = e /\ job[w].state = "OPEN_FILLED"
                /\ reservation'[e] # "RELEASED"
             \/ /\ at(w, "persist") /\ job[w].event = e /\ job[w].state = "OPEN_CANCELED"
                /\ permit'[e] # "FILLED"
  <2> DEFINE obs == observation(job[w].order, job[w].state)
  <2>1. job[w].event \in Events /\ job[w].order \in Orders
    BY <1>0, <1>4, JobShapes DEF record_open_transition, at
  <2>2. CASE record_fill(job[w].event, job[w].order) \/ UNCHANGED ledger
    BY <2>2 DEF record_fill, ledger, rows
  <2>3. CASE /\ job[w].state = "OPEN_FILLED" /\ at(w, "persist")
             /\ reconcile_observed_order(job[w].event, obs)
    <3>1. ObservedFilled(obs)
      BY <2>3 DEF observation, ObservedFilled
    <3> QED
      BY Zenon, <2>1, <2>3, <3>1 DEF reconcile_observed_order, TypeOK
  <2>4. CASE /\ job[w].state = "OPEN_CANCELED" /\ at(w, "persist")
             /\ reconcile_observed_order(job[w].event, obs)
    <3>1. ~ObservedFilled(obs)
      BY <2>4 DEF observation, ObservedFilled
    <3> QED
      BY Zenon, <2>1, <2>4, <3>1 DEF reconcile_observed_order, TypeOK
  <2> QED
    BY Zenon, <1>4, <2>2, <2>3, <2>4 DEF record_open_transition
<1>5. ASSUME NEW w \in Workers, release_after_close(w)
      PROVE  \/ UNCHANGED <<permit, reservation>>
             \/ job[w].event # e /\ permit'[e] = permit[e] /\ reservation'[e] = reservation[e]
             \/ /\ at(w, "persist") /\ job[w].event = e /\ job[w].state = "CLOSED_FLAT"
                /\ permit[e] = "FILLED" /\ UNCHANGED permit
  BY Zenon, <1>5 DEF release_after_close, release_consumed_after_flat, release_accepts, ledger, TypeOK
<1>6. CASE kernel_authorizes
  BY <1>6 DEF kernel_authorizes, freeze_candidate, reserve_and_issue_permit, rows, TypeOK
<1>7. ASSUME NEW w \in Workers, WorkerStep(w), ~record_open_submission(w),
             ~record_open_transition(w), ~release_after_close(w)
      PROVE  UNCHANGED <<permit, reservation>>
  BY ZenonT(30), <1>7 DEF WorkerStep, open, close, recover_open_state, recover_flatness, record_intent,
     broker_submit, bind_ack, fresh_bound_truth, recovered_truth, mark_reconciled, crash,
     record_lifecycle_intent, bind_lifecycle_intent, mark_lifecycle_intent_reconciled, rows, ledger
<1>8. CASE tick \/ UNCHANGED lifecycle_vars \/ \E o \in Orders : broker_fill(o) \/ broker_cancel(o)
  BY ZenonT(30), <1>1, <1>8 DEF tick, lifecycle_vars, broker_fill, broker_cancel, ledger
<1> QED
  BY Zenon, <1>1, <1>2, <1>3, <1>4, <1>5, <1>6, <1>7, <1>8 DEF LifecycleNext

(* What a worker turns to is justified by the broker as it was before the  *)
(* step.                                                                   *)
LEMMA JobChange ==
    ASSUME TypeOK, OrderInv, FillInv, [LifecycleNext]_lifecycle_vars, NEW w \in Workers
    PROVE  JobOK(job'[w])
<1>0. job \in [Workers -> Jobs] /\ broker \in [Orders -> SomeOrders \cup {Unplaced}]
  BY DEF OrderInv
<1>1. JobOK(job[w]) /\ JobOK(Idle)
  BY DEF FillInv, JobOK, Idle
<1>2. ASSUME NEW v \in Workers, NEW j, become(v, j), JobOK(j) PROVE JobOK(job'[w])
  BY <1>0, <1>1, <1>2 DEF become
<1>3. ASSUME NEW v \in Workers, reject(v) PROVE JobOK(job'[w])
  BY <1>1, <1>2, <1>3 DEF reject
<1>4. ASSUME NEW v \in Workers, NEW e, NEW st, done(v, e, st) PROVE JobOK(job'[w])
  <2>1. JobOK([pc |-> "done", event |-> e, state |-> st])
    BY DEF JobOK
  <2> QED
    BY <1>2, <1>4, <2>1 DEF done
<1>5. ASSUME NEW j, j.pc \notin {"intent", "submit", "persist", "mark"} PROVE JobOK(j)
  BY <1>5 DEF JobOK
<1>6. ASSUME NEW v \in Workers, NEW e \in Events,
             open(v, e) \/ close(v, e) \/ recover_open_state(v, e) \/ recover_flatness(v, e)
      PROVE  JobOK(job'[w])
  <2>1. JobOK([pc |-> "intent", event |-> e, phase |-> "OPEN"])
    BY DEF JobOK
  <2>2. CASE open(v, e)
    BY Zenon, <1>2, <2>1, <2>2 DEF open
  <2>3. CASE close(v, e)
    <3>1. Opened(e)
      BY <2>3 DEF close, require_close_binding, FillInv, RowOK
    <3>2. JobOK([pc |-> "intent", event |-> e, phase |-> "CLOSE"])
      BY <3>1 DEF JobOK
    <3> QED
      BY <1>2, <2>3, <3>2 DEF close
  <2>4. CASE recover_open_state(v, e)
    BY Zenon, <1>2, <1>5, <2>4 DEF recover_open_state
  <2>5. CASE recover_flatness(v, e)
    BY <1>2, <1>4, <1>5, <2>5 DEF recover_flatness
  <2> QED
    BY <1>6, <2>2, <2>3, <2>4, <2>5
<1>7. ASSUME NEW v \in Workers, record_intent(v) PROVE JobOK(job'[w])
  <2>1. JobOK([pc |-> "submit", event |-> job[v].event, phase |-> job[v].phase])
    BY Zenon, <1>7 DEF FillInv, JobOK, record_intent, at
  <2> QED
    BY Zenon, <1>2, <1>3, <1>7, <2>1 DEF record_intent
<1>8. ASSUME NEW v \in Workers, broker_submit(v) \/ bind_ack(v) PROVE JobOK(job'[w])
  BY ZenonT(30), <1>2, <1>3, <1>5, <1>8 DEF broker_submit, bind_ack
<1>9. ASSUME NEW v \in Workers, record_open_submission(v) PROVE JobOK(job'[w])
  <2>1. [job[v] EXCEPT !.pc = "truth"].pc = "truth"
    BY <1>0, <1>9, JobShapes DEF record_open_submission, at
  <2> QED
    BY ZenonT(30), <1>2, <1>3, <1>5, <1>9, <2>1 DEF record_open_submission
<1>10. ASSUME NEW v \in Workers, fresh_bound_truth(v) PROVE JobOK(job'[w])
  <2> DEFINE j == job[v]
             o == j.order
             st == reduced(j)
             k == [pc |-> "persist", event |-> j.event, phase |-> j.phase, order |-> o, state |-> st]
  <2>1. /\ o \in Orders /\ placed(o) /\ j.phase \in Phases
        /\ broker[o].event = j.event /\ broker[o].phase = j.phase
    <3>1. j \in [pc : {"bind", "submission", "truth", "recover_truth"}, event : Events,
                 phase : Phases, order : Orders]
      BY <1>0, <1>10, JobShapes DEF fresh_bound_truth, at
    <3> QED
      BY Zenon, <1>10, <3>1 DEF OrderInv, Owns, fresh_bound_truth, at
  <2>2. broker[o].status \in BrokerStatus
    BY <1>0, <2>1 DEF placed, SomeOrders
  <2>3. st = "OPEN_FILLED" => Opened(j.event)
    BY Zenon, <2>1, <2>2 DEF reduced, reduce_open_order, reduce_close_order, Opened, Settled, BrokerStatus
  <2>4. st = "OPEN_CANCELED" => Unopened(j.event)
    BY Zenon, <2>1, <2>2 DEF reduced, reduce_open_order, reduce_close_order, Unopened, Settled, BrokerStatus
  <2>5. st = "CLOSED_FLAT" => Closed(j.event)
    BY Zenon, <2>1, <2>2 DEF reduced, reduce_open_order, reduce_close_order, Closed, Settled, BrokerStatus,
       Phases
  <2>6. JobOK(k)
    BY Zenon, <2>3, <2>4, <2>5 DEF JobOK
  <2> QED
    BY Zenon, <1>2, <1>3, <1>10, <2>6 DEF fresh_bound_truth
<1>11. ASSUME NEW v \in Workers, record_open_transition(v) \/ release_after_close(v)
       PROVE  JobOK(job'[w])
  <2>1. job[v] \in [pc : {"persist", "mark"}, event : Events, phase : Phases, order : Orders,
                    state : LifecycleStates]
    BY <1>0, <1>11, JobShapes DEF record_open_transition, release_after_close, at
  <2>2. JobOK([job[v] EXCEPT !.pc = "mark"])
    BY <2>1 DEF FillInv, JobOK
  <2> QED
    BY Zenon, <1>2, <1>3, <1>4, <1>11, <2>2 DEF record_open_transition, release_after_close
<1>12. ASSUME NEW v \in Workers, recovered_truth(v) \/ mark_reconciled(v) \/ crash(v)
       PROVE  JobOK(job'[w])
  BY Zenon, <1>1, <1>2, <1>3, <1>4, <1>12 DEF recovered_truth, mark_reconciled, crash
<1>13. CASE UNCHANGED job
  BY <1>1, <1>13
<1> QED
  BY ZenonT(30), <1>6, <1>7, <1>8, <1>9, <1>10, <1>11, <1>12, <1>13
  DEF LifecycleNext, WorkerStep, broker_fill, broker_cancel, kernel_authorizes, tick, lifecycle_vars

(* Every step keeps what the orders, the jobs and the rows rest on.        *)
LEMMA FillStep ==
    ASSUME TypeOK, OrderInv, FillInv, [LifecycleNext]_lifecycle_vars
    PROVE  FillInv'
<1>1. ASSUME NEW e PROVE /\ Opened(e) => Opened(e)'
                         /\ Unopened(e) => Unopened(e)'
                         /\ Closed(e) => Closed(e)'
  <2>1. ASSUME NEW phase, NEW status \in {"filled", "canceled"}, NEW qty
        PROVE  Settled(e, phase, status, qty) => Settled(e, phase, status, qty)'
    BY SettledStands
  <2> QED
    BY <2>1 DEF Opened, Unopened, Closed
<1>2. ASSUME NEW o \in Orders PROVE FillOK(o)'
  <2>0. broker[o] \in SomeOrders \cup {Unplaced} /\ Qty \in Nat \ {0}
    BY LifecycleConstants DEF OrderInv
  <2>1. FillOK(o)
    BY DEF FillInv
  <2>2. CASE broker'[o] = broker[o]
    BY Zenon, <1>1, <2>1, <2>2 DEF FillOK, placed, working
  <2>3. ASSUME NEW w \in Workers, at(w, "submit"),
               broker'[o] = [event |-> job[w].event, phase |-> job[w].phase,
                             status |-> "new", filled |-> 0]
        PROVE  FillOK(o)'
    <3>1. job[w].phase = "CLOSE" => Opened(job[w].event)
      BY Zenon, <2>3 DEF FillInv, JobOK, at
    <3> QED
      BY <1>1, <2>0, <2>3, <3>1 DEF FillOK, working
  <2>4. CASE working(o)
    <3>1. placed(o) /\ broker[o] \in SomeOrders
      BY <2>0, <2>4 DEF working, placed, Unplaced
    <3>2. /\ broker[o].filled \in 0..Qty /\ broker[o].filled < Qty
          /\ broker[o].phase = "CLOSE" => Opened(broker[o].event)
      BY <2>1, <2>4, <3>1 DEF FillOK
    <3>3. CASE broker'[o] = [broker[o] EXCEPT !.filled = @ + 1,
                               !.status = IF broker[o].filled + 1 = Qty
                                          THEN "filled" ELSE "partially_filled"]
      <4>1. /\ broker'[o].filled = broker[o].filled + 1
            /\ broker'[o].event = broker[o].event /\ broker'[o].phase = broker[o].phase
            /\ broker'[o].status = IF broker[o].filled + 1 = Qty
                                   THEN "filled" ELSE "partially_filled"
        BY <3>1, <3>3 DEF SomeOrders
      <4> QED
        BY <1>1, <2>0, <3>2, <4>1 DEF FillOK, working
    <3>4. CASE broker'[o] = [broker[o] EXCEPT !.status = "canceled"]
      <4>1. /\ broker'[o].filled = broker[o].filled /\ broker'[o].status = "canceled"
            /\ broker'[o].event = broker[o].event /\ broker'[o].phase = broker[o].phase
        BY <3>1, <3>4 DEF SomeOrders
      <4> QED
        BY Zenon, <1>1, <2>0, <3>2, <4>1 DEF FillOK, working
    <3> QED
      BY ZenonT(30), <2>2, <2>3, <3>3, <3>4, BrokerChange
  <2> QED
    BY ZenonT(30), <2>2, <2>3, <2>4, BrokerChange
<1>3. ASSUME NEW w \in Workers PROVE JobOK(job[w])'
  <2>1. JobOK(job'[w])
    BY JobChange
  <2> QED
    BY Zenon, <1>1, <2>1 DEF JobOK
<1>4. ASSUME NEW e \in Events PROVE RowOK(e)'
  <2>1. permit'[e] = "FILLED" => Opened(e)
    BY RowChange DEF FillInv, RowOK, JobOK, at
  <2>2. reservation'[e] = "RELEASED" => Unopened(e) \/ (Opened(e) /\ Closed(e))
    BY RowChange DEF FillInv, RowOK, JobOK, at
  <2> QED
    BY Zenon, <1>1, <2>1, <2>2 DEF RowOK
<1> QED
  BY <1>2, <1>3, <1>4 DEF FillInv

(* With one order to a phase, the units filled are those of that order.    *)
LEMMA UnitsOfPhase ==
    ASSUME OneOrderPerPhase, NEW o \in Orders, placed(o), broker[o].filled \in Nat
    PROVE  filled_units(broker[o].event, broker[o].phase) = broker[o].filled
<1>1. OrdersOf(broker[o].event, broker[o].phase) = {} \cup {o}
  BY DEF OrdersOf, OneOrderPerPhase
<1>2. filled_qty[o] = broker[o].filled
  BY DEF filled_qty
<1>3. IsFiniteSet({}) /\ Cardinality({}) = 0
  BY FS_EmptySet
<1>4. Total(filled_qty, {}) = 0
  <2>1. Units(filled_qty, {}) = {}
    BY DEF Units
  <2> QED
    BY <1>3, <2>1 DEF Total
<1>5. Total(filled_qty, {} \cup {o}) = Total(filled_qty, {}) + filled_qty[o]
  BY Zenon, <1>2, <1>3, TotalAdds
<1> QED
  BY <1>1, <1>2, <1>4, <1>5 DEF filled_units

(* No order, no units.                                                     *)
LEMMA NoUnits ==
    ASSUME NEW e, NEW phase, \A o \in Orders : placed(o) /\ broker[o].event = e => broker[o].phase # phase
    PROVE  filled_units(e, phase) = 0
<1>1. OrdersOf(e, phase) = {}
  BY DEF OrdersOf
<1>2. Units(filled_qty, {}) = {}
  BY DEF Units
<1>3. Cardinality({}) = 0
  BY FS_EmptySet
<1> QED
  BY <1>1, <1>2, <1>3 DEF filled_units, Total

(* The invariant says what the two properties say.                         *)
LEMMA FillsImplyFlat == OrderInv /\ FillInv => NeverShort /\ ReleasedIsFlat
<1> SUFFICES ASSUME OrderInv, FillInv PROVE NeverShort /\ ReleasedIsFlat
  OBVIOUS
<1>0. OneOrderPerPhase /\ Qty \in Nat
  BY LifecycleConstants DEF OrderInv
<1>1. ASSUME NEW e, NEW phase, NEW status, NEW qty \in Nat, Settled(e, phase, status, qty)
      PROVE  /\ filled_units(e, phase) = qty
             /\ \A o \in Orders : placed(o) /\ broker[o].event = e /\ broker[o].phase = phase =>
                    broker[o].status = status
  BY Zenon, <1>0, <1>1, UnitsOfPhase DEF Settled, OneOrderPerPhase
<1>2. NeverShort
  BY <1>0, <1>1 DEF NeverShort, FillInv, FillOK, Opened
<1>3. ASSUME NEW e \in Events, reservation[e] = "RELEASED"
      PROVE  /\ position(e) = 0
             /\ \A o \in Orders : placed(o) /\ broker[o].event = e => ~working(o)
  <2>0. \A o \in Orders : placed(o) => broker[o].phase \in {"OPEN", "CLOSE"}
    BY Zenon DEF OrderInv, placed, SomeOrders, Phases
  <2>1. CASE Opened(e) /\ Closed(e)
    BY <1>0, <1>1, <2>0, <2>1 DEF Opened, Closed, position, working
  <2>2. CASE Unopened(e)
    <3>1. ~Opened(e)
      BY <1>0, <2>2 DEF Opened, Unopened, Settled, OneOrderPerPhase
    <3>2. \A o \in Orders : placed(o) /\ broker[o].event = e => broker[o].phase # "CLOSE"
      BY Zenon, <3>1 DEF FillInv, FillOK
    <3>3. filled_units(e, "CLOSE") = 0
      BY <3>2, NoUnits
    <3> QED
      BY <1>1, <2>0, <2>2, <3>2, <3>3 DEF Unopened, position, working
  <2> QED
    BY Zenon, <1>3, <2>1, <2>2 DEF FillInv, RowOK
<1> QED
  BY <1>2, <1>3 DEF ReleasedIsFlat

(* The fills, together with the rows and the orders.                       *)
LEMMA FillInvariant == LifecycleSpec => [](OrderInv /\ FillInv)
<1>1. LifecycleInit => FillInv
  BY DEF LifecycleInit, LedgerInit, FillInv, FillOK, JobOK, RowOK, placed, Idle
<1>2. RowsInv /\ OrderInv /\ FillInv /\ [LifecycleNext]_lifecycle_vars => FillInv'
  BY FillStep DEF RowsInv
<1> QED
  BY <1>1, <1>2, LifecycleInvariant, PTL DEF LifecycleSpec

(* A close never sells more than was opened (_require_close_binding), for  *)
(* any number of workers, contracts, crashes and lost acknowledgements.    *)
THEOREM LifecycleNeverShort == LifecycleSpec => []NeverShort
BY FillInvariant, FillsImplyFlat, PTL

(* A reservation is released only when the broker holds nothing for the    *)
(* event: no position, and no order that could still fill                  *)
(* (reconcile_observed_order, release_consumed_after_flat).                *)
THEOREM LifecycleReleasedIsFlat == LifecycleSpec => []ReleasedIsFlat
BY FillInvariant, FillsImplyFlat, PTL

(* The state of the lifecycle is well typed; an order never fills beyond   *)
(* its quantity.                                                           *)
THEOREM LifecycleTyped == LifecycleSpec => []LifecycleTypeOK
<1>1. OrderInv /\ FillInv => broker \in [Orders -> PlacedOrders \cup {Unplaced}]
  <2> SUFFICES ASSUME OrderInv, FillInv, NEW o \in Orders, broker[o] # Unplaced
               PROVE  broker[o] \in PlacedOrders
    BY Zenon DEF OrderInv
  <2>1. broker[o] \in SomeOrders /\ broker[o].filled \in 0..Qty
    BY Zenon DEF OrderInv, FillInv, FillOK, placed
  <2> QED
    BY Zenon, <2>1 DEF SomeOrders, PlacedOrders
<1>2. LifecycleInit => now \in 0..Horizon
  BY LifecycleConstants DEF LifecycleInit
<1>3. now \in 0..Horizon /\ [LifecycleNext]_lifecycle_vars => (now \in 0..Horizon)'
  <2> SUFFICES ASSUME now \in 0..Horizon, [LifecycleNext]_lifecycle_vars PROVE now' \in 0..Horizon
    OBVIOUS
  <2>1. CASE tick
    BY <2>1, LifecycleConstants DEF tick
  <2>2. ASSUME NEW w \in Workers, WorkerStep(w) PROVE UNCHANGED now
    BY ZenonT(30), <2>2 DEF WorkerStep, open, close, recover_open_state, recover_flatness, record_intent,
       broker_submit, bind_ack, record_open_submission, fresh_bound_truth, recovered_truth,
       record_open_transition, release_after_close, mark_reconciled, crash
  <2> QED
    BY ZenonT(30), <2>1, <2>2
    DEF LifecycleNext, broker_fill, broker_cancel, kernel_authorizes, lifecycle_vars
<1>4. RowsInv /\ OrderInv /\ FillInv /\ now \in 0..Horizon => LifecycleTypeOK
  BY Zenon, <1>1 DEF RowsInv, OrderInv, LifecycleTypeOK
<1> QED
  BY <1>2, <1>3, <1>4, LifecycleInvariant, FillInvariant, PTL DEF LifecycleSpec
=============================================================================
