----------------------- MODULE ApplicationServiceProofs -----------------------
(***************************************************************************)
(* What the application service promises for every number of windows,      *)
(* every choice of budgets, faults and restarts: at most one opening and   *)
(* one close per window, terminal proofs that stay true, active lifecycles *)
(* a fresh process can close, no opening under a manual receipt, and no    *)
(* run that stops over exposure without asking for a person.               *)
(*                                                                         *)
(* The inductive invariant says where a window can stand: before its       *)
(* opening is submitted nothing in the broker or the sidecar mentions it,  *)
(* and from then on what each later point of a call relies on is on disk   *)
(* already.                                                                *)
(***************************************************************************)
EXTENDS ApplicationService, TLAPS

Preparing == {"EVIDENCE_CAPTURE", "FEATURE_RECEIPT", "DECISION", "EXPRESSION", "RISK",
              "LIFECYCLE_OPEN"}
Opened == {"MONITORED_EXECUTION", "RECONCILIATION", "JOURNALED", "TERMINAL"}
Closing == {"CLOSE", "CLOSED", "PROVED", "OUTCOME"}
Running == Preparing \cup {"OPENED", "EPISODE"} \cup Opened

Orders == [phase : {"OPEN", "CLOSE"}, window : Windows, status : {"NEW", "FILLED"}]
RunCalls == [pc : Running, window : Windows, observed : Offsets]
CloseCalls == [pc : Closing, window : Windows]
Calls == {Idle} \cup RunCalls \cup CloseCalls

(* The shape of the state.                                                 *)
ServiceTypeOK ==
    /\ claimed \subseteq Windows /\ positions \subseteq Windows
    /\ lifecycle \in [Windows -> {"NONE", "ACTIVE", "TERMINAL_FLAT"}]
    /\ receipts \in [Windows -> {"NONE", "RECONCILED", "MANUAL"}]
    /\ orders \in Seq(Orders)
    /\ call \in Calls

(* Nothing in the broker or the sidecar mentions the window.               *)
Untouched(w) ==
    /\ w \notin positions
    /\ \A n \in DOMAIN orders : orders[n].window # w
    /\ <<"ACTIVE", w>> \notin sidecar /\ <<"TERMINAL", w>> \notin sidecar

(* The window is not claimed, or its run has yet to submit the opening.    *)
Unopened(w) == w \notin claimed \/ (call.pc \in Preparing /\ call.window = w)

UnopenedIsUntouched == \A w \in Windows : Unopened(w) => Untouched(w)

CloseIsIntended ==
    \A n \in DOMAIN orders : orders[n].phase = "CLOSE" => <<"CLOSE", orders[n].window>> \in intents

FilledClose(w) == \E n \in DOMAIN orders : orders[n] = order("CLOSE", w, "FILLED")

(* What the call in progress relies on.                                    *)
CallIsFounded ==
    /\ call # Idle => call.window \in claimed
    /\ call.pc \in Preparing => ~sticky_manual
    /\ call.pc \in {"EPISODE"} \cup Opened => <<"decision", call.window>> \in episodes
    /\ call.pc \in Opened => <<"ACTIVE", call.window>> \in sidecar
    /\ call.pc = "CLOSED" => call.window \notin positions /\ FilledClose(call.window)

ServiceInv ==
    /\ ServiceTypeOK
    /\ UnopenedIsUntouched
    /\ CloseIsIntended
    /\ CallIsFounded
    /\ OrdersAreNotRepeated
    /\ TerminalIsFlat
    /\ ActiveIsClosable
-----------------------------------------------------------------------------
(* Calls                                                                   *)

(* A call's point tells which kind of call it is.                          *)
LEMMA CallShapes ==
    ASSUME NEW c \in Calls
    PROVE  /\ c.pc \in {"idle"} \cup Running \cup Closing
           /\ c.pc = "idle" <=> c = Idle
           /\ c.pc \in Running => c \in RunCalls
           /\ c.pc \in Closing => c \in CloseCalls
BY DEF Calls, RunCalls, CloseCalls, Idle, Running, Preparing, Opened, Closing

(* A call that moves on keeps its window and its kind.                     *)
LEMMA CallGoes ==
    ASSUME call \in Calls, NEW pc,
           \/ call.pc \in Running /\ pc \in Running
           \/ call.pc \in Closing /\ pc \in Closing,
           call' = [call EXCEPT !.pc = pc]
    PROVE  call' \in Calls /\ call'.pc = pc /\ call'.window = call.window /\ call' # Idle
<1>1. CASE call.pc \in Running /\ pc \in Running
  <2>1. call \in RunCalls
    BY Zenon, <1>1, CallShapes
  <2>2. call' \in RunCalls /\ call'.pc = pc /\ call'.window = call.window
    BY <1>1, <2>1 DEF RunCalls
  <2>3. pc # "idle"
    BY <1>1 DEF Running, Preparing, Opened
  <2> QED
    BY <2>2, <2>3 DEF Calls, Idle
<1>2. CASE call.pc \in Closing /\ pc \in Closing
  <2>1. call \in CloseCalls
    BY Zenon, <1>2, CallShapes
  <2>2. call' \in CloseCalls /\ call'.pc = pc /\ call'.window = call.window
    BY <1>2, <2>1 DEF CloseCalls
  <2>3. pc # "idle"
    BY <1>2 DEF Closing
  <2> QED
    BY <2>2, <2>3 DEF Calls, Idle
<1> QED
  BY Zenon, <1>1, <1>2

(* The nine stages by name.                                                *)
LEMMA StageNames ==
    /\ Len(StageOrder) = 9 /\ Stages = 1..9
    /\ StageOrder[1] = "EVIDENCE_CAPTURE" /\ StageOrder[2] = "FEATURE_RECEIPT"
    /\ StageOrder[3] = "DECISION" /\ StageOrder[4] = "EXPRESSION" /\ StageOrder[5] = "RISK"
    /\ StageOrder[6] = "LIFECYCLE_OPEN" /\ StageOrder[7] = "MONITORED_EXECUTION"
    /\ StageOrder[8] = "RECONCILIATION" /\ StageOrder[9] = "TERMINAL"
BY DEF StageOrder, Stages

(* The end of a stage: the call ends, or goes on to the next stage.        *)
LEMMA FinishMoves ==
    ASSUME NEW stage, NEW reason, finish(stage, reason)
    PROVE  \/ call' = Idle
           \/ /\ reason = "OK" /\ stage # 9
              /\ call' = [call EXCEPT !.pc = StageOrder[stage + 1]]
<1>1. PICK elapsed \in Elapses : finish(stage, reason)!(elapsed)
  BY Zenon DEF finish
<1> QED
  BY <1>1, StageNames

(* The end of a stage adds at most one run, of the call's window: complete,*)
(* or stopped for the stage's reason or for its blown budget.              *)
LEMMA FinishRecords ==
    ASSUME NEW stage, NEW reason, finish(stage, reason), NEW r \in runs' \ runs
    PROVE  /\ r.window = call.window
           /\ \/ r.chain = Complete
              \/ reason # "OK" /\ r.circuit = stop(stage, reason)
              \/ r.circuit = stop(stage, "BUDGET_VIOLATION")
<1>1. PICK elapsed \in Elapses : finish(stage, reason)!(elapsed)
  BY Zenon DEF finish
<1> QED
  BY <1>1 DEF record_run
-----------------------------------------------------------------------------
(* The invariant, part by part                                             *)

(* Steps that leave the broker and the claims alone.                       *)
LEMMA QuietStep ==
    ASSUME ServiceInv,
           UNCHANGED <<claimed, orders, positions>>, intents \subseteq intents',
           lifecycle' \in [Windows -> {"NONE", "ACTIVE", "TERMINAL_FLAT"}],
           receipts' \in [Windows -> {"NONE", "RECONCILED", "MANUAL"}],
           call' \in Calls, CallIsFounded',
           call'.pc \in Preparing => call.pc \in Preparing /\ call'.window = call.window,
           \A w \in Windows : Unopened(w) =>
               /\ <<"ACTIVE", w>> \in sidecar' => <<"ACTIVE", w>> \in sidecar
               /\ <<"TERMINAL", w>> \in sidecar' => <<"TERMINAL", w>> \in sidecar,
           TerminalIsFlat', ActiveIsClosable'
    PROVE  ServiceInv'
<1>1. ServiceTypeOK'
  BY Zenon DEF ServiceInv, ServiceTypeOK
<1>2. \A w \in Windows : Unopened(w)' => Unopened(w)
  BY Zenon DEF Unopened
<1>3. UnopenedIsUntouched'
  BY Zenon, <1>2 DEF ServiceInv, UnopenedIsUntouched, Untouched
<1>4. CloseIsIntended' /\ OrdersAreNotRepeated'
  BY Zenon DEF ServiceInv, CloseIsIntended, OrdersAreNotRepeated
<1> QED
  BY Zenon, <1>1, <1>3, <1>4 DEF ServiceInv

(* A step that only moves or ends the call.                                *)
LEMMA CallStep ==
    ASSUME ServiceInv, UNCHANGED <<durable, broker>>,
           call' \in Calls, CallIsFounded',
           call'.pc \in Preparing => call.pc \in Preparing /\ call'.window = call.window
    PROVE  ServiceInv'
<1>1. UNCHANGED <<claimed, lifecycle, sidecar, episodes, receipts, intents, orders, positions>>
  BY Zenon DEF durable, broker
<1>2. TerminalIsFlat' /\ ActiveIsClosable'
  BY Zenon, <1>1 DEF ServiceInv, TerminalIsFlat, ActiveIsClosable
<1>3. /\ lifecycle' \in [Windows -> {"NONE", "ACTIVE", "TERMINAL_FLAT"}]
      /\ receipts' \in [Windows -> {"NONE", "RECONCILED", "MANUAL"}]
  BY Zenon, <1>1 DEF ServiceInv, ServiceTypeOK
<1> QED
  BY Zenon, <1>1, <1>2, <1>3, QuietStep
-----------------------------------------------------------------------------
(* The actions                                                             *)

(* An empty disk, an idle process and a broker that has seen nothing.      *)
LEMMA ServiceInitInv == ServiceInit => ServiceInv
<1> SUFFICES ASSUME ServiceInit PROVE ServiceInv
  OBVIOUS
<1>1. ServiceTypeOK
  BY DEF ServiceInit, ServiceTypeOK, Calls
<1>2. UnopenedIsUntouched /\ CloseIsIntended /\ OrdersAreNotRepeated
  BY DEF ServiceInit, UnopenedIsUntouched, Untouched, CloseIsIntended, OrdersAreNotRepeated
<1>3. CallIsFounded
  BY DEF ServiceInit, CallIsFounded, Idle, Preparing, Opened
<1>4. TerminalIsFlat /\ ActiveIsClosable
  BY DEF ServiceInit, TerminalIsFlat, ActiveIsClosable
<1> QED
  BY Zenon, <1>1, <1>2, <1>3, <1>4 DEF ServiceInv

(* An idle service relies on nothing.                                      *)
LEMMA IdleIsFounded ==
    ASSUME call' = Idle
    PROVE  call' \in Calls /\ call'.pc \notin Preparing /\ CallIsFounded'
<1>1. call'.pc = "idle"
  BY DEF Idle
<1>2. "idle" \notin Preparing \cup {"EPISODE", "CLOSED"} \cup Opened
  BY DEF Preparing, Opened
<1>3. call' \in Calls
  BY Zenon DEF Calls
<1>4. CallIsFounded'
  BY <1>1, <1>2 DEF CallIsFounded, Preparing, Opened
<1> QED
  BY Zenon, <1>1, <1>2, <1>3, <1>4

(* A request: refused at the gates, suppressed, or the window is claimed.  *)
LEMMA RunWindowStep ==
    ASSUME ServiceInv, NEW w \in Windows, NEW offset \in Offsets, run_window(w, offset)
    PROVE  ServiceInv'
<1>1. CASE UNCHANGED <<claimed, call>>
  <2>1. CallIsFounded' /\ call' \in Calls
    BY Zenon, <1>1 DEF run_window, ServiceInv, ServiceTypeOK, CallIsFounded, FilledClose, sticky_manual,
       broker
  <2>2. UNCHANGED <<durable, broker>>
    BY Zenon, <1>1 DEF run_window, durable
  <2> QED
    BY Zenon, <1>1, <2>1, <2>2, CallStep
<1>2. CASE ~UNCHANGED <<claimed, call>>
  <2>1. /\ w \notin claimed /\ ~sticky_manual
        /\ claimed' = claimed \cup {w}
        /\ call' = [pc |-> "EVIDENCE_CAPTURE", window |-> w, observed |-> offset]
        /\ UNCHANGED <<lifecycle, sidecar, episodes, receipts, intents, orders, positions>>
    BY Zenon, <1>2, StageNames DEF run_window, admitted, claim_opportunity, broker
  <2>2. call' \in Calls /\ call'.pc = "EVIDENCE_CAPTURE" /\ call'.window = w
    BY <2>1 DEF Calls, RunCalls, Running, Preparing
  <2>3. ServiceTypeOK'
    BY <2>1, <2>2 DEF ServiceInv, ServiceTypeOK
  <2>4. UnopenedIsUntouched'
    BY Zenon, <2>1, <2>2 DEF ServiceInv, UnopenedIsUntouched, Unopened, Untouched
  <2>5. CallIsFounded'
    BY <2>1, <2>2 DEF CallIsFounded, Opened, sticky_manual
  <2>6. CloseIsIntended' /\ OrdersAreNotRepeated' /\ TerminalIsFlat' /\ ActiveIsClosable'
    BY Zenon, <2>1 DEF ServiceInv, CloseIsIntended, OrdersAreNotRepeated, TerminalIsFlat, ActiveIsClosable
  <2> QED
    BY Zenon, <2>3, <2>4, <2>5, <2>6 DEF ServiceInv
<1> QED
  BY Zenon, <1>1, <1>2

(* The end of a stage: what the next one relies on is there.               *)
LEMMA StageMoves ==
    ASSUME ServiceInv, UNCHANGED <<claimed, receipts>>, call.pc \in Running,
           NEW stage \in 1..9, NEW reason, finish(stage, reason),
           stage # 9 /\ reason = "OK" =>
               /\ StageOrder[stage + 1] \in Preparing => call.pc \in Preparing
               /\ StageOrder[stage + 1] \in Opened =>
                     <<"ACTIVE", call.window>> \in sidecar' /\ <<"decision", call.window>> \in episodes'
    PROVE  /\ call' \in Calls /\ CallIsFounded'
           /\ call'.pc \in Preparing => call.pc \in Preparing /\ call'.window = call.window
<1>1. CASE call' = Idle
  BY Zenon, <1>1, IdleIsFounded
<1>2. CASE call' # Idle
  <2> DEFINE pc == StageOrder[stage + 1]
  <2>1. reason = "OK" /\ stage # 9 /\ call' = [call EXCEPT !.pc = pc]
    BY Zenon, <1>2, FinishMoves
  <2>2. pc \in Running /\ pc \notin {"EPISODE", "CLOSED"}
    BY <2>1, StageNames DEF Running, Preparing, Opened
  <2>3. call \in Calls /\ CallIsFounded
    BY Zenon DEF ServiceInv, ServiceTypeOK
  <2>4. call' \in Calls /\ call'.pc = pc /\ call'.window = call.window
    BY Zenon, <2>1, <2>2, <2>3, CallGoes
  <2>5. call # Idle
    BY DEF Idle, Running, Preparing, Opened
  <2>6. /\ pc \in Preparing => call.pc \in Preparing
        /\ pc \in Opened =>
              <<"ACTIVE", call.window>> \in sidecar' /\ <<"decision", call.window>> \in episodes'
    BY Zenon, <2>1
  <2> HIDE DEF pc
  <2>7. CallIsFounded'
    BY <2>2, <2>3, <2>4, <2>5, <2>6 DEF CallIsFounded, sticky_manual
  <2> QED
    BY Zenon, <2>4, <2>6, <2>7
<1> QED
  BY Zenon, <1>1, <1>2

(* A stage before the opening writes nothing: it moves on or rejects.      *)
LEMMA PrepareStep ==
    ASSUME ServiceInv, NEW stage \in Stages, prepare(stage)
    PROVE  ServiceInv'
<1>1. PICK reason : finish(stage, reason)
  BY Zenon DEF prepare
<1>2. stage \in 1..5 /\ call.pc \in Preparing /\ call.pc \in Running
  BY StageNames DEF prepare, LifecycleOpen, at, Preparing, Running
<1>3. StageOrder[stage + 1] \in Preparing /\ StageOrder[stage + 1] \notin Opened
  BY <1>2, StageNames DEF Preparing, Opened
<1>4. UNCHANGED <<durable, broker>> /\ UNCHANGED <<claimed, receipts>>
  BY Zenon DEF prepare, durable
<1>5. stage \in 1..9
  BY <1>2
<1> QED
  BY Zenon, <1>1, <1>2, <1>3, <1>4, <1>5, StageMoves, CallStep

(* The last stage reports; everything was written before it.               *)
LEMMA TerminalStep ==
    ASSUME ServiceInv, terminal
    PROVE  ServiceInv'
<1>1. finish(9, "OK") /\ call.pc \in Running /\ 9 \in 1..9
  BY StageNames DEF terminal, at, Running, Opened
<1>2. UNCHANGED <<durable, broker>> /\ UNCHANGED <<claimed, receipts>>
  BY Zenon DEF terminal, durable
<1> QED
  BY Zenon, <1>1, <1>2, StageMoves, CallStep

(* The reading of the opening writes the decision episode.                 *)
LEMMA ReadOpenStep ==
    ASSUME ServiceInv, read_open
    PROVE  ServiceInv'
<1>0. /\ call.pc = "OPENED" /\ call.pc \in Running /\ call \in Calls
      /\ UNCHANGED <<claimed, lifecycle, sidecar, receipts, intents, orders, positions>>
  BY DEF read_open, at, Running, ServiceInv, ServiceTypeOK, broker
<1>1. CASE UNCHANGED episodes /\ finish(LifecycleOpen, "OPEN_FAILED")
  <2>1. LifecycleOpen \in 1..9 /\ "OPEN_FAILED" # "OK"
    BY DEF LifecycleOpen
  <2>2. UNCHANGED <<durable, broker>>
    BY Zenon, <1>0, <1>1 DEF read_open, durable, broker
  <2> QED
    BY Zenon, <1>0, <1>1, <2>1, <2>2, StageMoves, CallStep
<1>2. CASE /\ episodes' = episodes \cup {<<"decision", call.window>>}
           /\ call' = [call EXCEPT !.pc = "EPISODE"]
  <2>1. call' \in Calls /\ call'.pc = "EPISODE" /\ call'.window = call.window
    <3>1. "EPISODE" \in Running
      BY DEF Running
    <3> QED
      BY Zenon, <1>0, <1>2, <3>1, CallGoes
  <2>2. call # Idle /\ "EPISODE" \notin Preparing \cup {"CLOSED"} \cup Opened
    BY <1>0 DEF Idle, Preparing, Opened
  <2>3. CallIsFounded'
    BY <1>0, <1>2, <2>1, <2>2 DEF ServiceInv, CallIsFounded
  <2>4. TerminalIsFlat' /\ ActiveIsClosable'
    BY Zenon, <1>0, <1>2 DEF ServiceInv, TerminalIsFlat, ActiveIsClosable
  <2>5. /\ lifecycle' \in [Windows -> {"NONE", "ACTIVE", "TERMINAL_FLAT"}]
        /\ receipts' \in [Windows -> {"NONE", "RECONCILED", "MANUAL"}]
    BY Zenon, <1>0 DEF ServiceInv, ServiceTypeOK
  <2> QED
    BY Zenon, <1>0, <2>1, <2>2, <2>3, <2>4, <2>5, QuietStep
<1> QED
  BY Zenon, <1>1, <1>2 DEF read_open

(* The bundle of the opened lifecycle goes to the sidecar.                 *)
LEMMA AppendActiveStep ==
    ASSUME ServiceInv, append_active
    PROVE  ServiceInv'
<1>0. /\ call.pc = "EPISODE" /\ call.pc \in Running /\ call.pc \notin Preparing
      /\ call \in Calls /\ LifecycleOpen \in 1..9 /\ StageOrder[LifecycleOpen + 1] \notin Preparing
      /\ UNCHANGED <<claimed, lifecycle, episodes, receipts, intents, orders, positions>>
  BY StageNames
  DEF append_active, at, Running, Preparing, ServiceInv, ServiceTypeOK, broker, LifecycleOpen
<1>1. CASE UNCHANGED sidecar /\ finish(LifecycleOpen, "OPEN_FAILED")
  <2>1. "OPEN_FAILED" # "OK"
    OBVIOUS
  <2>2. UNCHANGED <<durable, broker>>
    BY Zenon, <1>0, <1>1 DEF append_active, durable, broker
  <2> QED
    BY Zenon, <1>0, <1>1, <2>1, <2>2, StageMoves, CallStep
<1>2. CASE sidecar' = sidecar \cup {<<"ACTIVE", call.window>>} /\ finish(LifecycleOpen, "OK")
  <2>1. <<"decision", call.window>> \in episodes' /\ call.window \in claimed
    BY <1>0 DEF ServiceInv, CallIsFounded, Idle
  <2>2. call' \in Calls /\ CallIsFounded' /\ call'.pc \notin Preparing
    BY Zenon, <1>0, <1>2, <2>1, StageMoves
  <2>3. TerminalIsFlat' /\ ActiveIsClosable'
    BY <1>0, <1>2 DEF ServiceInv, TerminalIsFlat, ActiveIsClosable
  <2>4. ~Unopened(call.window)
    BY Zenon, <1>0, <2>1 DEF Unopened
  <2>5. \A w \in Windows : Unopened(w) =>
               /\ <<"ACTIVE", w>> \in sidecar' => <<"ACTIVE", w>> \in sidecar
               /\ <<"TERMINAL", w>> \in sidecar' => <<"TERMINAL", w>> \in sidecar
    BY <1>2, <2>4
  <2>6. /\ lifecycle' \in [Windows -> {"NONE", "ACTIVE", "TERMINAL_FLAT"}]
        /\ receipts' \in [Windows -> {"NONE", "RECONCILED", "MANUAL"}]
    BY Zenon, <1>0 DEF ServiceInv, ServiceTypeOK
  <2> QED
    BY Zenon, <1>0, <2>2, <2>3, <2>5, <2>6, QuietStep
<1> QED
  BY Zenon, <1>1, <1>2 DEF append_active

(* The store is told of an ACTIVE lifecycle once its bundle is on disk.    *)
LEMMA MonitoredExecutionStep ==
    ASSUME ServiceInv, monitored_execution
    PROVE  ServiceInv'
<1> DEFINE s == LifecycleOpen + 1
<1>0. /\ call.pc = "MONITORED_EXECUTION" /\ call.pc \in Running /\ call.pc \in Opened
      /\ call \in Calls /\ s \in 1..9 /\ StageOrder[s + 1] \notin Preparing
      /\ UNCHANGED <<claimed, sidecar, episodes, receipts, intents, orders, positions>>
  BY StageNames
  DEF monitored_execution, at, Running, Opened, Preparing, ServiceInv, ServiceTypeOK, broker,
      LifecycleOpen
<1>1. /\ <<"decision", call.window>> \in episodes' /\ <<"ACTIVE", call.window>> \in sidecar'
      /\ call.window \in Windows
  <2>1. call.window \in Windows
    BY <1>0, CallShapes DEF RunCalls
  <2> QED
    BY <1>0, <2>1 DEF ServiceInv, CallIsFounded
<1>2. PICK reason : finish(s, reason)
  BY Zenon DEF monitored_execution
<1>3. call' \in Calls /\ CallIsFounded' /\ call'.pc \notin Preparing
  <2>1. call.pc \notin Preparing
    BY <1>0 DEF Preparing
  <2> HIDE DEF s
  <2> QED
    BY Zenon, <1>0, <1>1, <1>2, <2>1, StageMoves
<1>4. /\ lifecycle' \in [Windows -> {"NONE", "ACTIVE", "TERMINAL_FLAT"}]
      /\ \A w \in Windows \ {call.window} : lifecycle'[w] = lifecycle[w]
  BY <1>1 DEF monitored_execution, ServiceInv, ServiceTypeOK
<1>5. TerminalIsFlat' /\ ActiveIsClosable'
  BY Zenon, <1>0, <1>1, <1>4 DEF ServiceInv, TerminalIsFlat, ActiveIsClosable
<1>6. receipts' \in [Windows -> {"NONE", "RECONCILED", "MANUAL"}]
  BY Zenon, <1>0 DEF ServiceInv, ServiceTypeOK
<1> QED
  BY Zenon, <1>0, <1>3, <1>4, <1>5, <1>6, QuietStep

(* The option journal's receipt: a MANUAL one is read by the next request, *)
(* and no request is in preparation.                                       *)
LEMMA ReconciliationStep ==
    ASSUME ServiceInv, reconciliation
    PROVE  ServiceInv'
<1> DEFINE s == LifecycleOpen + 2
<1>0. /\ call.pc = "RECONCILIATION" /\ call.pc \in Running /\ call.pc \in Opened
      /\ call \in Calls /\ s \in 1..9 /\ StageOrder[s + 1] \notin Preparing
      /\ UNCHANGED <<claimed, lifecycle, sidecar, episodes, intents, orders, positions>>
  BY StageNames
  DEF reconciliation, at, Running, Opened, Preparing, ServiceInv, ServiceTypeOK, broker,
      LifecycleOpen
<1>1. /\ <<"decision", call.window>> \in episodes' /\ <<"ACTIVE", call.window>> \in sidecar'
      /\ call.window \in Windows /\ call.window \in claimed
  <2>1. call.window \in Windows
    BY <1>0, CallShapes DEF RunCalls
  <2> QED
    BY <1>0, <2>1 DEF ServiceInv, CallIsFounded, Idle
<1>2. ASSUME NEW reason, finish(s, reason), UNCHANGED receipts PROVE ServiceInv'
  <2>1. UNCHANGED <<durable, broker>>
    BY Zenon, <1>0, <1>2 DEF reconciliation, durable, broker
  <2> HIDE DEF s
  <2> QED
    BY Zenon, <1>0, <1>1, <1>2, <2>1, StageMoves, CallStep
<1>3. CASE /\ call' = [call EXCEPT !.pc = "JOURNALED"]
           /\ \E state \in {"RECONCILED", "MANUAL"} :
                 receipts' = [receipts EXCEPT ![call.window] = state]
  <2>1. receipts' \in [Windows -> {"NONE", "RECONCILED", "MANUAL"}]
    BY <1>3 DEF ServiceInv, ServiceTypeOK
  <2>2. "JOURNALED" \in Running /\ "JOURNALED" \notin Preparing \cup {"CLOSED"}
    BY DEF Running, Opened, Preparing
  <2>3. call' \in Calls /\ call'.pc = "JOURNALED" /\ call'.window = call.window
    BY Zenon, <1>0, <1>3, <2>2, CallGoes
  <2>4. CallIsFounded'
    BY <1>0, <1>1, <2>2, <2>3 DEF CallIsFounded
  <2>5. TerminalIsFlat' /\ ActiveIsClosable'
    BY Zenon, <1>0 DEF ServiceInv, TerminalIsFlat, ActiveIsClosable
  <2>6. lifecycle' \in [Windows -> {"NONE", "ACTIVE", "TERMINAL_FLAT"}]
    BY Zenon, <1>0 DEF ServiceInv, ServiceTypeOK
  <2> QED
    BY Zenon, <1>0, <2>1, <2>2, <2>3, <2>4, <2>5, <2>6, QuietStep
<1> QED
  BY Zenon, <1>2, <1>3 DEF reconciliation

(* The exposure is recorded once the receipt of the window is in the       *)
(* journal; a manual receipt stops the chain there.                        *)
LEMMA RecordExposureStep ==
    ASSUME ServiceInv, record_exposure
    PROVE  ServiceInv'
<1> DEFINE s == LifecycleOpen + 2
<1>0. /\ call.pc = "JOURNALED" /\ call.pc \in Running /\ call.pc \in Opened
      /\ s \in 1..9 /\ StageOrder[s + 1] \notin Preparing
      /\ UNCHANGED <<claimed, lifecycle, sidecar, episodes, receipts, intents, orders, positions>>
  BY StageNames DEF record_exposure, at, Running, Opened, Preparing, broker, LifecycleOpen
<1>1. <<"decision", call.window>> \in episodes' /\ <<"ACTIVE", call.window>> \in sidecar'
  BY <1>0 DEF ServiceInv, CallIsFounded
<1>2. PICK reason : finish(s, reason)
  BY Zenon DEF record_exposure
<1> HIDE DEF s
<1>3. /\ call' \in Calls /\ CallIsFounded'
      /\ call'.pc \in Preparing => call.pc \in Preparing /\ call'.window = call.window
  BY Zenon, <1>0, <1>1, <1>2, StageMoves
<1>4. TerminalIsFlat' /\ ActiveIsClosable'
  BY Zenon, <1>0 DEF ServiceInv, TerminalIsFlat, ActiveIsClosable
<1>5. /\ lifecycle' \in [Windows -> {"NONE", "ACTIVE", "TERMINAL_FLAT"}]
      /\ receipts' \in [Windows -> {"NONE", "RECONCILED", "MANUAL"}]
  BY Zenon, <1>0 DEF ServiceInv, ServiceTypeOK
<1> QED
  BY Zenon, <1>0, <1>3, <1>4, <1>5, QuietStep

(* A close is accepted for a lifecycle whose bundle is on disk.            *)
LEMMA CloseAuthorityStep ==
    ASSUME ServiceInv, NEW w \in Windows, close_authority(w)
    PROVE  ServiceInv'
<1>0. UNCHANGED <<durable, broker>> /\ call = Idle /\ call \in Calls
  BY Zenon, CallShapes DEF close_authority, at, ServiceInv, ServiceTypeOK
<1>1. CASE UNCHANGED call
  <2>1. CallIsFounded'
    BY Zenon, <1>0, <1>1, IdleIsFounded
  <2> QED
    BY Zenon, <1>0, <1>1, <2>1, CallStep
<1>2. CASE <<"ACTIVE", w>> \in sidecar /\ call' = [pc |-> "CLOSE", window |-> w]
  <2>1. call' \in Calls /\ call'.pc = "CLOSE" /\ call'.window = w
    BY <1>2 DEF Calls, CloseCalls, Closing
  <2>2. w \in claimed
    BY Zenon, <1>2 DEF ServiceInv, UnopenedIsUntouched, Unopened, Untouched
  <2>3. CallIsFounded' /\ call'.pc \notin Preparing
    BY <1>0, <2>1, <2>2 DEF CallIsFounded, Preparing, Opened, durable
  <2> QED
    BY Zenon, <1>0, <2>1, <2>3, CallStep
<1> QED
  BY Zenon, <1>1, <1>2 DEF close_authority

(* The terminal proof is written for a filled close and a flat book.       *)
LEMMA AppendTerminalStep ==
    ASSUME ServiceInv, append_terminal
    PROVE  ServiceInv'
<1>0. /\ call.pc = "CLOSED" /\ call \in Calls /\ call # Idle
      /\ UNCHANGED <<claimed, lifecycle, episodes, receipts, intents, orders, positions>>
  BY DEF append_terminal, at, ServiceInv, ServiceTypeOK, broker, Idle
<1>1. CASE call' = Idle /\ UNCHANGED sidecar
  <2>1. UNCHANGED <<durable, broker>>
    BY Zenon, <1>0, <1>1 DEF append_terminal, durable, broker
  <2> QED
    BY Zenon, <1>1, <2>1, IdleIsFounded, CallStep
<1>2. CASE /\ sidecar' = sidecar \cup {<<"TERMINAL", call.window>>}
           /\ call' = [call EXCEPT !.pc = "PROVED"]
  <2>1. /\ call.window \in claimed /\ call.window \notin positions /\ FilledClose(call.window)
    BY Zenon, <1>0 DEF ServiceInv, CallIsFounded
  <2>2. "CLOSED" \in Closing /\ "PROVED" \in Closing /\ "PROVED" \notin Preparing \cup Opened
    BY DEF Closing, Preparing, Opened
  <2>3. call' \in Calls /\ call'.pc = "PROVED" /\ call'.window = call.window
    BY Zenon, <1>0, <1>2, <2>2, CallGoes
  <2>4. CallIsFounded'
    BY <1>0, <2>1, <2>2, <2>3 DEF CallIsFounded
  <2>5. \A w \in Windows : /\ <<"ACTIVE", w>> \in sidecar' <=> <<"ACTIVE", w>> \in sidecar
                           /\ <<"TERMINAL", w>> \in sidecar' =>
                                 <<"TERMINAL", w>> \in sidecar \/ w = call.window
    BY <1>2
  <2>6. TerminalIsFlat' /\ ActiveIsClosable'
    BY Zenon, <1>0, <2>1, <2>5 DEF ServiceInv, TerminalIsFlat, ActiveIsClosable, FilledClose
  <2>7. ~Unopened(call.window)
    BY <1>0, <2>1 DEF Unopened, Preparing
  <2>8. /\ lifecycle' \in [Windows -> {"NONE", "ACTIVE", "TERMINAL_FLAT"}]
        /\ receipts' \in [Windows -> {"NONE", "RECONCILED", "MANUAL"}]
    BY Zenon, <1>0 DEF ServiceInv, ServiceTypeOK
  <2> QED
    BY Zenon, <1>0, <2>2, <2>3, <2>4, <2>5, <2>6, <2>7, <2>8, QuietStep
<1> QED
  BY Zenon, <1>1, <1>2 DEF append_terminal

(* The outcome episode follows the terminal proof, or its write fails and  *)
(* the call is over.                                                       *)
LEMMA AppendOutcomeStep ==
    ASSUME ServiceInv, append_outcome
    PROVE  ServiceInv'
<1>0. /\ call.pc = "PROVED" /\ call \in Calls /\ call # Idle
      /\ UNCHANGED <<claimed, lifecycle, sidecar, receipts, intents, orders, positions>>
  BY DEF append_outcome, at, ServiceInv, ServiceTypeOK, broker, Idle
<1>1. call' \in Calls /\ call'.pc \notin Preparing /\ CallIsFounded'
  <2>1. CASE call' = Idle
    BY Zenon, <2>1, IdleIsFounded
  <2>2. CASE call' = [call EXCEPT !.pc = "OUTCOME"]
    <3>1. "PROVED" \in Closing /\ "OUTCOME" \in Closing
          /\ "OUTCOME" \notin Preparing \cup Opened
      BY DEF Closing, Preparing, Opened
    <3>2. call' \in Calls /\ call'.pc = "OUTCOME" /\ call'.window = call.window
      BY Zenon, <1>0, <2>2, <3>1, CallGoes
    <3>3. CallIsFounded'
      BY <1>0, <3>1, <3>2 DEF ServiceInv, CallIsFounded
    <3> QED
      BY Zenon, <3>1, <3>2, <3>3
  <2> QED
    BY Zenon, <2>1, <2>2 DEF append_outcome
<1>2. TerminalIsFlat' /\ ActiveIsClosable'
  BY <1>0 DEF append_outcome, ServiceInv, TerminalIsFlat, ActiveIsClosable
<1>3. /\ lifecycle' \in [Windows -> {"NONE", "ACTIVE", "TERMINAL_FLAT"}]
      /\ receipts' \in [Windows -> {"NONE", "RECONCILED", "MANUAL"}]
  BY Zenon, <1>0 DEF ServiceInv, ServiceTypeOK
<1> QED
  BY Zenon, <1>0, <1>1, <1>2, <1>3, QuietStep

(* The lifecycle becomes terminal last, and the call is over.              *)
LEMMA RecordTerminalStep ==
    ASSUME ServiceInv, record_terminal_flat
    PROVE  ServiceInv'
<1>0. UNCHANGED <<claimed, sidecar, episodes, receipts, intents, orders, positions>> /\ call' = Idle
  BY Zenon DEF record_terminal_flat, broker
<1>1. /\ lifecycle' \in [Windows -> {"NONE", "ACTIVE", "TERMINAL_FLAT"}]
      /\ \A w \in Windows : lifecycle'[w] = "ACTIVE" => lifecycle[w] = "ACTIVE"
  BY DEF record_terminal_flat, ServiceInv, ServiceTypeOK
<1>2. TerminalIsFlat' /\ ActiveIsClosable'
  BY Zenon, <1>0, <1>1 DEF ServiceInv, TerminalIsFlat, ActiveIsClosable
<1>3. receipts' \in [Windows -> {"NONE", "RECONCILED", "MANUAL"}]
  BY Zenon, <1>0 DEF ServiceInv, ServiceTypeOK
<1> QED
  BY Zenon, <1>0, <1>1, <1>2, <1>3, IdleIsFounded, QuietStep

(* A new process starts idle over the state it finds.                      *)
LEMMA RestartStep ==
    ASSUME ServiceInv, restart
    PROVE  ServiceInv'
BY Zenon, IdleIsFounded, CallStep DEF restart

-----------------------------------------------------------------------------
(* The two submissions                                                     *)

(* What the broker's book holds after one more order.                      *)
LEMMA OrderRecorded ==
    ASSUME orders \in Seq(Orders), NEW o \in Orders, orders' = Append(orders, o)
    PROVE  /\ orders' \in Seq(Orders)
           /\ DOMAIN orders' = DOMAIN orders \cup {Len(orders) + 1}
           /\ Len(orders) + 1 \notin DOMAIN orders
           /\ \A n \in DOMAIN orders : orders'[n] = orders[n]
           /\ orders'[Len(orders) + 1] = o
OBVIOUS

(* An order that no recorded one equals in phase and window keeps orders   *)
(* unrepeated; proofs of a filled close stay.                              *)
LEMMA OrderAdded ==
    ASSUME ServiceInv, NEW o \in Orders, orders' = Append(orders, o),
           \A n \in DOMAIN orders : orders[n].phase # o.phase \/ orders[n].window # o.window,
           intents \subseteq intents', o.phase = "CLOSE" => <<"CLOSE", o.window>> \in intents'
    PROVE  /\ orders' \in Seq(Orders) /\ OrdersAreNotRepeated' /\ CloseIsIntended'
           /\ \A w \in Windows : FilledClose(w) => FilledClose(w)'
           /\ \A w \in Windows \ {o.window} :
                 (\A n \in DOMAIN orders : orders[n].window # w) =>
                     \A n \in DOMAIN orders' : orders'[n].window # w
           /\ o = order("CLOSE", o.window, "FILLED") => FilledClose(o.window)'
<1> DEFINE k == Len(orders) + 1
<1>1. /\ orders' \in Seq(Orders) /\ DOMAIN orders' = DOMAIN orders \cup {k}
      /\ \A n \in DOMAIN orders : orders'[n] = orders[n]
      /\ orders'[k] = o /\ k \notin DOMAIN orders
  BY Zenon, OrderRecorded DEF ServiceInv, ServiceTypeOK
<1> HIDE DEF k
<1>2. OrdersAreNotRepeated'
  <2> SUFFICES ASSUME NEW m \in DOMAIN orders', NEW n \in DOMAIN orders', m # n
               PROVE  <<orders'[m].phase, orders'[m].window>> # <<orders'[n].phase, orders'[n].window>>
    BY Zenon DEF OrdersAreNotRepeated
  <2>1. CASE m \in DOMAIN orders /\ n \in DOMAIN orders
    BY Zenon, <1>1, <2>1 DEF ServiceInv, OrdersAreNotRepeated
  <2>2. CASE m = k \/ n = k
    BY <1>1, <2>2
  <2> QED
    BY Zenon, <1>1, <2>1, <2>2
<1>3. CloseIsIntended'
  BY Zenon, <1>1 DEF ServiceInv, CloseIsIntended
<1>4. \A w \in Windows : FilledClose(w) => FilledClose(w)'
  BY Zenon, <1>1 DEF FilledClose
<1>5. o = order("CLOSE", o.window, "FILLED") => FilledClose(o.window)'
  BY Zenon, <1>1 DEF FilledClose
<1> QED
  BY Zenon, <1>1, <1>2, <1>3, <1>4, <1>5

(* A passed deadline rejects; otherwise the intent is stored and the       *)
(* opening sent, whatever becomes of it at the broker.                     *)
LEMMA LifecycleOpenStep ==
    ASSUME ServiceInv, lifecycle_open
    PROVE  ServiceInv'
<1> DEFINE w == call.window
<1>0. /\ call.pc = "LIFECYCLE_OPEN" /\ call.pc \in Running /\ call.pc \in Preparing
      /\ call \in Calls /\ call # Idle /\ LifecycleOpen \in 1..9
      /\ UNCHANGED <<claimed, lifecycle, sidecar, episodes, receipts, exposures>>
  BY DEF lifecycle_open, at, Running, Preparing, ServiceInv, ServiceTypeOK, LifecycleOpen, Idle
<1>1. w \in Windows /\ w \in claimed /\ Untouched(w)
  <2>1. w \in Windows
    BY <1>0, CallShapes DEF RunCalls
  <2> QED
    BY Zenon, <1>0, <2>1 DEF ServiceInv, CallIsFounded, UnopenedIsUntouched, Unopened
<1>2. /\ lifecycle' \in [Windows -> {"NONE", "ACTIVE", "TERMINAL_FLAT"}]
      /\ receipts' \in [Windows -> {"NONE", "RECONCILED", "MANUAL"}]
      /\ orders \in Seq(Orders) /\ positions \subseteq Windows
  BY Zenon, <1>0 DEF ServiceInv, ServiceTypeOK
<1>3. ASSUME NEW reason, reason # "OK", finish(LifecycleOpen, reason) PROVE call' = Idle
  BY Zenon, <1>3, FinishMoves
<1>4. ASSUME call' = Idle, UNCHANGED broker, intents \subseteq intents' PROVE ServiceInv'
  <2>1. TerminalIsFlat' /\ ActiveIsClosable'
    BY Zenon, <1>0, <1>4 DEF ServiceInv, TerminalIsFlat, ActiveIsClosable, broker
  <2> QED
    BY Zenon, <1>0, <1>2, <1>4, <2>1, IdleIsFounded, QuietStep DEF broker
<1>5. ASSUME NEW status \in {"NEW", "FILLED"}, record("OPEN", w, status),
             positions' = positions \/ positions' = positions \cup {w},
             intents' = intents \cup {<<"OPEN", w>>},
             call' = Idle \/ call' = [call EXCEPT !.pc = "OPENED"]
      PROVE  ServiceInv'
  <2> DEFINE o == order("OPEN", w, status)
  <2>1. o \in Orders /\ o.phase = "OPEN" /\ o.window = w
    BY <1>1 DEF Orders, order
  <2>2. \A n \in DOMAIN orders : orders[n].window # o.window
    BY Zenon, <1>1, <2>1 DEF Untouched
  <2>3. orders' = Append(orders, o) /\ intents \subseteq intents'
    BY Zenon, <1>5 DEF record
  <2> HIDE DEF o
  <2>4. /\ orders' \in Seq(Orders) /\ OrdersAreNotRepeated' /\ CloseIsIntended'
        /\ \A v \in Windows : FilledClose(v) => FilledClose(v)'
        /\ \A v \in Windows \ {w} :
              (\A n \in DOMAIN orders : orders[n].window # v) =>
                  \A n \in DOMAIN orders' : orders'[n].window # v
    <3>1. "OPEN" # "CLOSE"
      OBVIOUS
    <3> QED
      BY Zenon, <2>1, <2>2, <2>3, <3>1, OrderAdded
  <2>5. call' \in Calls /\ call'.pc \notin Preparing /\ CallIsFounded'
    <3>1. CASE call' = Idle
      BY Zenon, <3>1, IdleIsFounded
    <3>2. CASE call' = [call EXCEPT !.pc = "OPENED"]
      <4>1. "OPENED" \in Running /\ "OPENED" \notin Preparing \cup {"EPISODE", "CLOSED"} \cup Opened
        BY DEF Running, Preparing, Opened
      <4>2. call' \in Calls /\ call'.pc = "OPENED" /\ call'.window = w
        BY Zenon, <1>0, <3>2, <4>1, CallGoes
      <4>3. CallIsFounded'
        BY <1>0, <1>1, <4>1, <4>2 DEF CallIsFounded
      <4> QED
        BY Zenon, <4>1, <4>2, <4>3
    <3> QED
      BY Zenon, <1>5, <3>1, <3>2
  <2>6. ServiceTypeOK'
    <3>1. positions' \subseteq Windows
      BY Zenon, <1>1, <1>2, <1>5
    <3> QED
      BY Zenon, <1>0, <1>2, <2>4, <2>5, <3>1 DEF ServiceInv, ServiceTypeOK
  <2>7. UnopenedIsUntouched'
    <3> SUFFICES ASSUME NEW v \in Windows, Unopened(v)' PROVE Untouched(v)'
      BY Zenon DEF UnopenedIsUntouched
    <3>1. v \notin claimed /\ v # w
      BY Zenon, <1>0, <1>1, <2>5 DEF Unopened
    <3>2. Untouched(v)
      BY Zenon, <3>1 DEF ServiceInv, UnopenedIsUntouched, Unopened
    <3> QED
      BY Zenon, <1>0, <1>5, <2>4, <3>1, <3>2 DEF Untouched
  <2>8. TerminalIsFlat'
    <3> SUFFICES ASSUME NEW v \in Windows, <<"TERMINAL", v>> \in sidecar'
                 PROVE  v \notin positions' /\ FilledClose(v)'
      BY Zenon DEF TerminalIsFlat, FilledClose
    <3>1. v # w /\ v \notin positions /\ FilledClose(v)
      BY Zenon, <1>0, <1>1 DEF ServiceInv, TerminalIsFlat, FilledClose, Untouched
    <3> QED
      BY Zenon, <1>5, <2>4, <3>1
  <2>9. ActiveIsClosable'
    BY Zenon, <1>0 DEF ServiceInv, ActiveIsClosable
  <2> QED
    BY Zenon, <2>4, <2>5, <2>6, <2>7, <2>8, <2>9 DEF ServiceInv
<1>6. CASE deadline_passed(call.observed)
  BY Zenon, <1>3, <1>4, <1>6 DEF lifecycle_open
<1>7. CASE ~deadline_passed(call.observed)
  <2>1. /\ intents' = intents \cup {<<"OPEN", w>>}
        /\ \/ UNCHANGED broker /\ finish(LifecycleOpen, "OPEN_FAILED")
           \/ /\ record("OPEN", w, "NEW") /\ UNCHANGED positions
              /\ finish(LifecycleOpen, "OPEN_AMBIGUOUS_BROKER_STATE")
           \/ /\ record("OPEN", w, "FILLED") /\ positions' = positions \cup {w}
              /\ call' = [call EXCEPT !.pc = "OPENED"]
    BY <1>7 DEF lifecycle_open, submit_open
  <2>2. "OPEN_FAILED" # "OK" /\ "OPEN_AMBIGUOUS_BROKER_STATE" # "OK"
    OBVIOUS
  <2> QED
    BY Zenon, <1>3, <1>4, <1>5, <2>1, <2>2
<1> QED
  BY Zenon, <1>6, <1>7

(* A close is sent with the first intent to close; where one is stored     *)
(* already nothing is sent.                                                *)
LEMMA SubmitExitStep ==
    ASSUME ServiceInv, submit_exit
    PROVE  ServiceInv'
<1> DEFINE w == call.window
<1>0. /\ call.pc = "CLOSE" /\ call \in Calls /\ call # Idle
      /\ UNCHANGED <<claimed, lifecycle, sidecar, episodes, receipts, exposures>>
  BY DEF submit_exit, at, ServiceInv, ServiceTypeOK, Idle
<1>1. w \in Windows /\ w \in claimed
  <2>1. w \in Windows
    BY <1>0, CallShapes DEF CloseCalls, Closing
  <2> QED
    BY Zenon, <1>0, <2>1 DEF ServiceInv, CallIsFounded
<1>2. /\ lifecycle' \in [Windows -> {"NONE", "ACTIVE", "TERMINAL_FLAT"}]
      /\ receipts' \in [Windows -> {"NONE", "RECONCILED", "MANUAL"}]
      /\ orders \in Seq(Orders) /\ positions \subseteq Windows
  BY Zenon, <1>0 DEF ServiceInv, ServiceTypeOK
<1>3. ASSUME call' = Idle, UNCHANGED broker, intents \subseteq intents' PROVE ServiceInv'
  <2>1. TerminalIsFlat' /\ ActiveIsClosable'
    BY Zenon, <1>0, <1>3 DEF ServiceInv, TerminalIsFlat, ActiveIsClosable, broker
  <2> QED
    BY Zenon, <1>0, <1>2, <1>3, <2>1, IdleIsFounded, QuietStep DEF broker
<1>4. ASSUME NEW status \in {"NEW", "FILLED"}, record("CLOSE", w, status),
             positions' = positions \/ positions' = {}, ~close_intended(w),
             intents' = intents \cup {<<"CLOSE", w>>},
             \/ call' = Idle
             \/ /\ call' = [call EXCEPT !.pc = "CLOSED"]
                /\ status = "FILLED" /\ positions' = {}
      PROVE  ServiceInv'
  <2> DEFINE o == order("CLOSE", w, status)
  <2>1. o \in Orders /\ o.phase = "CLOSE" /\ o.window = w
    BY <1>1 DEF Orders, order
  <2>2. \A n \in DOMAIN orders : orders[n].phase # o.phase \/ orders[n].window # o.window
    BY Zenon, <1>4, <2>1 DEF ServiceInv, CloseIsIntended, close_intended
  <2>3. /\ orders' = Append(orders, o) /\ intents \subseteq intents'
        /\ <<"CLOSE", o.window>> \in intents'
    BY Zenon, <1>4, <2>1 DEF record
  <2>4. /\ orders' \in Seq(Orders) /\ OrdersAreNotRepeated' /\ CloseIsIntended'
        /\ \A v \in Windows : FilledClose(v) => FilledClose(v)'
        /\ \A v \in Windows \ {w} :
              (\A n \in DOMAIN orders : orders[n].window # v) =>
                  \A n \in DOMAIN orders' : orders'[n].window # v
        /\ \A v \in Windows : status = "FILLED" /\ v = w => FilledClose(v)'
    <3>1. status = "FILLED" => o = order("CLOSE", o.window, "FILLED")
      BY Zenon, <2>1
    <3> HIDE DEF o
    <3> QED
      BY Zenon, <2>1, <2>2, <2>3, <3>1, OrderAdded
  <2>5. call' \in Calls /\ call'.pc \notin Preparing /\ CallIsFounded'
    <3>1. CASE call' = Idle
      BY Zenon, <3>1, IdleIsFounded
    <3>2. CASE /\ call' = [call EXCEPT !.pc = "CLOSED"]
               /\ status = "FILLED" /\ positions' = {}
      <4>1. /\ "CLOSE" \in Closing /\ "CLOSED" \in Closing
            /\ "CLOSED" \notin Preparing \cup {"EPISODE"} \cup Opened
        BY DEF Closing, Preparing, Opened
      <4>2. call' \in Calls /\ call'.pc = "CLOSED" /\ call'.window = w
        BY Zenon, <1>0, <3>2, <4>1, CallGoes
      <4>3. call'.window \notin positions' /\ FilledClose(call.window)'
        BY <1>1, <2>4, <3>2, <4>2 DEF FilledClose
      <4>4. CallIsFounded'
        BY Zenon, <1>0, <1>1, <4>1, <4>2, <4>3 DEF CallIsFounded
      <4> QED
        BY Zenon, <4>1, <4>2, <4>4
    <3> QED
      BY Zenon, <1>4, <3>1, <3>2
  <2>6. ServiceTypeOK'
    <3>1. positions' \subseteq Windows
      BY Zenon, <1>2, <1>4
    <3> QED
      BY Zenon, <1>0, <1>2, <2>4, <2>5, <3>1 DEF ServiceInv, ServiceTypeOK
  <2>7. UnopenedIsUntouched'
    <3> SUFFICES ASSUME NEW v \in Windows, Unopened(v)' PROVE Untouched(v)'
      BY Zenon DEF UnopenedIsUntouched
    <3>1. v \notin claimed /\ v # w
      BY Zenon, <1>0, <1>1, <2>5 DEF Unopened
    <3>2. Untouched(v)
      BY Zenon, <3>1 DEF ServiceInv, UnopenedIsUntouched, Unopened
    <3> QED
      BY Zenon, <1>0, <1>4, <2>4, <3>1, <3>2 DEF Untouched
  <2>8. TerminalIsFlat'
    BY Zenon, <1>0, <1>4, <2>4 DEF ServiceInv, TerminalIsFlat, FilledClose
  <2>9. ActiveIsClosable'
    BY Zenon, <1>0 DEF ServiceInv, ActiveIsClosable
  <2> QED
    BY Zenon, <2>4, <2>5, <2>6, <2>7, <2>8, <2>9 DEF ServiceInv
<1>5. \/ call' = Idle /\ UNCHANGED broker /\ UNCHANGED intents
      \/ /\ ~close_intended(w) /\ intents' = intents \cup {<<"CLOSE", w>>}
         /\ \/ UNCHANGED broker /\ call' = Idle
            \/ record("CLOSE", w, "NEW") /\ UNCHANGED positions /\ call' = Idle
            \/ record("CLOSE", w, "FILLED") /\ UNCHANGED positions /\ call' = Idle
            \/ /\ record("CLOSE", w, "FILLED") /\ positions' = {}
               /\ call' = [call EXCEPT !.pc = "CLOSED"]
  BY DEF submit_exit, submit_close, closed_flat
<1> QED
  BY Zenon, <1>3, <1>4, <1>5

-----------------------------------------------------------------------------
(* Every step of the service, its restarts included.                       *)
LEMMA ServiceStep == ServiceInv /\ [ServiceNext]_service_vars => ServiceInv'
<1> SUFFICES ASSUME ServiceInv, [ServiceNext]_service_vars PROVE ServiceInv'
  OBVIOUS
<1>1. CASE UNCHANGED service_vars
  <2>1. UNCHANGED <<durable, broker, call>>
    BY Zenon, <1>1 DEF service_vars
  <2>2. call' \in Calls /\ CallIsFounded'
    BY Zenon, <2>1 DEF ServiceInv, ServiceTypeOK, CallIsFounded, FilledClose, sticky_manual, durable, broker
  <2> QED
    BY Zenon, <2>1, <2>2, CallStep
<1>2. CASE \E w \in Windows, offset \in Offsets : run_window(w, offset)
  BY Zenon, <1>2, RunWindowStep
<1>3. CASE \E stage \in Stages : prepare(stage)
  BY Zenon, <1>3, PrepareStep
<1>4. CASE \E w \in Windows : close_authority(w)
  BY Zenon, <1>4, CloseAuthorityStep
<1> QED
  BY Zenon, <1>1, <1>2, <1>3, <1>4, LifecycleOpenStep, ReadOpenStep, AppendActiveStep,
     MonitoredExecutionStep, ReconciliationStep, RecordExposureStep, TerminalStep, SubmitExitStep,
     AppendTerminalStep, AppendOutcomeStep, RecordTerminalStep, RestartStep
  DEF ServiceNext

(* Wherever a process dies and whatever is retried, the service sends one  *)
(* opening and one close per window, its terminal proofs stay true, and an *)
(* ACTIVE lifecycle can be closed from the disk alone: for any windows,    *)
(* offsets, stage durations, option feeds and injected faults.             *)
THEOREM ServiceAccounted == ServiceSpec => []ServiceIsAccounted
<1>1. ServiceInv => ServiceIsAccounted
  BY Zenon DEF ServiceInv, ServiceIsAccounted
<1> QED
  BY <1>1, ServiceInitInv, ServiceStep, PTL DEF ServiceSpec

(* Once the option journal holds a manual receipt no step of the service,  *)
(* of this process or a later one, sends an opening (_sticky_manual).      *)
THEOREM ServiceStickyHolds == ServiceSpec => [][StickyHoldsEntries]_service_vars
<1>1. ASSUME ServiceInv, [ServiceNext]_service_vars PROVE StickyHoldsEntries \/ UNCHANGED service_vars
  <2> SUFFICES ASSUME sticky_manual, ~UNCHANGED service_vars
               PROVE  OpeningsOf(orders') = OpeningsOf(orders)
    BY Zenon DEF StickyHoldsEntries
  <2>1. CASE UNCHANGED broker
    BY Zenon, <2>1 DEF broker
  <2>2. CASE lifecycle_open
    <3>1. call.pc \in Preparing
      BY <2>2 DEF lifecycle_open, at, Preparing
    <3> QED
      BY Zenon, <1>1, <3>1 DEF ServiceInv, CallIsFounded
  <2>3. CASE submit_exit /\ ~UNCHANGED broker
    <3>1. PICK status : record("CLOSE", call.window, status)
      BY <2>3 DEF submit_exit, submit_close, broker
    <3>2. order("CLOSE", call.window, status).phase = "CLOSE"
      BY DEF order
    <3>3. orders \in Seq(Orders)
      BY Zenon, <1>1 DEF ServiceInv, ServiceTypeOK
    <3>4. PICK o : orders' = Append(orders, o) /\ o.phase = "CLOSE"
      BY Zenon, <3>1, <3>2 DEF record
    <3> QED
      BY <3>3, <3>4 DEF OpeningsOf
  <2> QED
    BY Zenon, <1>1, <2>1, <2>2, <2>3
    DEF ServiceNext, run_window, prepare, read_open, append_active, monitored_execution,
        reconciliation, record_exposure, terminal, close_authority, append_terminal,
        append_outcome, record_terminal_flat, restart
<1> QED
  BY <1>1, ServiceInitInv, ServiceStep, PTL DEF ServiceSpec

(* From LIFECYCLE_OPEN on, what can stop a run, its own reason or a blown  *)
(* budget, asks for a person.                                              *)
LEMMA LateStopIsManual ==
    ASSUME NEW stage \in 6..9, NEW reason \in {"OK"} \cup ManualCircuitReasons,
           finish(stage, reason), NEW r \in runs' \ runs, r.chain # Complete
    PROVE  r.circuit = "MANUAL_REQUIRED"
<1>1. \/ reason # "OK" /\ r.circuit = stop(stage, reason)
      \/ r.circuit = stop(stage, "BUDGET_VIOLATION")
  BY Zenon, FinishRecords
<1>2. stop(stage, "BUDGET_VIOLATION") = "MANUAL_REQUIRED"
  BY DEF stop, LifecycleOpen
<1>3. reason # "OK" => stop(stage, reason) = "MANUAL_REQUIRED"
  BY DEF stop, circuit_for, ManualCircuitReasons, FrozenCircuitReasons
<1> QED
  BY Zenon, <1>1, <1>2, <1>3

(* A run that stops with its window's legs in the book, or its opening     *)
(* working, reports MANUAL_REQUIRED: what stops it earlier, the deadline   *)
(* included, leaves nothing of its window at the broker.                   *)
THEOREM ServiceEscalates == ServiceSpec => [][ExposureEscalates]_service_vars
<1>1. ASSUME ServiceInv, [ServiceNext]_service_vars PROVE ExposureEscalates \/ UNCHANGED service_vars
  <2> SUFFICES ASSUME ~UNCHANGED service_vars, NEW r \in runs' \ runs,
                      r.chain \notin {NotClaimed, Complete},
                      \/ r.window \in positions'
                      \/ \E n \in OpeningsOf(orders') : orders'[n] = order("OPEN", r.window, "NEW")
               PROVE  r.circuit = "MANUAL_REQUIRED"
    BY Zenon DEF ExposureEscalates
  <2>1. ASSUME NEW stage, NEW reason, finish(stage, reason), UNCHANGED broker,
               call.pc \in Preparing
        PROVE  FALSE
    <3>1. r.window = call.window
      BY Zenon, <2>1, FinishRecords
    <3>2. call.window \in Windows /\ Unopened(call.window)
      <4>1. call \in RunCalls
        BY Zenon, <1>1, <2>1, CallShapes DEF ServiceInv, ServiceTypeOK, Running
      <4> QED
        BY <2>1, <4>1 DEF RunCalls, Unopened
    <3>3. Untouched(r.window)
      BY Zenon, <1>1, <3>1, <3>2 DEF ServiceInv, UnopenedIsUntouched
    <3>4. order("OPEN", r.window, "NEW").window = r.window
      BY DEF order
    <3> QED
      BY Zenon, <2>1, <3>3, <3>4 DEF Untouched, broker, OpeningsOf
  <2>2. ASSUME NEW stage \in 6..9, NEW reason \in {"OK"} \cup ManualCircuitReasons,
               finish(stage, reason)
        PROVE  r.circuit = "MANUAL_REQUIRED"
    BY Zenon, <2>2, LateStopIsManual
  <2>3. CASE \E w \in Windows, offset \in Offsets : run_window(w, offset)
    <3>1. PICK w \in Windows, offset \in Offsets : run_window(w, offset)
      BY Zenon, <2>3
    <3>2. PICK circuit : r = [window |-> w, chain |-> NotClaimed, circuit |-> circuit]
      BY Zenon, <3>1 DEF run_window, record_run
    <3>3. r.chain = NotClaimed
      BY <3>2
    <3> QED
      BY Zenon, <3>3
  <2>4. CASE \E stage \in Stages : prepare(stage)
    <3>1. PICK stage \in Stages : prepare(stage)
      BY Zenon, <2>4
    <3>2. call.pc \in Preparing
      BY <3>1, StageNames DEF prepare, LifecycleOpen, at, Preparing
    <3> QED
      BY Zenon, <2>1, <3>1, <3>2 DEF prepare
  <2>5. CASE lifecycle_open
    <3>1. call.pc \in Preparing
      BY <2>5 DEF lifecycle_open, at, Preparing
    <3>2. CASE deadline_passed(call.observed)
      BY Zenon, <2>1, <2>5, <3>1, <3>2 DEF lifecycle_open
    <3>3. CASE ~deadline_passed(call.observed)
      <4>1. \/ finish(6, "OPEN_FAILED") \/ finish(6, "OPEN_AMBIGUOUS_BROKER_STATE")
            \/ UNCHANGED records
        BY <2>5, <3>3 DEF lifecycle_open, LifecycleOpen
      <4>2. /\ 6 \in 6..9 /\ "OPEN_FAILED" \in {"OK"} \cup ManualCircuitReasons
            /\ "OPEN_AMBIGUOUS_BROKER_STATE" \in {"OK"} \cup ManualCircuitReasons
        BY DEF ManualCircuitReasons
      <4> QED
        BY Zenon, <2>2, <4>1, <4>2 DEF records
    <3> QED
      BY Zenon, <3>2, <3>3
  <2>6. CASE read_open \/ append_active \/ monitored_execution \/ reconciliation \/ record_exposure
               \/ terminal
    <3>1. \/ UNCHANGED records
          \/ \E stage \in 6..9, reason \in {"OK"} \cup ManualCircuitReasons : finish(stage, reason)
      <4>1. CASE read_open
        BY <4>1 DEF read_open, LifecycleOpen, ManualCircuitReasons
      <4>2. CASE append_active
        BY <4>2 DEF append_active, LifecycleOpen, ManualCircuitReasons
      <4>3. CASE monitored_execution
        BY <4>3 DEF monitored_execution, LifecycleOpen, ManualCircuitReasons
      <4>4. CASE reconciliation
        BY <4>4 DEF reconciliation, LifecycleOpen, ManualCircuitReasons
      <4>5. CASE record_exposure
        BY <4>5 DEF record_exposure, LifecycleOpen, ManualCircuitReasons
      <4>6. CASE terminal
        BY <4>6, StageNames DEF terminal
      <4> QED
        BY Zenon, <2>6, <4>1, <4>2, <4>3, <4>4, <4>5, <4>6
    <3> QED
      BY Zenon, <2>2, <3>1 DEF records
  <2>7. CASE \/ \E w \in Windows : close_authority(w)
             \/ submit_exit \/ append_terminal \/ append_outcome \/ record_terminal_flat \/ restart
    BY Zenon, <2>7
    DEF close_authority, submit_exit, append_terminal, append_outcome, record_terminal_flat, restart,
        records
  <2> QED
    BY Zenon, <1>1, <2>3, <2>4, <2>5, <2>6, <2>7 DEF ServiceNext
<1> QED
  BY <1>1, ServiceInitInv, ServiceStep, PTL DEF ServiceSpec
=============================================================================
