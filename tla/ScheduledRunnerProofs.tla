------------------------ MODULE ScheduledRunnerProofs ------------------------
(***************************************************************************)
(* The scheduled runner never sends a mutation twice, never takes an event *)
(* over from another manifest, never leaves a stopped state, calls flat    *)
(* only what is flat and exposes one event at a time, for any numbers of   *)
(* processes, events, manifests, contracts and faults.                     *)
(***************************************************************************)
EXTENDS ScheduledRunner, TLAPS

-----------------------------------------------------------------------------
(* The inductive invariant                                                 *)

Lifecycle ==
    {"demo", "submit_open", "read_open", "resolve", "cancel", "cancel_call", "close",
     "reread", "submit_close", "read_close", "manual", "flat", "receipt"}

Locked == {"invalid", "stop", "locked", "plan"} \cup Lifecycle

(* A working order still has something to fill, and an order that never    *)
(* was submitted is not there.                                             *)
OrderOK(m, k) ==
    /\ orders[<<m, k>>].status \in {"none", "inflight", "new"} => orders[<<m, k>>].filled = 0
    /\ orders[<<m, k>>].status = "partially_filled" => orders[<<m, k>>].filled < Qty
    /\ orders[<<m, k>>].status = "filled" => orders[<<m, k>>].filled = Qty
    /\ calls[<<m, k>>] = 0 => orders[<<m, k>>].status = "none"

OrdersInv == \A m \in Manifests, k \in OrderKinds : OrderOK(m, k)

(* What was sent to the broker for an event is known to its state file,    *)
(* and a close was sent for a filled opening only.                         *)
StoreInv ==
    \A m \in Manifests :
        /\ \A k \in Mutations : calls[<<m, k>>] > 0 =>
            /\ store[EventOf[m]].life # "NONE"
            /\ store[EventOf[m]].life = "RECONCILING" => store[EventOf[m]].manifest = m
        /\ calls[<<m, "close">>] > 0 => orders[<<m, "open">>].status = "filled"

(* The manifest m has the broker to itself.                                *)
Alone(m) ==
    \A n \in Manifests : n # m =>
        /\ ~exposed(n)
        /\ EventOf[n] = EventOf[m] => \A k \in Mutations : calls[<<n, k>>] = 0

(* The state file says that m is being reconciled, unless it is damaged.   *)
Reconciles(m) ==
    LET s == store[EventOf[m]]
    IN  s.life = "INVALID" \/ (s.life = "RECONCILING" /\ s.manifest = m)

Unsent(m, k) == calls[<<m, k>>] = 0 /\ <<m, k>> \in claims

(* What the locals j of a process p say of the files and of the broker.    *)
ProcOK(p, j) ==
    /\ j.pc \in Locked => lock = p
    /\ j.pc = "plan" => store[EventOf[j.m]].life \in {"NONE", "RECONCILING", "INVALID"}
    /\ j.pc \in Lifecycle => Reconciles(j.m)
    /\ j.pc \in Lifecycle \cup {"plan"} => Alone(j.m)
    /\ j.pc = "submit_open" => Unsent(j.m, "open")
    /\ j.pc = "cancel_call" => Unsent(j.m, "cancel")
    /\ j.pc = "submit_close" => Unsent(j.m, "close")
    /\ j.pc \in {"close", "submit_close", "read_close"} =>
            orders[<<j.m, "open">>].status = "filled"
    /\ j.pc \in {"flat", "receipt"} => ~exposed(j.m)

FilesInv == OrdersInv /\ StoreInv /\ OneAttemptEach /\ TerminalIsFlat /\ OneEventExposed
ProcInv == \A p \in Procs : ProcOK(p, proc[p])
RunnerInv == RunnerTypeOK /\ FilesInv /\ OneManifestPerEvent /\ ProcInv

-----------------------------------------------------------------------------
(* Lemmas                                                                  *)

(* The locals an invocation has at each point.                             *)
LEMMA Shapes ==
    ASSUME NEW j \in Invocations
    PROVE  /\ j.pc # "idle" => j.m \in Manifests
           /\ j.pc \in {"own", "others", "expired", "invalid_lock", "invalid", "stop_lock",
                        "stop", "lock", "locked", "plan"} => j.at \in 0..Horizon
           /\ j.pc = "plan" => j.restart \in BOOLEAN
           /\ j.pc \in {"flat", "receipt"} => j.outcome \in Terminal
  BY DEF Invocations, Idle

(* Exposure is a matter of the orders of the manifest alone.               *)
LEMMA ExposedSame ==
    ASSUME NEW m \in Manifests, \A k \in OrderKinds : orders'[<<m, k>>] = orders[<<m, k>>]
    PROVE  exposed(m)' <=> exposed(m)
  BY DEF exposed, position, OrderKinds

(* Nothing was ever sent: nothing is exposed.                              *)
LEMMA UnsentIsFlat ==
    ASSUME OrdersInv, NEW m \in Manifests, \A k \in Mutations : calls[<<m, k>>] = 0
    PROVE  ~exposed(m)
  BY DEF OrdersInv, OrderOK, exposed, position, OrderKinds, Mutations

(* The process that holds the lock is the only one past it.                *)
LEMMA OthersAreOut ==
    ASSUME ProcInv, RunnerTypeOK, NEW p \in Procs, lock = p, NEW q \in Procs, q # p
    PROVE  proc[q].pc \notin Locked
  BY Zenon DEF ProcInv, ProcOK

(* Nothing is asked of an invocation that is not under the lock.           *)
LEMMA OutsideOK ==
    ASSUME NEW p \in Procs, proc'[p].pc \notin Locked
    PROVE  ProcOK(p, proc[p])'
<1>1. /\ proc'[p].pc \notin Lifecycle \cup {"plan"}
      /\ proc'[p].pc \notin {"submit_open", "cancel_call", "submit_close", "close", "read_close",
                             "flat", "receipt"}
  BY DEF Locked, Lifecycle
<1> QED
  BY <1>1 DEF ProcOK

(* Nor of one that ended.                                                  *)
LEMMA IdleOK ==
    ASSUME NEW p \in Procs, proc'[p] = Idle
    PROVE  ProcOK(p, proc[p])'
<1>1. proc'[p].pc \notin Locked
  BY DEF Idle, Locked, Lifecycle
<1> QED
  BY <1>1, OutsideOK

(* What an invocation that makes no step knows, it still knows.            *)
LEMMA ProcKept ==
    ASSUME RunnerInv, NEW q \in Procs, proc'[q] = proc[q], UNCHANGED <<lock, claims, calls>>,
           \A m \in Manifests :
                /\ Alone(m) => Alone(m)'
                /\ Reconciles(m) => Reconciles(m)'
                /\ store'[EventOf[m]] = store[EventOf[m]] \/ store'[EventOf[m]].life = "INVALID"
                /\ orders[<<m, "open">>].status = "filled" => orders'[<<m, "open">>].status = "filled"
                /\ ~exposed(m) => ~exposed(m)'
    PROVE  ProcOK(q, proc[q])'
<1>1. CASE proc[q].pc \notin Locked
  BY <1>1, OutsideOK
<1>2. CASE proc[q].pc \in Locked
  <2>1. ProcOK(q, proc[q]) /\ proc[q] \in Invocations /\ proc[q].pc # "idle"
    BY <1>2 DEF RunnerInv, ProcInv, RunnerTypeOK, Locked, Lifecycle
  <2>2. PICK m \in Manifests : m = proc[q].m
    BY <2>1, Shapes
  <2>3. \A k : Unsent(m, k) => Unsent(m, k)'
    BY DEF Unsent
  <2> QED
    BY ZenonT(30), <2>1, <2>2, <2>3 DEF ProcOK
<1> QED
  BY <1>1, <1>2

(* While the broker is left alone, exposure, orders and calls are the      *)
(* same, and more markers do no harm.                                      *)
LEMMA BrokerSame ==
    ASSUME RunnerInv, UNCHANGED broker, claims \subseteq claims'
    PROVE  /\ \A m \in Manifests : (exposed(m)' <=> exposed(m)) /\ (Alone(m)' <=> Alone(m))
           /\ OrdersInv' /\ OneAttemptEach' /\ OneEventExposed' /\ OneManifestPerEvent'
<1>1. orders' = orders /\ calls' = calls
  BY DEF broker
<1>2. \A m \in Manifests : exposed(m)' <=> exposed(m)
  BY <1>1, ExposedSame
<1>3. \A m \in Manifests : Alone(m)' <=> Alone(m)
  BY <1>1, <1>2 DEF Alone
<1>4. OrdersInv'
  BY <1>1, Zenon DEF RunnerInv, FilesInv, OrdersInv, OrderOK
<1>5. OneAttemptEach'
  BY <1>1 DEF RunnerInv, FilesInv, OneAttemptEach
<1>6. OneEventExposed'
  BY <1>2 DEF RunnerInv, FilesInv, OneEventExposed
<1>7. OneManifestPerEvent'
  BY <1>1 DEF RunnerInv, OneManifestPerEvent
<1> QED
  BY <1>2, <1>3, <1>4, <1>5, <1>6, <1>7

(* While the state files are left alone too, they stay right.              *)
LEMMA FilesSame ==
    ASSUME RunnerInv, UNCHANGED <<store, broker>>, claims \subseteq claims'
    PROVE  FilesInv' /\ OneManifestPerEvent'
<1>1. StoreInv'
  BY Zenon DEF RunnerInv, FilesInv, StoreInv, broker
<1>2. TerminalIsFlat'
  BY BrokerSame DEF RunnerInv, FilesInv, TerminalIsFlat
<1> QED
  BY <1>1, <1>2, BrokerSame DEF FilesInv

(* A state file may be written for m when what it will say is true.        *)
LEMMA FileWritten ==
    ASSUME RunnerInv, NEW m \in Manifests, NEW life \in Lifecycles \ {"NONE"}, write(m, life),
           UNCHANGED <<claims, broker>>,
           life = "RECONCILING" => Alone(m),
           life \in Terminal => Alone(m) /\ ~exposed(m)
    PROVE  /\ store' \in [Events -> [life : Lifecycles, manifest : Manifests \cup {NoManifest}]]
           /\ store'[EventOf[m]] = [life |-> life, manifest |-> m]
           /\ FilesInv' /\ OneManifestPerEvent'
<1>1. store \in [Events -> [life : Lifecycles, manifest : Manifests \cup {NoManifest}]]
      /\ EventOf \in [Manifests -> Events]
  BY ScheduleConstants DEF RunnerInv, RunnerTypeOK
<1>2. /\ store' \in [Events -> [life : Lifecycles, manifest : Manifests \cup {NoManifest}]]
      /\ store'[EventOf[m]] = [life |-> life, manifest |-> m]
      /\ \A e \in Events : e # EventOf[m] => store'[e] = store[e]
  BY <1>1 DEF write
<1>3. calls' = calls /\ orders' = orders
  BY DEF broker
<1>4. ASSUME NEW n \in Manifests
      PROVE  /\ \A k \in Mutations : calls'[<<n, k>>] > 0 =>
                  /\ store'[EventOf[n]].life # "NONE"
                  /\ store'[EventOf[n]].life = "RECONCILING" => store'[EventOf[n]].manifest = n
             /\ store'[EventOf[n]].life \in Terminal => ~exposed(n)
  <2>1. CASE EventOf[n] # EventOf[m]
    <3>1. store'[EventOf[n]] = store[EventOf[n]]
      BY <1>1, <1>2, <2>1
    <3> QED
      BY <1>3, <3>1, Zenon DEF RunnerInv, FilesInv, StoreInv, TerminalIsFlat
  <2>2. CASE EventOf[n] = EventOf[m]
    <3>1. store'[EventOf[n]].life = life /\ store'[EventOf[n]].manifest = m
      BY <1>2, <2>2
    <3>2. n # m /\ Alone(m) => ~exposed(n) /\ \A k \in Mutations : calls[<<n, k>>] = 0
      BY <2>2 DEF Alone
    <3>3. ASSUME NEW k \in Mutations, calls'[<<n, k>>] > 0, life = "RECONCILING" PROVE n = m
      BY <1>3, <3>2, <3>3
    <3> QED
      BY <3>1, <3>2, <3>3
  <2> QED
    BY <2>1, <2>2
<1>5. TerminalIsFlat'
  BY <1>4, BrokerSame DEF TerminalIsFlat
<1>6. \A n \in Manifests : calls'[<<n, "close">>] > 0 => orders'[<<n, "open">>].status = "filled"
  BY <1>3 DEF RunnerInv, FilesInv, StoreInv
<1>7. StoreInv'
  BY <1>4, <1>6, Zenon DEF StoreInv
<1> QED
  BY <1>2, <1>5, <1>7, BrokerSame DEF FilesInv

(* A step of p that leaves files, lock and broker alone has to justify its *)
(* own locals only.                                                        *)
LEMMA LocalStep ==
    ASSUME RunnerInv, NEW p \in Procs, UNCHANGED <<files, lock, broker>>,
           proc' \in [Procs -> Invocations],
           \A q \in Procs : q # p => proc'[q] = proc[q],
           now' \in 0..Horizon, faults' \in 0..MaxFaults,
           ProcOK(p, proc[p])'
    PROVE  RunnerInv'
<1>1. RunnerTypeOK'
  BY DEF RunnerInv, RunnerTypeOK, files, broker
<1>2. UNCHANGED <<store, claims, orders, calls>>
  BY DEF files, broker
<1>3. FilesInv' /\ OneManifestPerEvent'
  BY <1>2, FilesSame
<1>4. \A m \in Manifests : Reconciles(m) => Reconciles(m)'
  BY <1>2 DEF Reconciles
<1>5. ASSUME NEW q \in Procs, q # p PROVE ProcOK(q, proc[q])'
  BY Zenon, <1>2, <1>4, <1>5, BrokerSame, ProcKept
<1> QED
  BY <1>1, <1>3, <1>5 DEF RunnerInv, ProcInv

(* A step of the process that holds the lock has to justify its own locals *)
(* and what it wrote.                                                      *)
LEMMA LockedStep ==
    ASSUME RunnerInv, NEW p \in Procs, lock = p, lock' \in {p, NoProc},
           \A q \in Procs : q # p => proc'[q] = proc[q],
           RunnerTypeOK', FilesInv', OneManifestPerEvent',
           ProcOK(p, proc[p])'
    PROVE  RunnerInv'
<1>1. ASSUME NEW q \in Procs, q # p PROVE ProcOK(q, proc[q])'
  <2>1. proc'[q].pc \notin Locked
    BY <1>1, OthersAreOut DEF RunnerInv
  <2> QED
    BY <2>1, OutsideOK
<1> QED
  BY <1>1 DEF RunnerInv, ProcInv

-----------------------------------------------------------------------------
(* The steps                                                               *)

(* Before the lock nothing is held and nothing is known.                   *)
LEMMA UnlockedSteps ==
    ASSUME RunnerInv, NEW p \in Procs,
           \/ \E m \in Manifests : invoke(p, m)
           \/ check_own(p) \/ check_others(p) \/ check_expired(p)
    PROVE  RunnerInv'
<1>0. /\ proc \in [Procs -> Invocations] /\ proc[p] \in Invocations
      /\ now \in 0..Horizon /\ faults \in 0..MaxFaults
  BY DEF RunnerInv, RunnerTypeOK
<1>1. PICK j \in {Idle} \cup [pc : {"own", "others", "expired", "invalid_lock", "stop_lock", "lock"},
                               m : Manifests, at : 0..Horizon] : proc' = [proc EXCEPT ![p] = j]
  <2>1. CASE \E m \in Manifests : invoke(p, m)
    BY <1>0, <2>1, Zenon DEF invoke, become
  <2>2. CASE check_own(p) \/ check_others(p) \/ check_expired(p)
    <3>1. proc[p].m \in Manifests /\ proc[p].at \in 0..Horizon
      BY <1>0, <2>2, Shapes, Zenon DEF check_own, check_others, check_expired, at
    <3>2. CASE check_own(p)
      BY <3>1, <3>2 DEF check_own, goto, exit, become
    <3>3. CASE check_others(p)
      <4>1. others_verdict(proc[p].m) \in {"pass", "invalid", "overlap"}
        BY DEF others_verdict
      <4> QED
        BY <3>1, <3>3, <4>1, Zenon DEF check_others, route, goto, exit, become
    <3>4. CASE check_expired(p)
      BY Zenon, <3>1, <3>4 DEF check_expired, goto, exit, become
    <3> QED
      BY <2>2, <3>2, <3>3, <3>4
  <2> QED
    BY <2>1, <2>2
<1>2. j \in Invocations /\ j.pc \notin Locked
  BY <1>1 DEF Invocations, Idle, Locked, Lifecycle
<1>3. UNCHANGED <<files, lock, broker, now, faults>>
  BY Zenon DEF invoke, check_own, check_others, check_expired
<1>4. /\ proc' \in [Procs -> Invocations] /\ proc'[p] = j
      /\ \A q \in Procs : q # p => proc'[q] = proc[q]
  BY <1>0, <1>1, <1>2
<1>5. ProcOK(p, proc[p])'
  BY Zenon, <1>2, <1>4 DEF ProcOK, Locked, Lifecycle
<1> QED
  BY <1>0, <1>3, <1>4, <1>5, LocalStep

(* Taking the lock finds nobody past it.                                   *)
LEMMA AcquireStep ==
    ASSUME RunnerInv, NEW p \in Procs,
           \/ acquire(p, "invalid_lock", "invalid") \/ acquire(p, "stop_lock", "stop")
           \/ acquire(p, "lock", "locked")
    PROVE  RunnerInv'
<1>0. /\ RunnerTypeOK /\ proc \in [Procs -> Invocations] /\ proc[p] \in Invocations
      /\ proc[p].m \in Manifests /\ proc[p].at \in 0..Horizon
  BY Shapes DEF RunnerInv, RunnerTypeOK, acquire, at
<1>1. CASE lock # NoProc
  <2>1. proc' = [proc EXCEPT ![p] = Idle] /\ UNCHANGED <<files, lock, broker, now, faults>>
    BY <1>1 DEF acquire, exit, become
  <2>2. /\ proc' \in [Procs -> Invocations] /\ proc'[p] = Idle
        /\ \A q \in Procs : q # p => proc'[q] = proc[q]
    BY <1>0, <2>1 DEF Invocations
  <2>3. ProcOK(p, proc[p])'
    BY <2>2, IdleOK
  <2> QED
    BY <1>0, <2>1, <2>2, <2>3, LocalStep DEF RunnerTypeOK
<1>2. CASE lock = NoProc
  <2>1. PICK pc \in {"invalid", "stop", "locked"} :
            proc' = [proc EXCEPT ![p] = [pc |-> pc, m |-> proc[p].m, at |-> proc[p].at]]
    BY <1>2 DEF acquire, goto, become
  <2>2. lock' = p /\ UNCHANGED <<files, broker, now, faults>>
    BY <1>2 DEF acquire
  <2>3. /\ proc' \in [Procs -> Invocations]
        /\ proc'[p] = [pc |-> pc, m |-> proc[p].m, at |-> proc[p].at]
        /\ \A q \in Procs : q # p => proc'[q] = proc[q]
    BY <1>0, <2>1 DEF Invocations
  <2>4. RunnerTypeOK'
    BY Zenon, <1>0, <2>2, <2>3 DEF RunnerTypeOK, files, broker
  <2>5. FilesInv' /\ OneManifestPerEvent'
    BY <2>2, FilesSame DEF files
  <2>6. ASSUME NEW q \in Procs PROVE ProcOK(q, proc[q])'
    <3>1. CASE q = p
      BY <2>2, <2>3, <3>1 DEF ProcOK, Locked, Lifecycle
    <3>2. CASE q # p
      <4>1. proc[q].pc \notin Locked
        BY <1>2, ScheduleConstants, Zenon DEF RunnerInv, ProcInv, ProcOK
      <4> QED
        BY <2>3, <3>2, <4>1, OutsideOK
    <3> QED
      BY <3>1, <3>2
  <2> QED
    BY <2>4, <2>5, <2>6 DEF RunnerInv, ProcInv
<1> QED
  BY <1>1, <1>2

(* What _existing_state_result lets pass, and when it answers invalid.     *)
LEMMA Verdicts ==
    ASSUME RunnerTypeOK, NEW m \in Manifests
    PROVE  /\ existing_state_result(m) = "pass" =>
                /\ \/ store[EventOf[m]].life = "NONE"
                   \/ store[EventOf[m]].life = "RECONCILING" /\ store[EventOf[m]].manifest = m
                /\ \A e \in Events : e # EventOf[m] => store[e].life \in Terminal \cup {"NONE"}
           /\ existing_state_result(m) = "invalid" =>
                store[EventOf[m]].life \in {"NONE", "RECONCILING", "INVALID"}
<1> DEFINE s == store[EventOf[m]]
<1>1. s.life \in Lifecycles
  BY ScheduleConstants DEF RunnerTypeOK
<1>2. /\ own_verdict(m) = "pass" =>
            s.life = "NONE" \/ (s.life = "RECONCILING" /\ s.manifest = m)
      /\ own_verdict(m) = "invalid" => s.life = "INVALID"
  BY Zenon, <1>1 DEF own_verdict, Lifecycles, Terminal
<1>3. others_verdict(m) = "pass" =>
        \A e \in Events : e # EventOf[m] => store[e].life \in Terminal \cup {"NONE"}
  BY DEF others_verdict
<1> QED
  BY Zenon, <1>2, <1>3 DEF existing_state_result

(* So the event that passes has the broker to itself.                      *)
LEMMA PassIsAlone ==
    ASSUME RunnerInv, NEW m \in Manifests, existing_state_result(m) = "pass"
    PROVE  Alone(m)
<1> SUFFICES ASSUME NEW n \in Manifests, n # m
             PROVE  /\ ~exposed(n)
                    /\ EventOf[n] = EventOf[m] => \A k \in Mutations : calls[<<n, k>>] = 0
  BY DEF Alone
<1>0. \A k \in Mutations : calls[<<n, k>>] \in Nat
  BY DEF RunnerInv, RunnerTypeOK
<1>1. EventOf[n] \in Events /\ EventOf[m] \in Events
  BY ScheduleConstants
<1>2. CASE store[EventOf[n]].life \in Terminal
  <2>1. EventOf[n] # EventOf[m]
    BY <1>2, Verdicts DEF RunnerInv, Terminal
  <2> QED
    BY <1>2, <2>1 DEF RunnerInv, FilesInv, TerminalIsFlat
<1>3. CASE store[EventOf[n]].life \notin Terminal
  <2>1. \/ store[EventOf[n]].life = "NONE"
        \/ store[EventOf[n]].life = "RECONCILING" /\ store[EventOf[n]].manifest = m
    BY <1>1, <1>3, Verdicts DEF RunnerInv
  <2>2. ASSUME NEW k \in Mutations PROVE calls[<<n, k>>] = 0
    <3>1. ~(calls[<<n, k>>] > 0)
      BY <2>1, Zenon DEF RunnerInv, FilesInv, StoreInv
    <3> QED
      BY <1>0, <3>1
  <2> QED
    BY <2>2, UnsentIsFlat DEF RunnerInv, FilesInv
<1> QED
  BY <1>2, <1>3

(* The lock is given back and nothing is written.                          *)
LEMMA LeaveStep ==
    ASSUME RunnerInv, NEW p \in Procs, lock = p, lock' = NoProc,
           UNCHANGED <<files, broker, now, faults>>,
           proc' \in [Procs -> Invocations], proc'[p].pc \notin Locked,
           \A q \in Procs : q # p => proc'[q] = proc[q]
    PROVE  RunnerInv'
<1>1. RunnerTypeOK'
  BY DEF RunnerInv, RunnerTypeOK, files, broker
<1>2. FilesInv' /\ OneManifestPerEvent'
  BY FilesSame DEF files
<1>3. ProcOK(p, proc[p])'
  BY OutsideOK
<1> QED
  BY <1>1, <1>2, <1>3, LockedStep

(* So does an invocation that leaves without a word.                       *)
LEMMA ExitStep ==
    ASSUME RunnerInv, NEW p \in Procs, lock = p, leave(p)
    PROVE  RunnerInv'
<1>1. /\ proc' = [proc EXCEPT ![p] = Idle] /\ lock' = NoProc
      /\ UNCHANGED <<files, broker, now, faults>>
  BY DEF leave, exit, become, release
<1>2. /\ proc' \in [Procs -> Invocations] /\ proc'[p].pc \notin Locked
      /\ \A q \in Procs : q # p => proc'[q] = proc[q]
  BY Zenon, <1>1 DEF RunnerInv, RunnerTypeOK, Invocations, Idle, Locked, Lifecycle
<1> QED
  BY <1>1, <1>2, LeaveStep

(* Stopping for a human keeps everything the files say.                    *)
LEMMA ManualStep ==
    ASSUME RunnerInv, NEW p \in Procs, lock = p, proc[p].m \in Manifests, stop_for_manual(p)
    PROVE  RunnerInv'
<1> DEFINE m == proc[p].m
<1>1. /\ proc' = [proc EXCEPT ![p] = Idle] /\ lock' = NoProc
      /\ store' = [store EXCEPT ![EventOf[m]] = [life |-> "MANUAL_RECONCILIATION", manifest |-> m]]
      /\ UNCHANGED <<claims, broker, now, faults>>
  BY DEF stop_for_manual, write, exit, become, release
<1>2. /\ proc' \in [Procs -> Invocations] /\ proc'[p] = Idle
      /\ \A q \in Procs : q # p => proc'[q] = proc[q]
  BY Zenon, <1>1 DEF Invocations, RunnerInv, RunnerTypeOK
<1>3. RunnerTypeOK'
  BY Zenon, <1>1, <1>2, ScheduleConstants DEF RunnerInv, RunnerTypeOK, Lifecycles, broker
<1>4. FilesInv' /\ OneManifestPerEvent'
  <2>1. write(m, "MANUAL_RECONCILIATION") /\ "MANUAL_RECONCILIATION" \in Lifecycles \ {"NONE"}
        /\ "MANUAL_RECONCILIATION" \notin Terminal
    BY DEF stop_for_manual, Lifecycles, Terminal
  <2> QED
    BY Zenon, <1>1, <2>1, FileWritten
<1>5. ProcOK(p, proc[p])'
  BY <1>2, IdleOK
<1> QED
  BY Zenon, <1>1, <1>2, <1>3, <1>4, <1>5, LockedStep

(* The checks repeated under the lock.                                     *)
LEMMA RecheckSteps ==
    ASSUME RunnerInv, NEW p \in Procs, recheck_invalid(p) \/ stop_expired(p) \/ recheck_locked(p)
    PROVE  RunnerInv'
<1> DEFINE m == proc[p].m
<1>0. /\ RunnerTypeOK /\ proc \in [Procs -> Invocations] /\ proc[p] \in Invocations
      /\ ProcOK(p, proc[p]) /\ proc[p].pc \in {"invalid", "stop", "locked"}
  BY DEF RunnerInv, RunnerTypeOK, ProcInv, recheck_invalid, stop_expired, recheck_locked, at
<1>1. m \in Manifests /\ proc[p].at \in 0..Horizon /\ lock = p
  BY Zenon, <1>0, Shapes DEF ProcOK, Locked
<1>2. CASE stop_for_manual(p)
  BY <1>1, <1>2, ManualStep
<1>3. CASE leave(p)
  BY <1>1, <1>3, ExitStep
<1>4. CASE route(p) /\ release /\ UNCHANGED <<files, broker, now, faults>>
  <2>1. PICK pc \in {"lock", "expired"} :
            proc' = [proc EXCEPT ![p] = [pc |-> pc, m |-> m, at |-> proc[p].at]]
    BY <1>4, Zenon DEF route, goto, become
  <2>2. /\ proc' \in [Procs -> Invocations] /\ proc'[p].pc \notin Locked
        /\ \A q \in Procs : q # p => proc'[q] = proc[q]
    BY Zenon, <1>0, <1>1, <2>1 DEF Invocations, Locked, Lifecycle
  <2> QED
    BY Zenon, <1>1, <1>4, <2>2, LeaveStep DEF release
<1>5. CASE /\ recheck_locked(p) /\ existing_state_result(m) = "pass"
           /\ UNCHANGED <<files, lock, broker, now, faults>>
           /\ become(p, [pc |-> "plan", m |-> m, at |-> proc[p].at,
                         restart |-> store[EventOf[m]].life = "RECONCILING"])
  <2>1. /\ proc' \in [Procs -> Invocations] /\ proc'[p].pc = "plan" /\ proc'[p].m = m
        /\ \A q \in Procs : q # p => proc'[q] = proc[q]
    BY Zenon, <1>0, <1>1, <1>5 DEF become, Invocations
  <2>2. Alone(m) /\ store[EventOf[m]].life \in {"NONE", "RECONCILING", "INVALID"}
    BY Zenon, <1>0, <1>1, <1>5, PassIsAlone, Verdicts
  <2>3. \A n \in Manifests : exposed(n)' <=> exposed(n)
    BY Zenon, <1>5, ExposedSame DEF broker
  <2>4. ProcOK(p, proc[p])'
    BY <1>1, <1>5, <2>1, <2>2, <2>3, Zenon DEF ProcOK, Alone, Lifecycle, files, broker
  <2> QED
    BY Zenon, <1>0, <1>5, <2>1, <2>4, LocalStep DEF RunnerTypeOK
<1>6. CASE recheck_invalid(p)
  BY <1>2, <1>3, <1>4, <1>6 DEF recheck_invalid
<1>7. CASE stop_expired(p)
  BY <1>2, <1>3, <1>7 DEF stop_expired
<1>8. CASE recheck_locked(p)
  BY Zenon, <1>2, <1>3, <1>5, <1>8 DEF recheck_locked
<1> QED
  BY <1>6, <1>7, <1>8

(* RECONCILING is written for the event that has the broker to itself.     *)
LEMMA PlanStep ==
    ASSUME RunnerInv, NEW p \in Procs, validate_plan(p)
    PROVE  RunnerInv'
<1> DEFINE m == proc[p].m
<1>0. /\ RunnerTypeOK /\ proc \in [Procs -> Invocations] /\ proc[p] \in Invocations
      /\ ProcOK(p, proc[p]) /\ proc[p].pc = "plan"
  BY DEF RunnerInv, RunnerTypeOK, ProcInv, validate_plan, at
<1>1. m \in Manifests /\ lock = p /\ Alone(m)
  BY Zenon, <1>0, Shapes DEF ProcOK, Locked
<1>2. CASE stop_for_manual(p)
  BY <1>1, <1>2, ManualStep
<1>3. CASE leave(p)
  BY <1>1, <1>3, ExitStep
<1>4. CASE /\ write(m, "RECONCILING") /\ proceed(p, "demo")
           /\ UNCHANGED <<claims, lock, broker, now, faults>>
  <2>1. /\ proc' \in [Procs -> Invocations] /\ proc'[p].pc = "demo" /\ proc'[p].m = m
        /\ \A q \in Procs : q # p => proc'[q] = proc[q]
    BY Zenon, <1>0, <1>1, <1>4 DEF proceed, become, Invocations
  <2>2. /\ store' \in [Events -> [life : Lifecycles, manifest : Manifests \cup {NoManifest}]]
        /\ store'[EventOf[m]] = [life |-> "RECONCILING", manifest |-> m]
        /\ FilesInv' /\ OneManifestPerEvent'
    <3>1. "RECONCILING" \in Lifecycles \ {"NONE"} /\ "RECONCILING" \notin Terminal
      BY DEF Lifecycles, Terminal
    <3> HIDE DEF m
    <3> QED
      BY <1>1, <1>4, <3>1, FileWritten
  <2>3. RunnerTypeOK'
    BY Zenon, <1>0, <1>4, <2>1, <2>2 DEF RunnerTypeOK, broker
  <2>4. Alone(m)' /\ Reconciles(m)'
    <3>1. PICK n \in Manifests : n = m
      BY <1>1
    <3>2. Alone(n)'
      BY <1>1, <1>4, <3>1, BrokerSame
    <3>3. Reconciles(n)'
      BY <2>2, <3>1 DEF Reconciles
    <3> QED
      BY <2>1, <3>1, <3>2, <3>3
  <2>5. ProcOK(p, proc[p])'
    BY Zenon, <1>1, <1>4, <2>1, <2>4 DEF ProcOK, Lifecycle
  <2> QED
    BY Zenon, <1>1, <1>4, <2>1, <2>2, <2>3, <2>5, LockedStep
<1> QED
  BY Zenon, <1>2, <1>3, <1>4 DEF validate_plan

(* What holds wherever the lifecycle of an event is being driven.          *)
LEMMA InLifecycle ==
    ASSUME RunnerInv, NEW p \in Procs, proc[p].pc \in Lifecycle
    PROVE  /\ proc \in [Procs -> Invocations] /\ proc[p] \in Invocations
           /\ proc[p].m \in Manifests /\ lock = p
           /\ Reconciles(proc[p].m) /\ Alone(proc[p].m) /\ ProcOK(p, proc[p])
<1>1. /\ proc \in [Procs -> Invocations] /\ proc[p] \in Invocations
      /\ ProcOK(p, proc[p]) /\ proc[p].pc # "idle"
  BY DEF RunnerInv, RunnerTypeOK, ProcInv, Lifecycle
<1> QED
  BY Zenon, <1>1, Shapes DEF ProcOK, Locked

(* A step of the lifecycle that only reads.                                *)
LEMMA ReadStep ==
    ASSUME RunnerInv, NEW p \in Procs, proc[p].pc \in Lifecycle,
           UNCHANGED <<files, lock, broker, now, faults>>,
           NEW j \in Invocations, proc' = [proc EXCEPT ![p] = j],
           j.m = proc[p].m, j.pc \in Lifecycle,
           j.pc \notin {"submit_open", "cancel_call", "submit_close", "read_close"},
           j.pc = "close" => orders[<<j.m, "open">>].status = "filled",
           j.pc \in {"flat", "receipt"} => ~exposed(j.m)
    PROVE  RunnerInv'
<1>1. /\ proc \in [Procs -> Invocations] /\ j.m \in Manifests /\ lock = p
      /\ Reconciles(j.m) /\ Alone(j.m)
  BY Zenon, InLifecycle
<1>2. /\ proc' \in [Procs -> Invocations] /\ proc'[p] = j
      /\ \A q \in Procs : q # p => proc'[q] = proc[q]
  BY Zenon, <1>1
<1>3. \A n \in Manifests : exposed(n)' <=> exposed(n)
  BY Zenon, ExposedSame DEF broker
<1>4. Alone(j.m)' /\ Reconciles(j.m)'
  BY Zenon, <1>1, <1>3 DEF Alone, Reconciles, files, broker
<1>5. ProcOK(p, proc[p])'
  BY ZenonT(30), <1>1, <1>2, <1>3, <1>4 DEF ProcOK, Lifecycle, Alone, Reconciles, files, broker
<1> QED
  BY Zenon, <1>2, <1>5, LocalStep DEF RunnerInv, RunnerTypeOK

(* An opening cancelled without a fill, whose close was never sent, is     *)
(* flat.                                                                   *)
LEMMA CanceledIsFlat ==
    ASSUME RunnerInv, NEW m \in Manifests, orders[<<m, "open">>].status = "canceled",
           orders[<<m, "open">>].filled = 0
    PROVE  ~exposed(m)
<1>1. calls[<<m, "close">>] \in Nat
  BY DEF RunnerInv, RunnerTypeOK, Mutations
<1>2. ~(calls[<<m, "close">>] > 0)
  BY Zenon DEF RunnerInv, FilesInv, StoreInv
<1>3. calls[<<m, "close">>] = 0
  BY <1>1, <1>2
<1>4. orders[<<m, "close">>].status = "none" /\ orders[<<m, "close">>].filled = 0
  BY Zenon, <1>3 DEF RunnerInv, FilesInv, OrdersInv, OrderOK, OrderKinds
<1> QED
  BY <1>4 DEF exposed, position, OrderKinds

(* An opening and a close that both filled are flat.                       *)
LEMMA ClosedIsFlat ==
    ASSUME RunnerInv, NEW m \in Manifests, orders[<<m, "open">>].status = "filled",
           orders[<<m, "close">>].status = "filled"
    PROVE  ~exposed(m)
<1>1. orders[<<m, "open">>].filled = Qty /\ orders[<<m, "close">>].filled = Qty
  BY DEF RunnerInv, FilesInv, OrdersInv, OrderOK, OrderKinds
<1> QED
  BY <1>1, ScheduleConstants DEF exposed, position, OrderKinds

(* The readbacks.                                                          *)
LEMMA ReadSteps ==
    ASSUME RunnerInv, NEW p \in Procs,
           \/ read_open(p) \/ resolve_to_flat(p) \/ reread_open(p) \/ read_close(p)
           \/ verify_event_flat(p)
    PROVE  RunnerInv'
<1> DEFINE m == proc[p].m
<1>0. /\ proc[p].pc \in {"read_open", "resolve", "reread", "read_close", "flat"}
      /\ UNCHANGED <<files, lock, broker, now, faults>>
  BY Zenon DEF read_open, resolve_to_flat, reread_open, read_close, verify_event_flat, at
<1>1. proc[p].pc \in Lifecycle /\ m \in Manifests /\ ProcOK(p, proc[p]) /\ proc[p] \in Invocations
  BY <1>0, InLifecycle DEF Lifecycle
<1>2. ASSUME NEW pc \in {"resolve", "cancel", "manual"}, proceed(p, pc) PROVE RunnerInv'
  <2> DEFINE j == [pc |-> pc, m |-> m]
  <2>1. j \in Invocations /\ j.pc = pc /\ j.m = m /\ proc' = [proc EXCEPT ![p] = j]
    BY Zenon, <1>1, <1>2 DEF proceed, become, Invocations
  <2>2. pc \in Lifecycle \ {"submit_open", "cancel_call", "submit_close", "read_close", "close",
                            "flat", "receipt"}
    BY DEF Lifecycle
  <2> HIDE DEF j, m
  <2> QED
    BY <1>0, <1>1, <2>1, <2>2, ReadStep, Zenon DEF m
<1>3. ASSUME proceed(p, "close"), orders[<<m, "open">>].status = "filled" PROVE RunnerInv'
  <2> DEFINE j == [pc |-> "close", m |-> m]
  <2>1. j \in Invocations /\ j.pc = "close" /\ j.m = m /\ proc' = [proc EXCEPT ![p] = j]
    BY Zenon, <1>1, <1>3 DEF proceed, become, Invocations
  <2>2. j.pc \in Lifecycle
    BY <2>1 DEF Lifecycle
  <2> HIDE DEF j
  <2> QED
    BY <1>0, <1>1, <1>3, <2>1, <2>2, ReadStep, Zenon
<1>4. ASSUME NEW pc \in {"flat", "receipt"}, NEW o \in Terminal, ~exposed(m),
             become(p, [pc |-> pc, m |-> m, outcome |-> o])
      PROVE RunnerInv'
  <2> DEFINE j == [pc |-> pc, m |-> m, outcome |-> o]
  <2>1. j \in Invocations /\ j.pc = pc /\ j.m = m /\ proc' = [proc EXCEPT ![p] = j]
    BY Zenon, <1>1, <1>4 DEF become, Invocations
  <2>2. pc \in Lifecycle \ {"submit_open", "cancel_call", "submit_close", "read_close", "close"}
    BY DEF Lifecycle
  <2> HIDE DEF j
  <2> QED
    BY <1>0, <1>1, <1>4, <2>1, <2>2, ReadStep, Zenon
<1>5. ASSUME NEW w \in {"cancel", "manual"}, resolved_order(p, w) PROVE RunnerInv'
  <2>1. \/ proceed(p, w) \/ proceed(p, "manual")
        \/ proceed(p, "close") /\ orders[<<m, "open">>].status = "filled"
        \/ /\ orders[<<m, "open">>].status = "canceled" /\ orders[<<m, "open">>].filled = 0
           /\ become(p, [pc |-> "flat", m |-> m, outcome |-> "CANCELED_FLAT"])
    BY <1>5 DEF resolved_order
  <2> QED
    BY <1>1, <1>2, <1>3, <1>4, <2>1, CanceledIsFlat, Zenon DEF Terminal
<1>6. CASE read_open(p)
  BY <1>2, <1>6 DEF read_open
<1>7. CASE resolve_to_flat(p)
  BY <1>2, <1>5, <1>7 DEF resolve_to_flat
<1>8. CASE reread_open(p)
  BY <1>2, <1>5, <1>8 DEF reread_open
<1>9. CASE read_close(p)
  <2>1. orders[<<m, "open">>].status = "filled"
    BY Zenon, <1>1, <1>9 DEF read_close, at, ProcOK
  <2>2. \/ proceed(p, "manual")
        \/ /\ orders[<<m, "close">>].status = "filled"
           /\ become(p, [pc |-> "flat", m |-> m, outcome |-> "CLOSED_FLAT"])
    BY Zenon, <1>9 DEF read_close
  <2> QED
    BY Zenon, <1>1, <1>2, <1>4, <2>1, <2>2, ClosedIsFlat DEF Terminal
<1>10. CASE verify_event_flat(p)
  <2>1. ~exposed(m) /\ proc[p].outcome \in Terminal
    BY Zenon, <1>1, <1>10, Shapes DEF verify_event_flat, at, ProcOK
  <2>2. \/ proceed(p, "manual")
        \/ become(p, [pc |-> "receipt", m |-> m, outcome |-> proc[p].outcome])
    BY Zenon, <1>10 DEF verify_event_flat
  <2> QED
    BY <1>2, <1>4, <2>1, <2>2
<1> QED
  BY <1>6, <1>7, <1>8, <1>9, <1>10

(* A marker that is created now belongs to a call that was never made.     *)
LEMMA ClaimStep ==
    ASSUME RunnerInv, NEW p \in Procs, proc[p].pc \in Lifecycle, NEW k \in Mutations,
           NEW pc \in {"submit_open", "read_open", "cancel_call", "reread", "submit_close",
                       "read_close", "manual"},
           claims' = claims \cup {<<proc[p].m, k>>},
           pc \in {"submit_open", "cancel_call", "submit_close"} => <<proc[p].m, k>> \notin claims,
           pc = "submit_open" => k = "open", pc = "cancel_call" => k = "cancel",
           pc = "submit_close" => k = "close",
           pc \in {"submit_close", "read_close"} => orders[<<proc[p].m, "open">>].status = "filled",
           proceed(p, pc), UNCHANGED <<store, lock, broker, now, faults>>
    PROVE  RunnerInv'
<1> DEFINE m == proc[p].m
<1>1. /\ proc \in [Procs -> Invocations] /\ m \in Manifests /\ lock = p
      /\ Reconciles(m) /\ Alone(m)
  BY Zenon, InLifecycle
<1>2. /\ proc' \in [Procs -> Invocations] /\ proc'[p].pc = pc /\ proc'[p].m = m
      /\ \A q \in Procs : q # p => proc'[q] = proc[q]
  BY Zenon, <1>1 DEF proceed, become, Invocations
<1>3. RunnerTypeOK'
  BY <1>1, <1>2 DEF RunnerInv, RunnerTypeOK, broker
<1>4. FilesInv' /\ OneManifestPerEvent'
  BY Zenon, FilesSame
<1>5. PICK n \in Manifests : n = m
  BY Zenon, <1>1
<1>6. Alone(n)' /\ Reconciles(n)'
  BY <1>1, <1>5, BrokerSame, Zenon DEF Reconciles
<1>7. pc \in {"submit_open", "cancel_call", "submit_close"} => Unsent(m, k)'
  <2>1. <<m, k>> \in Manifests \X Mutations /\ calls[<<m, k>>] \in Nat
    BY Zenon, <1>1 DEF RunnerInv, RunnerTypeOK
  <2>2. calls[<<m, k>>] <= 1 /\ (calls[<<m, k>>] = 1 => <<m, k>> \in claims)
    BY Zenon, <2>1 DEF RunnerInv, FilesInv, OneAttemptEach
  <2>3. <<m, k>> \notin claims => calls[<<m, k>>] = 0
    BY <2>1, <2>2
  <2> QED
    BY <1>2, <2>3, Zenon DEF Unsent, broker
<1>8. ProcOK(p, proc[p])'
  BY <1>1, <1>2, <1>5, <1>6, <1>7, Zenon DEF ProcOK, Lifecycle, broker
<1> QED
  BY <1>1, <1>2, <1>3, <1>4, <1>8, LockedStep, Zenon

(* FilePaperAttemptStore.claim before each of the three mutations.         *)
LEMMA ClaimSteps ==
    ASSUME RunnerInv, NEW p \in Procs, start_demo(p) \/ claim_cancel(p) \/ claim_close(p)
    PROVE  RunnerInv'
<1> DEFINE m == proc[p].m
<1>0. proc[p].pc \in {"demo", "cancel", "close"}
  BY Zenon DEF start_demo, claim_cancel, claim_close, at
<1>1. proc[p].pc \in Lifecycle /\ m \in Manifests /\ ProcOK(p, proc[p])
  BY <1>0, InLifecycle DEF Lifecycle
<1>2. CASE start_demo(p) /\ proceed(p, "manual") /\ UNCHANGED claims
  <2> DEFINE j == [pc |-> "manual", m |-> m]
  <2>1. j \in Invocations /\ j.pc = "manual" /\ j.m = m /\ proc' = [proc EXCEPT ![p] = j]
    BY <1>1, <1>2 DEF proceed, become, Invocations
  <2>2. "manual" \in Lifecycle /\ UNCHANGED <<files, lock, broker, now, faults>>
    BY <1>2 DEF Lifecycle, start_demo, files
  <2> HIDE DEF j
  <2> QED
    BY <1>1, <2>1, <2>2, ReadStep, Zenon
<1>3. CASE start_demo(p) /\ claim(p, "open", "submit_open", "read_open")
  <2>1. /\ claims' = claims \cup {<<m, "open">>} /\ UNCHANGED <<store, lock, broker, now, faults>>
        /\ \/ <<m, "open">> \notin claims /\ proceed(p, "submit_open")
           \/ proceed(p, "read_open")
    BY <1>3 DEF start_demo, claim
  <2> QED
    BY <1>1, <2>1, ClaimStep, Zenon DEF Mutations
<1>4. CASE claim_cancel(p)
  <2>1. /\ claims' = claims \cup {<<m, "cancel">>} /\ UNCHANGED <<store, lock, broker, now, faults>>
        /\ \/ <<m, "cancel">> \notin claims /\ proceed(p, "cancel_call")
           \/ proceed(p, "reread")
    BY <1>4 DEF claim_cancel, claim
  <2> QED
    BY <1>1, <2>1, ClaimStep, Zenon DEF Mutations
<1>5. CASE claim_close(p)
  <2>1. orders[<<m, "open">>].status = "filled"
    BY Zenon, <1>1, <1>5 DEF claim_close, at, ProcOK
  <2>2. /\ claims' = claims \cup {<<m, "close">>} /\ UNCHANGED <<store, lock, broker, now, faults>>
        /\ \/ <<m, "close">> \notin claims /\ proceed(p, "submit_close")
           \/ proceed(p, "read_close")
    BY <1>5 DEF claim_close, claim
  <2> QED
    BY <1>1, <2>1, <2>2, ClaimStep, Zenon DEF Mutations
<1> QED
  BY <1>2, <1>3, <1>4, <1>5 DEF start_demo

(* What one call changes in the count of the calls.                        *)
LEMMA Counted ==
    ASSUME calls \in [Manifests \X Mutations -> Nat], NEW m \in Manifests, NEW k \in Mutations,
           calls[<<m, k>>] = 0, called(m, k)
    PROVE  /\ calls' \in [Manifests \X Mutations -> Nat] /\ calls'[<<m, k>>] = 1
           /\ \A x \in Manifests \X Mutations : x # <<m, k>> => calls'[x] = calls[x]
<1>1. calls' = [calls EXCEPT ![<<m, k>>] = 1]
  BY DEF called
<1> QED
  BY <1>1

(* A claimed call keeps the attempts unique.                               *)
LEMMA AttemptKept ==
    ASSUME OneAttemptEach, calls \in [Manifests \X Mutations -> Nat], UNCHANGED claims,
           NEW m \in Manifests, NEW k \in Mutations,
           calls[<<m, k>>] = 0, called(m, k), <<m, k>> \in claims
    PROVE  OneAttemptEach'
<1> SUFFICES ASSUME NEW x \in Manifests \X Mutations
             PROVE  calls'[x] <= 1 /\ (calls'[x] = 1 => x \in claims)
  BY DEF OneAttemptEach
<1>1. CASE x = <<m, k>>
  BY <1>1, Counted
<1>2. CASE x # <<m, k>>
  BY <1>2, Counted DEF OneAttemptEach
<1> QED
  BY Zenon, <1>1, <1>2

(* A call for the only manifest of its event keeps it the only one.        *)
LEMMA ManifestKept ==
    ASSUME OneManifestPerEvent, calls \in [Manifests \X Mutations -> Nat],
           NEW m \in Manifests, NEW k \in Mutations, calls[<<m, k>>] = 0, called(m, k),
           \A x \in Manifests \X Mutations :
                x[1] # m /\ EventOf[x[1]] = EventOf[m] => calls[x] = 0
    PROVE  OneManifestPerEvent'
<1> SUFFICES ASSUME NEW x \in Manifests \X Mutations, NEW y \in Manifests \X Mutations,
                    calls'[x] > 0, calls'[y] > 0, EventOf[x[1]] = EventOf[y[1]]
             PROVE  x[1] = y[1]
  BY DEF OneManifestPerEvent
<1>1. \A z \in Manifests \X Mutations : z[1] # m => calls'[z] = calls[z]
  BY Counted
<1>2. ASSUME NEW z \in Manifests \X Mutations, calls'[z] > 0, EventOf[z[1]] = EventOf[m]
      PROVE  z[1] = m
  BY <1>1, <1>2
<1>3. CASE x[1] = m \/ y[1] = m
  BY <1>2, <1>3
<1>4. CASE x[1] # m /\ y[1] # m
  BY Zenon, <1>1, <1>4 DEF OneManifestPerEvent
<1> QED
  BY Zenon, <1>3, <1>4

(* One call for a mutation that was claimed and never sent: whatever the   *)
(* broker makes of it, it touches the orders of one manifest, the only one *)
(* that has anything at the broker.                                        *)
LEMMA CallStep ==
    ASSUME RunnerInv, NEW p \in Procs, proc[p].pc \in Lifecycle,
           NEW m \in Manifests, m = proc[p].m, NEW k \in Mutations, Unsent(m, k),
           called(m, k), UNCHANGED <<files, lock, now, faults>>,
           orders' \in [Manifests \X OrderKinds -> [status : OrderStatus, filled : 0..Qty]],
           \A n \in Manifests, i \in OrderKinds : n # m => orders'[<<n, i>>] = orders[<<n, i>>],
           OrdersInv',
           k = "close" \/ calls[<<m, "close">>] > 0 => orders'[<<m, "open">>].status = "filled",
           NEW pc \in {"read_open", "reread", "read_close", "manual"}, proceed(p, pc),
           pc = "read_close" => orders'[<<m, "open">>].status = "filled"
    PROVE  RunnerInv'
<1>1. /\ proc \in [Procs -> Invocations] /\ lock = p /\ Reconciles(m) /\ Alone(m)
  BY Zenon, InLifecycle
<1>2. /\ proc' \in [Procs -> Invocations] /\ proc'[p].pc = pc /\ proc'[p].m = m
      /\ \A q \in Procs : q # p => proc'[q] = proc[q]
  BY Zenon, <1>1 DEF proceed, become, Invocations
<1>3. /\ calls \in [Manifests \X Mutations -> Nat] /\ calls[<<m, k>>] = 0 /\ <<m, k>> \in claims
      /\ calls' \in [Manifests \X Mutations -> Nat] /\ calls'[<<m, k>>] = 1
      /\ \A x \in Manifests \X Mutations : x # <<m, k>> => calls'[x] = calls[x]
  <2>1. calls \in [Manifests \X Mutations -> Nat] /\ calls[<<m, k>>] = 0 /\ <<m, k>> \in claims
    BY Zenon DEF RunnerInv, RunnerTypeOK, Unsent
  <2> QED
    BY <2>1, Counted, Zenon
<1>4. RunnerTypeOK'
  BY <1>2, <1>3, Zenon DEF RunnerInv, RunnerTypeOK, files
<1>5. \A n \in Manifests : n # m => (exposed(n)' <=> exposed(n)) /\ ~exposed(n)
  BY <1>1, ExposedSame, Zenon DEF Alone
<1>6. \A n \in Manifests, i \in Mutations : n # m => calls'[<<n, i>>] = calls[<<n, i>>]
  BY <1>3, Zenon
<1>7. StoreInv'
  <2>1. ASSUME NEW n \in Manifests, n # m
        PROVE  /\ \A i \in Mutations : calls'[<<n, i>>] > 0 =>
                    /\ store[EventOf[n]].life # "NONE"
                    /\ store[EventOf[n]].life = "RECONCILING" => store[EventOf[n]].manifest = n
               /\ calls'[<<n, "close">>] > 0 => orders'[<<n, "open">>].status = "filled"
    BY <1>6, <2>1, Zenon DEF RunnerInv, FilesInv, StoreInv, Mutations, OrderKinds
  <2>2. /\ store[EventOf[m]].life # "NONE"
        /\ store[EventOf[m]].life = "RECONCILING" => store[EventOf[m]].manifest = m
    BY <1>1, Zenon DEF Reconciles
  <2>3. calls'[<<m, "close">>] > 0 => orders'[<<m, "open">>].status = "filled"
    BY Zenon, <1>3 DEF Mutations
  <2> QED
    BY <2>1, <2>2, <2>3, Zenon DEF StoreInv, files
<1>8. OneAttemptEach'
  BY Zenon, <1>3, AttemptKept DEF RunnerInv, FilesInv, files
<1>9. TerminalIsFlat' /\ OneEventExposed'
  BY ZenonT(30), <1>1, <1>5 DEF RunnerInv, FilesInv, TerminalIsFlat, OneEventExposed, Reconciles, Terminal, files
<1>10. OneManifestPerEvent'
  <2>1. ASSUME NEW x \in Manifests \X Mutations, x[1] # m, EventOf[x[1]] = EventOf[m]
        PROVE  calls[x] = 0
    <3>1. x = <<x[1], x[2]>> /\ x[1] \in Manifests /\ x[2] \in Mutations
      OBVIOUS
    <3> QED
      BY ZenonT(30), <1>1, <2>1, <3>1 DEF Alone
  <2> QED
    BY Zenon, <1>3, <2>1, ManifestKept DEF RunnerInv
<1>11. Alone(m)' /\ Reconciles(m)'
  BY ZenonT(30), <1>1, <1>5, <1>6 DEF Alone, Reconciles, files
<1>12. ProcOK(p, proc[p])'
  BY <1>1, <1>2, <1>11, Zenon DEF ProcOK, Lifecycle, Alone, Reconciles
<1> QED
  BY Zenon, <1>1, <1>2, <1>4, <1>7, <1>8, <1>9, <1>10, <1>12, LockedStep DEF FilesInv

(* Sending an order.                                                       *)
LEMMA SubmitStep ==
    ASSUME RunnerInv, NEW p \in Procs, proc[p].pc \in Lifecycle,
           NEW m \in Manifests, m = proc[p].m, NEW k \in OrderKinds, Unsent(m, k),
           NEW readback \in {"read_open", "read_close"}, submit(p, k, readback),
           k = "close" \/ readback = "read_close" =>
                k = "close" /\ orders[<<m, "open">>].status = "filled"
    PROVE  RunnerInv'
<1>1. k \in Mutations /\ <<m, k>> \in Manifests \X OrderKinds
  BY Zenon DEF Mutations, OrderKinds
<1>2. PICK status \in {"new", "inflight", "none"} :
            orders' = [orders EXCEPT ![<<m, k>>].status = status]
  BY Zenon DEF submit
<1>3. /\ called(m, k) /\ UNCHANGED <<files, lock, now, faults>>
      /\ proceed(p, readback) \/ proceed(p, "manual")
  BY DEF submit
<1>4. /\ orders \in [Manifests \X OrderKinds -> [status : OrderStatus, filled : 0..Qty]]
      /\ calls \in [Manifests \X Mutations -> Nat]
  BY Zenon DEF RunnerInv, RunnerTypeOK
<1>5. /\ orders' \in [Manifests \X OrderKinds -> [status : OrderStatus, filled : 0..Qty]]
      /\ orders'[<<m, k>>].status = status /\ orders'[<<m, k>>].filled = orders[<<m, k>>].filled
      /\ \A x \in Manifests \X OrderKinds : x # <<m, k>> => orders'[x] = orders[x]
  BY <1>1, <1>2, <1>4 DEF OrderStatus
<1>6. orders[<<m, k>>].status = "none" /\ orders[<<m, k>>].filled = 0
  BY Zenon DEF Unsent, RunnerInv, FilesInv, OrdersInv, OrderOK
<1>7. /\ calls'[<<m, k>>] = 1
      /\ \A x \in Manifests \X Mutations : x # <<m, k>> => calls'[x] = calls[x]
  BY <1>1, <1>3, <1>4 DEF called, Unsent
<1>8. OrdersInv'
  <2>1. OrderOK(m, k)'
    <3>1. /\ orders'[<<m, k>>].status \in {"new", "inflight", "none"}
          /\ orders'[<<m, k>>].filled = 0 /\ calls'[<<m, k>>] # 0
      BY <1>5, <1>6, <1>7
    <3> QED
      BY Zenon, <3>1 DEF OrderOK
  <2>2. ASSUME NEW n \in Manifests, NEW i \in OrderKinds, <<n, i>> # <<m, k>> PROVE OrderOK(n, i)'
    <3>1. <<n, i>> \in Manifests \X OrderKinds /\ <<n, i>> \in Manifests \X Mutations
      BY Zenon DEF OrderKinds, Mutations
    <3>2. orders'[<<n, i>>] = orders[<<n, i>>] /\ calls'[<<n, i>>] = calls[<<n, i>>]
      BY Zenon, <1>5, <1>7, <2>2, <3>1
    <3>3. OrderOK(n, i)
      BY Zenon DEF RunnerInv, FilesInv, OrdersInv
    <3> QED
      BY Zenon, <3>2, <3>3 DEF OrderOK
  <2> QED
    BY Zenon, <2>1, <2>2 DEF OrdersInv
<1>9. k = "close" \/ calls[<<m, "close">>] > 0 => orders'[<<m, "open">>].status = "filled"
  <2>1. CASE k = "close"
    BY Zenon, <1>5, <2>1 DEF OrderKinds
  <2>2. CASE k = "open"
    BY Zenon, <1>6, <2>2 DEF RunnerInv, FilesInv, StoreInv
  <2> QED
    BY Zenon, <2>1, <2>2 DEF OrderKinds
<1>10. readback = "read_close" => orders'[<<m, "open">>].status = "filled"
  BY Zenon, <1>5 DEF OrderKinds
<1>11. \A n \in Manifests, i \in OrderKinds : n # m => orders'[<<n, i>>] = orders[<<n, i>>]
  BY Zenon, <1>5
<1> QED
  BY <1>1, <1>3, <1>5, <1>8, <1>9, <1>10, <1>11, CallStep, Zenon

(* Both submissions; an expired permit stops the opening.                  *)
LEMMA SubmitSteps ==
    ASSUME RunnerInv, NEW p \in Procs, submit_open(p) \/ submit_close(p)
    PROVE  RunnerInv'
<1>0. proc[p].pc \in {"submit_open", "submit_close"}
  BY Zenon DEF submit_open, submit_close, at
<1>1. PICK m \in Manifests : m = proc[p].m
  BY <1>0, InLifecycle DEF Lifecycle
<1>2. proc[p].pc \in Lifecycle /\ ProcOK(p, proc[p])
  BY <1>0, InLifecycle DEF Lifecycle
<1>3. CASE submit_open(p) /\ submit(p, "open", "read_open")
  <2>1. Unsent(m, "open")
    BY Zenon, <1>1, <1>2, <1>3 DEF submit_open, at, ProcOK
  <2> QED
    BY <1>1, <1>2, <1>3, <2>1, SubmitStep, Zenon DEF OrderKinds
<1>4. CASE /\ submit_open(p) /\ proceed(p, "manual")
           /\ UNCHANGED <<files, lock, broker, now, faults>>
  <2> DEFINE j == [pc |-> "manual", m |-> m]
  <2>1. j \in Invocations /\ j.pc = "manual" /\ j.m = m /\ proc' = [proc EXCEPT ![p] = j]
    BY Zenon, <1>1, <1>4 DEF proceed, become, Invocations
  <2>2. "manual" \in Lifecycle
    BY DEF Lifecycle
  <2> HIDE DEF j
  <2> QED
    BY <1>1, <1>2, <1>4, <2>1, <2>2, ReadStep, Zenon
<1>5. CASE submit_close(p)
  <2>1. Unsent(m, "close") /\ orders[<<m, "open">>].status = "filled"
    BY ZenonT(30), <1>1, <1>2, <1>5 DEF submit_close, at, ProcOK
  <2> QED
    BY Zenon, <1>1, <1>2, <1>5, <2>1, SubmitStep DEF OrderKinds, submit_close
<1> QED
  BY Zenon, <1>3, <1>4, <1>5 DEF submit_open

(* The broker moves a working order on: its fills only grow, it stays      *)
(* within the quantity, and it was submitted.                              *)
WorkingMoves(x) ==
    /\ orders[x].status \in {"inflight", "new", "partially_filled"}
    /\ \/ orders' = [orders EXCEPT ![x].status = "canceled"]
       \/ orders[x].status = "inflight" /\ orders' = [orders EXCEPT ![x].status = "new"]
       \/ /\ orders[x].status \in {"new", "partially_filled"}
          /\ orders' = [orders EXCEPT ![x] =
                [status |-> IF @.filled + 1 = Qty THEN "filled" ELSE "partially_filled",
                 filled |-> @.filled + 1]]

(* What such a move makes of the order.                                    *)
LEMMA WorkingOrder ==
    ASSUME RunnerTypeOK, OrdersInv, NEW m \in Manifests, NEW k \in OrderKinds,
           WorkingMoves(<<m, k>>)
    PROVE  /\ orders' \in [Manifests \X OrderKinds -> [status : OrderStatus, filled : 0..Qty]]
           /\ \A x \in Manifests \X OrderKinds : x # <<m, k>> => orders'[x] = orders[x]
           /\ orders'[<<m, k>>].status \in {"inflight", "new"} => orders'[<<m, k>>].filled = 0
           /\ orders'[<<m, k>>].status = "partially_filled" => orders'[<<m, k>>].filled < Qty
           /\ orders'[<<m, k>>].status = "filled" => orders'[<<m, k>>].filled = Qty
           /\ orders'[<<m, k>>].status # "none" /\ calls[<<m, k>>] # 0
           /\ orders[<<m, k>>].status \notin {"none", "filled"}
<1> DEFINE x == <<m, k>>
<1>1. /\ x \in Manifests \X OrderKinds /\ orders[x].status \in OrderStatus
      /\ orders[x].filled \in 0..Qty /\ Qty \in Nat \ {0}
      /\ orders \in [Manifests \X OrderKinds -> [status : OrderStatus, filled : 0..Qty]]
  BY ScheduleConstants DEF RunnerTypeOK
<1>2. /\ orders[x].status \in {"inflight", "new"} => orders[x].filled = 0
      /\ orders[x].status = "partially_filled" => orders[x].filled < Qty
      /\ calls[x] # 0
  BY DEF OrdersInv, OrderOK, WorkingMoves
<1>3. CASE orders' = [orders EXCEPT ![x].status = "canceled"]
  BY <1>1, <1>2, <1>3 DEF WorkingMoves, OrderStatus
<1>4. CASE orders[x].status = "inflight" /\ orders' = [orders EXCEPT ![x].status = "new"]
  BY <1>1, <1>2, <1>4 DEF OrderStatus
<1>5. CASE /\ orders[x].status \in {"new", "partially_filled"}
           /\ orders' = [orders EXCEPT ![x] =
                [status |-> IF @.filled + 1 = Qty THEN "filled" ELSE "partially_filled",
                 filled |-> @.filled + 1]]
  <2>1. orders[x].filled + 1 \in 0..Qty
    BY <1>1, <1>2, <1>5
  <2>2. /\ orders'[x].status = IF orders[x].filled + 1 = Qty THEN "filled" ELSE "partially_filled"
        /\ orders'[x].filled = orders[x].filled + 1
        /\ \A y \in Manifests \X OrderKinds : y # x => orders'[y] = orders[y]
    BY Zenon, <1>1, <1>5
  <2>3. orders' \in [Manifests \X OrderKinds -> [status : OrderStatus, filled : 0..Qty]]
    BY Zenon, <1>1, <1>5, <2>1 DEF OrderStatus
  <2>4. /\ orders'[x].status = "filled" => orders'[x].filled = Qty
        /\ orders'[x].status = "partially_filled" => orders'[x].filled < Qty
        /\ orders'[x].status \in {"filled", "partially_filled"}
    <3>1. CASE orders[x].filled + 1 = Qty
      BY Zenon, <2>2, <3>1
    <3>2. CASE orders[x].filled + 1 # Qty
      <4>1. orders[x].filled + 1 < Qty
        BY <1>1, <2>1, <3>2
      <4> QED
        BY Zenon, <2>2, <3>2, <4>1
    <3> QED
      BY Zenon, <3>1, <3>2
  <2> QED
    BY Zenon, <1>2, <1>5, <2>2, <2>3, <2>4
<1> QED
  BY <1>3, <1>4, <1>5 DEF WorkingMoves

(* And it keeps what is known of the orders.                               *)
LEMMA OrdersMove ==
    ASSUME RunnerTypeOK, OrdersInv, NEW m \in Manifests, NEW k \in OrderKinds,
           WorkingMoves(<<m, k>>),
           \A n \in Manifests, i \in OrderKinds : calls'[<<n, i>>] = calls[<<n, i>>]
    PROVE  OrdersInv'
<1>1. OrderOK(m, k)'
  BY WorkingOrder DEF OrderOK
<1>2. ASSUME NEW n \in Manifests, NEW i \in OrderKinds, <<n, i>> # <<m, k>> PROVE OrderOK(n, i)'
  <2>1. orders'[<<n, i>>] = orders[<<n, i>>] /\ calls'[<<n, i>>] = calls[<<n, i>>]
    <3>1. <<n, i>> \in Manifests \X OrderKinds
      BY Zenon
    <3>2. \A x \in Manifests \X OrderKinds : x # <<m, k>> => orders'[x] = orders[x]
      BY Zenon, WorkingOrder
    <3> QED
      BY Zenon, <1>2, <3>1, <3>2
  <2>2. OrderOK(n, i)
    BY Zenon DEF OrdersInv
  <2> QED
    BY Zenon, <2>1, <2>2 DEF OrderOK
<1> QED
  BY Zenon, <1>1, <1>2 DEF OrdersInv

(* The cancel.                                                             *)
LEMMA CancelStep ==
    ASSUME RunnerInv, NEW p \in Procs, cancel_open(p)
    PROVE  RunnerInv'
<1>0. proc[p].pc = "cancel_call" /\ proc[p].pc \in Lifecycle
  BY DEF cancel_open, at, Lifecycle
<1>1. PICK m \in Manifests : m = proc[p].m
  BY <1>0, InLifecycle
<1>2. /\ Unsent(m, "cancel") /\ called(m, "cancel") /\ proceed(p, "reread")
      /\ UNCHANGED <<files, lock, now, faults>> /\ "cancel" \in Mutations
  BY Zenon, <1>0, <1>1, InLifecycle DEF cancel_open, ProcOK, Mutations
<1>3. \A n \in Manifests, i \in OrderKinds : calls'[<<n, i>>] = calls[<<n, i>>]
  <2>1. calls \in [Manifests \X Mutations -> Nat]
    BY DEF RunnerInv, RunnerTypeOK
  <2> QED
    BY <1>2, <2>1 DEF called, OrderKinds, Mutations
<1>4. RunnerTypeOK /\ OrdersInv /\ "open" \in OrderKinds
  BY DEF RunnerInv, FilesInv, OrderKinds
<1>5. CASE /\ orders[<<m, "open">>].status \in {"new", "partially_filled"}
           /\ orders' = [orders EXCEPT ![<<m, "open">>].status = "canceled"]
  <2>1. WorkingMoves(<<m, "open">>)
    BY <1>5 DEF WorkingMoves
  <2>2. OrdersInv'
    BY <1>3, <1>4, <2>1, OrdersMove, Zenon
  <2>3. /\ orders' \in [Manifests \X OrderKinds -> [status : OrderStatus, filled : 0..Qty]]
        /\ \A n \in Manifests, i \in OrderKinds : n # m => orders'[<<n, i>>] = orders[<<n, i>>]
    BY <1>4, <2>1, WorkingOrder, Zenon
  <2>4. ~(calls[<<m, "close">>] > 0)
    BY <1>5 DEF RunnerInv, FilesInv, StoreInv
  <2> QED
    BY <1>0, <1>1, <1>2, <2>2, <2>3, <2>4, CallStep, Zenon
<1>6. CASE UNCHANGED orders
  <2>1. OrdersInv'
    BY <1>3, <1>4, <1>6, Zenon DEF OrdersInv, OrderOK
  <2>2. orders' \in [Manifests \X OrderKinds -> [status : OrderStatus, filled : 0..Qty]]
    BY <1>4, <1>6 DEF RunnerTypeOK
  <2>3. calls[<<m, "close">>] > 0 => orders'[<<m, "open">>].status = "filled"
    BY Zenon, <1>6 DEF RunnerInv, FilesInv, StoreInv
  <2> QED
    BY Zenon, <1>0, <1>1, <1>2, <1>6, <2>1, <2>2, <2>3, CallStep
<1> QED
  BY <1>1, <1>5, <1>6 DEF cancel_open

(* The terminal state is stored for a manifest proved flat.                *)
LEMMA ReceiptStep ==
    ASSUME RunnerInv, NEW p \in Procs, store_receipt(p) \/ store_manual(p)
    PROVE  RunnerInv'
<1>0. proc[p].pc \in {"receipt", "manual"} /\ proc[p].pc \in Lifecycle
  BY Zenon DEF store_receipt, store_manual, at, Lifecycle
<1>1. PICK m \in Manifests : m = proc[p].m
  BY <1>0, InLifecycle
<1>2. CASE stop_for_manual(p)
  BY <1>0, <1>1, <1>2, InLifecycle, ManualStep
<1>3. CASE /\ at(p, "receipt") /\ write(m, proc[p].outcome) /\ exit(p) /\ release
           /\ UNCHANGED <<claims, broker, now, faults>>
  <2>1. PICK o \in Terminal : o = proc[p].outcome
    BY Zenon, <1>0, <1>3, InLifecycle, Shapes DEF at
  <2>2. lock = p /\ Alone(m) /\ ~exposed(m) /\ lock' = NoProc
    BY <1>0, <1>1, <1>3, InLifecycle, Zenon DEF at, ProcOK, release
  <2>3. /\ proc' \in [Procs -> Invocations] /\ proc'[p] = Idle
        /\ \A q \in Procs : q # p => proc'[q] = proc[q]
    BY Zenon, <1>3 DEF RunnerInv, RunnerTypeOK, exit, become, Invocations
  <2>4. /\ store' \in [Events -> [life : Lifecycles, manifest : Manifests \cup {NoManifest}]]
        /\ FilesInv' /\ OneManifestPerEvent'
    <3>1. o \in Lifecycles \ {"NONE"} /\ o # "RECONCILING"
      BY DEF Lifecycles, Terminal
    <3> QED
      BY <1>3, <2>1, <2>2, <3>1, FileWritten, Zenon
  <2>5. RunnerTypeOK'
    BY Zenon, <1>3, <2>2, <2>3, <2>4 DEF RunnerInv, RunnerTypeOK, broker
  <2>6. ProcOK(p, proc[p])'
    BY <2>3, IdleOK
  <2> QED
    BY <2>2, <2>3, <2>4, <2>5, <2>6, LockedStep
<1> QED
  BY <1>1, <1>2, <1>3 DEF store_receipt, store_manual

(* The broker fills, cancels or receives an order: what was quiet stays    *)
(* quiet.                                                                  *)
LEMMA BrokerStep ==
    ASSUME RunnerInv, NEW x \in Manifests \X OrderKinds,
           broker_arrive(x) \/ broker_fill(x) \/ broker_cancel(x)
    PROVE  RunnerInv'
<1>1. PICK m \in Manifests, k \in OrderKinds : x = <<m, k>>
  OBVIOUS
<1>2. WorkingMoves(<<m, k>>) /\ UNCHANGED <<files, lock, proc, calls, now, faults>>
  BY <1>1 DEF broker_arrive, broker_fill, broker_cancel, WorkingMoves
<1>3. RunnerTypeOK /\ OrdersInv
  BY DEF RunnerInv, FilesInv
<1>4. /\ orders' \in [Manifests \X OrderKinds -> [status : OrderStatus, filled : 0..Qty]]
      /\ \A y \in Manifests \X OrderKinds : y # <<m, k>> => orders'[y] = orders[y]
      /\ orders[<<m, k>>].status \notin {"none", "filled"}
  BY <1>2, <1>3, WorkingOrder, Zenon
<1>5. RunnerTypeOK'
  BY Zenon, <1>2, <1>3, <1>4 DEF RunnerTypeOK, files
<1>6. OrdersInv'
  BY Zenon, <1>2, <1>3, OrdersMove
<1>7. exposed(m) /\ \A n \in Manifests : n # m => (exposed(n)' <=> exposed(n))
  <2>1. exposed(m)
    BY <1>2 DEF WorkingMoves, exposed
  <2>2. \A n \in Manifests, i \in OrderKinds : n # m => orders'[<<n, i>>] = orders[<<n, i>>]
    BY Zenon, <1>4
  <2> QED
    BY Zenon, <2>1, <2>2, ExposedSame
<1>8. \A n \in Manifests :
        orders[<<n, "open">>].status = "filled" => orders'[<<n, "open">>].status = "filled"
  BY Zenon, <1>4 DEF OrderKinds
<1>9. StoreInv' /\ TerminalIsFlat' /\ OneAttemptEach'
  BY ZenonT(30), <1>2, <1>7, <1>8 DEF RunnerInv, FilesInv, StoreInv, TerminalIsFlat, OneAttemptEach, files
<1>10. OneEventExposed' /\ OneManifestPerEvent'
  BY <1>2, <1>7 DEF RunnerInv, FilesInv, OneEventExposed, OneManifestPerEvent
<1>11. \A n \in Manifests : (~exposed(n) => ~exposed(n)') /\ (Alone(n) => Alone(n)')
  BY ZenonT(30), <1>2, <1>7 DEF Alone
<1>12. \A n \in Manifests : Reconciles(n) => Reconciles(n)'
  BY Zenon, <1>2 DEF Reconciles, files
<1>13. ASSUME NEW q \in Procs PROVE ProcOK(q, proc[q])'
  BY ZenonT(30), <1>2, <1>8, <1>11, <1>12, ProcKept DEF files
<1> QED
  BY <1>5, <1>6, <1>9, <1>10, <1>13, Zenon DEF RunnerInv, FilesInv, ProcInv

(* A crash forgets the locals and lets go of the lock.                     *)
LEMMA CrashStep ==
    ASSUME RunnerInv, NEW p \in Procs, crash(p)
    PROVE  RunnerInv'
<1>1. /\ proc \in [Procs -> Invocations] /\ faults \in 0..MaxFaults /\ now \in 0..Horizon
  BY DEF RunnerInv, RunnerTypeOK
<1>2. /\ proc' \in [Procs -> Invocations] /\ proc'[p] = Idle
      /\ \A q \in Procs : q # p => proc'[q] = proc[q]
      /\ UNCHANGED <<files, broker, now>>
  BY Zenon, <1>1 DEF crash, exit, become, Invocations
<1>3. faults' \in 0..MaxFaults
  BY <1>1, ScheduleConstants DEF crash, fault
<1>4. ProcOK(p, proc[p])'
  BY <1>2, IdleOK
<1>5. CASE lock = p
  <2>1. lock' = NoProc /\ RunnerTypeOK'
    BY Zenon, <1>2, <1>3, <1>5 DEF crash, RunnerInv, RunnerTypeOK, files, broker
  <2>2. FilesInv' /\ OneManifestPerEvent'
    BY <1>2, FilesSame DEF files
  <2> QED
    BY <1>2, <1>4, <1>5, <2>1, <2>2, LockedStep
<1>6. CASE lock # p
  <2>1. UNCHANGED lock
    BY <1>6 DEF crash
  <2> QED
    BY <1>1, <1>2, <1>3, <1>4, <2>1, LocalStep
<1> QED
  BY <1>5, <1>6

(* A damaged file is INVALID, which nothing takes for settled.             *)
LEMMA DamageStep ==
    ASSUME RunnerInv, NEW e \in Events, damage(e)
    PROVE  RunnerInv'
<1>1. /\ store \in [Events -> [life : Lifecycles, manifest : Manifests \cup {NoManifest}]]
      /\ proc \in [Procs -> Invocations] /\ faults \in 0..MaxFaults
  BY DEF RunnerInv, RunnerTypeOK
<1>2. UNCHANGED <<claims, lock, proc, broker, now>> /\ faults' \in 0..MaxFaults
  BY <1>1, ScheduleConstants DEF damage, fault
<1>3. /\ store' \in [Events -> [life : Lifecycles, manifest : Manifests \cup {NoManifest}]]
      /\ store'[e].life = "INVALID"
      /\ \A d \in Events : d # e => store'[d] = store[d]
  BY <1>1 DEF damage, Lifecycles
<1>4. RunnerTypeOK'
  BY Zenon, <1>2, <1>3 DEF RunnerInv, RunnerTypeOK, broker
<1>5. \A m \in Manifests :
        EventOf[m] \in Events /\ (store'[EventOf[m]].life = "INVALID"
                                  \/ store'[EventOf[m]] = store[EventOf[m]])
  BY Zenon, <1>3, ScheduleConstants
<1>6. StoreInv'
  BY <1>2, <1>5, Zenon DEF RunnerInv, FilesInv, StoreInv, broker
<1>7. TerminalIsFlat'
  BY Zenon, <1>2, <1>5, BrokerSame DEF RunnerInv, FilesInv, TerminalIsFlat, Terminal
<1>8. \A m \in Manifests : Reconciles(m) => Reconciles(m)'
  BY Zenon, <1>5 DEF Reconciles
<1>9. ASSUME NEW q \in Procs PROVE ProcOK(q, proc[q])'
  BY <1>2, <1>5, <1>8, BrokerSame, ProcKept, Zenon DEF broker
<1> QED
  BY Zenon, <1>2, <1>4, <1>6, <1>7, <1>9, BrokerSame DEF RunnerInv, FilesInv, ProcInv

-----------------------------------------------------------------------------
(* The theorems                                                            *)

(* The invariant holds before anything ran.                                *)
LEMMA RunnerInvInit == RunnerInit => RunnerInv
<1> SUFFICES ASSUME RunnerInit PROVE RunnerInv
  OBVIOUS
<1>1. RunnerTypeOK
  <2>1. store \in [Events -> [life : Lifecycles, manifest : Manifests \cup {NoManifest}]]
    BY Zenon DEF RunnerInit, Lifecycles
  <2>2. proc \in [Procs -> Invocations]
    BY Zenon DEF RunnerInit, Invocations
  <2>3. orders \in [Manifests \X OrderKinds -> [status : OrderStatus, filled : 0..Qty]]
    BY ScheduleConstants DEF RunnerInit, OrderStatus
  <2>4. claims \subseteq Manifests \X Mutations /\ lock \in Procs \cup {NoProc}
        /\ calls \in [Manifests \X Mutations -> Nat]
    BY Zenon DEF RunnerInit
  <2>5. now \in 0..Horizon /\ faults \in 0..MaxFaults
    BY ScheduleConstants DEF RunnerInit
  <2> QED
    BY <2>1, <2>2, <2>3, <2>4, <2>5 DEF RunnerTypeOK
<1>2. /\ \A m \in Manifests, k \in OrderKinds :
            orders[<<m, k>>].status = "none" /\ orders[<<m, k>>].filled = 0
      /\ \A m \in Manifests, k \in Mutations : calls[<<m, k>>] = 0
      /\ \A x \in Manifests \X Mutations : calls[x] = 0
  BY Zenon DEF RunnerInit
<1>3. OrdersInv /\ OneAttemptEach /\ OneManifestPerEvent
  BY <1>2, ScheduleConstants DEF OrdersInv, OrderOK, OneAttemptEach, OneManifestPerEvent
<1>4. StoreInv
  <2>1. ASSUME NEW m \in Manifests, NEW k \in Mutations PROVE ~(calls[<<m, k>>] > 0)
    <3>1. calls[<<m, k>>] = 0
      BY <1>2
    <3> QED
      BY <3>1
  <2>2. "close" \in Mutations
    BY DEF Mutations
  <2> QED
    BY <2>1, <2>2 DEF StoreInv
<1>5. TerminalIsFlat /\ OneEventExposed
  BY Zenon, <1>2, <1>3, UnsentIsFlat DEF TerminalIsFlat, OneEventExposed
<1>6. ProcInv
  BY Zenon DEF RunnerInit, ProcInv, ProcOK, Idle, Locked, Lifecycle
<1> QED
  BY <1>1, <1>3, <1>4, <1>5, <1>6 DEF RunnerInv, FilesInv

(* Every step of a process, the broker, the clock and the disk keeps it.   *)
LEMMA RunnerInvNext == RunnerInv /\ [RunnerNext]_vars => RunnerInv'
<1> SUFFICES ASSUME RunnerInv, [RunnerNext]_vars PROVE RunnerInv'
  OBVIOUS
<1>1. ASSUME NEW p \in Procs, NEW m \in Manifests, invoke(p, m) PROVE RunnerInv'
  BY <1>1, UnlockedSteps
<1>2. ASSUME NEW p \in Procs, Step(p) PROVE RunnerInv'
  <2>1. CASE check_own(p) \/ check_others(p) \/ check_expired(p)
    BY <2>1, UnlockedSteps
  <2>2. CASE \/ acquire(p, "invalid_lock", "invalid") \/ acquire(p, "stop_lock", "stop")
             \/ acquire(p, "lock", "locked")
    BY <2>2, AcquireStep
  <2>3. CASE recheck_invalid(p) \/ stop_expired(p) \/ recheck_locked(p)
    BY <2>3, RecheckSteps
  <2>4. CASE validate_plan(p)
    BY <2>4, PlanStep
  <2>5. CASE start_demo(p) \/ claim_cancel(p) \/ claim_close(p)
    BY <2>5, ClaimSteps
  <2>6. CASE submit_open(p) \/ submit_close(p)
    BY <2>6, SubmitSteps
  <2>7. CASE \/ read_open(p) \/ resolve_to_flat(p) \/ reread_open(p) \/ read_close(p)
             \/ verify_event_flat(p)
    BY <2>7, ReadSteps
  <2>8. CASE cancel_open(p)
    BY <2>8, CancelStep
  <2>9. CASE store_receipt(p) \/ store_manual(p)
    BY <2>9, ReceiptStep
  <2> QED
    BY Zenon, <1>2, <2>1, <2>2, <2>3, <2>4, <2>5, <2>6, <2>7, <2>8, <2>9 DEF Step
<1>3. CASE Environment
  BY <1>3, BrokerStep, CrashStep, DamageStep DEF Environment
<1>4. CASE tick \/ UNCHANGED vars
  <2>1. UNCHANGED <<files, lock, broker, proc, faults>> /\ now' \in 0..Horizon
    BY <1>4, ScheduleConstants DEF tick, vars, files, broker, RunnerInv, RunnerTypeOK
  <2>2. RunnerTypeOK'
    BY Zenon, <2>1 DEF RunnerInv, RunnerTypeOK, files, broker
  <2>3. FilesInv' /\ OneManifestPerEvent'
    BY <2>1, FilesSame DEF files
  <2>4. UNCHANGED <<store, claims, orders, calls>>
    BY <2>1 DEF files, broker
  <2>5. \A m \in Manifests : Reconciles(m) => Reconciles(m)'
    BY <2>4 DEF Reconciles
  <2>6. ASSUME NEW q \in Procs PROVE ProcOK(q, proc[q])'
    BY ZenonT(30), <2>1, <2>4, <2>5, BrokerSame, ProcKept
  <2> QED
    BY Zenon, <2>2, <2>3, <2>6 DEF RunnerInv, ProcInv
<1> QED
  BY <1>1, <1>2, <1>3, <1>4 DEF RunnerNext

(* So it always holds.                                                     *)
LEMMA RunnerInvariant == RunnerSpec => []RunnerInv
  BY RunnerInvInit, RunnerInvNext, PTL DEF RunnerSpec

(* No opening, cancel or close is ever sent twice, nor without its durable *)
(* attempt marker (FilePaperAttemptStore.claim), whatever crashes,         *)
(* restarts, overlapping invocations and lost replies there are.           *)
THEOREM RunnerNeverRepeats == RunnerSpec => [](RunnerTypeOK /\ OneAttemptEach)
<1>1. RunnerInv => RunnerTypeOK /\ OneAttemptEach
  BY DEF RunnerInv, FilesInv
<1> QED
  BY <1>1, RunnerInvariant, PTL

(* A state file that says CANCELED_FLAT or CLOSED_FLAT stays right: no     *)
(* position and no live order is left, and none arrives late.              *)
THEOREM RunnerTerminalIsFlat == RunnerSpec => []TerminalIsFlat
<1>1. RunnerInv => TerminalIsFlat
  BY DEF RunnerInv, FilesInv
<1> QED
  BY <1>1, RunnerInvariant, PTL

(* The lock and the checks repeated under it (_existing_state_result) keep *)
(* every event but one away from the broker, and every manifest but one    *)
(* away from an event.                                                     *)
THEOREM RunnerExclusive == RunnerSpec => [](OneEventExposed /\ OneManifestPerEvent)
<1>1. RunnerInv => OneEventExposed /\ OneManifestPerEvent
  BY DEF RunnerInv, FilesInv
<1> QED
  BY <1>1, RunnerInvariant, PTL

(* Stopped(e): the runner is done with the event e.  Kept is what a step   *)
(* owes every event it finds stopped.                                      *)
Stopped(e) == store[e].life \in Terminal \cup {"MANUAL_RECONCILIATION"}

Kept ==
    \A m \in Manifests : Stopped(EventOf[m]) =>
        /\ store'[EventOf[m]] = store[EventOf[m]] \/ store'[EventOf[m]].life = "INVALID"
        /\ \A k \in Mutations : calls'[<<m, k>>] = calls[<<m, k>>]

(* A file is written for an event that is not stopped.                     *)
LEMMA WriteKeeps ==
    ASSUME RunnerTypeOK, NEW m \in Manifests, ~Stopped(EventOf[m]), NEW life,
           write(m, life), UNCHANGED calls
    PROVE  Kept
<1>1. \A n \in Manifests : EventOf[n] # EventOf[m] => store'[EventOf[n]] = store[EventOf[n]]
  BY Zenon, ScheduleConstants DEF write, RunnerTypeOK
<1> QED
  BY Zenon, <1>1 DEF Kept

(* The broker is called for an event that is not stopped.                  *)
LEMMA CallKeeps ==
    ASSUME RunnerTypeOK, NEW m \in Manifests, ~Stopped(EventOf[m]), NEW k \in Mutations,
           called(m, k), UNCHANGED store
    PROVE  Kept
<1>1. \A n \in Manifests, i \in Mutations :
        EventOf[n] # EventOf[m] => calls'[<<n, i>>] = calls[<<n, i>>]
  BY Zenon DEF called, RunnerTypeOK
<1> QED
  BY Zenon, <1>1 DEF Kept

(* An invocation past the locked checks has an event that is not stopped.  *)
LEMMA LifecycleNotStopped ==
    ASSUME RunnerInv, NEW p \in Procs, proc[p].pc \in Lifecycle \cup {"plan"}
    PROVE  proc[p].m \in Manifests /\ ~Stopped(EventOf[proc[p].m])
<1>1. proc[p] \in Invocations /\ ProcOK(p, proc[p]) /\ proc[p].pc # "idle"
  BY Zenon DEF RunnerInv, RunnerTypeOK, ProcInv, Lifecycle
<1>2. proc[p].m \in Manifests
  BY Zenon, <1>1, Shapes
<1> QED
  BY <1>1, <1>2, Zenon DEF ProcOK, Reconciles, Stopped, Terminal

(* No step of an invocation disturbs a stopped event.                      *)
LEMMA StepKeeps ==
    ASSUME RunnerInv, NEW p \in Procs, Step(p)
    PROVE  Kept
<1>0. RunnerTypeOK /\ proc[p] \in Invocations
  BY DEF RunnerInv, RunnerTypeOK
<1>1. CASE UNCHANGED <<store, calls>>
  BY ZenonT(30), <1>1 DEF Kept
<1>2. CASE recheck_invalid(p) \/ stop_expired(p) \/ recheck_locked(p)
  <2>1. proc[p].m \in Manifests
    BY <1>0, <1>2, Shapes DEF recheck_invalid, stop_expired, recheck_locked, at
  <2>2. CASE stop_for_manual(p) /\ existing_state_result(proc[p].m) \in {"invalid", "pass"}
    <3>1. ~Stopped(EventOf[proc[p].m])
      BY Zenon, <1>0, <2>1, <2>2, Verdicts DEF Stopped, Terminal
    <3> QED
      BY Zenon, <1>0, <2>1, <2>2, <3>1, WriteKeeps DEF stop_for_manual, broker
  <2>3. CASE UNCHANGED <<files, broker>>
    BY <1>1, <2>3 DEF files, broker
  <2>4. CASE recheck_invalid(p)
    BY <2>2, <2>3, <2>4 DEF recheck_invalid, leave
  <2>5. CASE stop_expired(p)
    BY <2>2, <2>3, <2>5 DEF stop_expired, leave
  <2>6. CASE recheck_locked(p)
    BY <2>2, <2>3, <2>6 DEF recheck_locked, leave
  <2> QED
    BY <1>2, <2>4, <2>5, <2>6
<1>3. CASE validate_plan(p) \/ store_receipt(p) \/ store_manual(p)
  <2>1. proc[p].m \in Manifests /\ ~Stopped(EventOf[proc[p].m])
    BY Zenon, <1>3, LifecycleNotStopped DEF validate_plan, store_receipt, store_manual, at, Lifecycle
  <2>2. CASE \E life : write(proc[p].m, life) /\ UNCHANGED calls
    BY Zenon, <1>0, <2>1, <2>2, WriteKeeps
  <2>3. (\E life : write(proc[p].m, life) /\ UNCHANGED calls) \/ UNCHANGED <<store, calls>>
    BY ZenonT(30), <1>3 DEF validate_plan, store_receipt, store_manual, stop_for_manual, leave, files, broker
  <2> QED
    BY <1>1, <2>2, <2>3
<1>4. CASE submit_open(p) \/ submit_close(p) \/ cancel_open(p)
  <2>1. proc[p].m \in Manifests /\ ~Stopped(EventOf[proc[p].m])
    BY <1>4, LifecycleNotStopped DEF submit_open, submit_close, cancel_open, at, Lifecycle
  <2>2. \/ UNCHANGED <<store, calls>>
        \/ UNCHANGED store /\ \E k \in Mutations : called(proc[p].m, k)
    BY Zenon, <1>4 DEF submit_open, submit_close, cancel_open, submit, files, broker, Mutations
  <2> QED
    BY ZenonT(30), <1>0, <1>1, <2>1, <2>2, CallKeeps
<1>5. CASE \/ check_own(p) \/ check_others(p) \/ check_expired(p)
           \/ acquire(p, "invalid_lock", "invalid") \/ acquire(p, "stop_lock", "stop")
           \/ acquire(p, "lock", "locked")
  BY <1>1, <1>5, Zenon DEF check_own, check_others, check_expired, acquire, files, broker
<1>6. CASE \/ start_demo(p) \/ claim_cancel(p) \/ claim_close(p) \/ read_open(p)
           \/ resolve_to_flat(p) \/ reread_open(p) \/ read_close(p) \/ verify_event_flat(p)
  BY <1>1, <1>6, Zenon DEF start_demo, claim_cancel, claim_close, read_open, resolve_to_flat,
     reread_open, read_close, verify_event_flat, files, broker
<1> QED
  BY Zenon, <1>2, <1>3, <1>4, <1>5, <1>6 DEF Step

(* Nor does any other step, damage to its file aside.                      *)
LEMMA NextKeeps == RunnerInv /\ [RunnerNext]_vars => Kept
<1> SUFFICES ASSUME RunnerInv, [RunnerNext]_vars PROVE Kept
  OBVIOUS
<1>1. CASE UNCHANGED <<store, calls>>
  BY Zenon, <1>1 DEF Kept
<1>2. CASE \E p \in Procs : Step(p)
  BY <1>2, StepKeeps
<1>3. ASSUME NEW e \in Events, damage(e) PROVE Kept
  <2>1. store \in [Events -> [life : Lifecycles, manifest : Manifests \cup {NoManifest}]]
    BY DEF RunnerInv, RunnerTypeOK
  <2>2. store'[e].life = "INVALID" /\ \A d \in Events : d # e => store'[d] = store[d]
    BY <1>3, <2>1 DEF damage
  <2> QED
    BY <1>3, <2>2, ScheduleConstants DEF damage, Kept, broker
<1>4. CASE \/ \E p \in Procs, m \in Manifests : invoke(p, m)
           \/ \E x \in Manifests \X OrderKinds : broker_arrive(x) \/ broker_fill(x) \/ broker_cancel(x)
           \/ \E p \in Procs : crash(p)
           \/ tick \/ UNCHANGED vars
  BY <1>1, <1>4, Zenon DEF invoke, broker_arrive, broker_fill, broker_cancel, crash, tick, vars, files, broker
<1> QED
  BY <1>2, <1>3, <1>4 DEF RunnerNext, Environment

(* MANUAL_RECONCILIATION and the terminal states are final: no invocation, *)
(* however stale what it read, rewrites such a file or calls the broker    *)
(* for its event; only damage to the file changes it.                      *)
THEOREM RunnerStops == RunnerSpec => StoppedStaysStopped
<1>1. Kept <=>
        \A m \in Manifests :
            LET s == store[EventOf[m]]
            IN  s.life \in Terminal \cup {"MANUAL_RECONCILIATION"} =>
                /\ store'[EventOf[m]] = s \/ store'[EventOf[m]].life = "INVALID"
                /\ \A k \in Mutations : calls'[<<m, k>>] = calls[<<m, k>>]
  BY Zenon DEF Kept, Stopped
<1> QED
  BY <1>1, NextKeeps, RunnerInvariant, PTL DEF RunnerSpec, StoppedStaysStopped
=============================================================================
