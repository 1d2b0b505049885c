----------------------------- MODULE MCSettles -----------------------------
(***************************************************************************)
(* What must come to an end, on instances small enough for liveness: an    *)
(* event the scheduled runner left RECONCILING, an autonomous session, the *)
(* scheduled PAPER session and an activity acquisition that is restarted.  *)
(* They share no state, so a behaviour explores one of them, its part.     *)
(***************************************************************************)
EXTENDS Integers, Sequences, FiniteSets

CONSTANTS Nil, torn

VARIABLES
    part,
    store, claims, runner_lock, process, orders, sent, now, faults,          \* ScheduledRunner
    arm, session, row, lifecycle, reasons, summary, job, exposed, calls,
    host, lock, receipt, issued, crashes,                                    \* AutonomousHost
    disposition, manual, final, sidecar, blocked, intent, broker, decision,
    outcome, paper_receipt, proc, clock, starts,                             \* PaperHost
    feed, file, worker                                                       \* ActivityAcquisition

runner_vars == <<store, claims, runner_lock, process, orders, sent, now, faults>>
host_vars == <<arm, session, row, lifecycle, reasons, summary, job, exposed, calls, host, lock,
               receipt, issued, crashes>>
paper_vars == <<disposition, manual, final, sidecar, blocked, intent, broker, decision, outcome,
                paper_receipt, proc, clock, starts>>
acquisition_vars == <<feed, file, worker>>
vars == <<part, runner_vars, host_vars, paper_vars, acquisition_vars>>
-----------------------------------------------------------------------------
(* Two processes run a manifest of one event, with one fault.               *)
Runner ==
    INSTANCE ScheduledRunner WITH
        lock <- runner_lock, proc <- process, calls <- sent,
        Procs <- {"p1", "p2"}, Events <- {"e1"}, Manifests <- {"m1"}, EventOf <- [m \in {"m1"} |-> "e1"],
        Qty <- 1, NotBefore <- 0, ExpiresAt <- 2, OpenExpiresAt <- 1, CloseExpiresAt <- 2,
        Horizon <- 2, MaxFaults <- 1, NoProc <- Nil, NoManifest <- Nil

(* One opportunity in the window [1,2), hard flat at 2, two crashes.        *)
Host ==
    INSTANCE AutonomousHost WITH
        Procs <- {"p"}, Arms <- {"a"}, Offers <- {[id |-> 1, window |-> 1, context |-> "c1"]},
        NumWindows <- 1, Opens <- <<1>>, Closes <- <<2>>, HardFlatAt <- 2, Times <- 1..2,
        Lifecycles <- {1}, Proofs <- {"pf"}, MaxCrashes <- 2,
        Plans <- {[class |-> "SYNTHETIC_FAKE", bindings |-> <<Nil, Nil, Nil, Nil>>]},
        NoArm <- Nil, NoRow <- Nil, NoLifecycle <- Nil, NoProof <- Nil, NoReason <- Nil,
        NoId <- Nil, NoSummary <- Nil, NoProc <- Nil, NoBinding <- Nil, NoReceipt <- Nil

(* One window, real or a rehearsal, and every fault but failing reads.      *)
Paper ==
    INSTANCE PaperHost WITH
        row <- disposition, receipt <- paper_receipt, Opportunities <- {1},
        Launchers <- {"scheduler"}, Gates <- BOOLEAN, RetryBudget <- 2, MaxStarts <- 2,
        Faults <- {"submit", "cancel", "activities", "partial"}

(* One worker reads accounts of up to four activities in pages of one.      *)
mcRaw(id, type, symbol, time, defects) ==
    [id |-> id, type |-> type, symbol |-> symbol, qty |-> 1, at |-> time, date |-> 1,
     defects |-> defects]
mcLong == <<mcRaw("a", "OPASN", "P6", 2, {}), mcRaw("b", "OPEXC", "C5", 2, {}),
            mcRaw("c", "FILL", "C5", 2, {"qty"}), mcRaw("d", "OPEXP", "C6", 9, {})>>
Acquisition ==
    INSTANCE ActivityAcquisition WITH
        job <- worker, NoArtifact <- Nil, NoToken <- Nil, Torn <- torn, Workers <- {"w"},
        Feeds <- {SubSeq(mcLong, 1, n) : n \in {0, 1, 3, 4}}, Window <- <<1, 4>>,
        Foreign <- <<11, 14>>, ForeignFeed <- <<>>, PageSize <- 1, MaxPages <- 6,
        Tearing <- FALSE, Forgetful <- FALSE,
        Contracts <- [s \in {"C5", "C6", "P5", "P6"} |->
            [root |-> "U", right |-> IF s \in {"C5", "C6"} THEN "CALL" ELSE "PUT",
             strike |-> IF s \in {"C5", "P5"} THEN 5 ELSE 6]]

ASSUME Runner!ScheduleConstants /\ Host!SessionConstants /\ Host!HostConstants
ASSUME Paper!PaperConstants /\ Acquisition!AcquisitionConstants
-----------------------------------------------------------------------------
runner_idle ==
    /\ store = Nil /\ claims = Nil /\ runner_lock = Nil /\ process = Nil /\ orders = Nil
    /\ sent = Nil /\ now = Nil /\ faults = Nil
host_idle ==
    /\ arm = Nil /\ session = Nil /\ row = Nil /\ lifecycle = Nil /\ reasons = Nil
    /\ summary = Nil /\ job = Nil /\ exposed = Nil /\ calls = Nil /\ host = Nil /\ lock = Nil
    /\ receipt = Nil /\ issued = Nil /\ crashes = Nil
paper_idle ==
    /\ disposition = Nil /\ manual = Nil /\ final = Nil /\ sidecar = Nil /\ blocked = Nil
    /\ intent = Nil /\ broker = Nil /\ decision = Nil /\ outcome = Nil /\ paper_receipt = Nil
    /\ proc = Nil /\ clock = Nil /\ starts = Nil
acquisition_idle == feed = Nil /\ file = Nil /\ worker = Nil

Init ==
    /\ part \in {"runner", "host", "paper", "acquisition"}
    /\ \/ part = "runner" /\ Runner!RunnerInit
       \/ part # "runner" /\ runner_idle
    /\ \/ part = "host" /\ Host!HostInit
       \/ part # "host" /\ host_idle
    /\ \/ part = "paper" /\ Paper!PaperInit
       \/ part # "paper" /\ paper_idle
    /\ \/ part = "acquisition" /\ Acquisition!AcquisitionInit
       \/ part # "acquisition" /\ acquisition_idle

Next ==
    /\ UNCHANGED part
    /\ \/ part = "runner" /\ Runner!RunnerNext
       \/ part # "runner" /\ UNCHANGED runner_vars
    /\ \/ part = "host" /\ Host!HostNext
       \/ part # "host" /\ UNCHANGED host_vars
    /\ \/ part = "paper" /\ Paper!PaperNext
       \/ part # "paper" /\ UNCHANGED paper_vars
    /\ \/ part = "acquisition" /\ Acquisition!RestartedNext
       \/ part # "acquisition" /\ UNCHANGED acquisition_vars
-----------------------------------------------------------------------------
(* Fairness                                                                *)

(* The operating system runs the processes, time passes, and every         *)
(* manifest is run again (the runbook: rerun the exact same manifest).     *)
RunnerFairness ==
    /\ WF_runner_vars(part = "runner" /\ Runner!tick)
    /\ \A p \in {"p1", "p2"} : WF_runner_vars(part = "runner" /\ Runner!Step(p))
    /\ SF_runner_vars(part = "runner" /\ \E p \in {"p1", "p2"} : Runner!invoke(p, "m1"))

(* A started invocation runs to its end unless it crashes, the operator    *)
(* keeps invoking the host, time and again at hard flat, and the plan      *)
(* factory does not fail every time it is asked at hard flat.              *)
planned == Host!in_host("p", "arm") /\ host["p"].hard /\ Host!host_arm("p") /\ lock' = "p"
HostFairness ==
    /\ WF_host_vars(part = "host" /\ Host!host_step("p"))
    /\ SF_host_vars(part = "host" /\ Host!host_begin("p", "a", {2}))
    /\ SF_host_vars(part = "host" /\ planned)

(* The process runs, time passes, the broker fills, and the host is        *)
(* started while its bound on starts allows it.                            *)
PaperFairness ==
    /\ WF_paper_vars(part = "paper" /\ Paper!host_step)
    /\ WF_paper_vars(part = "paper" /\ Paper!tick)
    /\ WF_paper_vars(part = "paper" /\ \E gate \in BOOLEAN : Paper!launch("scheduler", gate, 1, 1))
    /\ WF_paper_vars(part = "paper" /\ \E phase \in Paper!Phases : Paper!broker_step(1, phase))

(* The worker goes on, and is restarted until it returns.                  *)
AcquisitionFairness ==
    WF_acquisition_vars(part = "acquisition" /\ Acquisition!restarted("w"))

Spec ==
    /\ Init /\ [][Next]_vars
    /\ RunnerFairness /\ HostFairness /\ PaperFairness /\ AcquisitionFairness
-----------------------------------------------------------------------------
(* Properties                                                              *)

(* An event left RECONCILING by a crash is eventually settled: proved      *)
(* flat, or handed to a human, at the latest when its window has expired   *)
(* (check_expired and stop_expired of run_scheduled_event_command).        *)
reconciling == part = "runner" /\ store["e1"].life = "RECONCILING"
ReconcilingSettles == reconciling ~> ~reconciling

(* What was started ends.  The autonomous host issues a TERMINAL or a      *)
(* MANUAL_RECONCILIATION_REQUIRED receipt, or its session is frozen for    *)
(* good over a claim that no receipt can be issued for; the scheduler's    *)
(* process is down for good after such an end; and an acquisition that is  *)
(* restarted, and not interrupted for ever, returns                        *)
(* (acquire_account_activities resumes from its cursor).                   *)
SessionsSettle ==
    /\ <>[](part = "host" => Host!Settled)
    /\ <>[](part = "paper" => Paper!SessionSettled)
    /\ \/ []<><<part = "acquisition" /\ Acquisition!interrupted("w")>>_acquisition_vars
       \/ <>(part = "acquisition" => Acquisition!Returned)
=============================================================================
