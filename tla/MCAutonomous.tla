---------------------------- MODULE MCAutonomous ----------------------------
(***************************************************************************)
(* Small instances of autonomous trading on the paper account: the session *)
(* store and its coordinators, the host command over it, the authority a   *)
(* host needs, the production PAPER host and the application service.      *)
(* They share no state here, so a behaviour explores one of them, its      *)
(* part.  Coordinators, hosts and users of the release log are p1 and p2,  *)
(* and interchangeable.                                                    *)
(***************************************************************************)
EXTENDS AutonomousHost, Sequences, TLC

CONSTANTS Nil, a1, a2, pf1, pf2

VARIABLES
    part,
    releases, revocations, log_job, witnessed, revoked, validated,           \* HostAuthority
    disposition, manual, final, sidecar, blocked, intent, broker, decision,
    outcome, paper_receipt, proc, paper_clock, paper_starts,                 \* PaperHost
    claimed, opened, bundles, episodes, option_receipts, exposures, intents,
    orders, positions, runs, closes, duplicates, call, service_starts         \* ApplicationService

log_and_validated == <<releases, revocations, log_job, witnessed, revoked, validated>>
paper_vars == <<disposition, manual, final, sidecar, blocked, intent, broker, decision, outcome,
                paper_receipt, proc, paper_clock, paper_starts>>
service_vars == <<claimed, opened, bundles, episodes, option_receipts, exposures, intents, orders,
                  positions, runs, closes, duplicates, call, service_starts>>
host_only_vars == <<host, lock, receipt, issued, crashes>>
vars == <<part, host_vars, log_and_validated, paper_vars, service_vars>>

mcSymmetry == Permutations(Procs)
-----------------------------------------------------------------------------
(* The session: one window [1,2) and hard flat at 2.  Two coordinators      *)
(* work in the window on two opportunities, for which one lifecycle may be  *)
(* reported; or until hard flat on one opportunity that a later collection  *)
(* presents with another context, with two arms and two proofs of a close.  *)
mcOffer(id, context) == [id |-> id, window |-> 1, context |-> context]
mcOffers == {mcOffer(1, "c1"), mcOffer(2, "c1")}
mcOpens == <<1>>
mcCloses == <<2>>

Conflicting ==
    INSTANCE AutonomousSession WITH
        Arms <- {a1}, Offers <- {mcOffer(1, "c1"), mcOffer(1, "c2")}, Proofs <- {pf1, pf2},
        Times <- 1..2

(* The host, with one opportunity: one invocation after another with a      *)
(* crash, or two at once with plans that mix the origins of their backends. *)
mcPlan(class, third) ==
    [class |-> class, bindings |-> IF class = "PAPER_MCP" THEN <<"b1", "b1", third, "b1">>
                                   ELSE <<Nil, Nil, third, Nil>>]
mcPlans == {mcPlan("SYNTHETIC_FAKE", Nil)}

Alone ==
    INSTANCE AutonomousHost WITH
        Procs <- {"host"}, Arms <- {a1}, Offers <- {mcOffer(1, "c1")}, Times <- 1..2,
        MaxCrashes <- 1,
        Plans <- {mcPlan("PAPER_MCP", "b1"), mcPlan("SYNTHETIC_FAKE", "b1")}
Overlap ==
    INSTANCE AutonomousHost WITH
        Arms <- {a1}, Offers <- {mcOffer(1, "c1")}, Times <- 1..2,
        Plans <- {mcPlan("SYNTHETIC_FAKE", Nil), mcPlan("PAPER_MCP", "b2")}
-----------------------------------------------------------------------------
(* Authority: two builds whose packages carry the same identifiers but      *)
(* different contract hashes; a chain of two releases and a rival first     *)
(* one; and what a host may be started with.                                *)
mcRelease(name, build, supersedes) ==
    [name |-> name, version |-> 1, mode |-> "PAPER", ids |-> "ids", lanes |-> TRUE,
     evidence |-> TRUE, security |-> TRUE, build |-> build, revision |-> build,
     supersedes |-> supersedes]
mcFirst == mcRelease("r1", "b1", Nil)
mcSecond == mcRelease("r2", "b2", <<"release", mcFirst>>)
mcRival == mcRelease("rival", "b1", Nil)

mcPackages ==
    {[build |-> b, ids |-> "ids", contracts |-> <<"contracts", b>>, route |-> TRUE,
      latency |-> TRUE] : b \in {"b1", "b2"}}

(* An arm of the date; widened to overlapping windows, or a later end.      *)
mcWindow(d, opening, closing_at) ==
    [id |-> opening, opens |-> 6 * d + opening, closes |-> 6 * d + closing_at,
     candidates |-> <<"earnings", "anchor">>]
mcArm(d, b) ==
    [session |-> "session", build |-> b, fingerprint |-> "account",
     contracts |-> <<"contracts", b>>, mode |-> "PAPER", starts |-> 6 * d + 1,
     ends |-> 6 * d + 5, hard_flat |-> 6 * d + 5, windows |-> <<mcWindow(d, 1, 3), mcWindow(d, 3, 5)>>]

mcRecord(arm_given, r) ==
    [id |-> "session", release |-> <<"release", r>>, capability |-> "paper",
     sources |-> <<1, 2>>, starts |-> arm_given.starts, expires |-> arm_given.hard_flat,
     ledger |-> "ledger", process |-> "process", flatten |-> TRUE, recovery |-> TRUE]
mcBytes(kind, payload) == [payload |-> payload, sha |-> <<kind, payload>>, canonical |-> TRUE]
mcInput(arm_given, r, recorded_as, canonical) ==
    [release |-> [mcBytes("release", r) EXCEPT !.canonical = canonical],
     record |-> mcBytes("record", mcRecord(arm_given, recorded_as)),
     arm |-> mcBytes("arm", arm_given), sha |-> <<"release", recorded_as>>, build |-> r.build,
     revision |-> r.revision, capability |-> "paper", fingerprint |-> "account",
     sources |-> <<1, 2>>, ledger |-> "ledger", process |-> "process"]
mcInputs ==
    {mcInput(mcArm(0, "b1"), mcFirst, mcFirst, TRUE), mcInput(mcArm(1, "b1"), mcFirst, mcFirst, TRUE),
     mcInput([mcArm(0, "b1") EXCEPT !.windows[1].closes = 5], mcFirst, mcFirst, TRUE),
     mcInput([mcArm(0, "b1") EXCEPT !.ends = 6], mcFirst, mcFirst, TRUE),
     mcInput(mcArm(0, "b1"), mcFirst, mcFirst, FALSE),
     mcInput(mcArm(0, "b2"), mcSecond, mcSecond, TRUE),
     mcInput(mcArm(0, "b1"), mcRival, mcFirst, TRUE)}

Authority ==
    INSTANCE HostAuthority WITH
        job <- log_job, NoRelease <- Nil, Packages <- mcPackages, Inputs <- mcInputs,
        Releases <- {mcFirst, mcSecond, mcRival},
        Revocations <- {"security", "operator"}, Day <- 6, DecisionTimes <- <<1, 3>>,
        HardFlatTime <- 5, CandidateIds <- <<"earnings", "anchor">>

ASSUME Authority!AuthorityConstants
-----------------------------------------------------------------------------
(* The production host, with two opportunities and every fault but failing  *)
(* reads, or with one opportunity and every fault.                          *)
Paper ==
    INSTANCE PaperHost WITH
        row <- disposition, receipt <- paper_receipt, clock <- paper_clock, starts <- paper_starts,
        Opportunities <- 1..2, Launchers <- {"scheduler", "operator"}, Gates <- {TRUE},
        RetryBudget <- 2, Faults <- {"submit", "cancel", "activities", "partial"}, MaxStarts <- 2
Blind ==
    INSTANCE PaperHost WITH
        row <- disposition, receipt <- paper_receipt, clock <- paper_clock, starts <- paper_starts,
        Opportunities <- {1}, Launchers <- {"scheduler", "operator"}, Gates <- {TRUE},
        RetryBudget <- 2, Faults <- {"read", "submit", "cancel", "activities", "partial"},
        MaxStarts <- 2

(* The application service, with two windows and stages that take no time,  *)
(* or with one window whose stages may reach its deadline.                  *)

mcFaults == {"refusal", "ambiguous", "outage", "residual", "truth", "manual", "persistence"}
Service ==
    INSTANCE ApplicationService WITH
        lifecycle <- opened, sidecar <- bundles, receipts <- option_receipts,
        starts <- service_starts, Windows <- 1..2, WindowLength <- 4,
        Offsets <- {0, 4}, Elapses <- {0}, OptionFeeds <- {1}, MaxStarts <- 1,
        MaxDuplicates <- 1, Faults <- mcFaults
Deadline ==
    INSTANCE ApplicationService WITH
        lifecycle <- opened, sidecar <- bundles, receipts <- option_receipts,
        starts <- service_starts, Windows <- {1}, WindowLength <- 4,
        Offsets <- {0, 4}, Elapses <- {0, 2}, OptionFeeds <- {1}, MaxStarts <- 1,
        MaxDuplicates <- 1, Faults <- mcFaults

ASSUME Paper!PaperConstants /\ Blind!PaperConstants /\ Alone!HostConstants
ASSUME Service!ServiceConstants /\ Deadline!ServiceConstants
-----------------------------------------------------------------------------
session_idle ==
    /\ arm = Nil /\ session = Nil /\ row = Nil /\ lifecycle = Nil /\ reasons = Nil
    /\ summary = Nil /\ job = Nil /\ exposed = Nil /\ calls = Nil
host_idle == host = Nil /\ lock = Nil /\ receipt = Nil /\ issued = Nil /\ crashes = Nil
authority_idle ==
    /\ releases = Nil /\ revocations = Nil /\ log_job = Nil /\ witnessed = Nil /\ revoked = Nil
    /\ validated = Nil
paper_idle ==
    /\ disposition = Nil /\ manual = Nil /\ final = Nil /\ sidecar = Nil /\ blocked = Nil
    /\ intent = Nil /\ broker = Nil /\ decision = Nil /\ outcome = Nil /\ paper_receipt = Nil
    /\ proc = Nil /\ paper_clock = Nil /\ paper_starts = Nil
service_idle ==
    /\ claimed = Nil /\ opened = Nil /\ bundles = Nil /\ episodes = Nil /\ option_receipts = Nil
    /\ exposures = Nil /\ intents = Nil /\ orders = Nil /\ positions = Nil /\ runs = Nil
    /\ closes = Nil /\ duplicates = Nil /\ call = Nil /\ service_starts = Nil

Init ==
    /\ part \in {"session", "conflicting", "alone", "overlap", "authority", "paper", "blind",
                 "service", "deadline"}
    /\ \/ part = "session" /\ SessionInit /\ host_idle
       \/ part = "conflicting" /\ Conflicting!SessionInit /\ host_idle
       \/ part = "alone" /\ Alone!HostInit
       \/ part = "overlap" /\ Overlap!HostInit
       \/ part \notin {"session", "conflicting", "alone", "overlap"} /\ session_idle /\ host_idle
    /\ \/ part = "authority" /\ Authority!AuthorityInit
       \/ part # "authority" /\ authority_idle
    /\ \/ part = "paper" /\ Paper!PaperInit
       \/ part = "blind" /\ Blind!PaperInit
       \/ part \notin {"paper", "blind"} /\ paper_idle
    /\ \/ part = "service" /\ Service!ServiceInit
       \/ part = "deadline" /\ Deadline!ServiceInit
       \/ part \notin {"service", "deadline"} /\ service_idle

Next ==
    /\ UNCHANGED part
    /\ \/ part = "session" /\ SessionNext /\ UNCHANGED host_only_vars
       \/ part = "conflicting" /\ Conflicting!SessionNext /\ UNCHANGED host_only_vars
       \/ part = "alone" /\ Alone!HostNext
       \/ part = "overlap" /\ Overlap!HostNext
       \/ part \notin {"session", "conflicting", "alone", "overlap"} /\ UNCHANGED host_vars
    /\ \/ part = "authority" /\ Authority!AuthorityNext
       \/ part # "authority" /\ UNCHANGED log_and_validated
    /\ \/ part = "paper" /\ Paper!PaperNext
       \/ part = "blind" /\ Blind!PaperNext
       \/ part \notin {"paper", "blind"} /\ UNCHANGED paper_vars
    /\ \/ part = "service" /\ Service!ServiceNext
       \/ part = "deadline" /\ Deadline!ServiceNext
       \/ part \notin {"service", "deadline"} /\ UNCHANGED service_vars

Spec == Init /\ [][Next]_vars
-----------------------------------------------------------------------------
(* Properties, each stated in full where its component is modelled.        *)

(* The session store: however coordinators interleave and crash, an        *)
(* opportunity is processed at most once, a holding is on record, the two  *)
(* tables agree and a stored reason freezes the session.                   *)
SessionIsAccounted ==
    /\ part = "session" => StoreIsAccounted
    /\ part = "conflicting" => Conflicting!StoreIsAccounted
    /\ part = "alone" => Alone!StoreIsAccounted
    /\ part = "overlap" => Overlap!StoreIsAccounted

(* The rows of the store implement the abstract opportunity log: claimed   *)
(* once, answered once, an ACTIVE one flattened at most once.              *)
mcDecision ==
    [i \in Ids |-> IF row # Nil /\ i \in DOMAIN row /\ row[i] # Nil THEN row[i].state ELSE "NONE"]
Decided == INSTANCE OpportunityLog WITH decision <- mcDecision
RowsImplementLog == Decided!LogSpec

(* The host command: a TERMINAL receipt is final, the frozen summary stays *)
(* true, only an open claim of a frozen session has no receipt, and an     *)
(* invocation has one origin.                                              *)
ReceiptsAreFinal ==
    /\ part = "alone" => Alone!CommandIsAccounted
    /\ part = "overlap" => Overlap!CommandIsAccounted

(* Authority: at most one release is current, a loaded one was current at  *)
(* some instant of the call, a revocation stands, an accepted host's       *)
(* release is the log's, and its arm the one its session date determines.  *)
AuthorityIsBound ==
    part = "authority" => Authority!AuthorityIsBound

(* The production host: exposure is accounted for, a terminal proof is     *)
(* flat for good, and what is active can be closed from the disk alone.    *)
PaperIsAccounted ==
    /\ part = "paper" =>
          Paper!ExposureAccounted /\ Paper!TerminalIsFlat /\ Paper!ActiveIsClosable
    /\ part = "blind" =>
          Blind!ExposureAccounted /\ Blind!TerminalIsFlat /\ Blind!ActiveIsClosable

(* The application service: orders are not repeated, a terminal proof is   *)
(* flat for good, and what is active can be closed from the disk alone.    *)
ServiceIsAccounted ==
    /\ part = "service" => Service!ServiceIsAccounted
    /\ part = "deadline" => Deadline!ServiceIsAccounted

(* What has stopped takes nothing new: a frozen session, a paper session   *)
(* under manual reconciliation, a service with a manual option receipt;    *)
(* and a run that stops over exposure says so.                             *)
StopsHold ==
    [][/\ part = "alone" => Alone!FrozenTakesNothingNew
       /\ part = "overlap" => Overlap!FrozenTakesNothingNew
       /\ part = "paper" => Paper!ManualHoldsEntries
       /\ part = "blind" => Blind!ManualHoldsEntries
       /\ part = "service" => Service!StickyHoldsEntries /\ Service!ExposureEscalates
       /\ part = "deadline" => Deadline!StickyHoldsEntries /\ Deadline!ExposureEscalates]_vars
=============================================================================
