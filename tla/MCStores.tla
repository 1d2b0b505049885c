------------------------------ MODULE MCStores ------------------------------
(***************************************************************************)
(* Small instances of the durable stores: the V2 compounding ledger and    *)
(* its kernel, the option event journal, the activity cursor, the schema   *)
(* migrations, the episode tables and the prospective ledger.  They share  *)
(* no state, so a behaviour explores one of them, its part.  The processes *)
(* that use a store are p1 and p2 throughout, and interchangeable.         *)
(***************************************************************************)
EXTENDS Integers, FiniteSets, Sequences, TLC

CONSTANTS Nil, torn, p1, p2

VARIABLES
    part,
    frozen, not_run, row, control, kernel_call, cash, placed, value,         \* CompoundingKernel
    bound, observations, coverages, claims, receipts, journal, tampered, today,
    positions, reported,                                                     \* OptionEventJournal
    feed, cursor, job,                                                       \* ActivityAcquisition
    schema, versions, opening, opens,                                        \* SchemaMigration
    decisions, outcomes, snapshots, call, summaries, now, calls,             \* Episodes
    file, view, damaged                                                      \* ProspectiveLedger

compounding_vars == <<frozen, not_run, row, control, kernel_call, cash, placed, value>>
journal_vars == <<bound, observations, coverages, claims, receipts, journal, tampered, today,
                  positions, reported>>
activity_vars == <<feed, cursor, job>>
migration_vars == <<schema, versions, opening, opens>>
episode_vars == <<decisions, outcomes, snapshots, call, summaries, now, calls>>
prospective_vars == <<file, view, damaged>>
vars == <<part, compounding_vars, journal_vars, activity_vars, migration_vars, episode_vars,
          prospective_vars>>

mcProcesses == {p1, p2}
mcSymmetry == Permutations(mcProcesses)
-----------------------------------------------------------------------------
(* Compounding, at a starting equity of 10, of which an underlying may hold *)
(* 2: two kernels over two events that offer one opportunity, or share one  *)
(* underlying; and one kernel over three events, where after the first      *)
(* position has risen to 40 two larger entries, one of them a V1 kernel's,  *)
(* compete for the cash that is left.                                       *)
mcTerm(opportunity, underlying, tier, per_contract, quantity) ==
    [opportunity |-> opportunity, underlying |-> underlying, tier |-> tier,
     debit |-> per_contract, quantity |-> quantity]

Rivals ==
    INSTANCE CompoundingKernel WITH
        call <- kernel_call, NoRow <- Nil, Kernels <- mcProcesses, StartingEquity <- 10,
        Values <- {}, LegacyEvents <- {}, Events <- {"a", "b"},
        Terms <- [a |-> mcTerm("o1", "X", 20, 1, 2), b |-> mcTerm("o1", "Y", 20, 1, 2)]

Neighbours ==
    INSTANCE CompoundingKernel WITH
        call <- kernel_call, NoRow <- Nil, Kernels <- mcProcesses, StartingEquity <- 10,
        Values <- {}, LegacyEvents <- {}, Events <- {"a", "b"},
        Terms <- [a |-> mcTerm("o1", "X", 20, 1, 2), b |-> mcTerm("o2", "X", 10, 1, 1)]

Grown ==
    INSTANCE CompoundingKernel WITH
        call <- kernel_call, NoRow <- Nil, Kernels <- {"kernel"}, StartingEquity <- 10,
        Values <- {40}, LegacyEvents <- {"e"}, Events <- {"a", "d", "e"},
        Terms <- [a |-> mcTerm("o1", "X", 20, 1, 2), d |-> mcTerm("o3", "Y", 20, 4, 2),
                  e |-> mcTerm("o4", "Z", 20, 4, 2)]
-----------------------------------------------------------------------------
(* The option journal: two spreads of one account that expire on day 1 and  *)
(* are final on day 2.  One part acts on both, the other lets one expire    *)
(* and reports it late.                                                     *)
mcHappening(id, kind, symbol, shares, money) ==
    [id |-> id, kind |-> kind, symbol |-> symbol, shares |-> shares, cash |-> money,
     underlying |-> "U", authority |-> "a",
     status |-> IF kind = "EXERCISE_REJECTED_BUYING_POWER" THEN "REJECTED" ELSE "EXECUTED",
     replacement |-> IF kind = "CONTRACT_ADJUSTMENT" THEN "U" ELSE Nil]
mcAssignment == mcHappening("as", "ASSIGNMENT", "S1", -1, 6)

Options == INSTANCE OptionEvents WITH NoArtifact <- Nil
mcHeld == [L1 |-> 1, L2 |-> 1, S1 |-> -1, S2 |-> -1, U |-> 0]
mcSpread(lifecycle, long, short, horizon) ==
    Options!create_binding(
        [authority |-> "a", session |-> "s", lifecycle |-> lifecycle, long |-> long,
         short |-> short, underlying |-> "U", right |-> "CALL", long_strike |-> 5,
         short_strike |-> 6, quantity |-> 1, activated |-> 0, baseline |-> 0, close |-> 1,
         horizon |-> horizon, session_date |-> 1, expiry |-> 1],
        Options!observation("a", 0, mcHeld))

Actions ==
    INSTANCE OptionEventJournal WITH
        now <- today, NoArtifact <- Nil, LastDay <- 1, MaxDelay <- 0, MaxReceipts <- 2,
        MayTamper <- FALSE, Bindings <- {mcSpread("l1", "L1", "S1", 2), mcSpread("l2", "L2", "S2", 2)},
        Happenings <- {mcAssignment, mcHappening("ex", "EXERCISE", "L1", 1, -4),
                       mcHappening("rj", "EXERCISE_REJECTED_BUYING_POWER", "L1", 0, 0)}

Expiry ==
    INSTANCE OptionEventJournal WITH
        now <- today, NoArtifact <- Nil, LastDay <- 2, MaxDelay <- 1, MaxReceipts <- 2,
        MayTamper <- TRUE, Bindings <- {mcSpread("l1", "L1", "S1", 2)},
        Happenings <- {mcHappening("xl", "EXPIRY", "L1", 0, 0),
                       mcHappening("xs", "EXPIRY", "S1", 0, 0)}
-----------------------------------------------------------------------------
(* The activity cursor: accounts of up to three activities in pages of two, *)
(* with every defect a record may have and a second window.                 *)
mcRaw(id, type, symbol, time, defects) ==
    [id |-> id, type |-> type, symbol |-> symbol, qty |-> 1, at |-> time, date |-> 1,
     defects |-> defects]
mcContracts ==
    [s \in {"C5", "C6", "P5", "P6"} |->
        [root |-> "U", right |-> IF s \in {"C5", "C6"} THEN "CALL" ELSE "PUT",
         strike |-> IF s \in {"C5", "P5"} THEN 5 ELSE 6]]
mcAssigned == mcRaw("a", "OPASN", "P6", 2, {})
mcExercised == mcRaw("b", "OPEXC", "C5", 2, {})
mcFilled == mcRaw("c", "FILL", "C5", 2, {"qty"})
mcFeeds ==
    {<<>>, <<mcAssigned>>, <<mcAssigned, mcExercised>>, <<mcAssigned, mcExercised, mcFilled>>,
     <<mcExercised, mcRaw("d", "OPEXP", "C6", 9, {}), mcRaw("u", "UNKNOWN", "C5", 1, {})>>,
     <<mcExercised, mcRaw("b", "OPEXC", "C6", 2, {})>>,
     <<mcFilled, mcRaw("c", "FILL", "C6", 2, {})>>,
     <<mcFilled, mcRaw("c", "OPEXC", "C5", 2, {})>>,
     <<mcRaw("o", "OPCA", "C5", 2, {}), mcFilled, mcRaw("x", "FILL", "C5", 2, {"id"})>>}
    \cup {<<mcFilled, mcRaw("e", "OPEXP", "C6", 3, {d})>> :
            d \in {"type", "unknown_field", "missing_field", "mapped_field", "time", "date",
                   "symbol", "qty"}}

Activities ==
    INSTANCE ActivityAcquisition WITH
        file <- cursor, NoArtifact <- Nil, NoToken <- Nil, Torn <- torn, Workers <- mcProcesses,
        Feeds <- mcFeeds, Window <- <<1, 4>>, Foreign <- <<11, 14>>, PageSize <- 2, MaxPages <- 3,
        ForeignFeed <- <<mcRaw("z", "OPEXP", "C5", 12, {})>>, Contracts <- mcContracts,
        Tearing <- TRUE, Forgetful <- TRUE

ASSUME Activities!AcquisitionConstants
-----------------------------------------------------------------------------
(* Two processes open four stores, the ledger found at any version.         *)
Migration ==
    INSTANCE SchemaMigration WITH
        Stores <- {"ledger", "journal", "session", "release"}, Processes <- mcProcesses,
        LedgerVersions <- 0..5, MaxOpens <- 3
-----------------------------------------------------------------------------
(* Episodes: one decision, two outcomes and a snapshot at the clock's    *)
(* three instants; and shadow runs of two receipts beside two decisions.    *)
mcDecision(id) ==
    [id |-> id, event |-> 1, candidate |-> 1, occurred_at |-> 0, cutoff_at |-> 2, policy |-> 1,
     model |-> 1, disposition |-> "ACCEPTED", direction |-> "UP"]
mcOutcome(id, kind) ==
    [id |-> id, decision |-> 1, event |-> 1, kind |-> kind, terminal_at |-> 0, observed_at |-> 0,
     final_flat |-> kind = "CLOSED", net_pnl |-> IF kind = "CLOSED" THEN id ELSE Nil]
mcSnapshot(id, exposure) ==
    [id |-> id, observed_at |-> 0, is_flat |-> exposure = 0, open_exposure |-> exposure]
mcReceipt(n, entry, evaluated) ==
    [decision_id |-> 100 + n, outcome_id |-> 200 + n, event |-> n, entry_at |-> entry,
     cutoff_at |-> 1, evaluated |-> evaluated]
mcAsks == {[policy |-> 1, model |-> 1, candidates |-> {}, limit |-> 16]}

Summarised ==
    INSTANCE Episodes WITH
        Callers <- mcProcesses, DecisionInputs <- {mcDecision(1)},
        OutcomeInputs <- {mcOutcome(2, "CLOSED"), mcOutcome(1, "RECONCILIATION_FAILED")},
        SnapshotInputs <- {mcSnapshot(1, 0)}, ShadowRuns <- {},
        Asks <- mcAsks, MaxTime <- 2, MaxCalls <- 5

Shadow ==
    INSTANCE Episodes WITH
        Callers <- mcProcesses, DecisionInputs <- {mcDecision(1), mcDecision(2)},
        OutcomeInputs <- {mcOutcome(1, "CLOSED")}, SnapshotInputs <- {mcSnapshot(1, 0)},
        ShadowRuns <- {<<mcReceipt(1, 1, TRUE), mcReceipt(2, 1, TRUE)>>,
                       <<mcReceipt(1, 1, TRUE), mcReceipt(3, 0, TRUE)>>,
                       <<mcReceipt(2, 1, TRUE), mcReceipt(3, 1, FALSE)>>},
        Asks <- mcAsks, MaxTime <- 1, MaxCalls <- 4
-----------------------------------------------------------------------------
(* The prospective ledger: one instance, two events, every damage.          *)
mcRegistration(e, time) == [event |-> e, sector |-> "s", cutoff |-> 0, close |-> time]

Prospective ==
    INSTANCE ProspectiveLedger WITH
        Instances <- {"ledger"}, Events <- {1, 2}, Times <- 1..2, MaxLines <- 4,
        Universes <- {{mcRegistration(1, 1)}, {mcRegistration(1, 2)}},
        Damages <- {"cut", "torn", "truncate", "reorder", "edit"}
-----------------------------------------------------------------------------
compounding_idle ==
    /\ frozen = Nil /\ not_run = Nil /\ row = Nil /\ control = Nil /\ kernel_call = Nil
    /\ cash = Nil /\ placed = Nil /\ value = Nil
journal_idle ==
    /\ bound = Nil /\ observations = Nil /\ coverages = Nil /\ claims = Nil /\ receipts = Nil
    /\ journal = Nil /\ tampered = Nil /\ today = Nil /\ positions = Nil /\ reported = Nil
activity_idle == feed = Nil /\ cursor = Nil /\ job = Nil
migration_idle == schema = Nil /\ versions = Nil /\ opening = Nil /\ opens = Nil
episode_idle ==
    /\ decisions = Nil /\ outcomes = Nil /\ snapshots = Nil /\ call = Nil /\ summaries = Nil
    /\ now = Nil /\ calls = Nil
prospective_idle == file = Nil /\ view = Nil /\ damaged = Nil

Init ==
    /\ part \in {"rivals", "neighbours", "grown", "actions", "expiry", "activities", "migration",
                 "summarised", "shadow", "prospective"}
    /\ \/ part = "rivals" /\ Rivals!KernelInit
       \/ part = "neighbours" /\ Neighbours!KernelInit
       \/ part = "grown" /\ Grown!KernelInit
       \/ part \notin {"rivals", "neighbours", "grown"} /\ compounding_idle
    /\ \/ part = "actions" /\ Actions!Init
       \/ part = "expiry" /\ Expiry!Init
       \/ part \notin {"actions", "expiry"} /\ journal_idle
    /\ \/ part = "activities" /\ Activities!AcquisitionInit
       \/ part # "activities" /\ activity_idle
    /\ \/ part = "migration" /\ Migration!MigrationInit
       \/ part # "migration" /\ migration_idle
    /\ \/ part = "summarised" /\ Summarised!EpisodesInit
       \/ part = "shadow" /\ Shadow!EpisodesInit
       \/ part \notin {"summarised", "shadow"} /\ episode_idle
    /\ \/ part = "prospective" /\ Prospective!ProspectiveInit
       \/ part # "prospective" /\ prospective_idle

Next ==
    /\ UNCHANGED part
    /\ \/ part = "rivals" /\ Rivals!KernelNext
       \/ part = "neighbours" /\ Neighbours!KernelNext
       \/ part = "grown" /\ Grown!KernelNext
       \/ part \notin {"rivals", "neighbours", "grown"} /\ UNCHANGED compounding_vars
    /\ \/ part = "actions" /\ Actions!Next
       \/ part = "expiry" /\ Expiry!Next
       \/ part \notin {"actions", "expiry"} /\ UNCHANGED journal_vars
    /\ \/ part = "activities" /\ Activities!AcquisitionNext
       \/ part # "activities" /\ UNCHANGED activity_vars
    /\ \/ part = "migration" /\ Migration!MigrationNext
       \/ part # "migration" /\ UNCHANGED migration_vars
    /\ \/ part = "summarised" /\ Summarised!EpisodesNext
       \/ part = "shadow" /\ Shadow!EpisodesNext
       \/ part \notin {"summarised", "shadow"} /\ UNCHANGED episode_vars
    /\ \/ part = "prospective" /\ Prospective!ProspectiveNext
       \/ part # "prospective" /\ UNCHANGED prospective_vars

Spec == Init /\ [][Next]_vars
-----------------------------------------------------------------------------
(* Properties, each stated in full where its store is modelled.            *)

(* Compounding: an opportunity backs one reservation, the caps hold for    *)
(* the equity each reservation was sized on, and no cash is promised twice *)
(* by a kernel called one call at a time.                                  *)
CompoundingIsCovered ==
    /\ part = "rivals" => Rivals!OneRowPerOpportunity
    /\ part = "neighbours" => Neighbours!CapsHold
    /\ part = "grown" => Grown!CashCovers /\ Grown!AllocationFits

(* The option journal: an activity is evidence for one lifecycle, manual   *)
(* state sticks to the account, observations advance, and a flat           *)
(* attestation is true of the account.                                     *)
OptionEventsAreOwned ==
    /\ part = "actions" => Actions!OneOwner /\ Actions!ManualSticks
    /\ part = "expiry" => Expiry!ObservationsAdvance /\ Expiry!AttestedIsTrue

(* An acquisition that returns holds the whole window; every record of it  *)
(* is accounted for, and its economics are those the reducer demands.      *)
ActivitiesAreWhole ==
    part = "activities" => /\ Activities!ReturnedIsWhole /\ Activities!NothingDropped
                           /\ Activities!ConflictsAreManual /\ Activities!EconomicsAgree

(* Whatever was interrupted, an open finds a whole store or refuses it:    *)
(* schemas are complete, journals this code wrote are accepted and altered *)
(* ones are not, and a replay knows what the writer knew.                  *)
RestartFindsTheWhole ==
    /\ part = "migration" => Migration!OpenedIsComplete /\ Migration!StoresReopen
    /\ part = "expiry" => Expiry!RestartAccepts /\ Expiry!ForgeryRefused
    /\ part = "prospective" => /\ Prospective!SignalsComeFirst /\ Prospective!RestartReplays
                               /\ Prospective!DamageIsFound

(* Summaries: each passes its own check although its three reads are not   *)
(* one transaction, counts only what is final, and stands for ever once    *)
(* nothing stamped before its cutoff is in flight; outcomes have decisions *)
(* and corrections name the exact row they correct.                        *)
SummariesStand ==
    /\ part = "summarised" => /\ Summarised!DraftPassesItsCheck /\ Summarised!CountedIsFinal
                              /\ Summarised!SettledSummaryStands
    /\ part = "shadow" => Shadow!OutcomesHaveDecisions /\ Shadow!CorrectionsBind

(* No step rewrites what a store has recorded: the bindings of a           *)
(* reservation, an episode row, the universe of a prospective ledger.      *)
RecordsStand ==
    [][/\ part = "rivals" => Rivals!BindingsKept
       /\ part \in {"summarised", "shadow"} => Shadow!EpisodesKept
       /\ part = "prospective" => Prospective!UniverseKept]_vars
=============================================================================
