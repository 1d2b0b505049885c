# Verification of the PAPER trading control

TLA+ models, TLC runs and TLAPS proofs for `esscher`: the parts that hold
durable state or talk to a broker, and the decision rules that feed them. Paths
below are relative to `src/src/esscher/` (scripts to `src/`, documents to
`src/docs/`). `PROJECT.json` maps each definition to the lines it models.

## The system and its parts

The package turns researched events into at most one bounded PAPER option
position per event. A trading day passes through the parts in the order of this
table, with the stores of the last three rows underneath.

| part | code | module |
|---|---|---|
| capture of a session's data | `scripts/capture_lane.py` | `CaptureLane` |
| synchronized window, price history, news | `sourcedata/windows.py`, `adjustments.py`, `betas.py`, `alpaca_news.py`, `news.py` | `MarketTape`, `PriceHistory`, `NewsRetrieval` |
| strategy documents, their join, the snapshot compilers | `strategy/contracts.py`, `sourcedata/compiler.py` | `StrategyDocuments`, `StrategyInputs`, `SnapshotCompiler` |
| decision engine, routes, V2 receipt | `strategy/engine.py`, `reasoner.py`, `host_route.py`, `baselines.py`, `contracts/reasoner_route.py` | `DecisionEngine`, `RouteApproval`, `DirectionReceipt` |
| expression compiler and tournament | `execution/expression/*` | `Expressions` |
| control states, risk ledger and kernel, V1 | `risk/controls.py`, `ledger.py`, `kernel.py` | `RiskControls`, `RiskLedger`, `RiskKernel` |
| risk ledger and kernel, V2 | the same, `autonomy/universe.py` | `CompoundingKernel` |
| monitored lifecycle | `lifecycle/*` | `MonitoredLifecycle` |
| scheduled one-shot runner | `runtime/scheduled.py`, `execution/paper_demo.py`, `execution/mcp.py` | `ScheduledRunner` |
| autonomous session | `runtime/autonomous.py` | `AutonomousSession`, abstractly `OpportunityLog` |
| host command, its authority, the release log | `runtime/autonomous_host.py`, `contracts/strategy_release.py` | `AutonomousHost`, `HostAuthority` |
| production host and scheduler | `runtime/paper_mcp_composition.py`, `host_persistence.py`, `paper_scheduler.py` | `PaperHost` |
| application service | `runtime/autonomous_application_service.py`, `stage_budgets.py` | `ApplicationService` |
| option events, account activities | `runtime/option_events.py`, `sourcedata/alpaca_option_events.py` | `OptionEvents`, `OptionEventJournal`, `ActivityAcquisition` |
| episodes, shadow and prospective ledgers | `autonomy/episodes.py`, `alpha/shadow_ledger.py`, `alpha/prospective_ledger.py` | `EpisodicSummary`, `Episodes`, `ProspectiveLedger` |
| opening and migrating the stores | the `migrate` methods of the four stores | `SchemaMigration` |

The kernel authorizes an entry against the ledger, and the ledger issues a
one-use permit. A lifecycle worker spends the permit: durable intent, broker
order, readback, ledger transition, close. The scheduled runner is a second,
file-based path to the broker for one approved manifest. The autonomous session
claims opportunities of a trading day, has each processed once and closes what
is open at hard flat; the host command runs it under a lock and an authority,
the production host and the application service supply its ports.

## How the code became modules

One action is what the code does without giving up control: a `BEGIN IMMEDIATE`
transaction, a file write, a broker or service call, or the computation between
two of them. Where a method performs several, the process has a program counter
and its locals in one record (`call[k]`, `job[w]`, `proc[p]`), and other
processes, crashes and time interleave between any two steps. `X_accepts`
operators are the checks of a call in their order; a refused call changes
nothing that is durable. Digests and canonical bytes are the values they cover,
so equality of digests is equality of contents. Decimal amounts are integers.

- `RiskLedger`: one action per transaction (`freeze_candidate`, `mark_not_run`,
  `reserve_and_issue_permit`, `record_submission`, `record_fill`,
  `reconcile_observed_order`, `release_consumed_after_flat`, and three for
  lifecycle intents). Receipts are kept per event as the set of types appended
  in the same transaction. `LedgerSpec` is the abstract specification of the two
  modules that follow; `EntrySpec` is the part without intents.
- `RiskKernel` extends it with the control state, the day's peak equity and the
  methods `authorize_entry`, `startup_reconciliation`, `reconcile_fill` and
  `reconcile_flat`, and KILL, which is stored by `set_control_state` alone. Broker truth is any
  value, or one of the failures of `_failure_trigger`. `KernelSpec` interleaves
  kernels; `SequentialSpec` runs one method at a time.
- `MonitoredLifecycle` extends `RiskLedger` with workers, a clock and a broker.
  A submission may be placed with its acknowledgement lost; orders fill unit by
  unit or end early; a readback is current, or fails.
- `ScheduledRunner`: the unlocked reads, the lock, the rechecks under it, the
  state-file writes, the attempt markers and each broker call. A submission may
  be placed, refused, or arrive later; a state file may be damaged.
- `AutonomousSession`: the five tables of the store and `run` of the
  coordinator, from the collection through claim, processing and record, and the
  hard-flat branch up to the summary. `AutonomousHost` extends it with the lock,
  the timeline, final reconciliation and the receipt, which is issued or, over
  an open claim, refused. `HostAuthority` holds the
  release log (with the reads of `load_exact` and `revoke` as separate steps),
  the parsers, and the session arm with its windows.
- `PaperHost` and `ApplicationService` use the session store, the sidecar, the
  episodes and the lifecycle intents as far as their code does; the stores' own
  rules are in the modules above.
- `CaptureLane` holds the eight commands and the pure conversions of the tape
  and of the filings' facts. `Expressions` holds the gates that compiler and
  tournament share, and both of them, so that they can be compared.

`MC*` modules give the constants. `MCStores`, `MCSources`, `MCDecisions`,
`MCAutonomous` and `MCSettles` check several components that share no state:
the variable `part` picks one of them at the start, the variables of the others
stay at `Nil`, and each property is a conjunction of `part = "x" => X!P`, the
`P` being stated and commented in its component's module. Definitions
introduced by "A slip" are plausible bugs, each of which makes one property
fail; nothing else uses them.

## Runs

| run | result | what it shows |
|---|---|---|
| `ledger` | holds | Rows of the tables agree and the receipts explain them; exposure, open count and entries per day stay within limits that bind; an event is entered once |
| `kernel` | holds | Two kernels, or one alone: however methods interleave the ledger changes only by its transactions; for one kernel alone KILL is terminal, entries only in ACTIVE, concentration within policy |
| `kernel_kill_race` | violated | KILL stored by another process is overwritten |
| `kernel_entry_race` | violated | Two kernels: an entry commits after ACTIVE was left |
| `lifecycle` | holds | Three workers: one order per phase, budget freed only when flat, never short, ledger refined |
| `lifecycle_recovery` | violated | Recovery reports a state that is not durable |
| `runner` | holds | Two processes, two events: one attempt each, terminal means flat, one event exposed at a time, stopped stays stopped |
| `settles` | holds | What was started ends, under the fairness below |
| `autonomous` | holds | Session store, host command, authority, production host and application service: processed once, exposure on record, receipts final, authority bound, what is stopped takes nothing new, and the rows implement `OpportunityLog` |
| `stores` | holds | V2 reservations within caps and cash; option events owned by one lifecycle; acquisitions whole; every store reopens or refuses; summaries stand; nothing recorded is rewritten |
| `sources` | holds | Captures lose no share; features are comparable whatever the order of a tape; news is known at the cutoff; compilers and the join of inputs agree |
| `decisions` | holds | A direction rests on one timely answer, and the provider is asked again only after an answer that could not be read; a route is bound to its receipt; a proposal cites what was sent and is current when made; compiler, tournament and permit constructor agree |

The three violated runs are disagreements between a document and the code:

1. `RISK_KERNEL.md:82`, "`KILL` is terminal". `_apply_trigger` reads the state
   and writes the computed one later, without comparing. A kernel that read
   before KILL was stored overwrites it.
2. `RISK_KERNEL.md:81`, "Each state blocks new entries". `authorize_entry` reads
   the state before it awaits broker truth, and the reserving transaction does
   not read it again.
3. `lifecycle/states.py:4`, "The worker persists each transition". After a crash
   `recover_open_state` returns `OPEN_FILLED` and `recover_flatness`
   `CLOSED_FLAT` without writing. `close()` requires a FILLED permit and so
   refuses the recovered position.

The first two need two processes on one ledger. The ledger's own comment
(`risk/ledger.py:1942`) and the thread-pool test of the kernel expect concurrent
callers. With one method at a time both properties hold (`KillTerminalAlone`,
`EntryOnlyWhileActiveAlone` in the run `kernel`), and are proved.

### Where a property is narrower than a document

Translating the code showed more places where it does less than a document says.
They have no run of their own. The models behave as the code does, and the
properties state what does hold.

- `runtime/autonomous.py:2557`: `run` returns when an opportunity is still
  CLAIMED, before it looks at the clock. After a processor exception no later
  run visits the active lifecycles at hard flat
  (`AUTONOMOUS_HOST_RUNNER.md:261`).
- `runtime/autonomous.py:2681`: a disposition that needs manual work and the
  freeze of the session are two transactions; a crash between them leaves the
  session ARMED (`PAPER_MCP_HOST.md:54`). Hence `ReasonsFreeze` speaks of stored
  reasons.
- `runtime/autonomous_host.py:1685`: the receipt's counts come from the rows grouped
  by state, and `_canonical_disposition_counts` (`:264`) raises for CLAIMED, which
  is not a disposition. A host that meets an open claim therefore issues no
  receipt and `paper_scheduler.py` lets the exception out. `ReceiptRenders` says
  that this happens over an open claim only, in a frozen session with a reason on
  record; `SessionsSettle` counts such a session as settled by its freeze.
- `risk/kernel.py:530`: `authorize_entry_v2` reads the account before the rows, so
  a row reconciled in between counts as consumed against cash that still holds
  it (comment at `:596`). `CashCovers` is stated for one kernel call at a time.
- `runtime/option_events.py:2154`: a replay of a receipt that was made sticky is
  refused (`OPTION_EVENT_RECONCILIATION.md:106`).
- `sourcedata/alpaca_option_events.py:389`: a torn last line makes the whole
  cursor unreadable (comment at `:367`).
- `runtime/paper_mcp_composition.py:921`: a rehearsal may cancel a working order
  (`:368`); `:911`: a working close order is not spared by a restart (`:872`);
  `:1249`: a close whose readback comes after the frozen instant is rejected.
- `runtime/autonomous_application_service.py:1332`: a budget violation after
  LIFECYCLE_OPEN leaves a position that `close_authority` refuses (`:8`);
  `:1558`: the deadline is compared with the request's own instant; `:1975`: a
  retried close may name an outcome that was not written.
  `runtime/stage_budgets.py:202` counts each budget once for nine stages.
- `risk/ledger.py:490`: version 2 adds a column outside a transaction; a migration
  cut short there fails ever after (`:476`).
- `autonomy/episodes.py:1824`: a row stamped before a past cutoff and committed
  later changes that summary (`:1807`). `SettledSummaryStands` excludes it.
  `alpha/shadow_ledger.py:214`: shadow rows make the table unreadable to
  `_validated_rows`.
- `alpha/prospective_ledger.py:229`: truncation at a line is not found
  (`QFAST_PANEL_EVIDENCE.md:121`); `:410`: a second open instance may append a
  signal after an inspection (`:5`).
- `scripts/capture_lane.py`: a blocked probe leaves an older PASSED receipt
  (`:1619`); pages are fetched after `captured_at` (`:1671`); a manifest without
  `--frozen-at` is dated the day before (`:795`); a rehearsal's evidence has the
  labels of a live one (`:1868`); there is no lower bound on the capture instant
  (`:1688`); only neighbouring prints of one stamp are merged (`:1026`).
- `strategy/engine.py:270`: the fence key is recorded after the route returns
  (`:5`, "at most once per joined input"). A route that raises before its
  transport call, or that cannot unwrap the answer (`host_route.py:771`), leaves no
  key and no outcome, and may be invoked again; in the second case the provider
  is contacted again. `ProviderCalledOnce` allows one contact more for each answer
  lost that way. `strategy/host_route.py:856`: time before the transport call is
  not counted (`STRATEGY_V1.md:156`).
- `strategy/contracts.py:2710`: an answer with no canonical encoding makes the
  record of a completed call raise, after the key was recorded: that input has
  no outcome, not even UNCERTAIN (`engine.py:6`). `:3955`: for the same reason a V2
  proposal may raise where `:3885` promises an ABSTAINED or REJECTED receipt;
  `ReceiptAlwaysBuilt` excepts exactly these answers.
- `contracts/reasoner_route.py:1446`: a process that loaded a route keeps it after
  its receipt was replaced (`:1330`).
- `strategy/contracts.py:2274`: clocks are compared to the second
  (`STRATEGY_DATA_PIPELINE.md:113`), so `ClocksAreThePolicys` allows one; `:2270`:
  the universe-freeze clock is compared with nothing (`STRATEGY_V1.md:55`).
- `sourcedata/windows.py:184`: only prints, not quotes, are refused as duplicates
  (`STRATEGY_DATA_PIPELINE.md:108`); `:198`: ages are cut to milliseconds, so
  `QuotesFresh` allows one more.
- `sourcedata/adjustments.py:113`: a split on the reaction date is dropped
  (`STRATEGY_DATA_PIPELINE.md:188`), which `GapOnOneBasis` excludes; `:87`:
  conflicting splits get another reason than `:196` says.
  `sourcedata/compiler.py:611`: splits just before the beta window are not
  fetched; `:1239`: the window is moved to prior dates in UTC, so
  `SameClockReturns` asks for one UTC offset.
- `sourcedata/alpaca_news.py:258`: `retrieved_at` is the instant stamped before the
  first page (`:40`).
- `execution/expression/compiler.py:381`: packages quoted in fractions of a cent
  compile (`EXPRESSION_TOURNAMENT.md:98`), which `PermitBoundaryCompatible`
  excludes. `execution/expression/tournament.py:174`: the tournament does not
  exclude same-day expiry; `:399`: two events with one id count as one, which
  `FailuresCounted` excludes.

## Bounds

Two of everything that can race, one fault more than a single recovery needs,
and limits that can be met exactly and would be exceeded by one step more.

- Ledger: two events, a candidate of exposure 1 and one of 2 on different
  underlyings, an aggregate limit of 2, two open, one entry a day, two days.
- Kernel: two events of one underlying whose joint exposure exceeds the
  concentration limit, and equities 1 to 3 around a capital of 3, so that every
  equity limit can be breached. Two kernels interleave, or one is away and the
  other runs alone. The entry race has two kernels; the KILL race
  needs one and a process that stores KILL.
- Lifecycle: one event, three workers (one crashed, one racing, one recovering),
  two contracts so that an order can stop half filled, three order identities
  for two phases so that a duplicate has room to appear. Events share nothing
  but the budgets, which the ledger run covers.
- Runner: two processes, two events of two contracts, one fault. The clock takes
  three values: both permits active; opening permit at its expiry instant;
  window over.
- Session: one window and hard flat; two coordinators on two opportunities in
  the window, or until hard flat on one opportunity offered with two contexts.
  Host, on one opportunity: one invocation after another with a crash, or two at
  once, with a plan of one origin and one that mixes origins. Authority: two
  builds, a chain of two releases, a rival, inputs that differ from a good one in
  one respect. Production host: two opportunities and every fault but a failing
  read, or one opportunity and every fault; started twice. Service: every fault,
  with two windows and stages that take no time, or one window whose stages may
  reach its deadline; one restart.
- Stores: two processes each. The compounding parts have two events that compete
  for one opportunity, for one underlying, and (with one kernel) for the cash
  that is left. The journal has two spreads and two receipts; migrations start
  from every ledger version; pages have two records, so that every defect falls
  inside and at the end of a page.
- Sources and decisions: instants and thresholds are scaled down in the order in
  which the code compares them. Documents are good ones with up to two edits (or
  one defect), so that a check that is skipped or reordered shows. Tapes have
  five observations, histories seven days with one split and one gap, chains
  three contracts. News has three retrievals and two edits, so that an article
  the host holds as a revision can be met changed once more. Answers include one
  that has no canonical encoding and one the route cannot unwrap.
- `Horizon`, `MaxTime`, `MaxFaults`, `MaxCrashes`, `MaxStarts`, `MaxCalls`,
  `MaxEdits` and the other `Max*` constants cap clocks, faults and calls.

Processes, events, orders, days or texts are symmetric where nothing orders
them; no symmetry is used for liveness. `CHECK_DEADLOCK FALSE` is used for the
ledger, the lifecycle and the suites: there every event may be finished, or
every bounded call spent, and nothing is left to do. The kernel and the runner
check deadlock.

## Fairness

Only `settles` needs it (`MCSettles`).

- Runner: time passes and a process goes on (weak fairness of `tick` and of each
  process), and the manifest is run again and again (strong fairness of
  `invoke`). The last is the operator's duty in `SCHEDULED_EVENT_RUNBOOK.md`,
  not a loop in the code. Nothing is assumed of the broker.
- Autonomous host: a started invocation goes on unless it crashes, the operator
  keeps invoking it at hard flat, and the plan factory does not fail every time
  (strong fairness of the last two). Nothing is assumed of the four ports.
- Production host: its process goes on, time passes, the scheduler starts it
  while starts are left, and the broker works on the orders it has.
- Acquisition: the worker goes on and is restarted until it returns. The
  property itself excepts a behaviour that is interrupted for ever.

Faults are finite by the bounds.

## Proofs

The theorems hold for every value of the constants under the named assumptions
`FiniteEvents`, `LimitsAreNaturals`, `SentinelsAreFresh`, `ExposureIsAmount`
(ledger), `KernelLimitsAreNaturals`, `LifecycleConstants`, `ScheduleConstants`,
`SessionConstants`, `SessionSentinels` and `HostConstants`. All say that numbers
are numbers, that what the code stores for "none" is not a value, and that the
sets summed over are finite. TLC evaluates them in the runs. `AuthorityBound` has
its assumption, `AuthorityConstants`, as a hypothesis; it adds that the clock times
of an arm are in order and that one build has one set of contracts. The
theorems about the application service assume nothing of their constants.

**`RiskLedgerProofs`.** `RowsInv` is types, `RowsAgree`, `NotRunNeverEnters` and
`PassportExplainsRows` together. None is inductive alone: that a transaction's
guard excludes a row combination needs the receipts and the types, and
conversely. `LedgerRows`, `LedgerPassport`, `LedgerEnteredOnce` and
`LedgerOrderHasOneOwner` follow from it. `LedgerWithinPolicy` is about sums. A sum
is the cardinality of a set of units (`Total`), so that adding one entry is the
union of two disjoint finite sets and no induction over data is needed.

**`RiskKernelProofs`.** `KernelRefinesLedger`: each step of any number of kernels
is a ledger transaction or leaves the ledger alone, so `KernelLedgerSafe` imports
the ledger's theorems. `KernelTyped` types the control state, the stored peak and
the locals. `KernelActivation` shows that only a startup reconciliation with good
truth makes the state ACTIVE. `SequentialInv` says that a method beyond its gate
found the control state as it still is; it gives `SequentialControl` and
`SequentialEntry`, which are the two properties that fail with a second process.
`SequentialConcentration` adds that the sum read by `authorize_entry` still
holds when it reserves (`ConcentrationHeld`).

**`MonitoredLifecycleProofs`.** `OneOrderPerPhase` is not inductive. `OrderInv`
adds that the worker between intent and submission is the only one for that event
and phase, that no order exists for it yet, that a worker holding an order holds
the one placed for its event and phase, and that bound intents have an order.
`LifecycleOrders`, `LifecycleRefinesLedger` and
`LifecycleLedgerSafe` follow. `FillInv` then ties quantities to rows: a job that
carries an outcome, and a row that stores one, are true of final orders, and
final orders do not change. So a close exists only for an opening that filled
(`LifecycleNeverShort`), and released budget means no position and no order
that could fill (`LifecycleReleasedIsFlat`). `LifecycleTyped` bounds fills by the
quantity.

**`ScheduledRunnerProofs`.** `RunnerInv` ties what an invocation under the lock
remembers to the files and the broker. Whoever passed the locked checks holds
the lock and is `Alone`: no other manifest is exposed, and no other manifest of
its event ever made a call. It is `Alone` because every call ever made left a
state file that is not `NONE` and, while `RECONCILING`, names the caller
(`StoreInv`), and because terminal files are flat. A process at a submission
holds a marker whose call was never made (`Unsent`). A close was sent only for a
filled opening, so a cancelled unfilled opening is flat. Only the lock holder
writes, so the other processes' knowledge survives its steps (`LockedStep`).
`RunnerNeverRepeats`, `RunnerTerminalIsFlat`, `RunnerExclusive` and `RunnerStops`
follow.

**`AutonomousSessionProofs`.** `SessionInv` has the three properties
`ProcessedOnce`, `ExposureIsOnRecord` and `LifecycleRowsAgree`, and what makes them
inductive: a claim belongs to one coordinator from the claiming transaction until
it records the answer (`Owns`), the processor has not been called and nothing is
held for it before that, an answer about to be recorded as flat is true of the
broker, and the lifecycles being closed are on record. Each step of a coordinator
leaves the claims of the others alone, since it touches one opportunity that is
not theirs (`QuietStep`, `ClaimStep`, `ProcessStep`, then `RecordStep`, `CloseStep`,
`RecordClosedStep`); a crash drops knowledge only (`CrashStep`). `SessionAccounted`
follows, for any number of coordinators, windows and crashes. It rests on the
ports being honest about what they confirm, as the comment of
`AutonomousSession` says.

`SessionRefinesLog` shows that the rows, read as one decision per opportunity,
implement `OpportunityLog`: every step writes one decision along its order or
none. `SessionReasonsFreeze` shows by `FreezeInv` that a stored manual reason
keeps the session frozen whoever finalizes it, and that only a flat summary makes
it FINALIZED. Arming is the one write that could lift a freeze, so the invariant
says that a session without an arm has no reason and no coordinator beyond its
start. `SessionStoreAccounted` puts the four promises together
(`StoreIsAccounted`).

**`AutonomousHostProofs`.** `HostInv` adds the invocations to `SessionInv` and
`FreezeInv`. Each invocation inside holds the lock, and only the one that is
running has a coordinator in the middle of a run (`HostOK`). Times of a timeline
grow and hard flat is the last, so a summary is written in the last run of a
timeline and no run follows it. A run that reached hard flat found nothing
claimed, and one still before it found the session not frozen (`RunOK`): the lock
keeps both true until it returns. It finds no claim but the one it has just made
(`ClaimOK`), and one it leaves behind has frozen the session (`ClaimsFreeze`), so a
receipt is refused over an open claim only, with the reason on record. Broker
truth accepted as final found an empty holding. `HostStore` says what follows for the store: a summary keeps its counts,
one that is not flat leaves the session frozen, and a TERMINAL receipt has a
summary behind it and nothing held or active. The coordinator's steps are taken
from the session's lemmas (`CoordinatorStep`), the host's own one by one
(`HostStep`). `HostReceiptsFinal`, `HostSessionAccounted` and `HostFrozen` follow,
for any number of invocations, crashes, arms and timelines.

**`HostAuthorityProofs`.** `AuthorityInv` says that the release log is a chain, so
that only its last row can be current, and what a call relies on between its
reads: one that found its row unrevoked has seen the release current or will find
it superseded, since the log only grows. What a host accepted was rebuilt from
the release, the account and the date. `AuthorityBound` follows: the one arm of a
session date, its windows that tile and the refusal of work of another date are
facts about the rebuilt arm and integer division.

**`ApplicationServiceProofs`.** `ServiceInv` says where a window can stand. Until
its opening is submitted nothing in the broker or the sidecar mentions it
(`UnopenedIsUntouched`). A close has its intent (`CloseIsIntended`), so a retried
close finds it and sends nothing. What each later point of a call relies on, the
episode, the ACTIVE bundle, the filled close, is on disk already
(`CallIsFounded`), so a process that dies there leaves what the next one needs.
`ServiceAccounted` follows, and from the same invariant the two action properties
`ServiceStickyHolds` and `ServiceEscalates`.

Every safety property of the runs `ledger`, `kernel`, `lifecycle` and `runner`
has its theorem; those of a kernel alone are stated of `SequentialSpec`. Of the run `autonomous`, so have `SessionIsAccounted`,
`RowsImplementLog`, `ReceiptsAreFinal`, `AuthorityIsBound` and `ServiceIsAccounted`.
The run states each part by part, from the definitions the theorems use
(`StoreIsAccounted`, `CommandIsAccounted`, and `AuthorityIsBound` and
`ServiceIsAccounted` of their components); the theorem states it of the component
for every instance. `RowsImplementLog` is `OpportunityLogRefined` with the rows read
as empty in the parts that have none. `StopsHold` is proved for the host (`HostFrozen`)
and the service (`ServiceStickyHolds`, `ServiceEscalates`).

Only model-checked:

- `ReconcilingSettles`, `SessionsSettle`: liveness under fairness.
- The production host: `PaperIsAccounted` and its part of `StopsHold`
  (`ManualHoldsEntries`). Its invariant would relate thirteen variables over a
  whole start, and it has not been worked out.
- `stores`, `sources` and `decisions`. Much of what they say is about sequences
  built up or folded over (tapes, journals, summaries, chains), which needs
  induction over data.

## Not modelled

Hashes, signatures and canonical JSON (identity is a model value); decimal
arithmetic beyond comparison; regressions, bounds and other statistics of the
alpha models; dry runs, preflight probes, dashboards, reports and the command
line; text of prompts and payloads; the lifecycle state table and the trade
passport chain verifier, which take no step; the test doubles other than the
service's synthetic broker. `append_passport` (`risk/ledger.py:702`) has no
caller. `reconcile_fill`, `reconcile_flat` and the recovery methods have none in
the package either but are public API and are modelled. A broker whose readback
lags while being fresh by timestamp is not modelled. `PROJECT.json` lists every
part with what is left out of it.
