------------------------------ MODULE MCSources ------------------------------
(***************************************************************************)
(* Small instances of what stands between the data services and a strategy *)
(* input: the capture lane and its tape, the synchronized window, the      *)
(* price history, news retrieval, the documents of an input and the        *)
(* compiler of snapshots.  The components share no state, so a behaviour   *)
(* explores one of them, its part.                                         *)
(***************************************************************************)
EXTENDS StrategyDocuments, TLC

CONSTANTS t1, t2            \* article texts

VARIABLES
    part,
    lane_now, company, recent, filings, disk, lane_job, left, probe, pairs,
    tape, facts,                                                     \* CaptureLane
    prints, window,                                                  \* MarketTape
    days, beta_window_dates, closes,                                 \* PriceHistory
    news_now, feed, edits, runs, held, news_job,                     \* NewsRetrieval
    manifest, snapshot, receipt, drafts, verdict,                    \* StrategyInputs
    now, world, release, records, result                             \* SnapshotCompiler

tape_vars == <<tape, facts>>
lane_vars == <<lane_now, company, recent, filings, disk, lane_job, left, probe, pairs>>
window_vars == <<prints, window>>
history_vars == <<days, beta_window_dates, closes>>
news_vars == <<news_now, feed, edits, runs, held, news_job>>
input_vars == <<manifest, snapshot, receipt, drafts, verdict>>
compiler_vars == <<now, world, release, records, result>>
vars == <<part, tape_vars, lane_vars, window_vars, history_vars, news_vars, input_vars,
          compiler_vars>>
-----------------------------------------------------------------------------
(* The capture tape: two pages of one or two prints, three XBRL entries.   *)
mcRaw == {[t |-> t, c |-> {}, p |-> p, s |-> s] : t \in 0..3, p \in {3, 4}, s \in {1, 3}}
         \cup {[t |-> t, c |-> {"O"}, p |-> 3, s |-> 2] : t \in {1, 3}}
         \cup {[t |-> 2, c |-> {}, p |-> 3, s |-> 0]}
mcPages == {<<r>> : r \in mcRaw} \cup {q \in mcRaw \X mcRaw : q[1].t <= q[2].t}
mcEntries ==
    {[unit |-> "USD", span |-> 90, end |-> e, form |-> f, val |-> v] :
        e \in {1, 2}, f \in {"8-K", "10-Q", "10-K"}, v \in {1, 2}}
    \cup {[unit |-> "USD", span |-> 365, end |-> 1, form |-> "10-K", val |-> 9],
          [unit |-> "EUR", span |-> 90, end |-> 2, form |-> "8-K", val |-> 9]}
-----------------------------------------------------------------------------
(* The capture lane: one company that passes every screen and one an EPS   *)
(* quarter short; the instants are the ones the code compares, with one    *)
(* between midnight and the open.  One part tries every document on the    *)
(* delayed lane with an explicit freeze; the other, with a plain document, *)
(* explores the clock of both lanes and the default freeze.                *)
mcSound == [nyse |-> TRUE, tradable |-> TRUE, sic |-> "7372", split |-> FALSE, sessions |-> 20,
            close |-> 10, median |-> 50000000, contracts |-> 20, eps |-> 11, revenue |-> 4,
            announced |-> FALSE]
mcAnnounced == [mcSound EXCEPT !.announced = TRUE]
mcCompanies == {mcAnnounced, [mcSound EXCEPT !.eps = 10]}

mcPlain == [dateline |-> [day |-> 4, time |-> 4], quarter |-> 1, named |-> FALSE,
            withdrawn |-> FALSE, eps |-> {}, prior |-> {}, revenue |-> {}]
mcGuided == [mcPlain EXCEPT !.named = TRUE, !.eps = {<<1, 2>>}]
mcDocuments ==
    {mcPlain, mcGuided,
     [mcPlain EXCEPT !.dateline = [day |-> 4, time |-> Nil]],
     [mcPlain EXCEPT !.named = TRUE],
     [mcGuided EXCEPT !.eps = {<<1, 2>>, <<2, 3>>}],
     [mcPlain EXCEPT !.dateline = [day |-> 1, time |-> 1]]}
mcOnce ==
    [c \in {"discover", "screen", "freeze", "prefetch", "release", "receipt", "window",
            "serialize"} |-> 1]

PriorClose == 1
DefaultFreeze == 2
Midnight == 3
WindowEnd == 6
LiveCutoff == 7
DelayedFrom == 8
DelayedCutoff == 9
LastInstant == 10

Lane ==
    INSTANCE CaptureLane WITH
        now <- lane_now, job <- lane_job, Open <- 5, Tickers <- {"AAA"}, Budget <- mcOnce,
        Companies <- mcCompanies, Documents <- mcDocuments, FreezeInstants <- {1},
        Modes <- {"delayed"},
        NsPerUs <- 2, Pages <- mcPages, MaxPages <- 2, Entries <- mcEntries, MaxEntries <- 3
LaneClock ==
    INSTANCE CaptureLane WITH
        now <- lane_now, job <- lane_job, Open <- 5, Tickers <- {"AAA"}, Budget <- mcOnce,
        Companies <- {mcAnnounced}, Documents <- {mcPlain}, FreezeInstants <- {Nil},
        Modes <- {"live", "delayed"},
        NsPerUs <- 2, Pages <- {}, MaxPages <- 0, Entries <- {}, MaxEntries <- 0

ASSUME Lane!InstantOrder
-----------------------------------------------------------------------------
(* The synchronized window: two symbols, a window of ten half              *)
(* milliseconds, tapes of five observations.                               *)
mcTrade(symbol, t, condition) ==
    [kind |-> "trade", symbol |-> symbol, at |-> t, price |-> t + 3, condition |-> condition]
mcQuote(symbol, t, mid) ==
    [kind |-> "quote", symbol |-> symbol, at |-> t, mid |-> mid, spread |-> mid]
mcObservations ==
    {mcTrade("SPY", t, "REGULAR_CONTINUOUS") : t \in {1, 4, 7}}
    \cup {mcTrade("ISS", t, "REGULAR_CONTINUOUS") : t \in {4, 8}}
    \cup {mcTrade("SPY", 9, "OPENING_AUCTION")}
    \cup {mcQuote("SPY", t, t + 3) : t \in {-1, 10, 12}} \cup {mcQuote("ISS", 9, 4)}

Window ==
    INSTANCE MarketTape WITH
        tape <- prints, Symbols <- {"SPY", "ISS"}, Proxy <- "SPY",
        Observations <- mcObservations, MaxTape <- 5, start <- 0, end <- 10,
        START_DELAY_MAX <- 4, END_AGE_MAX <- 6, ENDPOINT_SKEW_MAX <- 2,
        QUOTE_AGE_MAX_MILLISECONDS <- 1, QUOTE_SPREAD_SAMPLE <- 4,
        QUOTE_SPREAD_MIN_SAMPLES <- 1, ANCHOR_LOOKBACK <- 2
-----------------------------------------------------------------------------
(* The price history: seven days, at most one split and one gap, a beta   *)
(* window of three sessions that ends three before the reaction.           *)
History ==
    INSTANCE PriceHistory WITH
        MaxDays <- 7, MaxActions <- 1, MaxGaps <- 1, Actions <- {"SPLIT"},
        Offsets <- {0, 1}, LOOKBACK <- 6, BAR_LOOKBACK <- 2, BETA_WINDOW_SESSIONS <- 3,
        BETA_REACTION_GAP_SESSIONS <- 3, BETA_MIN_ALIGNED_OBSERVATIONS <- 2,
        VOLATILITY_SESSIONS <- 2, NORMALIZATION_PRIOR_SESSIONS <- 4,
        WindowStart <- 0, WindowEnd <- 3, Prices <- [t \in 0..3 |-> t * t]
-----------------------------------------------------------------------------
(* News: two articles, two texts and two marks, two edits and three        *)
(* retrievals of one or two pages, so that an article can be met revised a *)
(* second time; one instant lies after the cutoff.                         *)
mcTexts == {t1, t2}
mcSymmetry == Permutations(mcTexts)

News ==
    INSTANCE NewsRetrieval WITH
        now <- news_now, job <- news_job, Articles <- 1..2, Texts <- mcTexts, Marks <- 1..2,
        Cutoff <- 1, PageLimits <- 1..2, Horizon <- 2, MaxEdits <- 2, MaxRuns <- 3,
        Faulty <- TRUE

ASSUME News!NewsAssumption
-----------------------------------------------------------------------------
(* Drafts of the documents of an input, up to two edits from a good one. *)
mcBases ==
    {<<Earnings, "BMO">>, <<Earnings, "AMC">>, <<Earnings3, "AMC">>, <<Macro, "BLS_JOLTS">>,
     <<Macro, "BLS_EMPLOYMENT_SITUATION">>}

mcRecord(cohort, scheduled_at) ==
    [event |-> "e", security |-> "s", cohort |-> cohort, scheduled_at |-> scheduled_at,
     reasons |-> {}]

mcManifestEdits ==
    {<<"frozen_at", At(1, 70)>>, <<"frozen_at", At(2, 11)>>, <<"policy", "V3">>,
     <<"records", {mcRecord("BMO", At(2, 10))}>>, <<"records", {mcRecord("AMC", At(1, 10))}>>,
     <<"records", {mcRecord("AMC", At(0, 85))}>>,
     <<"records", {mcRecord("BLS_JOLTS", At(2, 51))}>>,
     <<"records", {mcRecord("BLS_JOLTS", At(2, 52))}>>}

mcEvidence(role, class, tables, published_at, available_at) ==
    {[id |-> "primary", role |-> role, class |-> class,
      published_at |-> published_at, available_at |-> available_at],
     [id |-> "market", role |-> "ISSUER_MARKET", class |-> "MARKET",
      published_at |-> Nil, available_at |-> At(2, 25)],
     [id |-> "records", role |-> "LIQUIDITY_VOLATILITY", class |-> tables,
      published_at |-> Nil, available_at |-> At(2, 20)]}

mcSnapshotEdits ==
    {<<"published_at", At(1, 86)>>, <<"published_at", At(1, 70)>>, <<"published_at", At(2, 15)>>,
     <<"published_at", At(2, 53)>>, <<"published_at", At(2, 22)>>,
     <<"universe_frozen_at", At(1, 70)>>, <<"cohort", "AMC">>, <<"timing", "AFTER_CLOSE">>,
     <<"prior_close", At(1, Close)>>, <<"prior_close", At(0, Close)>>,
     <<"created_at", At(2, 70)>>, <<"session_open", At(1, Open)>>,
     <<"clock", [i \in 1..5 |-> At(2, <<20, 25, 27, 30, 33>>[i])]>>,
     <<"clock", [i \in 1..5 |-> At(2, <<20, 25, 27, 33, 33>>[i])]>>,
     <<"evidence", mcEvidence("ISSUER_PRIMARY", "ISSUER", "RECORDS", At(2, 10), At(2, 27))>>,
     <<"evidence", mcEvidence("MACRO_PRIMARY", "OFFICIAL_BLS_RELEASE",
                              "OFFICIAL_BLS_REVISION_TABLE", At(2, 50), At(2, 57))>>,
     <<"evidence", mcEvidence("MACRO_PRIMARY", "OFFICIAL_BLS_RELEASE",
                              "OFFICIAL_BLS_REVISION_TABLE", At(2, 53), At(2, 55))>>}

mcFeatureEdits ==
    {<<"status", "CONFLICTING">>, <<"observed_at", Nil>>, <<"observed_at", At(2, 25)>>,
     <<"observed_at", At(2, 57)>>, <<"observed_at", At(2, 58)>>, <<"refs", {"primary", "market"}>>,
     <<"components", {[status |-> "PRESENT", refs |-> {"market"}]}>>, <<"components", {}>>}

mcReceiptEdits ==
    {<<"created_at", At(2, 31)>>, <<"created_at", At(2, 24)>>, <<"created_at", At(2, 61)>>,
     <<"feature_snapshot_at", At(2, 24)>>, <<"decision_cutoff_at", At(2, 90)>>,
     <<"cohort", "BMO">>}

Inputs ==
    INSTANCE StrategyInputs WITH
        edits <- drafts, Bases <- mcBases, ManifestEdits <- mcManifestEdits,
        SnapshotEdits <- mcSnapshotEdits, FeatureEdits <- mcFeatureEdits,
        ReceiptEdits <- mcReceiptEdits, MaxEdits <- 2
-----------------------------------------------------------------------------
(* Captures: four days, one event of every cohort, and one defect at a     *)
(* time in what the sources hold.                                          *)
mcFull == [d \in 0..3 |-> "full"]

mcWorld(candidate, cohort, scheduled_at) ==
    [calendar |-> mcFull, event |-> "e",
     manifest |-> [candidate |-> candidate, policy |-> IF candidate = Earnings3 THEN "V3" ELSE "V1",
                   frozen_at |-> At(0, Freeze), records |-> {mcRecord(cohort, scheduled_at)}],
     in_universe |-> TRUE, on_schedule |-> TRUE, market_complete |-> TRUE,
     pages_complete |-> TRUE, entitled |-> TRUE]

mcDefects(w) ==
    {[w EXCEPT ![f] = FALSE] :
        f \in {"in_universe", "on_schedule", "market_complete", "pages_complete", "entitled"}}
    \cup {[w EXCEPT !.manifest.policy = p] : p \in {"V3", "other"}}
    \cup {[w EXCEPT !.manifest.records =
                {[x EXCEPT !.reasons = {"EXCLUDED"}] : x \in w.manifest.records}]}

mcEarningsWorlds ==
    LET bmo == mcWorld(Earnings, "BMO", At(2, 10))
        amc == mcWorld(Earnings, "AMC", At(1, 85)) IN
    {bmo, amc, mcWorld(Earnings3, "AMC", At(1, 85))}
    \cup mcDefects(amc)
    \cup {[w EXCEPT !.calendar[d] = k] : w \in {bmo, amc}, d \in 1..2, k \in {"half", "none"}}

mcMacroWorlds ==
    LET jolts == mcWorld(Macro, "BLS_JOLTS", At(2, 50)) IN
    {jolts, mcWorld(Macro, "BLS_EMPLOYMENT_SITUATION", At(2, 10)),
     [jolts EXCEPT !.calendar[2] = "half"]} \cup mcDefects(jolts)

EarningsCompiler ==
    INSTANCE SnapshotCompiler WITH
        Worlds <- mcEarningsWorlds,
        Instants <- {At(1, 70), At(1, 85), At(2, 10), At(2, 25), At(2, 27), At(2, 28),
                     At(3, 26)}
MacroCompiler ==
    INSTANCE SnapshotCompiler WITH
        Worlds <- mcMacroWorlds,
        Instants <- {At(2, 10), At(2, 36), At(2, 50), At(2, 51), At(2, 53), At(2, 56), At(2, 58),
                     At(2, 61)}
-----------------------------------------------------------------------------
(* A component that is not the part under exploration has no state at all. *)
tape_idle ==
    /\ tape = Nil /\ facts = Nil
lane_idle ==
    /\ lane_now = Nil /\ company = Nil /\ recent = Nil /\ filings = Nil /\ disk = Nil
    /\ lane_job = Nil /\ left = Nil /\ probe = Nil /\ pairs = Nil
window_idle ==
    /\ prints = Nil /\ window = Nil
history_idle ==
    /\ days = Nil /\ beta_window_dates = Nil /\ closes = Nil
news_idle ==
    /\ news_now = Nil /\ feed = Nil /\ edits = Nil /\ runs = Nil /\ held = Nil /\ news_job = Nil
input_idle ==
    /\ manifest = Nil /\ snapshot = Nil /\ receipt = Nil /\ drafts = Nil /\ verdict = Nil
compiler_idle ==
    /\ now = Nil /\ world = Nil /\ release = Nil /\ records = Nil /\ result = Nil

Init ==
    /\ part \in {"tape", "facts", "lane", "clock", "window", "history", "news", "inputs",
                 "earnings", "macro"}
    /\ \/ part \in {"tape", "facts"} /\ Lane!TapeInit
       \/ part \notin {"tape", "facts"} /\ tape_idle
    /\ \/ part = "lane" /\ Lane!LaneInit
       \/ part = "clock" /\ LaneClock!LaneInit
       \/ part \notin {"lane", "clock"} /\ lane_idle
    /\ \/ part = "window" /\ Window!Init
       \/ part # "window" /\ window_idle
    /\ \/ part = "history" /\ History!Init
       \/ part # "history" /\ history_idle
    /\ \/ part = "news" /\ News!Init
       \/ part # "news" /\ news_idle
    /\ \/ part = "inputs" /\ Inputs!Init
       \/ part # "inputs" /\ input_idle
    /\ \/ part = "earnings" /\ EarningsCompiler!Init
       \/ part = "macro" /\ MacroCompiler!Init
       \/ part \notin {"earnings", "macro"} /\ compiler_idle

Next ==
    /\ UNCHANGED part
    /\ \/ part = "tape" /\ Lane!NextPage
       \/ part = "facts" /\ Lane!NextEntry
       \/ part \notin {"tape", "facts"} /\ UNCHANGED tape_vars
    /\ \/ part = "lane" /\ Lane!LaneNext
       \/ part = "clock" /\ LaneClock!LaneNext
       \/ part \notin {"lane", "clock"} /\ UNCHANGED lane_vars
    /\ \/ part = "window" /\ Window!Next
       \/ part # "window" /\ UNCHANGED window_vars
    /\ \/ part = "history" /\ History!Next
       \/ part # "history" /\ UNCHANGED history_vars
    /\ \/ part = "news" /\ News!Next
       \/ part # "news" /\ UNCHANGED news_vars
    /\ \/ part = "inputs" /\ Inputs!Next
       \/ part # "inputs" /\ UNCHANGED input_vars
    /\ \/ part = "earnings" /\ EarningsCompiler!Next
       \/ part = "macro" /\ MacroCompiler!Next
       \/ part \notin {"earnings", "macro"} /\ UNCHANGED compiler_vars

Spec == Init /\ [][Next]_vars
-----------------------------------------------------------------------------
(* Properties, each stated in full where its component is modelled.        *)

(* The capture: paging and merging lose no share and no boundary price, a  *)
(* quarter counts once, the evidence is the publisher's and about an event *)
(* that passed every screen, claims keep the clock of their lane, and an   *)
(* identity names a pair of files that was complete on disk.               *)
CapturesAreFaithful ==
    /\ part = "tape" => Lane!VolumeKept /\ Lane!VwapWithinRounding /\ Lane!BoundaryPriceKept
    /\ part = "facts" => Lane!OneFactPerQuarter
    /\ part = "lane" => /\ Lane!PublicationGrounded /\ Lane!GuidanceNeverAssumed
                        /\ Lane!EvidenceScreened
    /\ part = "clock" => LaneClock!ClaimsKeepTheClock /\ LaneClock!IdentityHasPair

(* The market features: endpoints are comparable across symbols, whatever  *)
(* order a source lists a tape in and whatever it adds after the window;   *)
(* the beta window is chosen alike from both calendars, ends before the    *)
(* event, and no return or gap carries a split that it should not.         *)
FeaturesAreComparable ==
    /\ part = "window" => /\ Window!EndpointsComparable /\ Window!OrderIrrelevant
                          /\ Window!AfterWindowIgnored /\ Window!QuotesFresh
    /\ part = "history" => /\ History!WindowChosenTwice /\ History!BetasArePreEvent
                           /\ History!SplitsLeaveNoTrace /\ History!GapOnOneBasis
                           /\ History!SameClockReturns

(* News: a complete retrieval holds every article known when it began and  *)
(* nothing written after the cutoff; a revision changes the text of the    *)
(* one observation it revises.                                             *)
NewsIsKnownAtCutoff ==
    part = "news" => /\ News!NoTextAfterCutoff /\ News!NothingDropped
                     /\ News!RevisionsChangeText /\ News!ChainsStopAtOne

(* An admitted input rests on no evidence of its future, was listed before *)
(* it happened, has a surprise behind it and a request that can be built.  *)
(* What a compiler writes is admitted: always for earnings, and for macro  *)
(* exactly when the release kept its schedule and states one publication   *)
(* time; its capture lies between the window and the evidence cutoff.      *)
InputsAreAdmissible ==
    /\ part = "inputs" => /\ Inputs!NoLookAhead /\ Inputs!PublishedAsScheduled
                          /\ Inputs!SurpriseIsPresent /\ Inputs!InputsRequestable
                          /\ Inputs!ClocksAreThePolicys
    /\ part = "earnings" => /\ EarningsCompiler!CompiledInCohort
                            /\ EarningsCompiler!CaptureByEvidenceCutoff
                            /\ EarningsCompiler!EarningsCompiledJoins
    /\ part = "macro" => /\ MacroCompiler!CaptureByEvidenceCutoff
                         /\ MacroCompiler!MacroCompiledJoins
=============================================================================
