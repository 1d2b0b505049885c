---------------------------- MODULE CaptureLane ----------------------------
(***************************************************************************)
(* The live capture lane (scripts/capture_lane.py): eight commands that    *)
(* the operator runs by hand, each reading the artifacts of earlier ones   *)
(* and writing one of its own.  Nothing but the artifacts connects them.   *)
(*                                                                         *)
(* One session date is followed.  Instants are naturals; the constants     *)
(* name the ones the code computes from the session date.  A filing is an  *)
(* 8-K with its exhibit; a document is the record of what the patterns of  *)
(* the code find in the exhibit's text.  The services (EDGAR, the market   *)
(* data plan) are external and change while commands run.                  *)
(* The fields accepted of a manifest record and last, probe of a window    *)
(* are kept for the properties and are not in the artifacts.               *)
(*                                                                         *)
(* The last part models the conversions of the lane, which have inputs of  *)
(* their own: a raw SIP tape becomes the trade records of a capture, and   *)
(* XBRL facts become a quarter history.  A raw print is [t, c, p, s]:      *)
(* nanosecond stamp, condition codes, price and size.  Prices are whole    *)
(* units; the quotient that the code takes to 28 significant digits is     *)
(* rounded here to a whole unit, half to even.                             *)
(***************************************************************************)
EXTENDS Integers, Sequences, FiniteSets, SequencesExt, Folds

CONSTANTS
    Nil,
    Tickers,
    Companies,      \* what the asset, bar, option and XBRL services can say
    Documents,      \* the exhibits a filing can carry
    PriorClose, DefaultFreeze, Midnight, Open, WindowEnd, LiveCutoff,
    DelayedFrom, DelayedCutoff, LastInstant,
    FreezeInstants, \* values of --frozen-at, Nil when the option is absent
    Modes,          \* of capture-window: "live", "delayed", "rehearsal"
    Budget,         \* how often each command is run
    NsPerUs,        \* raw stamps per recorded stamp
    Pages,          \* the pages a query can return
    MaxPages,       \* bound on the pages of a query
    Entries,        \* the XBRL entries a concept can list
    MaxEntries      \* bound on the entries of a concept

InstantOrder ==
    /\ PriorClose < DefaultFreeze /\ DefaultFreeze < Midnight /\ Midnight < Open
    /\ Open < WindowEnd /\ WindowEnd < LiveCutoff /\ LiveCutoff < DelayedFrom
    /\ DelayedFrom < DelayedCutoff /\ DelayedCutoff < LastInstant

VARIABLES
    now,
    company,     \* ticker -> what the services say of it
    recent,      \* whether the data plan serves trades younger than 15 minutes
    filings,     \* ticker -> Nil or [accepted, doc]
    disk,        \* artifact name -> Nil or its content
    job,         \* Nil, or the command under way
    left,        \* runs left of each command
    probe,       \* the answer to the last entitlement probe
    pairs,       \* the evidence and market pairs that were complete on disk
    tape,        \* of the conversions: the pages received for one symbol, in order
    facts        \* of the conversions: the XBRL entries listed for one concept

world == <<company, now, recent, filings>>
laneVars == <<company, now, recent, filings, disk, job, left, probe, pairs>>
tapeVars == <<tape, facts>>

Commands == {"discover", "screen", "freeze", "prefetch", "release", "receipt",
             "window", "serialize"}
Artifacts == (Commands \ {"serialize"}) \cup {"evidence", "market", "identity"}

-----------------------------------------------------------------------------
\* The services.
Tick ==
    /\ now < LastInstant
    /\ now' = now + 1
    /\ UNCHANGED <<company, recent, filings, disk, job, left, probe, pairs>>

FileRelease(t, doc) ==
    /\ filings[t] = Nil
    /\ filings' = [filings EXCEPT ![t] = [accepted |-> now, doc |-> doc]]
    /\ UNCHANGED <<company, now, recent, disk, job, left, probe, pairs>>

PlanLapses ==
    /\ recent
    /\ recent' = FALSE
    /\ UNCHANGED <<company, now, filings, disk, job, left, probe, pairs>>

-----------------------------------------------------------------------------
\* A command starts when none runs; a command of one step also ends.
Begin(c) == job = Nil /\ left[c] > 0 /\ left' = [left EXCEPT ![c] = @ - 1]
Write(artifact, content) == disk' = [disk EXCEPT ![artifact] = content]
OneStep == UNCHANGED <<world, job, pairs>>

OnSessionDate(instant) == instant >= Midnight

\* Before the open on the session date, or between the prior close and the open.
_classify_cohort(accepted) ==
    CASE OnSessionDate(accepted) /\ accepted < Open -> "BMO"
      [] accepted \in PriorClose .. Open - 1 -> "AMC"
      [] OTHER -> Nil

\* The Item 2.02 filings first, then the pre-announced names not among them;
\* the filings are searched in every mode.
cmd_discover ==
    \E preannounce \in BOOLEAN :
        LET filed == {t \in Tickers : filings[t] # Nil}
            named == IF preannounce THEN {t \in Tickers : company[t].announced} \ filed ELSE {}
        IN /\ Begin("discover")
           /\ Write("discover",
                    [t \in filed \cup named |->
                        IF t \in filed
                        THEN [accepted |-> filings[t].accepted,
                              cohort |-> _classify_cohort(filings[t].accepted)]
                        ELSE [accepted |-> 0, cohort |-> "BMO"]])
           /\ OneStep /\ UNCHANGED probe

\* The sector map knows only the committed SIC ranges.
_sector_for_sic(sic) == IF sic \in {"7372"} THEN "XLK" ELSE Nil

Raised(rows) == {row.reason : row \in {x \in rows : x.raised}}
Row(reason, raised) == [reason |-> reason, raised |-> raised]

ReferenceReasons(c, cohort) == Raised({
    Row("PRIMARY_EXCHANGE_NOT_XNYS", ~c.nyse),
    Row("NOT_ACTIVE_TRADABLE_COMMON", ~c.tradable),
    Row("TIMING_BUCKET_UNKNOWN", cohort = Nil),
    Row("SECTOR_MAPPING_UNAVAILABLE", _sector_for_sic(c.sic) = Nil)})

\* Split-adjusted bars that differ from the raw ones, too few or too thin
\* sessions, a low close, few option contracts, a short XBRL history.
MarketReasons(c) == Raised({
    Row("ADJUSTMENT_SOURCE_UNAVAILABLE", c.split),
    Row("INSUFFICIENT_LIQUIDITY_SESSIONS", c.sessions < 18),
    Row("PRICE_BELOW_MINIMUM", c.sessions >= 18 /\ c.close < 10),
    Row("INSUFFICIENT_MEDIAN_DOLLAR_VOLUME", c.sessions >= 18 /\ c.median < 50000000),
    Row("NOT_OPTIONABLE_AT_FREEZE", c.contracts < 20),
    Row("FEATURE_SOURCE_UNAVAILABLE_EPS_HISTORY", c.eps < 12 - 1),
    Row("FEATURE_SOURCE_UNAVAILABLE_REVENUE_HISTORY", c.revenue < 5 - 1)})

\* The market services are asked only about an event whose reference data
\* raises no reason.
ScreenReasons(c, cohort) ==
    IF ReferenceReasons(c, cohort) # {} THEN ReferenceReasons(c, cohort) ELSE MarketReasons(c)

cmd_screen ==
    /\ Begin("screen")
    /\ disk["discover"] # Nil
    /\ Write("screen", [t \in DOMAIN disk["discover"] |->
                           ScreenReasons(company[t], disk["discover"][t].cohort)])
    /\ OneStep /\ UNCHANGED probe

\* The schedule written into a record: nine o'clock on the session date, or
\* shortly after the prior close, just before the default freeze.
ScheduledAt(cohort) == IF cohort = "AMC" THEN DefaultFreeze - 1 ELSE Open - 1

\* CandidateManifest: every event is scheduled after the freeze.
ManifestAccepted(records, frozen) == \A t \in DOMAIN records : records[t].scheduled > frozen

cmd_freeze_manifest ==
    /\ Begin("freeze")
    /\ disk["discover"] # Nil /\ disk["screen"] # Nil
    /\ \E given \in FreezeInstants :
           LET frozen == IF given = Nil THEN DefaultFreeze ELSE given
               found == disk["discover"]
               records == [t \in DOMAIN found \cap DOMAIN disk["screen"] |->
                              [cohort |-> IF found[t].cohort = Nil THEN "BMO" ELSE found[t].cohort,
                               eligible |-> disk["screen"][t] = {},
                               scheduled |-> ScheduledAt(found[t].cohort),
                               accepted |-> found[t].accepted]]
           IN IF DOMAIN records # {} /\ ManifestAccepted(records, frozen)
              THEN Write("freeze", [frozen_at |-> frozen, records |-> records])
              ELSE UNCHANGED disk
    /\ OneStep /\ UNCHANGED probe

Eligible == {t \in DOMAIN disk["freeze"].records : disk["freeze"].records[t].eligible}

\* The bars of every eligible name, of SPY and of the sector funds.
cmd_prefetch ==
    /\ Begin("prefetch")
    /\ disk["freeze"] # Nil
    /\ Write("prefetch", [sector |-> [t \in Eligible |-> _sector_for_sic(company[t].sic)],
                          symbols |-> Eligible \cup {"SPY"} \cup
                                      ({_sector_for_sic(company[t].sic) : t \in Eligible} \ {Nil})])
    /\ OneStep /\ UNCHANGED probe

-----------------------------------------------------------------------------
\* What the patterns make of the guidance in a text: refused when it is named
\* but not understood, or understood in two ways.
_extract_guidance(doc) ==
    CASE ~doc.named -> [status |-> "CAPTURED", current |-> Nil]
      [] doc.named /\ doc.withdrawn -> [status |-> "CAPTURED", current |-> "withdrawn"]
      [] OTHER ->
           IF \E r \in {doc.eps, doc.prior, doc.revenue} : Cardinality(r) > 1
           THEN [status |-> "GUIDANCE_EXTRACTION_AMBIGUOUS", current |-> Nil]
           ELSE IF doc.eps \cup doc.revenue = {}
           THEN [status |-> "GUIDANCE_EXTRACTION_UNRESOLVED", current |-> Nil]
           ELSE [status |-> "CAPTURED", current |-> doc.eps \cup doc.revenue]

\* The publication time of a release: the dateline's own time, or for a BMO
\* event its date when the filing was accepted before the open.
Publication(cohort, f) ==
    LET line == f.doc.dateline
        refused(why) == [status |-> why]
    IN IF line = Nil THEN refused("PUBLICATION_TIME_UNPARSEABLE")
       ELSE IF cohort = "BMO" THEN
           IF ~OnSessionDate(line.day) THEN refused("DATELINE_DATE_MISMATCH")
           ELSE IF line.time # Nil
                THEN [status |-> "CAPTURED", at |-> line.time, precision |-> "SECOND"]
           ELSE IF f.accepted >= Open THEN refused("PUBLICATION_TIME_UNCORROBORATED")
           ELSE [status |-> "CAPTURED", at |-> Midnight, precision |-> "DATE"]
       ELSE IF line.time = Nil THEN refused("PUBLICATION_TIME_UNPARSEABLE_AMC_REQUIRES_TIME")
       ELSE [status |-> "CAPTURED", at |-> line.time, precision |-> "SECOND"]

\* One entry of the release artifact; only filings of the session date are
\* looked for.
ReleaseEntry(t, cohort) ==
    LET f == filings[t]
    IN IF f = Nil \/ ~OnSessionDate(f.accepted) THEN [status |-> "RELEASE_NOT_YET_FILED"]
       ELSE LET p == Publication(cohort, f)
                g == _extract_guidance(f.doc)
            IN IF p.status # "CAPTURED" \/ g.status # "CAPTURED"
               THEN [status |-> IF p.status # "CAPTURED" THEN p.status ELSE g.status]
               ELSE [status |-> "CAPTURED", at |-> p.at, precision |-> p.precision,
                     guidance |-> g.current, quarter |-> f.doc.quarter]

cmd_capture_release ==
    /\ Begin("release")
    /\ disk["freeze"] # Nil
    /\ Write("release", [t \in Eligible |-> ReleaseEntry(t, disk["freeze"].records[t].cohort)])
    /\ OneStep /\ UNCHANGED probe

\* The probe asks for trades a few minutes old.  A refusal reaches the command
\* as the fetcher's own rejection, past the handler that writes FAILED.
cmd_entitlement_receipt ==
    /\ Begin("receipt")
    /\ probe' = IF recent THEN "PASSED" ELSE "FAILED"
    /\ IF recent THEN Write("receipt", [verdict |-> "PASSED"])
       ELSE UNCHANGED disk
    /\ OneStep

-----------------------------------------------------------------------------
\* capture-window: refusals first, then one query per symbol, then the artifact.
WindowAdmitted(mode, instant) ==
    CASE mode = "rehearsal" -> TRUE
      [] mode = "delayed" -> instant \in DelayedFrom .. DelayedCutoff
      [] mode = "live" -> /\ disk["receipt"] # Nil
                          /\ disk["receipt"].verdict = "PASSED"
                          /\ instant <= LiveCutoff

cmd_capture_window ==
    \E mode \in Modes :
        /\ Begin("window")
        /\ disk["prefetch"] # Nil
        /\ job' = IF WindowAdmitted(mode, now)
                  THEN [cmd |-> "window", mode |-> mode, captured_at |-> now,
                        todo |-> SetToSeq(disk["prefetch"].symbols), seen |-> <<>>, last |-> now,
                        probe |-> probe]
                  ELSE Nil
        /\ UNCHANGED <<world, disk, probe, pairs>>

\* The trades and quotes of one symbol up to this instant.  The command ends
\* without an artifact when the plan refuses the query or the tape leaves a
\* boundary price open.
FetchSymbol(ambiguous) ==
    /\ job # Nil /\ job.cmd = "window" /\ job.todo # <<>>
    /\ LET refused == now < DelayedFrom /\ ~recent
           seen == [s \in DOMAIN job.seen \cup {Head(job.todo)} |->
                       IF s \in DOMAIN job.seen THEN job.seen[s]
                       ELSE IF now < WindowEnd THEN now ELSE WindowEnd]
       IN job' = IF refused \/ ambiguous THEN Nil
                 ELSE [job EXCEPT !.todo = Tail(@), !.seen = seen, !.last = now]
    /\ UNCHANGED <<world, disk, left, probe, pairs>>

WriteWindow ==
    /\ job # Nil /\ job.cmd = "window" /\ job.todo = <<>>
    /\ Write("window", [mode |-> job.mode, captured_at |-> job.captured_at, seen |-> job.seen,
                        last |-> job.last, probe |-> job.probe])
    /\ job' = Nil
    /\ UNCHANGED <<world, left, probe, pairs>>

-----------------------------------------------------------------------------
\* serialize: the refusals in their order, folded into one condition.
Serializable(t) ==
    LET w == disk["window"]
    IN /\ w.mode = "live" => disk["receipt"] # Nil /\ disk["receipt"].verdict = "PASSED"
       /\ t \in Eligible
       /\ t \in DOMAIN disk["release"] /\ disk["release"][t].status = "CAPTURED"
       /\ t \in DOMAIN disk["prefetch"].sector /\ disk["prefetch"].sector[t] # Nil
       /\ {t, "SPY", disk["prefetch"].sector[t]}
              \subseteq DOMAIN w.seen \cap disk["prefetch"].symbols
       /\ disk["release"][t].quarter # Nil

\* The labels inside the evidence and the claims of the identity beside it.
EvidenceLabels(mode) ==
    IF mode = "delayed"
    THEN {"DELAYED_EXECUTION_DEMO", "NO_BROKER_EXECUTION", "NOT_THE_VALIDATED_LANE"}
    ELSE {"NO_BROKER_EXECUTION"}

IdentityClaims(mode) ==
    CASE mode = "rehearsal" -> {"REHEARSAL_HISTORICAL_NOT_LIVE_SESSION"}
      [] mode = "delayed" -> {"DELAYED_EXECUTION_DEMO", "LIVE_SESSION_CAPTURE"}
      [] OTHER -> {"LIVE_SESSION_CAPTURE"}

cmd_serialize ==
    \E t \in Tickers :
        /\ Begin("serialize")
        /\ \A a \in {"prefetch", "release", "window", "freeze"} : disk[a] # Nil
        /\ job' = IF Serializable(t)
                  THEN LET w == disk["window"]
                           r == disk["release"][t]
                           evidence == [ticker |-> t, manifest |-> disk["freeze"], release |-> r,
                                        capture_at |-> w.captured_at,
                                        labels |-> EvidenceLabels(w.mode)]
                           market == [s \in {t, "SPY", disk["prefetch"].sector[t]} |-> w.seen[s]]
                       IN [cmd |-> "serialize", mode |-> w.mode, evidence |-> evidence,
                           market |-> market, pc |-> "market"]
                  ELSE Nil
        /\ UNCHANGED <<world, disk, probe, pairs>>

Identity == [evidence |-> job.evidence, market |-> job.market,
             capture_at |-> job.evidence.capture_at,
             claims |-> IdentityClaims(job.mode)]

\* The three files are written one after the other: market, evidence, identity.
WriteSerialized ==
    /\ job # Nil /\ job.cmd = "serialize"
    /\ LET content == CASE job.pc = "identity" -> Identity [] OTHER -> job[job.pc]
       IN Write(job.pc, content)
    /\ pairs' = IF job.pc = "evidence" THEN pairs \cup {<<job.evidence, job.market>>} ELSE pairs
    /\ job' = CASE job.pc = "market" -> [job EXCEPT !.pc = "evidence"]
                [] job.pc = "evidence" -> [job EXCEPT !.pc = "identity"]
                [] OTHER -> Nil
    /\ UNCHANGED <<world, left, probe>>

Interrupt ==
    /\ job # Nil
    /\ job' = Nil
    /\ UNCHANGED <<world, disk, left, probe, pairs>>

-----------------------------------------------------------------------------
LaneInit ==
    /\ company \in [Tickers -> Companies]
    /\ now = 0
    /\ recent \in BOOLEAN
    /\ filings = [t \in Tickers |-> Nil]
    /\ disk = [a \in Artifacts |-> Nil]
    /\ job = Nil
    /\ left = Budget
    /\ probe = "none"
    /\ pairs = {}

LaneNext ==
    \/ Tick \/ PlanLapses
    \/ \E t \in Tickers, doc \in Documents : FileRelease(t, doc)
    \/ cmd_discover \/ cmd_screen \/ cmd_freeze_manifest \/ cmd_prefetch
    \/ cmd_capture_release \/ cmd_entitlement_receipt
    \/ cmd_capture_window \/ WriteWindow
    \/ \E ambiguous \in BOOLEAN : FetchSymbol(ambiguous)
    \/ cmd_serialize \/ WriteSerialized \/ Interrupt

LaneSpec == LaneInit /\ [][LaneNext]_laneVars

-----------------------------------------------------------------------------
Instants == 0 .. LastInstant

\* The publication time in the evidence is the publisher's: the dateline's own
\* instant, or the session date for a BMO filing accepted before the open.
\* (The acceptance time corroborates and never stands in for it.)
PublicationGrounded ==
    disk["evidence"] # Nil =>
        LET e == disk["evidence"]
            f == filings[e.ticker]
        IN /\ f # Nil
           /\ IF e.release.precision = "SECOND" THEN e.release.at = f.doc.dateline.time
              ELSE /\ e.manifest.records[e.ticker].cohort = "BMO"
                   /\ f.accepted < Open
                   /\ OnSessionDate(f.doc.dateline.day)

\* Evidence says that no guidance was given only when the release names none:
\* guidance that the patterns cannot read stops the event.
GuidanceNeverAssumed ==
    disk["evidence"] # Nil /\ disk["evidence"].release.guidance = Nil =>
        ~filings[disk["evidence"].ticker].doc.named

\* Evidence is about an event that passed every screen, was scheduled after its
\* freeze and whose company has the depth the features need, whatever mix of
\* older and newer artifacts serialize was given.
EvidenceScreened ==
    disk["evidence"] # Nil =>
        LET e == disk["evidence"]
            c == company[e.ticker]
        IN /\ c.nyse /\ c.tradable /\ ~c.split
           /\ c.sessions >= 18 /\ c.close >= 10 /\ c.median >= 50000000
           /\ c.contracts >= 20 /\ c.eps + 1 >= 12 /\ c.revenue + 1 >= 5
           /\ \A t \in DOMAIN e.manifest.records :
                  e.manifest.records[t].scheduled > e.manifest.frozen_at

\* A capture claimed as of the live session was begun inside the clock of its
\* lane; one begun in the delayed lane says so, and holds the whole window.
ClaimsKeepTheClock ==
    disk["identity"] # Nil =>
        LET i == disk["identity"]
        IN "LIVE_SESSION_CAPTURE" \in i.claims =>
               IF "DELAYED_EXECUTION_DEMO" \in i.claims
               THEN /\ i.capture_at \in DelayedFrom .. DelayedCutoff
                    /\ \A s \in DOMAIN i.market : i.market[s] = WindowEnd
               ELSE i.capture_at <= LiveCutoff

\* The identity names a pair of files that has been complete on disk, however
\* the command that wrote it was cut short.
IdentityHasPair ==
    disk["identity"] # Nil => <<disk["identity"].evidence, disk["identity"].market>> \in pairs

-----------------------------------------------------------------------------

-----------------------------------------------------------------------------
\* The pages the token chain yields, one after the other.
TradesPage(pages) == FlattenSeq(pages)

Regular == "REGULAR_CONTINUOUS"

\* A print without positive price and size is no record; a stamp is cut to
\* the microsecond.
TradeRecords(raws) ==
    LET printed(r) == r.p > 0 /\ r.s > 0
        record(r) == [observed_at |-> r.t \div NsPerUs, price |-> r.p, size |-> r.s,
                      sale_condition |-> IF "O" \in r.c THEN "OPENING_AUCTION" ELSE Regular]
        kept == SelectSeq(raws, printed)
    IN [i \in DOMAIN kept |-> record(kept[i])]

\* The quotient n / d rounded to a whole unit, half to even.
Quotient(n, d) ==
    LET q == n \div d
        r == n % d
    IN IF 2 * r > d \/ (2 * r = d /\ q % 2 = 1) THEN q + 1 ELSE q

SumOver(f(_), records) == FoldLeft(LAMBDA acc, r : acc + f(r), 0, records)
Volume(records) == SumOver(LAMBDA r : r.size, records)
Notional(records) == SumOver(LAMBDA r : r.price * r.size, records)
EligiblePrints(records) == SelectSeq(records, LAMBDA r : r.sale_condition = Regular)

\* Neighbouring regular prints with one stamp form a group.
Groups(records) ==
    LET joins(g, r) == /\ Head(g).sale_condition = Regular
                       /\ r.sale_condition = Regular
                       /\ Head(g).observed_at = r.observed_at
        add(groups, r) ==
            IF groups # <<>> /\ joins(Last(groups), r)
            THEN Front(groups) \o <<Append(Last(groups), r)>>
            ELSE Append(groups, <<r>>)
    IN FoldLeft(add, <<>>, records)

\* A slip: the merged record keeps the size of the first print.
MergeKeepsSize(g) == [Head(g) EXCEPT !.price = Quotient(Notional(g), Volume(g))]

\* A group keeps its volume and takes its size-weighted price.
Merge(g) ==
    IF Len(g) = 1 THEN Head(g)
    ELSE [Head(g) EXCEPT !.size = Volume(g), !.price = Quotient(Notional(g), Volume(g))]

_consolidate_same_microsecond(records) ==
    LET groups == Groups(records)
    IN [i \in DOMAIN groups |-> Merge(groups[i])]

\* A merge of differing prices on the first or the last eligible stamp leaves
\* the price at the edge of the window open.
BoundaryAmbiguous(records) ==
    LET edges == LET e == EligiblePrints(records) IN
                 IF e = <<>> THEN {} ELSE {Head(e).observed_at, Last(e).observed_at}
    IN \E g \in ToSet(Groups(records)) :
           /\ Head(g).sale_condition = Regular
           /\ Head(g).observed_at \in edges
           /\ Cardinality({g[i].price : i \in DOMAIN g}) > 1

-----------------------------------------------------------------------------
\* Among the quarter-long USD facts, one per period end: an 8-K before a 10-Q
\* before any other form, the first listed among equals; in order of the end.
Priority(form) == CASE form = "8-K" -> 0 [] form = "10-Q" -> 1 [] OTHER -> 2

_xbrl_quarter_points(entries) ==
    LET quarterly(e) == e.unit \in {"USD", "USD/shares"} /\ e.span \in 75 .. 115
        choose(best, e) ==
            IF \E b \in best : b.end = e.end /\ Priority(b.form) <= Priority(e.form)
            THEN best ELSE {b \in best : b.end # e.end} \cup {e}
        points == FoldLeft(choose, {}, SelectSeq(entries, quarterly))
    IN SetToSortSeq(points, LAMBDA a, b : a.end < b.end)

-----------------------------------------------------------------------------
TapeInit ==
    /\ tape = <<>>
    /\ facts = <<>>

\* The service sorts by time: a page begins no earlier than the last one ended.
NextPage ==
    /\ Len(tape) < MaxPages
    /\ \E page \in Pages :
           /\ tape # <<>> => Last(Last(tape)).t <= Head(page).t
           /\ tape' = Append(tape, page)
    /\ UNCHANGED facts

NextEntry ==
    /\ Len(facts) < MaxEntries
    /\ \E e \in Entries : facts' = Append(facts, e)
    /\ UNCHANGED tape

TapeNext == NextPage \/ NextEntry

TapeSpec == TapeInit /\ [][TapeNext]_tapeVars

Printed == TradeRecords(TradesPage(tape))
Captured == _consolidate_same_microsecond(Printed)

\* Every valid print of every page is in the volume of the capture: paging and
\* merging lose no share, on either side of the auction flag.
VolumeKept ==
    LET valid == SelectSeq(FlattenSeq(tape), LAMBDA r : r.p > 0 /\ r.s > 0)
        auction(r) == "O" \in r.c
        shares(rs) == FoldLeft(LAMBDA acc, r : acc + r.s, 0, rs)
    IN /\ Volume(Captured) = shares(valid)
       /\ Volume(EligiblePrints(Captured)) = shares(SelectSeq(valid, LAMBDA r : ~auction(r)))

\* The notional of the capture differs from that of the tape by no more than
\* the rounding of each merged price: half a unit per share.
VwapWithinRounding ==
    LET error == Notional(Captured) - Notional(Printed)
    IN 2 * (IF error < 0 THEN -error ELSE error) <= Volume(Captured)

\* Unless the capture is refused, its first and last eligible prices are those
\* of the tape in nanosecond order.
BoundaryPriceKept ==
    LET before == EligiblePrints(Printed)
        after == EligiblePrints(Captured)
    IN ~BoundaryAmbiguous(Printed) /\ before # <<>> =>
           /\ Head(after).price = Head(before).price
           /\ Last(after).price = Last(before).price

\* A quarter history has each quarter once, in order, from the first listed
\* fact of the best form, and misses no quarter a fact speaks of.
OneFactPerQuarter ==
    LET rank == ("8-K" :> 0) @@ ("10-Q" :> 1) @@ ("10-K" :> 2)
        points == _xbrl_quarter_points(facts)
        usable == {i \in DOMAIN facts : /\ facts[i].unit \in {"USD", "USD/shares"}
                                        /\ facts[i].span \in 75 .. 115}
        first(e) == CHOOSE i \in usable :
                        /\ facts[i].end = e
                        /\ \A j \in usable : facts[j].end = e =>
                               \/ rank[facts[i].form] < rank[facts[j].form]
                               \/ rank[facts[i].form] = rank[facts[j].form] /\ i <= j
    IN /\ \A i, j \in DOMAIN points : i < j => points[i].end < points[j].end
       /\ ToSet(points) = {facts[first(e)] : e \in {facts[i].end : i \in usable}}
=============================================================================
