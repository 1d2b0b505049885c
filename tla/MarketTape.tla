----------------------------- MODULE MarketTape -----------------------------
(* The synchronized observation window (sourcedata/windows.py) and the     *)
(* macro compiler's anchor and end midpoints (sourcedata/compiler.py) over *)
(* a tape of prints and quotes.  A source hands the tape over in the order *)
(* it likes, one observation at a time here, and the window is rebuilt     *)
(* from the whole tape each time.                                          *)
(*                                                                         *)
(* Instants count half milliseconds, and the bounds of the code are scaled *)
(* down in the same order.  Prices are whole numbers; a median is kept     *)
(* doubled so that it stays one.                                           *)
EXTENDS Integers, Sequences, SequencesExt, FiniteSets, FiniteSetsExt

CONSTANTS
    Nil,
    Symbols,               \* the required symbols
    Proxy,                 \* the market proxy, one of them
    Observations,          \* what the tape may carry
    MaxTape,               \* observations on one tape
    start, end,            \* the registered window
    START_DELAY_MAX, END_AGE_MAX, ENDPOINT_SKEW_MAX,   \* in half milliseconds
    QUOTE_AGE_MAX_MILLISECONDS,
    QUOTE_SPREAD_SAMPLE, QUOTE_SPREAD_MIN_SAMPLES,
    ANCHOR_LOOKBACK        \* how long before the window the anchor looks

VARIABLES tape, window

vars == <<tape, window>>

reject(reason) == [verdict |-> "rejected", reason |-> reason]

trades(t, symbol) == SelectSeq(t, LAMBDA o : o.kind = "trade" /\ o.symbol = symbol)
quotes(t, symbol) == SelectSeq(t, LAMBDA o : o.kind = "quote" /\ o.symbol = symbol)

\* The continuous prints inside the window, in the order of their instants.
_eligible_trades(t, symbol) ==
    SortSeq(SelectSeq(trades(t, symbol),
                LAMBDA o : start <= o.at /\ o.at <= end /\ o.condition = "REGULAR_CONTINUOUS"),
            LAMBDA a, b : a.at < b.at)

Duplicated(s) == \E i, j \in DOMAIN s : i # j /\ s[i].at = s[j].at

\* The reason a symbol has no window, or Nil.
symbol_window_reason(t, symbol) ==
    LET eligible == _eligible_trades(t, symbol) IN
    IF Duplicated(eligible) THEN "DUPLICATE_OBSERVATION"
    ELSE IF eligible = <<>> \/ eligible[1].at > start + START_DELAY_MAX
    THEN "MARKET_OBSERVATION_MISSING"
    ELSE IF Last(eligible).at < end - END_AGE_MAX THEN "MARKET_OBSERVATION_STALE"
    ELSE Nil

\* Volume and VWAP sum over the same prints; sizes are positive, so the code's
\* check that the volume is positive never fails here.
build_symbol_window(t, symbol) ==
    LET eligible == _eligible_trades(t, symbol) IN
    [first_observed_at |-> Head(eligible).at, first_price |-> Head(eligible).price,
     last_observed_at |-> Last(eligible).at, last_price |-> Last(eligible).price,
     trade_count |-> Len(eligible)]

endpoint_skew(windows) ==
    Max({windows[s].last_observed_at : s \in Symbols})
        - Min({windows[s].last_observed_at : s \in Symbols})

\* A slip: the latest quote of the session, whenever the window ended.
LatestOfSession(t, symbol) == quotes(t, symbol)

quote_samples(t, symbol) == SelectSeq(quotes(t, symbol), LAMBDA o : o.at <= end)

\* The age of the latest sample, cut down to a whole millisecond.
age_ms(samples) == (end - Max({samples[i].at : i \in DOMAIN samples})) \div 2

_median(values) ==
    LET ordered == SortSeq(values, LAMBDA a, b : a < b)
        count == Len(ordered) IN
    IF count % 2 = 1 THEN 2 * ordered[count \div 2 + 1]
    ELSE ordered[count \div 2] + ordered[count \div 2 + 1]

spread_samples(t, symbol) ==
    SelectSeq(quotes(t, symbol), LAMBDA o : end - QUOTE_SPREAD_SAMPLE < o.at /\ o.at <= end)

quote_spread_basis_points(t, symbol) ==
    LET samples == spread_samples(t, symbol) IN
    _median([i \in DOMAIN samples |-> samples[i].spread])

\* The first of the samples with the least, or the greatest, instant.
EarliestOf(samples) ==
    samples[SelectInSeq(samples, LAMBDA o : \A i \in DOMAIN samples : o.at <= samples[i].at)]
LatestOf(samples) ==
    samples[SelectInSeq(samples, LAMBDA o : \A i \in DOMAIN samples : o.at >= samples[i].at)]

_macro_window_quotes(t) == SelectSeq(quotes(t, Proxy), LAMBDA o : start <= o.at /\ o.at <= end)

anchor_quotes(t) ==
    SelectSeq(quotes(t, Proxy), LAMBDA o : start - ANCHOR_LOOKBACK <= o.at /\ o.at < start)

\* The JOLTS anchor is a median before the window, the Employment one the
\* first midpoint in it.
_macro_anchor_mid(t, cohort) ==
    IF cohort = "BLS_JOLTS"
    THEN LET samples == anchor_quotes(t) IN
         IF samples = <<>> THEN Nil ELSE _median([i \in DOMAIN samples |-> samples[i].mid])
    ELSE IF _macro_window_quotes(t) = <<>> THEN Nil
         ELSE 2 * EarliestOf(_macro_window_quotes(t)).mid

\* Every required symbol aligned, or the reasons why not (the code names the
\* reason of the first symbol that has one), with what the feature builders
\* take from the quotes of the entitled feed.  The spread is the proxy's, as in
\* the macro features; the earnings features take the ticker's.
build_synchronized_window(t) ==
    LET windows == [s \in Symbols |-> build_symbol_window(t, s)]
        reasons == {symbol_window_reason(t, s) : s \in Symbols} \ {Nil}
        unquoted == \E s \in Symbols : quote_samples(t, s) = <<>> IN
    IF reasons # {} THEN reject(reasons)
    ELSE IF endpoint_skew(windows) > ENDPOINT_SKEW_MAX
    THEN reject({"MARKET_OBSERVATION_ASYNCHRONOUS"})
    ELSE IF unquoted THEN reject({"MARKET_OBSERVATION_MISSING"})
    ELSE IF \E s \in Symbols : age_ms(quote_samples(t, s)) > QUOTE_AGE_MAX_MILLISECONDS
    THEN reject({"MARKET_OBSERVATION_STALE"})
    ELSE IF Len(spread_samples(t, Proxy)) < QUOTE_SPREAD_MIN_SAMPLES
    THEN reject({"MARKET_OBSERVATION_MISSING"})
    ELSE [verdict |-> "window", windows |-> windows,
          quote_age_ms |-> [s \in Symbols |-> age_ms(quote_samples(t, s))],
          spread |-> quote_spread_basis_points(t, Proxy),
          jolts_anchor |-> _macro_anchor_mid(t, "BLS_JOLTS"),
          employment_anchor |-> _macro_anchor_mid(t, "BLS_EMPLOYMENT_SITUATION"),
          end_mid |-> IF _macro_window_quotes(t) = <<>> THEN Nil
                      ELSE LatestOf(_macro_window_quotes(t)).mid]

------------------------------------------------------------------------------
Init == tape = <<>> /\ window = build_synchronized_window(<<>>)

Observe ==
    /\ Len(tape) < MaxTape
    /\ \E o \in Observations : tape' = Append(tape, o)
    /\ window' = build_synchronized_window(tape')

Next == Observe

Spec == Init /\ [][Next]_vars

------------------------------------------------------------------------------
Regular(s) == {o \in Range(tape) : /\ o.kind = "trade" /\ o.symbol = s
                                   /\ o.condition = "REGULAR_CONTINUOUS"
                                   /\ start <= o.at /\ o.at <= end}

\* In an accepted window every symbol traded near both ends of it, and the
\* prices that are compared across symbols are close in time
\* (sourcedata/windows.py build_symbol_window, build_synchronized_window).
EndpointsComparable ==
    window.verdict = "window" =>
        /\ \A s \in Symbols : /\ \E o \in Regular(s) : o.at - start <= START_DELAY_MAX
                              /\ \E o \in Regular(s) : end - o.at <= END_AGE_MAX
        /\ \A s, q \in Symbols :
              Max({o.at : o \in Regular(s)}) - Max({o.at : o \in Regular(q)})
                 <= ENDPOINT_SKEW_MAX

\* Nothing observed after the window's end, and no auction or other
\* non-regular print, changes the verdict or any value of the window: what a
\* later retrieval adds to a session's tape cannot leak into the features.
AfterWindowIgnored ==
    window = build_synchronized_window(SelectSeq(tape, LAMBDA o :
                 o.at <= end /\ (o.kind = "trade" => o.condition = "REGULAR_CONTINUOUS")))

\* The order in which a source lists a tape does not matter, as long as no two
\* quotes of one symbol share an instant (_eligible_trades sorts and rejects
\* duplicates, the quote statistics pick by instant).
OrderIrrelevant ==
    (\A s \in Symbols : ~Duplicated(quotes(tape, s))) =>
        /\ window = build_synchronized_window(Reverse(tape))
        /\ window = build_synchronized_window(SortSeq(tape, LAMBDA a, b : a.at < b.at))

\* The latest quote of an accepted window is less than a millisecond past the
\* age bound: the age is cut to whole milliseconds before it is compared
\* (sourcedata/windows.py).
QuotesFresh ==
    window.verdict = "window" =>
        \A s \in Symbols : \E o \in Range(quote_samples(tape, s)) :
            end - o.at < 2 * (QUOTE_AGE_MAX_MILLISECONDS + 1)
==============================================================================
