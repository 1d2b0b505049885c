---------------------------- MODULE PriceHistory ----------------------------
(* The historical inputs of the features: split-adjusted closes            *)
(* (sourcedata/adjustments.py), the frozen beta window and daily returns   *)
(* (sourcedata/betas.py), and the prior-session returns of the macro       *)
(* compiler (sourcedata/compiler.py).                                      *)
(*                                                                         *)
(* Trading days are added one at a time and the last one is the reaction   *)
(* day; a day's number is its date.  Prices are logarithms to base two, so *)
(* a two-for-one split lowers the raw close by one and a log return is a   *)
(* difference.  value(d) is what the company is worth on day d; the        *)
(* proxies' returns matter only for the days they exist on.                *)
EXTENDS Integers, Sequences, FiniteSets, FiniteSetsExt

CONSTANTS
    Nil,
    MaxDays, MaxActions, MaxGaps,     \* days, corporate actions, days with a gap
    Actions,                          \* the corporate actions that happen
    Offsets,                          \* the exchange's UTC offsets
    LOOKBACK,                         \* days of calendar and receipts (400)
    BAR_LOOKBACK,                     \* days of bars before the window (7)
    BETA_WINDOW_SESSIONS, BETA_REACTION_GAP_SESSIONS,
    BETA_MIN_ALIGNED_OBSERVATIONS, VOLATILITY_SESSIONS,
    NORMALIZATION_PRIOR_SESSIONS,
    WindowStart, WindowEnd,           \* the observation window by the wall clock
    Prices                            \* a session's prints by the wall clock

VARIABLES
    days,
    beta_window_dates,     \* the window selected for the last day, or Nil
    closes                 \* the stock's adjusted closes, by date

vars == <<days, beta_window_dates, closes>>

reaction == Len(days)
value(d) == d * d

\* The stock's splits, and how many of them a close already reflects.
splits == {d \in 1..reaction : days[d].action \in {"SPLIT", "TWO_SPLITS"}}
raw_close(d) == value(d) - Cardinality({x \in splits : x <= d})

sessions(from, to) == {d \in 1..reaction : from <= d /\ d <= to /\ days[d].full}

------------------------------------------------------------------------------
(* sourcedata/betas.py, sourcedata/adjustments.py                          *)

\* The frozen window before the reaction, or Nil when the calendar is short.
select_beta_window(session_dates) ==
    LET position(d) == Cardinality({x \in session_dates : x < d})
        window_end == position(reaction) - BETA_REACTION_GAP_SESSIONS
        window_start == window_end - BETA_WINDOW_SESSIONS + 1 IN
    IF window_start < 0 THEN Nil
    ELSE {d \in session_dates : window_start <= position(d) /\ position(d) <= window_end}

\* Only a full session is in the calendar it is selected from.
first_selection ==
    IF days[reaction].full THEN select_beta_window(sessions(reaction - LOOKBACK, reaction))
    ELSE Nil
beta_start == Min(beta_window_dates)

\* What the compiler asks for: bars from before the window to the day before
\* the reaction, actions from the window's first day to the reaction.
bars == {d \in 1..reaction : beta_start - BAR_LOOKBACK <= d /\ d < reaction}
fetched_actions == beta_start..reaction

\* Of the fetched actions, those inside the range of the bars.
relevant == {d \in fetched_actions : Min(bars) <= d /\ d <= Max(bars)}

\* The stock's splits all have receipts, made over the same LOOKBACK days as
\* the calendar; the proxies' have none.
adjustment_reason ==
    IF \E d \in 1..reaction : d >= reaction - LOOKBACK /\ days[d].action = "SYMBOL_CHANGE"
    THEN "CORPORATE_ACTION_UNRESOLVED"
    ELSE IF \E d \in relevant : days[d].action = "TWO_SPLITS"
    THEN "ADJUSTMENT_POLICY_VIOLATION"
    ELSE IF \E d \in relevant : days[d].action = "PROXY_SPLIT"
    THEN "CORPORATE_ACTION_UNRESOLVED"
    ELSE Nil

\* A close times the factor of every later split.
adjusted_close(d) == raw_close(d) - Cardinality({x \in splits \cap relevant : x > d})

adjust_series == [d \in bars |-> adjusted_close(d)]

valid_bars(symbol) == {d \in bars : symbol \notin days[d].invalid}

previous(symbol, d) == Max({x \in valid_bars(symbol) : x < d})

\* The days a return is keyed by, and the stock's returns.
return_days(symbol) == {d \in valid_bars(symbol) : \E x \in valid_bars(symbol) : x < d}
stock_return(d) == closes[d] - closes[previous("stock", d)]

shared_returns == return_days("stock") \cap return_days("proxy")
aligned == beta_window_dates \cap shared_returns

\* The last sessions before the event that the volatility and the momentum
\* are taken over.
recent == {d \in shared_returns : Cardinality({x \in shared_returns : x >= d})
                                     <= VOLATILITY_SESSIONS}

\* estimate_betas selects the window again, from the calendar of the range.
estimated_window == select_beta_window(sessions(beta_start, reaction))

prior_close == closes[Max(bars)]
_gap_log_return == raw_close(reaction) - prior_close

\* What stops an earnings compile over this history, or Nil.
history_reason ==
    IF beta_window_dates = Nil THEN "BETA_INSUFFICIENT_OBSERVATIONS"
    ELSE IF adjustment_reason # Nil THEN adjustment_reason
    ELSE IF estimated_window = Nil THEN "BETA_INSUFFICIENT_OBSERVATIONS"
    ELSE IF \E s \in {"stock", "proxy"} : Cardinality(valid_bars(s)) < 2
    THEN "MARKET_OBSERVATION_MISSING"
    ELSE IF Cardinality(aligned) < BETA_MIN_ALIGNED_OBSERVATIONS
    THEN "BETA_INSUFFICIENT_OBSERVATIONS"
    ELSE IF Cardinality(shared_returns) < VOLATILITY_SESSIONS
    THEN "FEATURE_DEPENDENCY_MISSING"
    ELSE Nil

------------------------------------------------------------------------------
(* sourcedata/compiler.py: the macro normalization returns.                *)

normalization_sessions ==
    LET prior == sessions(1, reaction - 1) IN
    {d \in prior : Cardinality({x \in prior : x >= d}) <= NORMALIZATION_PRIOR_SESSIONS}

\* The prints of day d inside the reaction day's UTC window moved to its date.
session_trades(d) ==
    {t \in DOMAIN Prices : LET utc == t + days[d].offset IN
        WindowStart + days[reaction].offset <= utc /\ utc <= WindowEnd + days[reaction].offset}

normalization_returns ==
    [d \in {x \in normalization_sessions : Cardinality(session_trades(x)) >= 2} |->
        Prices[Max(session_trades(d))] - Prices[Min(session_trades(d))]]

------------------------------------------------------------------------------
Init == days = <<>> /\ beta_window_dates = Nil /\ closes = <<>>

\* The next trading day: a full or a half session, with the symbols whose bar
\* is invalid, the corporate action with this ex-date, and the UTC offset.
AddDay ==
    /\ Len(days) < MaxDays
    /\ \E full \in BOOLEAN, invalid \in SUBSET {"stock", "proxy"},
          action \in Actions \cup {Nil}, offset \in Offsets :
          LET day == [full |-> full, invalid |-> invalid, action |-> action, offset |-> offset]
              gap(x) == ~x.full \/ x.invalid # {}
              all == Append(days, day) IN
          /\ Cardinality({d \in DOMAIN all : gap(all[d])}) <= MaxGaps
          /\ Cardinality({d \in DOMAIN all : all[d].action # Nil}) <= MaxActions
          /\ \A d \in DOMAIN days : days[d].offset <= offset
          /\ days' = all
    /\ beta_window_dates' = first_selection'
    /\ closes' = IF beta_window_dates' = Nil THEN <<>> ELSE adjust_series'

Next == AddDay

Spec == Init /\ [][Next]_vars

------------------------------------------------------------------------------
\* The reaction session is a full one; the history is accepted.
reacting == days # <<>> /\ days[reaction].full
accepted == reacting /\ history_reason = Nil

\* Whatever splits happened, a return used for the betas, the volatility or
\* the momentum is the company's own move between the two closes, if the
\* earlier close is not from before the eve of the window
\* (sourcedata/adjustments.py adjust_series, betas.py daily_log_returns).
SplitsLeaveNoTrace ==
    accepted =>
        \A d \in aligned \cup recent :
            previous("stock", d) >= beta_start - 1
                => stock_return(d) = value(d) - value(previous("stock", d))

\* The compiler selects the window from the long calendar and estimate_betas
\* selects it again from the calendar of the range that starts with it: the
\* second choice is the first (sourcedata/betas.py select_beta_window).
WindowChosenTwice ==
    reacting /\ beta_window_dates # Nil => estimated_window = beta_window_dates

\* No beta sees the sessions just before the event, half days and gaps or not:
\* the window is full and ends the registered number of sessions before.
BetasArePreEvent ==
    accepted =>
        /\ Cardinality(beta_window_dates) = BETA_WINDOW_SESSIONS
        /\ Cardinality(sessions(Max(beta_window_dates) + 1, reaction))
              = BETA_REACTION_GAP_SESSIONS

\* The opening gap is the company's own move, unless a split takes effect on
\* the reaction date itself: adjust_series keeps no action after the last bar
\* (sourcedata/adjustments.py).
GapOnOneBasis ==
    accepted /\ reaction \notin splits => _gap_log_return = value(reaction) - value(Max(bars))

\* Sessions that all repeat one tape by the wall clock all give the return of
\* the window, as far as they share the reaction day's UTC offset: the window
\* is moved to a prior date in UTC (sourcedata/compiler.py).
SameClockReturns ==
    reacting =>
        \A d \in DOMAIN normalization_returns :
            days[d].offset = days[reaction].offset =>
                normalization_returns[d] = Prices[WindowEnd] - Prices[WindowStart]
==============================================================================
