----------------------------- MODULE Technical ------------------------------
(***************************************************************************)
(* modules/technical_analysis: how an indicator reading becomes a signal,  *)
(* how signals are counted into a verdict, and the five pivot ladders.     *)
(* The indicator formulas are pandas_ta's; what they return is a reading.  *)
(***************************************************************************)
EXTENDS Integers, Sequences

\* SignalType, ordered: the mirror image of a signal is its negation.
StrongSell == -2
Sell == -1
Neutral == 0
Buy == 1
StrongBuy == 2
Signals == StrongSell..StrongBuy

NoValue == -999999      \* None: a formula that has too few candles, or a NaN

(***************************************************************************)
(* signal_rating.py                                                        *)
(***************************************************************************)
Below(threshold, signal) == [op |-> "lt", threshold |-> threshold, signal |-> signal]
Above(threshold, signal) == [op |-> "gt", threshold |-> threshold, signal |-> signal]

ZeroLine == <<Above(0, Buy), Below(0, Sell)>>

\* SIGNAL_RATING_CONFIG, the kinds that rate one value by bands.
Bands ==
    [rsi |-> <<Below(20, StrongBuy), Below(30, Buy), Above(80, StrongSell), Above(70, Sell)>>,
     stochastic |-> <<Below(20, Buy), Above(80, Sell)>>,
     cci |-> <<Below(-200, StrongBuy), Below(-100, Buy), Above(200, StrongSell), Above(100, Sell)>>,
     awesome_oscillator |-> ZeroLine,
     momentum |-> ZeroLine,
     williams_r |-> <<Below(-80, Buy), Above(-20, Sell)>>,
     ultimate_oscillator |-> <<Below(30, Buy), Above(70, Sell)>>,
     bull_bear_power |-> ZeroLine,
     stochrsi |-> <<Below(20, Buy), Above(80, Sell)>>,
     roc |-> ZeroLine]

Falls(value, rule) ==
    \/ rule.op = "lt" /\ value < rule.threshold
    \/ rule.op = "gt" /\ value > rule.threshold

\* The first band a value falls into decides.
RateBands(value, bands) ==
    LET hit == {i \in DOMAIN bands : Falls(value, bands[i])} IN
    IF value = NoValue \/ hit = {} THEN Neutral
    ELSE bands[CHOOSE i \in hit : \A j \in hit : i <= j].signal

Compare(a, b) == IF a > b THEN Buy ELSE IF a < b THEN Sell ELSE Neutral

RateCrossover(line, signal) ==
    IF NoValue \in {line, signal} THEN Neutral ELSE Compare(line, signal)

\* Mutant: a falling market has a trend one point later than a rising one.
RateDirectionalSkewed(adx, plus, minus) ==
    IF NoValue \in {adx, plus, minus} \/ adx < 20 \/ (adx = 20 /\ plus < minus) THEN Neutral
    ELSE Compare(plus, minus) * (IF adx >= 40 THEN 2 ELSE 1)

RateDirectional(adx, plus, minus) ==
    IF NoValue \in {adx, plus, minus} \/ adx < 20 THEN Neutral
    ELSE Compare(plus, minus) * (IF adx >= 40 THEN 2 ELSE 1)

\* rate_signal, as calculate_indicators calls it: a reading is the list of the
\* values one indicator hands over.
RateSignal(key, reading) ==
    CASE key \in DOMAIN Bands -> RateBands(reading[1], Bands[key])
      [] key = "macd_crossover" -> RateCrossover(reading[1], reading[2])
      [] key = "adx" -> RateDirectional(reading[1], reading[2], reading[3])
      [] key = "atr" -> Neutral

\* The order in which calculate_indicators appends its values.
IndicatorKeys ==
    <<"rsi", "stochastic", "cci", "adx", "awesome_oscillator", "momentum",
      "macd_crossover", "williams_r", "ultimate_oscillator", "atr",
      "bull_bear_power", "stochrsi", "roc">>

\* _ma_signal.
MaSignal(close, ma) == IF ma = NoValue THEN Neutral ELSE Compare(close, ma)

(***************************************************************************)
(* summary.py.  A list of signals is kept by its counts, as _tally does.   *)
(***************************************************************************)
NoVotes == [buy |-> 0, sell |-> 0, neutral |-> 0]

Tally(signal, votes) ==
    CASE signal > Neutral -> [votes EXCEPT !.buy = @ + 1]
      [] signal < Neutral -> [votes EXCEPT !.sell = @ + 1]
      [] OTHER -> [votes EXCEPT !.neutral = @ + 1]

Total(votes) == votes.buy + votes.sell + votes.neutral

AllVotes(a, b) ==
    [buy |-> a.buy + b.buy, sell |-> a.sell + b.sell, neutral |-> a.neutral + b.neutral]

AtLeast(count, percent, total) == 100 * count >= percent * total

OverallSignal(votes) ==
    LET total == Total(votes) IN
    IF total = 0 THEN Neutral
    ELSE IF AtLeast(votes.buy, 75, total) THEN StrongBuy
    ELSE IF AtLeast(votes.buy, 55, total) THEN Buy
    ELSE IF AtLeast(votes.sell, 75, total) THEN StrongSell
    ELSE IF AtLeast(votes.sell, 55, total) THEN Sell
    ELSE Neutral

\* Mutant: the overall verdict leaves the neutral moving averages out.
CalculateSummariesLoud(indicators, averages) ==
    [ma |-> OverallSignal(averages),
     indicators |-> OverallSignal(indicators),
     overall |-> OverallSignal(AllVotes(indicators, [averages EXCEPT !.neutral = 0])),
     votes |-> AllVotes(indicators, averages)]

CalculateSummaries(indicators, averages) ==
    [ma |-> OverallSignal(averages),
     indicators |-> OverallSignal(indicators),
     overall |-> OverallSignal(AllVotes(indicators, averages)),
     votes |-> AllVotes(indicators, averages)]

\* build_long_term_trend, on the weekly candles: no signal at all, no trend.
LongTermTrend(indicators, averages) ==
    IF Total(AllVotes(indicators, averages)) = 0 THEN NoValue
    ELSE CalculateSummaries(indicators, averages).overall

(***************************************************************************)
(* pivot_points.py, in units of 1/12000 of a price.  A ladder is the list  *)
(* s3, s2, s1, pp, r1, r2, r3; DeMark has only the middle three.           *)
(***************************************************************************)
Ladder(pp, r1, r2, r3, s1, s2, s3) == <<s3, s2, s1, pp, r1, r2, r3>>

\* Mutant: the third support is measured from the wrong end of the candle.
StepsFromSwapped(pp, h, lo) ==
    Ladder(pp, 2 * pp - lo, pp + (h - lo), h + 2 * (pp - lo),
           2 * pp - h, pp - (h - lo), h - 2 * (h - pp))

\* The rungs that Classic and Woodie build on their pivot.
StepsFrom(pp, h, lo) ==
    Ladder(pp, 2 * pp - lo, pp + (h - lo), h + 2 * (pp - lo),
           2 * pp - h, pp - (h - lo), lo - 2 * (h - pp))

Typical(h, lo, c) == 4000 * (h + lo + c)

Classic(h, lo, c) == StepsFrom(Typical(h, lo, c), 12000 * h, 12000 * lo)
Woodie(h, lo, c) == StepsFrom(3000 * (h + lo + 2 * c), 12000 * h, 12000 * lo)

FibonacciPivots(h, lo, c) ==
    LET pp == Typical(h, lo, c)
        diff == h - lo IN
    Ladder(pp, pp + 4584 * diff, pp + 7416 * diff, pp + 12000 * diff,
           pp - 4584 * diff, pp - 7416 * diff, pp - 12000 * diff)

\* The rungs stand around the close, the pivot does not.
Camarilla(h, lo, c) ==
    LET diff == h - lo IN
    Ladder(Typical(h, lo, c),
           12000 * c + 1100 * diff, 12000 * c + 2200 * diff, 12000 * c + 3300 * diff,
           12000 * c - 1100 * diff, 12000 * c - 2200 * diff, 12000 * c - 3300 * diff)

DeMark(h, lo, c, o) ==
    LET x == CASE c < o -> h + 2 * lo + c
               [] c > o -> 2 * h + lo + c
               [] OTHER -> h + lo + 2 * c IN
    <<6000 * x - 12000 * h, 3000 * x, 6000 * x - 12000 * lo>>

PivotPoints(candle) ==
    LET h == candle.high
        lo == candle.low
        c == candle.close IN
    [classic |-> Classic(h, lo, c), fibonacci |-> FibonacciPivots(h, lo, c),
     camarilla |-> Camarilla(h, lo, c), woodie |-> Woodie(h, lo, c),
     demark |-> DeMark(h, lo, c, candle.open)]

\* The pipeline's pivot source and get_pivot_candle: the candle before the
\* newest, of the daily frame or of the main one when there is no daily candle.
PivotCandle(daily, main) ==
    LET source == IF daily # <<>> THEN daily ELSE main IN
    IF Len(source) >= 2 THEN source[Len(source) - 1] ELSE source[1]
=============================================================================
