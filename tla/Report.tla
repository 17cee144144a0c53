------------------------------- MODULE Report --------------------------------
(***************************************************************************)
(* The steps of AnalysisPipeline that compute (pipeline.py 240-452), each  *)
(* worked through on inputs drawn from small sets: the technical step one  *)
(* signal at a time, the pattern, aggregation and report steps on one      *)
(* history of candles, and the pattern scanner, the trend lines, the       *)
(* candlestick table and the macro scores by themselves.                   *)
(***************************************************************************)
EXTENDS Strategy

CONSTANTS
    Parts,          \* the parts worked through
    Readings,       \* [key |-> the readings an indicator may hand over]
    Averages,       \* how many periods calculate_moving_averages has: 6
    PivotCandles,   \* lists of daily candles, newest last
    Figures,        \* macro figures
    Currencies,     \* the currencies of the pairs
    Cots,           \* reports on the positions of speculators
    Slopes,         \* normalised slopes of trend lines
    Lists,          \* scored patterns for the scanner
    Start, Moves, MaxHistory,   \* the walk a history takes, candle by candle
    External,       \* what TA-Lib and numpy return, and the detector that raises
    Verdicts        \* votes and macro scores to aggregate

\* No reading or figure is further from zero; NoValue and NoFigure are.
Furthest == 100000

Value == {NoValue} \cup (-Furthest)..Furthest
Keys == {IndicatorKeys[i] : i \in DOMAIN IndicatorKeys}

\* How many values calculate_indicators hands over for an indicator.
Arity(key) == CASE key = "adx" -> 3 [] key = "macd_crossover" -> 2 [] OTHER -> 1

\* What the scanner reads of a pattern with a score.
ListedPattern ==
    [name : STRING, category : STRING, bullish : BOOLEAN, relevance : Nat, confidence : Nat, reliability : Nat]

\* A candle's open and close lie within its range, macro scores within theirs.
ASSUME ReportAssumption ==
    /\ \A key \in Keys : Readings[key] \subseteq [1..Arity(key) -> Value]
    /\ Averages \in Nat
    /\ PivotCandles \subseteq Seq([open : Int, high : Int, low : Int, close : Int])
    /\ \A candles \in PivotCandles : \A k \in DOMAIN candles :
            LET c == candles[k] IN
            c.low <= c.open /\ c.open <= c.high /\ c.low <= c.close /\ c.close <= c.high
    /\ Figures \subseteq {NoFigure} \cup (-Furthest)..Furthest
    /\ Cots \subseteq {NoReport} \cup [long : Nat, short : Nat]
    /\ Slopes \subseteq Int
    /\ Lists \subseteq Seq(ListedPattern)
    /\ Start \in Nat \ {0} /\ MaxHistory \in Nat \ {0, 1}
    /\ Moves \subseteq [gap : Int, body : Int, upper : Nat, lower : Nat]
    /\ \A x \in External : x.signals \in Seq([func : CandlestickPatterns, raw : Int, at : Nat \ {0}])
    /\ \A v \in Verdicts : /\ v.votes \in [buy : Nat, sell : Nat, neutral : Nat]
                            /\ v.fundamental \in {NoScore} \cup (-1000)..1000

VARIABLES
    part,
    stage,          \* how far it has come
    rated,          \* signals rated so far
    tallies,        \* their counts
    mirrored,       \* the counts of the mirrored market
    history,
    patterns,
    decision,       \* what the aggregation made of the patterns
    strategies,
    input, output   \* of the parts that are one function

vars == <<part, stage, rated, tallies, mirrored, history, patterns, decision, strategies, input, output>>

technical == <<rated, tallies, mirrored>>
market == <<history, patterns, decision, strategies>>
function == <<input, output>>

NoTallies == [indicators |-> NoVotes, averages |-> NoVotes]
NoDecision == [direction |-> NoDirection, votes |-> NoVotes, fundamental |-> NoScore, overall |-> Neutral]

Init ==
    /\ part \in Parts /\ stage = "working"
    /\ rated = 0
    /\ tallies = NoTallies /\ mirrored = NoTallies
    /\ history = <<>> /\ patterns = <<>> /\ decision = NoDecision /\ strategies = <<>>
    /\ input = <<>> /\ output = <<>>

(***************************************************************************)
(* The technical step                                                      *)
(***************************************************************************)
AllIndicators == Len(IndicatorKeys)
AllRated == AllIndicators + Averages

\* The reading of the same market turned upside down: oscillators turn around the
\* middle of their range, the others around zero, a missing value stays missing.
Around(twice, v) == IF v = NoValue THEN v ELSE twice - v

MirrorReading(key, r) ==
    CASE key \in {"rsi", "stochastic", "stochrsi", "ultimate_oscillator"} -> <<Around(100, r[1])>>
      [] key = "williams_r" -> <<Around(-100, r[1])>>
      [] key = "adx" -> <<r[1], r[3], r[2]>>
      [] key = "macd_crossover" -> <<Around(0, r[1]), Around(0, r[2])>>
      [] key = "atr" -> r
      [] OTHER -> <<Around(0, r[1])>>

\* calculate_indicators, one indicator at a time.
RateIndicator ==
    /\ part = "technical" /\ rated < AllIndicators
    /\ LET key == IndicatorKeys[rated + 1] IN
       \E r \in Readings[key] :
            /\ tallies' = [tallies EXCEPT !.indicators = Tally(RateSignal(key, r), @)]
            /\ mirrored' = [mirrored EXCEPT
                                !.indicators = Tally(RateSignal(key, MirrorReading(key, r)), @)]
    /\ rated' = rated + 1
    /\ UNCHANGED <<part, stage, market, function>>

\* The step goes on without the indicators when one of them raises.
IndicatorsFail ==
    /\ part = "technical" /\ rated < AllIndicators
    /\ tallies' = [tallies EXCEPT !.indicators = NoVotes]
    /\ mirrored' = [mirrored EXCEPT !.indicators = NoVotes]
    /\ rated' = AllIndicators
    /\ UNCHANGED <<part, stage, market, function>>

\* calculate_moving_averages, one period at a time: two signals each.
RateAverages ==
    /\ part = "technical" /\ rated \in AllIndicators..(AllRated - 1)
    /\ \E sma, ema \in {NoValue, -1, 0, 1} :
        LET Mirror(ma) == IF ma = NoValue THEN NoValue ELSE -ma
            Both(a, b, votes) == Tally(MaSignal(0, b), Tally(MaSignal(0, a), votes)) IN
        /\ tallies' = [tallies EXCEPT !.averages = Both(sma, ema, @)]
        /\ mirrored' = [mirrored EXCEPT !.averages = Both(Mirror(sma), Mirror(ema), @)]
    /\ rated' = rated + 1
    /\ UNCHANGED <<part, stage, market, function>>

AveragesFail ==
    /\ part = "technical" /\ rated \in AllIndicators..(AllRated - 1)
    /\ tallies' = [tallies EXCEPT !.averages = NoVotes]
    /\ mirrored' = [mirrored EXCEPT !.averages = NoVotes]
    /\ rated' = AllRated
    /\ UNCHANGED <<part, stage, market, function>>

\* The verdicts on the frame of the analysis, and the trend the weekly frame
\* would show on the same votes.
Summarise ==
    /\ part = "technical" /\ rated = AllRated /\ stage = "working" /\ stage' = "done"
    /\ input' = "votes"
    /\ output' = [summary |-> CalculateSummaries(tallies.indicators, tallies.averages),
                  weekly |-> LongTermTrend(tallies.indicators, tallies.averages)]
    /\ UNCHANGED <<part, technical, market>>

\* The pivots are taken from yesterday's candle, whatever the frame.
Pivot ==
    /\ part = "pivots" /\ stage = "working" /\ stage' = "done"
    /\ \E daily, main \in PivotCandles :
        /\ main # <<>>
        /\ input' = PivotCandle(daily, main)
        /\ output' = PivotPoints(PivotCandle(daily, main))
    /\ UNCHANGED <<part, technical, market>>

(***************************************************************************)
(* The market: patterns, direction, strategies                             *)
(***************************************************************************)
\* The next candle opens a gap away from the last close; its wicks reach beyond
\* its body.
NextCandle(move) ==
    LET open == (IF history = <<>> THEN Start ELSE Close(history)) + move.gap
        close == open + move.body IN
    [open |-> open, close |-> close,
     high |-> Max({open, close}) + move.upper, low |-> Min({open, close}) - move.lower]

\* A price is positive.
Candle ==
    /\ part = "market" /\ stage = "working" /\ Len(history) < MaxHistory
    /\ \E move \in Moves :
        /\ NextCandle(move).low > 0
        /\ history' = Append(history, NextCandle(move))
    /\ UNCHANGED <<part, stage, technical, patterns, decision, strategies, function>>

Recognise ==
    /\ part = "market" /\ stage = "working" /\ stage' = "recognised" /\ Len(history) >= MaxHistory - 1
    /\ \E x \in External : patterns' = RecognisePatterns(history, x.signals, x.lines, x.failed)
    /\ UNCHANGED <<part, technical, history, decision, strategies, function>>

Aggregate ==
    /\ part = "market" /\ stage = "recognised" /\ stage' = "aggregated"
    /\ \E v \in Verdicts :
        LET overall == CalculateSummaries(v.votes, NoVotes).overall IN
        decision' =
            [direction |-> DetermineDirection(CalculateWeightedScore(overall, patterns, v.fundamental)),
             votes |-> v.votes, fundamental |-> v.fundamental, overall |-> overall]
    /\ UNCHANGED <<part, technical, history, patterns, strategies, function>>

Confidence ==
    CalculateConfidence(decision.direction, decision.votes, patterns, decision.fundamental, NoValue)

BuildReport ==
    /\ part = "market" /\ stage = "aggregated" /\ stage' = "done"
    /\ strategies' = BuildStrategies(decision.direction, Close(history), Atr(history), patterns, Confidence)
    /\ output' = SkipReason(decision.direction, strategies')
    /\ UNCHANGED <<part, technical, history, patterns, decision, input>>

(***************************************************************************)
(* The functions that stand alone                                          *)
(***************************************************************************)
CandlestickSignal ==
    /\ part = "candlestick" /\ stage = "working" /\ stage' = "done"
    /\ \E func \in CandlestickPatterns, size \in {50, 100, 200} :
        \E sign \in SignalSigns(func) :
            /\ input' = [func |-> func, raw |-> sign * size, at |-> 1]
            /\ output' = [found |-> DetectionFromSignal(input'),
                          indication |-> DirectionalIndication(func, sign > 0)]
    /\ UNCHANGED <<part, technical, market>>

ChartShape ==
    /\ part = "chart" /\ stage = "working" /\ stage' = "done"
    /\ \E upper, lower \in Slopes :
        /\ input' = [upper |-> upper, lower |-> lower]
        /\ output' = ClassifyPattern(upper, lower, FALSE)
    /\ UNCHANGED <<part, technical, market>>

\* Each frame brings a list of patterns, or no candles.
Scan ==
    /\ part = "scanner" /\ stage = "working" /\ stage' = "done"
    /\ \E frames \in SUBSET ToSet(ScannerTimeframes) : \E found \in [frames -> Lists] :
        LET entries == ScannerPatterns(frames, found) IN
        /\ input' = entries
        /\ output' = ConsolidatePatterns(entries)
    /\ UNCHANGED <<part, technical, market>>

\* _step_fundamental_analysis, by what classify_instrument makes of the symbol.
Symbols == [table : {"forex", "commodity", "index", "none"}, sixLetters : BOOLEAN]

Instrument(type) ==
    /\ part = "fundamental" /\ stage = "working" /\ stage' = "done"
    /\ \E symbol \in Symbols : Classify(symbol) = type
    /\ UNCHANGED <<part, technical, market>>

Forex ==
    /\ Instrument("forex")
    /\ \E base, quote \in Currencies : base # quote /\
        \E figures \in [{base, quote} -> [rate : Figures, cpi : Figures]] :
            /\ input' = [type |-> "forex", base |-> base, quote |-> quote, figures |-> figures]
            /\ output' = AnalyzeForex(base, quote, figures)

Commodity ==
    /\ Instrument("commodity")
    /\ \E cot \in Cots, fed, cpi \in Figures :
        /\ input' = [type |-> "commodity", cot |-> cot, fed |-> fed, cpi |-> cpi]
        /\ output' = AnalyzeCommodity(cot, fed, cpi)

Index ==
    /\ Instrument("index")
    /\ \E region \in {"US", "EU", "none"}, figures \in [{"rate", "cpi", "unemployment"} -> Figures] :
        /\ input' = [type |-> "index", region |-> region, figures |-> figures]
        /\ output' = AnalyzeIndex(region, figures)

\* No instrument of a known type, no score.
Unrecognised ==
    /\ Instrument("unknown")
    /\ input' = [type |-> "unknown"]
    /\ output' = NoScore

\* A behaviour ends when its part is worked through.
Next ==
    \/ RateIndicator \/ IndicatorsFail \/ RateAverages \/ AveragesFail \/ Summarise
    \/ Pivot
    \/ Candle \/ Recognise \/ Aggregate \/ BuildReport
    \/ CandlestickSignal \/ ChartShape \/ Scan
    \/ Forex \/ Commodity \/ Index \/ Unrecognised

Spec == Init /\ [][Next]_vars
-----------------------------------------------------------------------------
(***************************************************************************)
(* Properties                                                              *)
(***************************************************************************)
Done(p) == part = p /\ stage = "done"

Flip(votes) == [buy |-> votes.sell, sell |-> votes.buy, neutral |-> votes.neutral]

\* A market turned upside down is rated the other way round: every verdict of
\* the summary changes its sign (signal_rating.py, summary.py).
VerdictsMirror ==
    Done("technical") =>
        LET there == CalculateSummaries(mirrored.indicators, mirrored.averages) IN
        /\ there.votes = Flip(output.summary.votes)
        /\ there.ma = -output.summary.ma
        /\ there.indicators = -output.summary.indicators
        /\ there.overall = -output.summary.overall

Between(x, a, b) == (a <= x /\ x <= b) \/ (b <= x /\ x <= a)

\* The overall verdict lies between those of the indicators and of the moving
\* averages, and the long-term trend on the same votes agrees with it
\* (summary.py, long_term_trend.py).
OverallBetweenGroups ==
    Done("technical") =>
        /\ Between(output.summary.overall, output.summary.ma, output.summary.indicators)
        /\ output.weekly \in {output.summary.overall, NoValue}

Ascending(ladder) == \A i, j \in DOMAIN ladder : i <= j => ladder[i] <= ladder[j]

\* The rungs of every pivot ladder are in order; Camarilla's stand around the
\* close and not around its pivot (pivot_points.py).
LaddersAscend(pivots) ==
    /\ Ascending(pivots.classic) /\ Ascending(pivots.woodie)
    /\ Ascending(pivots.fibonacci) /\ Ascending(pivots.demark)
    /\ Ascending([i \in {1, 2, 3, 5, 6, 7} |-> pivots.camarilla[i]])

\* The pivots of every candle are in order.
PivotsOrdered == Done("pivots") => LaddersAscend(output)

\* Every extremum of the history touches exactly one level, the levels rise
\* and none lies outside the prices the history has seen
\* (support_resistance.py, _cluster_levels).
EveryTouchCounted ==
    LET levels == ClusterLevels(Extrema(history))
        lows == {history[i].low : i \in DOMAIN history}
        highs == {history[i].high : i \in DOMAIN history} IN
    stage = "working" /\ history # <<>> =>
        /\ SumFunction([k \in DOMAIN levels |-> levels[k].touches])
                = Cardinality(Maxima(history)) + Cardinality(Minima(history))
        /\ \A k \in DOMAIN levels :
                /\ Text(Min(lows), 1) <= levels[k].price /\ levels[k].price <= Text(Max(highs), 1)
                /\ k > 1 => levels[k - 1].price <= levels[k].price

\* There is a last swing in every history, it does not stand on its head, and
\* the retracements lie within it (fibonacci.py).
SwingSpans ==
    stage = "working" /\ history # <<>> =>
        /\ Maxima(history) # {} /\ Minima(history) # {}
        /\ Swing(history).low <= Swing(history).high
        /\ \A k \in DOMAIN FiboLevels :
                FiboPrice(Swing(history), FiboLevels[k])
                    \in 1000 * Swing(history).low .. 1000 * Swing(history).high

\* What is reported as impulse, correction and impulse is one: two advances of
\* the sizes asked for, and between them a candle that does not undo the first
\* (iki_detector.py).
IkiIsReal ==
    stage = "recognised" =>
      \A p \in {patterns[k] : k \in {j \in DOMAIN patterns : patterns[j].category = "iki"}} :
        \E j, k, m \in DOMAIN history :
            /\ p.at < j /\ j < k /\ k < m
            /\ Reach(history, p.bullish, p.at, j) >= 2 * Atr(history)
            /\ Reach(history, p.bullish, k, m) >= Atr(history)
            /\ Retrace(history, p.bullish, j, k) < Reach(history, p.bullish, p.at, j)

\* A relevance of one, in ten-thousandths.
FullRelevance == 10000

\* Nothing a pattern is worth leaves its range, and it is at one of the candles.
PatternsInRange ==
    stage = "recognised" =>
        \A k \in DOMAIN patterns : /\ patterns[k].relevance \in 0..FullRelevance
                                   /\ patterns[k].confidence \in 1..100
                                   /\ patterns[k].at \in 1..Len(history)

\* A strong technical verdict is never traded against, whatever the patterns
\* and the macro score (scoring.py).
StrongVerdictNeverOpposed ==
    stage \in {"aggregated", "done"} =>
        /\ decision.overall = StrongBuy => decision.direction # Short
        /\ decision.overall = StrongSell => decision.direction # Long

\* A scenario of the report risks less than it can win: stop, entry and the
\* two targets stand in order, and the targets pay once and twice the risk, to
\* the half percent the printed ratio is rounded by (sl_tp_calculator.py,
\* report_builder.py).
StrategiesPay ==
    Done("market") /\ Atr(history) > 0 =>
        \A k \in DOMAIN strategies :
            LET s == strategies[k]
                d == decision.direction
                risk == d * (s.entry - s.stop) IN
            /\ risk > 0
            /\ s.tp1 # s.entry /\ d * (s.tp2 - s.tp1) > 0
            /\ 200 * risk < 201 * d * (s.tp1 - s.entry)
            /\ 400 * risk < 201 * d * (s.tp2 - s.entry)

\* The scenarios of the market mirrored at its last close are the mirrored
\* scenarios: long and short are written out apart in the source
\* (entry_calculator.py, sl_tp_calculator.py, confidence_scorer.py).  What
\* becomes of the price of a pattern that has none does not matter: only those
\* of levels and retracements are read.
StrategiesMirror ==
    Done("market") =>
        LET current == Close(history)
            Across(price) == 2 * current - price
            Turned(p) == [p EXCEPT !.bullish = ~@, !.price = Across(@)]
            turned == [k \in DOMAIN patterns |-> Turned(patterns[k])]
            score == IF decision.fundamental = NoScore THEN NoScore ELSE -decision.fundamental
            confidence == CalculateConfidence(-decision.direction, Flip(decision.votes), turned, score, NoValue)
            there == BuildStrategies(-decision.direction, current, Atr(history), turned, confidence)
            Back(s) == [s EXCEPT !.entry = Across(@), !.stop = Across(@), !.tp1 = Across(@), !.tp2 = Across(@)] IN
        [k \in DOMAIN there |-> Back(there[k])] = strategies

\* What a candlestick pattern is said to indicate never contradicts the side it
\* is counted on (candlestick.py).
IndicationsAgree ==
    Done("candlestick") =>
        /\ output.found.bullish => output.indication \notin {"bearish", "bulls weaken"}
        /\ ~output.found.bullish => output.indication # "bullish"

\* Trend lines turned upside down give the shape of the same kind and
\* confidence, on the other side unless it is the symmetric triangle, which
\* the code takes to be bullish either way (chart_patterns.py).
ShapesMirror ==
    Done("chart") =>
        LET there == ClassifyPattern(-input.lower, -input.upper, FALSE) IN
        /\ there.confidence = output.confidence
        /\ output.name \notin {"none", "Symmetric Triangle"} => there.bullish = ~output.bullish
        /\ output.name = "Symmetric Triangle" => there = output

\* The scanner lists every pattern once, on all the timeframes that show it
\* and no other, by its best appearance, best first (consolidator.py).
ScannerComplete ==
    Done("scanner") =>
        LET Shown(result) ==
                {k \in DOMAIN input : /\ input[k].of.name = result.pattern.name
                                     /\ input[k].of.category = result.pattern.category
                                     /\ input[k].of.bullish = result.pattern.bullish} IN
        /\ \A k \in DOMAIN input : Cardinality({i \in DOMAIN output : k \in Shown(output[i])}) = 1
        /\ \A i \in DOMAIN output :
                /\ ToSet(output[i].timeframes) = {input[k].timeframe : k \in Shown(output[i])}
                /\ \A k \in Shown(output[i]) : ~Outranks(input[k].of, output[i].pattern)
                /\ \A j \in DOMAIN output : i < j => ~Outranks(output[j].pattern, output[i].pattern)

\* The score of a pair is the opposite of the score of the pair the other way
\* round, missing figures included (forex.py).
PairsOpposed ==
    Done("fundamental") /\ input.type = "forex" =>
        AnalyzeForex(input.quote, input.base, input.figures) = -output

\* A score moves one way with each of its figures, through its caps, the unequal
\* weights of inflation and the parts that lack a figure.  A higher Fed rate never
\* raises a commodity's score, by the dollar nor by the real rate, and higher
\* inflation never lowers it, for it lowers the real rate (commodities.py 62-97).
\* A higher rate, inflation or unemployment never raises an index's score
\* (indices.py 87-138): that too few unemployed "may signal overheating", as a
\* docstring there says, is no part of the rule.
FiguresPullOneWay ==
    LET Higher(f) == {g \in Figures : f # NoFigure /\ g > f} IN
    /\ Done("fundamental") /\ input.type = "commodity" =>
           /\ \A f \in Higher(input.fed) : AnalyzeCommodity(input.cot, f, input.cpi) <= output
           /\ \A f \in Higher(input.cpi) : AnalyzeCommodity(input.cot, input.fed, f) >= output
    /\ Done("fundamental") /\ input.type = "index" =>
           \A name \in DOMAIN input.figures : \A f \in Higher(input.figures[name]) :
                AnalyzeIndex(input.region, [input.figures EXCEPT ![name] = f]) <= output
-----------------------------------------------------------------------------
\* Rising and falling, base and quote, above and below are written out apart
\* and treated alike: in the verdicts, the trend lines and the currencies.
SidesAlike == VerdictsMirror /\ ShapesMirror /\ PairsOpposed

\* What must be in order is: the pivot ladders, the verdict of the whole
\* between those of its parts, and the macro scores along each figure.
OrdersKept == PivotsOrdered /\ OverallBetweenGroups /\ FiguresPullOneWay

\* What the detectors report is there in the candles: the swing, the impulses,
\* the side, and a worth within its range.
PatternsReal == SwingSpans /\ IkiIsReal /\ PatternsInRange /\ IndicationsAgree
=============================================================================
