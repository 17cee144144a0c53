------------------------------- MODULE Scanner -------------------------------
(***************************************************************************)
(* The rest of modules/pattern_recognition: the candlestick functions and  *)
(* the trend lines, what a pattern is worth, the pattern step of the       *)
(* pipeline and the scanner's list over several timeframes.                *)
(***************************************************************************)
EXTENDS Patterns

CONSTANT Lookback       \* candles a chart pattern is looked for in: 60

ASSUME ScannerAssumption == Lookback \in Nat \ {0}

(***************************************************************************)
(* candlestick.py                                                          *)
(***************************************************************************)
\* CANDLESTICK_PATTERNS, by what each function's pattern indicates.
Reversals == {"ENGULFING", "HARAMI", "HARAMICROSS", "DOJISTAR", "3OUTSIDE", "3INSIDE"}
Momentum == {"MARUBOZU"}
Continuations == {"RISEFALL3METHODS", "XSIDEGAP3METHODS"}
BullishOnly == {"HAMMER", "MORNINGSTAR", "PIERCING", "3WHITESOLDIERS", "INVERTEDHAMMER",
                "MORNINGDOJISTAR", "DRAGONFLYDOJI", "STICKSANDWICH"}
BearishOnly == {"SHOOTINGSTAR", "EVENINGSTAR", "DARKCLOUDCOVER", "3BLACKCROWS", "HANGINGMAN",
                "EVENINGDOJISTAR", "2CROWS"}
Weakening == {"ADVANCEBLOCK", "STALLEDPATTERN"}
Indecision == {"DOJI", "SPINNINGTOP"}

TwoSided == Reversals \cup Momentum \cup Continuations
CandlestickPatterns == TwoSided \cup BullishOnly \cup BearishOnly \cup Weakening \cup Indecision

\* Mutant: momentum is told apart from a reversal and then left as it is.
DirectionalIndicationPartly(func, bullish) ==
    CASE func \in Reversals \cup Continuations -> IF bullish THEN "bullish" ELSE "bearish"
      [] func \in BullishOnly \cup Momentum -> "bullish"
      [] func \in BearishOnly -> "bearish"
      [] func \in Weakening -> "bulls weaken"
      [] func \in Indecision -> "indecision"

\* _directional_indication: a two-sided pattern indicates what its signal says,
\* the others keep the words of the table.
DirectionalIndication(func, bullish) ==
    CASE func \in TwoSided -> IF bullish THEN "bullish" ELSE "bearish"
      [] func \in BullishOnly -> "bullish"
      [] func \in BearishOnly -> "bearish"
      [] func \in Weakening -> "bulls weaken"
      [] func \in Indecision -> "indecision"

\* The signs TA-Lib's functions can return.
SignalSigns(func) ==
    CASE func \in BullishOnly \cup {"DOJI"} -> {1}
      [] func \in BearishOnly \cup Weakening -> {-1}
      [] OTHER -> {-1, 1}

ReliabilityFromSignal(size) == IF size >= 200 THEN 3 ELSE IF size >= 100 THEN 2 ELSE 1
ConfidenceFromSignal(size) == IF size >= 200 THEN 100 ELSE IF size >= 100 THEN 70 ELSE 50

\* A signal is what one function returned for one candle, when it is not 0.
DetectionFromSignal(signal) ==
    [Pattern("candlestick", signal.func, signal.raw > 0,
             ConfidenceFromSignal(Abs(signal.raw)), signal.at, NoPrice)
        EXCEPT !.reliability = ReliabilityFromSignal(Abs(signal.raw))]

\* The newest ScanCandles candles are scanned.
DetectCandlestickPatterns(h, signals) ==
    LET n == Len(h)
        Scanned == Filter(signals, LAMBDA s : n - ScanCandles < s.at /\ s.at <= n) IN
    IF n < MinCandles THEN <<>> ELSE [k \in DOMAIN Scanned |-> DetectionFromSignal(Scanned[k])]

(***************************************************************************)
(* chart_patterns.py, on the normalised slopes of the two trend lines, in  *)
(* thousandths.  The regression is numpy's; NoLines is its early return.   *)
(***************************************************************************)
NoLines == [upper |-> 0, lower |-> 0, fitted |-> FALSE]
Shape(name, bullish, confidence) == [name |-> name, bullish |-> bullish, confidence |-> confidence]
NoShape == Shape("none", FALSE, 0)

\* _has_prior_impulse.  It is handed the window the pattern is looked for in,
\* so the candles before it are never there.
HasPriorImpulse(closes) ==
    LET before == SubSeq(closes, 1, Len(closes) - Lookback)
        last10 == SubSeq(before, Len(before) - 9, Len(before)) IN
    /\ Len(closes) > Lookback
    /\ Len(before) >= 10
    /\ 100 * Abs(last10[10] - last10[1]) > 3 * last10[1]

\* Mutant: both triangles with one flat line are bullish.
ClassifyPatternUp(upper, lower, impulse) ==
    LET converging == upper < -50 \/ lower > 50
        parallel == Abs(upper - lower) < 150 IN
    CASE converging /\ ~parallel /\ upper < -100 /\ lower > 100 ->
            Shape("Symmetric Triangle", TRUE, 55)
      [] converging /\ ~parallel /\ (upper < -100) # (lower > 100)
         /\ (Abs(lower) < 100 \/ Abs(upper) < 100) -> Shape("Triangle", TRUE, 60)
      [] OTHER -> NoShape

ClassifyPattern(upper, lower, impulse) ==
    LET converging == upper < -50 \/ lower > 50
        parallel == Abs(upper - lower) < 150
        triangle == converging /\ ~parallel
        symmetric == triangle /\ upper < -100 /\ lower > 100
        descending == triangle /\ upper < -100 /\ Abs(lower) < 100
        ascending == triangle /\ Abs(upper) < 100 /\ lower > 100
        flag == parallel /\ Abs(upper) < 300 /\ Abs(lower) < 300 IN
    IF symmetric THEN Shape("Symmetric Triangle", TRUE, 55)
    ELSE IF descending THEN Shape("Descending Triangle", FALSE, 60)
    ELSE IF ascending THEN Shape("Ascending Triangle", TRUE, 60)
    ELSE IF impulse /\ converging THEN Shape("Pennant", TRUE, 60)
    ELSE IF impulse /\ flag THEN Shape("Flag", upper < 0, 60)
    ELSE IF upper > 50 /\ lower > 50 /\ converging THEN Shape("Rising Wedge", FALSE, 55)
    ELSE IF upper < -50 /\ lower < -50 /\ converging THEN Shape("Falling Wedge", TRUE, 55)
    ELSE NoShape

DetectChartPatterns(h, lines) ==
    LET window == [i \in 1..Lookback |-> h[Len(h) - Lookback + i].close]
        shape == ClassifyPattern(lines.upper, lines.lower, HasPriorImpulse(window)) IN
    IF Len(h) < Lookback THEN <<>>
    ELSE IF ~lines.fitted \/ shape = NoShape THEN <<>>
    ELSE <<Pattern("chart", shape.name, shape.bullish, shape.confidence,
                   Len(h) - Lookback + 1, NoPrice)>>

(***************************************************************************)
(* relevance_scorer.py                                                     *)
(***************************************************************************)
\* 0.15 of the proximity to a level within five percent of the price.
Proximity(pattern, current) ==
    IF pattern.price = NoPrice THEN 1500
    ELSE 1500 - RoundDiv(1500 * Least(current, 20 * Abs(current - pattern.price)), current)

Relevance(pattern, h) ==
    50 * pattern.confidence + RoundDiv(3500 * pattern.at, Len(h)) + Proximity(pattern, Close(h))

\* Half the average true ranges a pattern without a level is expected to run.
HalfRanges(category) == IF category = "candlestick" THEN 3 ELSE 4

TargetForPattern(pattern, h) ==
    LET run == (HalfRanges(pattern.category) * FullAtr(h)) \div 2 IN
    CASE pattern.category \in {"candlestick", "chart", "iki"} ->
            IF FullAtr(h) = 0 THEN NoPrice
            ELSE IF pattern.bullish THEN Close(h) + run ELSE Close(h) - run
      [] OTHER -> pattern.price

(***************************************************************************)
(* pipeline.py, _step_pattern_recognition: a detector that raises leaves   *)
(* its patterns out.                                                       *)
(***************************************************************************)
ScoredPattern(p, h) ==
    [category |-> p.category, name |-> p.name, bullish |-> p.bullish, confidence |-> p.confidence,
     at |-> p.at, price |-> p.price, reliability |-> p.reliability,
     target |-> TargetForPattern(p, h), relevance |-> Relevance(p, h)]

\* Scored, the most relevant first.
Ranked(found, h) ==
    StableSort([k \in DOMAIN found |-> ScoredPattern(found[k], h)], LAMBDA a, b : a.relevance > b.relevance)

RecognisePatterns(h, signals, lines, failed) ==
    LET Of(detector, detected) == IF detector = failed THEN <<>> ELSE detected IN
    Ranked(Of("candlestick", DetectCandlestickPatterns(h, signals))
           \o Of("support_resistance", DetectSupportResistance(h))
           \o Of("fibonacci", CalculateFibonacciLevels(h))
           \o Of("chart", DetectChartPatterns(h, lines))
           \o Of("iki", DetectIki(h)), h)

(***************************************************************************)
(* consolidator.py, and the timeframes the pipeline hands it.              *)
(***************************************************************************)
ScannerTimeframes == <<"D1", "H1", "M15">>

\* _step_multi_timeframe_pattern_recognition: frames without candles are
\* skipped, the frame of the analysis brings the patterns it has already.
ScannerPatterns(frames, found) ==
    LET Of(frame) ==
            IF frame \in frames
            THEN [k \in DOMAIN found[frame] |-> [of |-> found[frame][k], timeframe |-> frame]]
            ELSE <<>> IN
    Of("D1") \o Of("H1") \o Of("M15")

Outranks(a, b) ==
    \/ a.relevance > b.relevance
    \/ a.relevance = b.relevance /\ a.confidence > b.confidence
    \/ a.relevance = b.relevance /\ a.confidence = b.confidence /\ a.reliability > b.reliability

\* Mutant: what a pattern says is left out of its key.
GroupKeyByName(entry) == <<entry.of.name, entry.of.category>>

GroupKey(entry) == <<entry.of.name, entry.of.category, entry.of.bullish>>

ConsolidatePatterns(entries) ==
    LET Group(key) == {k \in DOMAIN entries : GroupKey(entries[k]) = key}
        \* max() keeps the first of equals.
        Representative(key) ==
            CHOOSE k \in Group(key) :
                \A j \in Group(key) : /\ ~Outranks(entries[j].of, entries[k].of)
                                      /\ j < k => Outranks(entries[k].of, entries[j].of)
        Timeframes(key) ==
            Filter(ScannerTimeframes, LAMBDA t : \E k \in Group(key) : entries[k].timeframe = t)
        Result(key) == [pattern |-> entries[Representative(key)].of, timeframes |-> Timeframes(key)]
        \* The groups in the order of their first entries.
        first == Filter([k \in DOMAIN entries |-> k],
                        LAMBDA k : \A j \in 1..(k - 1) : GroupKey(entries[j]) # GroupKey(entries[k])) IN
    StableSort([i \in DOMAIN first |-> Result(GroupKey(entries[first[i]]))],
               LAMBDA a, b : Outranks(a.pattern, b.pattern))
=============================================================================
