------------------------------ MODULE Patterns ------------------------------
(***************************************************************************)
(* modules/pattern_recognition: the detectors run on one history of        *)
(* candles.  Prices are integers, CentUnits of them to a cent; the texts a *)
(* price is printed into and read back from have two decimals.             *)
(* Confidences are in hundredths, relevance in ten-thousandths.            *)
(***************************************************************************)
EXTENDS Integers, Sequences, FiniteSets, FiniteSetsExt, SequencesExt, TLC

CONSTANTS
    CentUnits,      \* units of price to a cent
    Order,          \* order of argrelextrema: 5
    MinSwing,       \* candles a swing needs: 20
    AtrPeriod,      \* 14
    MinIki,         \* candles an IKI needs: AtrPeriod + 20
    ScanBack,       \* how far back an IKI may start: 60
    ScanTail,       \* and how far before the end: 10
    MaxImpulse,     \* 10
    MaxCorrection,  \* 15
    EmaPeriods,     \* {50, 200}
    MinCandles,     \* candles the candlestick functions need: 5
    ScanCandles     \* _SCAN_CANDLES: 10

ASSUME PatternsAssumption ==
    /\ {CentUnits, Order, AtrPeriod} \subseteq Nat \ {0}
    /\ {MinSwing, MinIki, ScanBack, ScanTail, MaxImpulse, MaxCorrection, MinCandles, ScanCandles} \subseteq Nat
    /\ EmaPeriods \subseteq Nat \ {0} /\ IsFiniteSet(EmaPeriods)

NoPrice == -1

Abs(x) == IF x < 0 THEN -x ELSE x
Least(a, b) == IF a < b THEN a ELSE b
RoundDiv(a, b) == (2 * a + b) \div (2 * b)

\* A price num/den printed with two decimals and read back.
Text(num, den) == CentUnits * RoundDiv(num, den * CentUnits)

Close(h) == h[Len(h)].close

\* The numbers of a set, ascending.
InOrder(set) == [k \in 1..Cardinality(set) |-> CHOOSE i \in set : Cardinality({j \in set : j < i}) = k - 1]

\* The list comprehension with a condition.
Filter(s, Wanted(_)) ==
    LET at == InOrder({i \in DOMAIN s : Wanted(s[i])}) IN [k \in DOMAIN at |-> s[at[k]]]

\* sorted() and list.sort(): what neither comes before nor after the other keeps
\* its order, which SortSeq of TLC leaves open.
StableSort(s, Before(_, _)) ==
    LET Earlier(i, j) == Before(s[i], s[j]) \/ (i < j /\ ~Before(s[j], s[i]))
        rank == [j \in DOMAIN s |-> 1 + Cardinality({i \in DOMAIN s : Earlier(i, j)})] IN
    [k \in DOMAIN s |-> s[CHOOSE j \in DOMAIN s : rank[j] = k]]

Pattern(category, name, bullish, confidence, at, price) ==
    [category |-> category, name |-> name, bullish |-> bullish,
     confidence |-> confidence, at |-> at, price |-> price, reliability |-> 1]

(***************************************************************************)
(* Extrema, true ranges                                                    *)
(***************************************************************************)
\* argrelextrema with >= and <=, clipped at the edges: a candle at the edge
\* is compared with the neighbours it has.
Near(h, i) == {j \in DOMAIN h : i - Order <= j /\ j <= i + Order}
\* Mutant: a plateau is no extremum.
MaximaStrict(h) ==
    {i \in DOMAIN h : \A j \in Near(h, i) \ {i} : h[i].high > h[j].high}

Maxima(h) == {i \in DOMAIN h : \A j \in Near(h, i) : h[i].high >= h[j].high}
Minima(h) == {i \in DOMAIN h : \A j \in Near(h, i) : h[i].low <= h[j].low}

TrueRange(h, i) ==
    LET before == h[i - 1].close IN
    Max({h[i].high - h[i].low, Abs(h[i].high - before), Abs(h[i].low - before)})

\* calculate_atr: the mean over as many of the last AtrPeriod true ranges as
\* there are.
Atr(h) ==
    LET n == Len(h)
        k == Least(AtrPeriod, n - 1) IN
    IF n < 2 THEN 0 ELSE SumFunction([i \in (n - k + 1)..n |-> TrueRange(h, i)]) \div k

\* _calculate_atr14 and the detector's _calculate_atr want them all.
FullAtr(h) == IF Len(h) < AtrPeriod + 1 THEN 0 ELSE Atr(h)

(***************************************************************************)
(* support_resistance.py                                                   *)
(***************************************************************************)
Extremum(price, resistance) == [price |-> price, resistance |-> resistance]

\* raw_levels, sorted by price.
Extrema(h) ==
    LET tops == InOrder(Maxima(h))
        bottoms == InOrder(Minima(h)) IN
    StableSort([k \in DOMAIN tops |-> Extremum(h[tops[k]].high, TRUE)]
               \o [k \in DOMAIN bottoms |-> Extremum(h[bottoms[k]].low, FALSE)],
               LAMBDA a, b : a.price < b.price)

Opened(e) == [sum |-> e.price, count |-> 1, tops |-> IF e.resistance THEN 1 ELSE 0]

Joined(c, e) ==
    [sum |-> c.sum + e.price, count |-> c.count + 1,
     tops |-> c.tops + (IF e.resistance THEN 1 ELSE 0)]

\* Within half a percent of the mean of the cluster so far.
Belongs(c, e) == 200 * Abs(e.price * c.count - c.sum) <= c.sum

\* Mutant: an extremum too far from the last cluster is dropped.
AddToClustersOne(clusters, e) ==
    IF clusters = <<>> THEN <<Opened(e)>>
    ELSE IF Belongs(Last(clusters), e)
         THEN Append(Front(clusters), Joined(Last(clusters), e))
         ELSE clusters

AddToClusters(clusters, e) ==
    IF clusters # <<>> /\ Belongs(Last(clusters), e)
    THEN Append(Front(clusters), Joined(Last(clusters), e))
    ELSE Append(clusters, Opened(e))

ClusterLevels(extrema) ==
    LET Clusters == FoldLeft(AddToClusters, <<>>, extrema) IN
    [k \in DOMAIN Clusters |->
        [price |-> Text(Clusters[k].sum, Clusters[k].count),
         resistance |-> 2 * Clusters[k].tops >= Clusters[k].count,
         touches |-> Clusters[k].count]]

\* ema[n] as a fraction, over (period + 1)^(n-1).
EmaAt(h, period) ==
    LET ema[i \in 1..Len(h)] ==
            IF i = 1 THEN [num |-> h[1].close, den |-> 1]
            ELSE [num |-> 2 * h[i].close * ema[i - 1].den + (period - 1) * ema[i - 1].num,
                  den |-> (period + 1) * ema[i - 1].den] IN
    ema[Len(h)]

\* _detect_ema_bounces: within one percent of the average, one average after
\* the other.
EmaBounces(h) ==
    LET Ema(p) == EmaAt(h, p)
        Gap(p) == Abs(Close(h) * Ema(p).den - Ema(p).num)
        Bounce(p) == Pattern("support_resistance", "ema", Close(h) * Ema(p).den >= Ema(p).num,
                             90 - RoundDiv(3000 * Gap(p), Ema(p).num), Len(h), NoPrice)
        near == InOrder({q \in EmaPeriods : Len(h) >= q /\ 100 * Gap(q) <= Ema(q).num}) IN
    [k \in DOMAIN near |-> Bounce(near[k])]

\* Mutant: touches beyond the fifth go on counting.
LevelPatternUncapped(level, h) ==
    Pattern("support_resistance", "level", ~level.resistance, 20 * level.touches, Len(h), level.price)

LevelPattern(level, h) ==
    Pattern("support_resistance", "level", ~level.resistance,
            Least(100, 20 * level.touches), Len(h), level.price)

DetectSupportResistance(h) ==
    LET Levels == ClusterLevels(Extrema(h)) IN
    IF Len(h) < 2 * Order + 1 THEN <<>>
    ELSE [k \in DOMAIN Levels |-> LevelPattern(Levels[k], h)] \o EmaBounces(h)

(***************************************************************************)
(* fibonacci.py                                                            *)
(***************************************************************************)
FiboLevels == <<236, 382, 500, 618, 786>>
FiboNames == <<"23.6%", "38.2%", "50.0%", "61.8%", "78.6%">>

Swing(h) ==
    [top |-> Max(Maxima(h)), bottom |-> Max(Minima(h)),
     high |-> h[Max(Maxima(h))].high, low |-> h[Max(Minima(h))].low]

\* The level's price in thousandths of a unit.
FiboPrice(swing, level) ==
    IF swing.bottom < swing.top
    THEN 1000 * swing.high - level * (swing.high - swing.low)
    ELSE 1000 * swing.low + level * (swing.high - swing.low)

FiboPattern(h, swing, k) ==
    LET level == FiboLevels[k]
        price == FiboPrice(swing, level)
        active == 100 * Abs(1000 * Close(h) - price) <= 1000 * Close(h) IN
    Pattern("fibonacci", FiboNames[k], swing.bottom < swing.top, IF active THEN 80 ELSE 50,
            IF swing.bottom < swing.top THEN swing.top ELSE swing.bottom,
            Text(price, 1000))

CalculateFibonacciLevels(h) ==
    LET swing == Swing(h) IN
    IF Len(h) < MinSwing THEN <<>>
    ELSE IF swing.high = swing.low THEN <<>>
    ELSE [k \in DOMAIN FiboLevels |-> FiboPattern(h, swing, k)]

(***************************************************************************)
(* iki_detector.py                                                         *)
(***************************************************************************)
\* How far the move from candle i has come at candle j, and what the wicks
\* against it take back.
Reach(h, bullish, i, j) ==
    IF bullish THEN h[j].high - h[i].low ELSE h[i].high - h[j].low
Retrace(h, bullish, j, k) ==
    IF bullish THEN h[j].high - h[k].low ELSE h[k].high - h[j].low

\* The first index of a window that passes, or 0.
First(window, Passes(_)) ==
    LET S == {j \in window : Passes(j)} IN IF S = {} THEN 0 ELSE Min(S)

\* The second impulse, half the size of what the first has to be, makes the
\* confidence of the pattern.
SecondImpulse(h, bullish, correction, threshold) ==
    LET second == First((correction + 1)..Least(correction + MaxImpulse - 1, Len(h)),
                        LAMBDA m : 2 * Reach(h, bullish, correction, m) >= threshold) IN
    IF second = 0 THEN 0
    ELSE Least(100, 30 + RoundDiv(70 * Reach(h, bullish, correction, second), threshold))

\* Mutant: a correction that takes back too much is taken for one.
AfterImpulseDeep(h, bullish, impulse, size, threshold) ==
    LET correction == First((impulse + 1)..Least(impulse + MaxCorrection - 1, Len(h)),
                            LAMBDA k : 1000 * Retrace(h, bullish, impulse, k) >= 382 * size) IN
    IF correction = 0 THEN 0 ELSE SecondImpulse(h, bullish, correction, threshold)

\* The first candle that takes back 38.2 percent ends the correction: one that
\* takes back more than 61.8 is none.
AfterImpulse(h, bullish, impulse, size, threshold) ==
    LET correction == First((impulse + 1)..Least(impulse + MaxCorrection - 1, Len(h)),
                            LAMBDA k : 1000 * Retrace(h, bullish, impulse, k) >= 382 * size) IN
    IF correction = 0 THEN 0
    ELSE IF 1000 * Retrace(h, bullish, impulse, correction) > 618 * size THEN 0
    ELSE SecondImpulse(h, bullish, correction, threshold)

\* What _find_iki says of the impulse that starts at candle i: the confidence
\* of a pattern, or 0.
FindIki(h, i, bullish) ==
    LET threshold == 2 * FullAtr(h)
        impulse == First((i + 2)..Least(i + MaxImpulse - 1, Len(h)),
                         LAMBDA j : Reach(h, bullish, i, j) >= threshold) IN
    IF impulse = 0 THEN 0
    ELSE AfterImpulse(h, bullish, impulse, Reach(h, bullish, i, impulse), threshold)

\* The last pattern found in a direction.
Newest(h, bullish, starts) ==
    LET found == {i \in starts : FindIki(h, i, bullish) > 0}
        Reported(i) == Pattern("iki", "iki", bullish, FindIki(h, i, bullish), i, NoPrice) IN
    IF found = {} THEN <<>> ELSE <<Reported(Max(found))>>

DetectIki(h) ==
    LET n == Len(h)
        starts == Max({AtrPeriod, n - ScanBack}) + 1 .. n - ScanTail IN
    IF n < MinIki \/ FullAtr(h) = 0 THEN <<>> ELSE Newest(h, TRUE, starts) \o Newest(h, FALSE, starts)
=============================================================================
