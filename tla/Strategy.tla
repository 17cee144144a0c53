------------------------------ MODULE Strategy -------------------------------
(***************************************************************************)
(* modules/signal_aggregation and modules/strategy_generator: three        *)
(* sources are weighed into a direction, and the direction into scenarios  *)
(* with an entry, a stop and two targets.  Prices are in the units of      *)
(* Patterns, of which the half of an average true range is a whole number. *)
(***************************************************************************)
EXTENDS Technical, Fundamentals, Scanner

Long == 1
Short == -1
NoDirection == 0

NoScore == -999999       \* fundamental is None
NoRatio == -1            \* risk_reward_ratio is None

(***************************************************************************)
(* aggregator.py, scoring.py                                               *)
(***************************************************************************)
Multiplier == <<10, 13, 16>>

\* _pattern_strength: relevance where it has been scored.
Strength(p) == IF p.relevance > 0 THEN p.relevance ELSE 100 * p.confidence

Sign(p) == IF p.bullish THEN 1 ELSE -1

\* The patterns weighed by which way each counts, and the most they could weigh:
\* with no patterns the signal is zero.
Weighed(patterns, way) ==
    SumFunction([k \in DOMAIN patterns |-> way[k] * Strength(patterns[k]) * Multiplier[patterns[k].reliability]])
MostWeight(patterns) ==
    IF patterns = <<>> THEN 1
    ELSE SumFunction([k \in DOMAIN patterns |-> Multiplier[patterns[k].reliability]])

\* normalize_pattern_signal, in ten-thousandths.
PatternSignal(patterns) ==
    LET way == [k \in DOMAIN patterns |-> Sign(patterns[k])] IN
    Quotient(Weighed(patterns, way), MostWeight(patterns))

\* normalize_fundamental_signal, in ten-thousandths.
FundamentalSignal(score) == IF score = NoScore THEN 0 ELSE 10 * score

\* Mutant: the three sources weigh the same.
CalculateWeightedScoreEven(overall, patterns, fundamental) ==
    Quotient(5000 * overall + PatternSignal(patterns) + FundamentalSignal(fundamental), 3)

\* calculate_weighted_score, in ten-thousandths: half, three and two tenths.
\* normalize_ta_signal reads the overall verdict, half a point a step; the
\* pipeline always has one.
CalculateWeightedScore(overall, patterns, fundamental) ==
    Quotient(5 * 5000 * overall + 3 * PatternSignal(patterns) + 2 * FundamentalSignal(fundamental), 10)

DetermineDirection(score) ==
    IF score >= 1500 THEN Long ELSE IF score <= -1500 THEN Short ELSE NoDirection

(***************************************************************************)
(* confidence_scorer.py, in ten-thousandths; the result in tenths of a     *)
(* percent.                                                                *)
(***************************************************************************)
TaAgreement(direction, votes) ==
    IF Total(votes) = 0 THEN 0
    ELSE RoundDiv(10000 * (IF direction = Long THEN votes.buy ELSE votes.sell), Total(votes))

PatternConfirmation(direction, patterns) ==
    LET way == [k \in DOMAIN patterns |->
                    IF patterns[k].bullish = (direction = Long) THEN 1 ELSE -1] IN
    Max({0, Quotient(Weighed(patterns, way), MostWeight(patterns))})

FundamentalAlignment(direction, score) ==
    IF score = NoScore THEN 5000
    ELSE IF direction = Long THEN 5 * (score + 1000) ELSE 5 * (1000 - score)

\* A missing reading counts as half a trend.
AdxStrength(adx) == IF adx = NoValue THEN 5000 ELSE Least(10000, 200 * adx)

CalculateConfidence(direction, votes, patterns, fundamental, adx) ==
    (40 * TaAgreement(direction, votes) + 25 * PatternConfirmation(direction, patterns)
     + 15 * FundamentalAlignment(direction, fundamental) + 20 * AdxStrength(adx)) \div 1000

(***************************************************************************)
(* entry_calculator.py: the market, the nearest level and the nearest      *)
(* retracement on the side a pullback comes from.                          *)
(***************************************************************************)
Prices(levels, Wanted(_)) == {levels[k].price : k \in {j \in DOMAIN levels : Wanted(levels[j])}}

Pullback(direction, current, levels) ==
    LET below == Prices(levels, LAMBDA l : l.price < current)
        above == Prices(levels, LAMBDA l : l.price > current) IN
    CASE direction = Long /\ below # {} -> <<Max(below)>>
      [] direction = Short /\ above # {} -> <<Min(above)>>
      [] OTHER -> <<>>

EntryPoints(direction, current, levels, retracements) ==
    <<current>> \o Pullback(direction, current, levels) \o Pullback(direction, current, retracements)

(***************************************************************************)
(* sl_tp_calculator.py                                                     *)
(***************************************************************************)
Supports(entry, levels) == Prices(levels, LAMBDA l : l.bullish /\ l.price < entry)
Resistances(entry, levels) == Prices(levels, LAMBDA l : ~l.bullish /\ l.price > entry)

\* Mutant: the stop of a short sits on the near side of its resistance.
CalculateSlTight(direction, entry, levels, atr) ==
    LET below == Supports(entry, levels)
        above == Resistances(entry, levels) IN
    CASE direction = Long /\ below # {} -> Max(below) - atr \div 2
      [] direction = Long /\ below = {} -> entry - (3 * atr) \div 2
      [] direction = Short /\ above # {} -> Min(above) - atr \div 2
      [] direction = Short /\ above = {} -> entry + (3 * atr) \div 2

CalculateSl(direction, entry, levels, atr) ==
    LET below == Supports(entry, levels)
        above == Resistances(entry, levels) IN
    CASE direction = Long /\ below # {} -> Max(below) - atr \div 2
      [] direction = Long /\ below = {} -> entry - (3 * atr) \div 2
      [] direction = Short /\ above # {} -> Min(above) + atr \div 2
      [] direction = Short /\ above = {} -> entry + (3 * atr) \div 2

\* Two levels whose prices print alike are two targets.
Targets(direction, entry, levels) ==
    LET Favourable(l) ==
            IF direction = Long THEN ~l.bullish /\ l.price > entry ELSE l.bullish /\ l.price < entry
        found == Filter(levels, Favourable)
        prices == [k \in DOMAIN found |-> found[k].price] IN
    StableSort(prices, LAMBDA a, b : IF direction = Long THEN a < b ELSE a > b)

FirstOf(s) == IF s = <<>> THEN <<>> ELSE <<Head(s)>>

\* The targets the two loops pick: the first at once the risk, and the first
\* after it at twice the risk; an empty sequence is None.
Picked(targets, Once(_), Twice(_)) ==
    LET reached == Filter(targets, Once)
        after == IF reached = <<>> THEN <<>> ELSE Tail(reached) IN
    [tp1 |-> FirstOf(reached), tp2 |-> FirstOf(Filter(after, Twice))]

\* Mutant: the further target falls back on the true range alone.
CalculateTpNear(direction, entry, levels, risk, atr) ==
    LET picked == Picked(Targets(direction, entry, levels),
                         LAMBDA t : direction * (t - entry) >= risk,
                         LAMBDA t : direction * (t - entry) >= 2 * risk)
        tp1 == IF picked.tp1 = <<>> THEN entry + 3 * direction * atr ELSE Head(picked.tp1) IN
    [tp1 |-> tp1, tp2 |-> IF picked.tp2 = <<>> THEN entry + 6 * direction * atr ELSE Head(picked.tp2)]

NearTarget(direction, entry, near, atr) ==
    CASE near # <<>> -> Head(near)
      [] near = <<>> /\ direction = Long -> entry + 3 * atr
      [] near = <<>> /\ direction = Short -> entry - 3 * atr

\* The guard against two levels that print alike ends the function.
TakeProfits(direction, entry, tp1, further, risk, atr) ==
    LET tp2 == CASE further # <<>> -> Head(further)
                 [] further = <<>> /\ direction = Long -> Max({entry + 6 * atr, tp1 + risk})
                 [] further = <<>> /\ direction = Short -> Min({entry - 6 * atr, tp1 - risk})
        guarded == CASE direction = Long /\ tp2 <= tp1 -> tp1 + risk
                     [] direction = Short /\ tp2 >= tp1 -> tp1 - risk
                     [] OTHER -> tp2 IN
    [tp1 |-> tp1, tp2 |-> guarded]

CalculateTp(direction, entry, levels, risk, atr) ==
    LET picked ==
            IF direction = Long
            THEN Picked(Targets(Long, entry, levels),
                        LAMBDA t : t >= entry + risk, LAMBDA t : t >= entry + 2 * risk)
            ELSE Picked(Targets(Short, entry, levels),
                        LAMBDA t : t <= entry - risk, LAMBDA t : t <= entry - 2 * risk) IN
    TakeProfits(direction, entry, NearTarget(direction, entry, picked.tp1, atr), picked.tp2, risk, atr)

(***************************************************************************)
(* report_builder.py                                                       *)
(***************************************************************************)
\* In hundredths.
RiskReward(entry, stop, target) ==
    IF target = entry THEN NoRatio ELSE RoundDiv(100 * Abs(entry - stop), Abs(target - entry))

Priced(entry, stop, tp, confidence) ==
    [entry |-> entry, stop |-> stop, tp1 |-> tp.tp1, tp2 |-> tp.tp2, confidence |-> confidence,
     ratio |-> RiskReward(entry, stop, tp.tp1), ratio2 |-> RiskReward(entry, stop, tp.tp2)]

Scenario(direction, entry, levels, atr, confidence) ==
    LET stop == CalculateSl(direction, entry, levels, atr) IN
    Priced(entry, stop, CalculateTp(direction, entry, levels, Abs(entry - stop), atr), confidence)

\* The S/R levels and the retracements, told apart by the start of their type.
LevelsOf(patterns) ==
    Filter(patterns, LAMBDA p : p.category = "support_resistance" /\ p.name = "level")
RetracementsOf(patterns) == Filter(patterns, LAMBDA p : p.category = "fibonacci")

\* build_report's strategies: none without a direction, and none that risks
\* more than it can win.
BuildStrategies(direction, current, atr, patterns, confidence) ==
    LET levels == LevelsOf(patterns)
        entries == EntryPoints(direction, current, levels, RetracementsOf(patterns))
        all == [k \in DOMAIN entries |-> Scenario(direction, entries[k], levels, atr, confidence)] IN
    IF direction = NoDirection THEN <<>>
    ELSE Filter(all, LAMBDA s : s.ratio = NoRatio \/ s.ratio <= 100)

SkipReason(direction, strategies) ==
    CASE direction = NoDirection -> "neutral"
      [] direction # NoDirection /\ strategies = <<>> -> "rejected"
      [] OTHER -> "none"
=============================================================================
