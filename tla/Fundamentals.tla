---------------------------- MODULE Fundamentals -----------------------------
(***************************************************************************)
(* modules/fundamental_analysis: what the macro figures of an instrument   *)
(* say about it.  Figures are in tenths of a percent, scores in tenths of  *)
(* a point; a figure that could not be fetched is NoFigure, and a part of  *)
(* the score that lacks its figure counts for nothing.                     *)
(***************************************************************************)
EXTENDS Integers

NoFigure == -999999

Clamp(limit, score) ==
    IF score > limit THEN limit ELSE IF score < -limit THEN -limit ELSE score

\* Division towards zero, so that mirrored scores stay mirrored.
Quotient(a, b) == IF a >= 0 THEN a \div b ELSE -((-a) \div b)

(***************************************************************************)
(* core/instrument_classifier.py, on what its tables know of a symbol: the *)
(* table it is in, and whether it is six letters long.                     *)
(***************************************************************************)
Classify(symbol) ==
    CASE symbol.table # "none" -> symbol.table
      [] symbol.table = "none" /\ symbol.sixLetters -> "forex"
      [] OTHER -> "unknown"

(***************************************************************************)
(* forex.py                                                                *)
(***************************************************************************)
\* The currencies that CURRENCY_RATE_MAP and CURRENCY_CPI_MAP name: the zloty
\* pairs the classifier knows have a figure for one side only.
CurrencyMap == {"USD", "EUR", "GBP", "JPY", "AUD", "CAD", "CHF", "NZD"}

\* What analyze_forex gets for a currency: a name it has no indicator for is
\* not fetched.
Fetched(currency, figures) ==
    IF currency \in CurrencyMap THEN figures[currency]
    ELSE [rate |-> NoFigure, cpi |-> NoFigure]

\* Mutant: the pair is credited with the base's rate when the quote's is missing.
DifferentialLenient(base, quote) ==
    IF quote = NoFigure THEN base ELSE IF base = NoFigure THEN NoFigure ELSE base - quote

Differential(base, quote) ==
    IF NoFigure \in {base, quote} THEN NoFigure ELSE base - quote

Weighted(weight, limit, figure) ==
    IF figure = NoFigure THEN 0 ELSE Clamp(limit, weight * figure)

AnalyzeForex(base, quote, figures) ==
    LET b == Fetched(base, figures)
        q == Fetched(quote, figures) IN
    Clamp(1000, Weighted(20, 600, Differential(b.rate, q.rate))
                + Weighted(-10, 400, Differential(b.cpi, q.cpi)))

(***************************************************************************)
(* commodities.py                                                          *)
(***************************************************************************)
NoReport == [long |-> NoFigure, short |-> NoFigure]

\* _score_cot on what fetch_cot_report parses: the net share of speculators.
ScoreCot(cot) ==
    LET total == cot.long + cot.short IN
    IF cot = NoReport \/ total = 0 THEN 0
    ELSE Quotient(500 * (cot.long - cot.short), total)

ScoreUsdStrength(fed) ==
    IF fed = NoFigure THEN 0 ELSE Clamp(300, -10 * (fed - 30))

\* Mutant: the real rate is taken the wrong way round.
ScoreRatesEnvironmentSwapped(fed, cpi) == Weighted(-5, 200, Differential(cpi, fed))

ScoreRatesEnvironment(fed, cpi) == Weighted(-5, 200, Differential(fed, cpi))

AnalyzeCommodity(cot, fed, cpi) ==
    Clamp(1000, ScoreCot(cot) + ScoreUsdStrength(fed) + ScoreRatesEnvironment(fed, cpi))

(***************************************************************************)
(* indices.py                                                              *)
(***************************************************************************)
\* REGION_INDICATORS: two regions have a figure for unemployment.
RegionFigures ==
    [r \in {"US", "EU", "UK", "JP", "AU", "CA", "PL"} |->
        IF r \in {"US", "PL"} THEN {"rate", "cpi", "unemployment"} ELSE {"rate", "cpi"}]

ScoreInterestRate(rate) ==
    IF rate = NoFigure THEN 0 ELSE Clamp(400, -12 * (rate - 30))

ScoreUnemployment(unemployment) ==
    IF unemployment = NoFigure THEN 0 ELSE Clamp(200, -6 * (unemployment - 50))

\* Mutant: inflation below its target is held against the index as well.
ScoreInflationSymmetric(cpi) ==
    LET deviation == cpi - 20 IN
    IF cpi = NoFigure THEN 0
    ELSE Clamp(300, IF deviation > 0 THEN -8 * deviation ELSE 4 * deviation)

ScoreInflation(cpi) ==
    LET deviation == cpi - 20 IN
    IF cpi = NoFigure THEN 0
    ELSE Clamp(300, IF deviation > 0 THEN -8 * deviation ELSE -4 * deviation)

\* A symbol without a region scores 0; gross domestic product is fetched and
\* shown, and scores nothing.
AnalyzeIndex(region, figures) ==
    LET Figure(name) ==
            IF name \in RegionFigures[region] THEN figures[name] ELSE NoFigure IN
    IF region \notin DOMAIN RegionFigures THEN 0
    ELSE Clamp(1000, ScoreInterestRate(Figure("rate"))
                     + ScoreUnemployment(Figure("unemployment"))
                     + ScoreInflation(Figure("cpi")))
=============================================================================
