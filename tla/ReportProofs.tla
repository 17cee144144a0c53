---------------------------- MODULE ReportProofs -----------------------------
(***************************************************************************)
(* Proofs about Report: for any readings, candles, slopes and figures, the *)
(* two sides are treated alike and what must be in order is.               *)
(***************************************************************************)
EXTENDS Report, TLAPS

(***************************************************************************)
(* Votes and verdicts                                                      *)
(***************************************************************************)
Vote == [buy : Nat, sell : Nat, neutral : Nat]

LEMMA FlipVote ==
    ASSUME NEW votes \in Vote
    PROVE  Flip(votes) \in Vote
BY DEF Vote, Flip

LEMMA TallyVote ==
    ASSUME NEW votes \in Vote, NEW signal \in Signals
    PROVE  /\ Tally(signal, votes) \in Vote
           /\ Tally(-signal, Flip(votes)) = Flip(Tally(signal, votes))
BY DEF Vote, Flip, Tally, Signals, Neutral, StrongSell, StrongBuy

LEMMA AllVotesVote ==
    ASSUME NEW a \in Vote, NEW b \in Vote
    PROVE  /\ AllVotes(a, b) \in Vote
           /\ AllVotes(Flip(a), Flip(b)) = Flip(AllVotes(a, b))
BY DEF Vote, Flip, AllVotes

\* A verdict in terms of the shares of its votes.
LEMMA OverallIs ==
    ASSUME NEW votes \in Vote
    PROVE  LET total == votes.buy + votes.sell + votes.neutral IN
           /\ OverallSignal(votes) \in Signals
           /\ OverallSignal(votes) >= 2 <=> total # 0 /\ 100 * votes.buy >= 75 * total
           /\ OverallSignal(votes) >= 1 <=> total # 0 /\ 100 * votes.buy >= 55 * total
           /\ OverallSignal(votes) <= -1 <=> total # 0 /\ 100 * votes.sell >= 55 * total
           /\ OverallSignal(votes) <= -2 <=> total # 0 /\ 100 * votes.sell >= 75 * total
<1> DEFINE total == votes.buy + votes.sell + votes.neutral
<1>1. /\ votes.buy \in Nat /\ votes.sell \in Nat /\ votes.neutral \in Nat
  BY DEF Vote
<1>2. CASE total = 0
  BY <1>1, <1>2 DEF OverallSignal, Total, Neutral, Signals, StrongSell, StrongBuy
<1>3. CASE total # 0 /\ 100 * votes.buy >= 75 * total
  <2>1. OverallSignal(votes) = StrongBuy
    BY <1>1, <1>3 DEF OverallSignal, Total, AtLeast
  <2>2. QED
    BY <1>1, <1>3, <2>1 DEF Signals, StrongSell, StrongBuy
<1>4. CASE total # 0 /\ 100 * votes.buy < 75 * total /\ 100 * votes.buy >= 55 * total
  <2>1. OverallSignal(votes) = Buy
    BY <1>1, <1>4 DEF OverallSignal, Total, AtLeast
  <2>2. QED
    BY <1>1, <1>4, <2>1 DEF Buy, Signals, StrongSell, StrongBuy
<1>5. CASE total # 0 /\ 100 * votes.buy < 55 * total /\ 100 * votes.sell >= 75 * total
  <2>1. /\ total # 0
        /\ ~(100 * votes.buy >= 75 * total) /\ ~(100 * votes.buy >= 55 * total)
        /\ 100 * votes.sell >= 75 * total
    BY <1>1, <1>5
  <2>3. OverallSignal(votes) = StrongSell
    BY <2>1 DEF OverallSignal, Total, AtLeast
  <2>2. QED
    BY <1>1, <1>5, <2>3 DEF Signals, StrongSell, StrongBuy
<1>6. CASE /\ total # 0 /\ 100 * votes.buy < 55 * total
           /\ 100 * votes.sell < 75 * total /\ 100 * votes.sell >= 55 * total
  <2>1. OverallSignal(votes) = Sell
    BY <1>1, <1>6 DEF OverallSignal, Total, AtLeast
  <2>2. QED
    BY <1>1, <1>6, <2>1 DEF Sell, Signals, StrongSell, StrongBuy
<1>7. CASE total # 0 /\ 100 * votes.buy < 55 * total /\ 100 * votes.sell < 55 * total
  <2>1. OverallSignal(votes) = Neutral
    BY <1>1, <1>7 DEF OverallSignal, Total, AtLeast
  <2>2. QED
    BY <1>1, <1>7, <2>1 DEF Neutral, Signals, StrongSell, StrongBuy
<1>8. QED
  BY <1>1, <1>2, <1>3, <1>4, <1>5, <1>6, <1>7

LEMMA OverallFlips ==
    ASSUME NEW votes \in Vote
    PROVE  OverallSignal(Flip(votes)) = -OverallSignal(votes)
<1>1. /\ votes.buy \in Nat /\ votes.sell \in Nat /\ votes.neutral \in Nat
      /\ Flip(votes) \in Vote
      /\ Flip(votes).buy = votes.sell /\ Flip(votes).sell = votes.buy
      /\ Flip(votes).neutral = votes.neutral
  BY DEF Vote, Flip
<1>2. /\ OverallSignal(votes) \in -2..2 /\ OverallSignal(Flip(votes)) \in -2..2
  BY <1>1, OverallIs DEF Signals, StrongSell, StrongBuy
<1>3. /\ OverallSignal(Flip(votes)) >= 2 <=> OverallSignal(votes) <= -2
      /\ OverallSignal(Flip(votes)) >= 1 <=> OverallSignal(votes) <= -1
      /\ OverallSignal(Flip(votes)) <= -1 <=> OverallSignal(votes) >= 1
      /\ OverallSignal(Flip(votes)) <= -2 <=> OverallSignal(votes) >= 2
  BY <1>1, OverallIs
<1>4. QED
  BY <1>2, <1>3

\* The verdict on two groups lies between the verdicts on each.
LEMMA OverallIsBetween ==
    ASSUME NEW a \in Vote, NEW b \in Vote
    PROVE  Between(OverallSignal(AllVotes(a, b)), OverallSignal(b), OverallSignal(a))
<1> DEFINE ab == AllVotes(a, b)
<1>1. /\ a.buy \in Nat /\ a.sell \in Nat /\ a.neutral \in Nat
      /\ b.buy \in Nat /\ b.sell \in Nat /\ b.neutral \in Nat
      /\ ab.buy = a.buy + b.buy /\ ab.sell = a.sell + b.sell
      /\ ab.neutral = a.neutral + b.neutral /\ ab \in Vote
  BY DEF Vote, AllVotes
<1>2. /\ OverallSignal(a) \in -2..2 /\ OverallSignal(b) \in -2..2 /\ OverallSignal(ab) \in -2..2
  BY <1>1, OverallIs DEF Signals, StrongSell, StrongBuy
<1> DEFINE Sum(v) == v.buy + v.sell + v.neutral
<1>3. /\ OverallSignal(a) >= 2 <=> Sum(a) # 0 /\ 100 * a.buy >= 75 * Sum(a)
      /\ OverallSignal(a) >= 1 <=> Sum(a) # 0 /\ 100 * a.buy >= 55 * Sum(a)
      /\ OverallSignal(a) <= -1 <=> Sum(a) # 0 /\ 100 * a.sell >= 55 * Sum(a)
      /\ OverallSignal(a) <= -2 <=> Sum(a) # 0 /\ 100 * a.sell >= 75 * Sum(a)
  BY OverallIs
<1>4. /\ OverallSignal(b) >= 2 <=> Sum(b) # 0 /\ 100 * b.buy >= 75 * Sum(b)
      /\ OverallSignal(b) >= 1 <=> Sum(b) # 0 /\ 100 * b.buy >= 55 * Sum(b)
      /\ OverallSignal(b) <= -1 <=> Sum(b) # 0 /\ 100 * b.sell >= 55 * Sum(b)
      /\ OverallSignal(b) <= -2 <=> Sum(b) # 0 /\ 100 * b.sell >= 75 * Sum(b)
  BY OverallIs
<1>5. /\ OverallSignal(ab) >= 2 <=> Sum(ab) # 0 /\ 100 * ab.buy >= 75 * Sum(ab)
      /\ OverallSignal(ab) >= 1 <=> Sum(ab) # 0 /\ 100 * ab.buy >= 55 * Sum(ab)
      /\ OverallSignal(ab) <= -1 <=> Sum(ab) # 0 /\ 100 * ab.sell >= 55 * Sum(ab)
      /\ OverallSignal(ab) <= -2 <=> Sum(ab) # 0 /\ 100 * ab.sell >= 75 * Sum(ab)
  BY <1>1, OverallIs
<1> HIDE DEF ab
<1>6. /\ Sum(a) \in Nat /\ Sum(b) \in Nat /\ Sum(ab) = Sum(a) + Sum(b)
      /\ a.buy <= Sum(a) /\ a.sell <= Sum(a) /\ b.buy <= Sum(b) /\ b.sell <= Sum(b)
  BY <1>1
<1> HIDE DEF Sum
<1>7. /\ OverallSignal(a) >= 2 /\ OverallSignal(b) >= 2 => OverallSignal(ab) >= 2
      /\ OverallSignal(a) >= 1 /\ OverallSignal(b) >= 1 => OverallSignal(ab) >= 1
  BY <1>1, <1>3, <1>4, <1>5, <1>6
<1>8. /\ OverallSignal(a) <= -1 /\ OverallSignal(b) <= -1 => OverallSignal(ab) <= -1
      /\ OverallSignal(a) <= -2 /\ OverallSignal(b) <= -2 => OverallSignal(ab) <= -2
  BY <1>1, <1>3, <1>4, <1>5, <1>6
<1>9. /\ ~(OverallSignal(a) >= 2) /\ ~(OverallSignal(b) >= 2) => ~(OverallSignal(ab) >= 2)
      /\ ~(OverallSignal(a) >= 1) /\ ~(OverallSignal(b) >= 1) => ~(OverallSignal(ab) >= 1)
  BY <1>1, <1>3, <1>4, <1>5, <1>6
<1>10. ~(OverallSignal(a) <= -1) /\ ~(OverallSignal(b) <= -1) => ~(OverallSignal(ab) <= -1)
  <2>1. SUFFICES ASSUME ~(OverallSignal(a) <= -1), ~(OverallSignal(b) <= -1), OverallSignal(ab) <= -1
                 PROVE  FALSE
    OBVIOUS
  <2>2. Sum(ab) # 0 /\ 100 * ab.sell >= 55 * Sum(ab)
    BY <1>5, <2>1
  <2>3. Sum(a) = 0 \/ 100 * a.sell < 55 * Sum(a)
    BY <1>1, <1>3, <1>6, <2>1
  <2>4. Sum(b) = 0 \/ 100 * b.sell < 55 * Sum(b)
    BY <1>1, <1>4, <1>6, <2>1
  <2>5. QED
    BY <1>1, <1>6, <2>2, <2>3, <2>4
<1>11. ~(OverallSignal(a) <= -2) /\ ~(OverallSignal(b) <= -2) => ~(OverallSignal(ab) <= -2)
  <2>1. SUFFICES ASSUME ~(OverallSignal(a) <= -2), ~(OverallSignal(b) <= -2), OverallSignal(ab) <= -2
                 PROVE  FALSE
    OBVIOUS
  <2>2. Sum(ab) # 0 /\ 100 * ab.sell >= 75 * Sum(ab)
    BY <1>5, <2>1
  <2>3. Sum(a) = 0 \/ 100 * a.sell < 75 * Sum(a)
    BY <1>1, <1>3, <1>6, <2>1
  <2>4. Sum(b) = 0 \/ 100 * b.sell < 75 * Sum(b)
    BY <1>1, <1>4, <1>6, <2>1
  <2>5. QED
    BY <1>1, <1>6, <2>2, <2>3, <2>4
<1>12. Between(OverallSignal(ab), OverallSignal(b), OverallSignal(a))
  BY <1>2, <1>7, <1>8, <1>9, <1>10, <1>11 DEF Between
<1>13. QED
  BY <1>12 DEF ab

(***************************************************************************)
(* Pivot ladders                                                           *)
(***************************************************************************)
LEMMA SevenAscend ==
    ASSUME NEW a \in Int, NEW b \in Int, NEW c \in Int, NEW d \in Int,
           NEW e \in Int, NEW f \in Int, NEW g \in Int,
           a <= b, b <= c, c <= d, d <= e, e <= f, f <= g
    PROVE  Ascending(<<a, b, c, d, e, f, g>>)
<1> DEFINE ladder == <<a, b, c, d, e, f, g>>
<1>1. /\ DOMAIN ladder = 1..7
      /\ ladder[1] = a /\ ladder[2] = b /\ ladder[3] = c /\ ladder[4] = d
      /\ ladder[5] = e /\ ladder[6] = f /\ ladder[7] = g
  OBVIOUS
<1> HIDE DEF ladder
<1>2. \A i, j \in 1..7 : i <= j => ladder[i] <= ladder[j]
  BY <1>1
<1>3. Ascending(ladder)
  BY <1>1, <1>2 DEF Ascending
<1>4. QED
  BY <1>3 DEF ladder

LEMMA ThreeAscend ==
    ASSUME NEW a \in Int, NEW b \in Int, NEW c \in Int, a <= b, b <= c
    PROVE  Ascending(<<a, b, c>>)
BY DEF Ascending

\* A pivot within the candle has its rungs in order.
LEMMA StepsAscend ==
    ASSUME NEW pp \in Int, NEW h \in Int, NEW lo \in Int, lo <= pp, pp <= h
    PROVE  Ascending(StepsFrom(pp, h, lo))
<1>1. /\ 2 * pp - lo \in Int /\ pp + (h - lo) \in Int /\ h + 2 * (pp - lo) \in Int
      /\ 2 * pp - h \in Int /\ pp - (h - lo) \in Int /\ lo - 2 * (h - pp) \in Int
      /\ lo - 2 * (h - pp) <= pp - (h - lo) /\ pp - (h - lo) <= 2 * pp - h
      /\ 2 * pp - h <= pp /\ pp <= 2 * pp - lo /\ 2 * pp - lo <= pp + (h - lo)
      /\ pp + (h - lo) <= h + 2 * (pp - lo)
  OBVIOUS
<1>2. QED
  BY <1>1, SevenAscend DEF StepsFrom, Ladder

LEMMA CamarillaAscends ==
    ASSUME NEW h \in Int, NEW lo \in Int, NEW c \in Int, lo <= h
    PROVE  Ascending([i \in {1, 2, 3, 5, 6, 7} |-> Camarilla(h, lo, c)[i]])
<1> DEFINE ladder == Camarilla(h, lo, c)
<1>1. /\ ladder[1] = 12000 * c - 3300 * (h - lo) /\ ladder[2] = 12000 * c - 2200 * (h - lo)
      /\ ladder[3] = 12000 * c - 1100 * (h - lo) /\ ladder[5] = 12000 * c + 1100 * (h - lo)
      /\ ladder[6] = 12000 * c + 2200 * (h - lo) /\ ladder[7] = 12000 * c + 3300 * (h - lo)
  BY DEF Camarilla, Ladder
<1> HIDE DEF ladder
<1>2. \A i, j \in {1, 2, 3, 5, 6, 7} : i <= j => ladder[i] <= ladder[j]
  BY <1>1
<1>3. QED
  BY <1>2 DEF Ascending, ladder

LEMMA LaddersInOrder ==
    ASSUME NEW candle \in [open : Int, high : Int, low : Int, close : Int],
           candle.low <= candle.open, candle.open <= candle.high,
           candle.low <= candle.close, candle.close <= candle.high
    PROVE  LaddersAscend(PivotPoints(candle))
<1> DEFINE h == candle.high
           lo == candle.low
           c == candle.close
           o == candle.open
<1>1. h \in Int /\ lo \in Int /\ c \in Int /\ o \in Int /\ lo <= c /\ c <= h /\ lo <= h
  OBVIOUS
<1>2. lo <= o /\ o <= h
  OBVIOUS
<1> HIDE DEF h, lo, c, o
<1>3. Ascending(Classic(h, lo, c))
  <2>1. /\ Typical(h, lo, c) \in Int /\ 12000 * h \in Int /\ 12000 * lo \in Int
        /\ 12000 * lo <= Typical(h, lo, c) /\ Typical(h, lo, c) <= 12000 * h
    BY <1>1 DEF Typical
  <2>2. QED
    BY <2>1, StepsAscend DEF Classic
<1>4. Ascending(Woodie(h, lo, c))
  <2>1. /\ 3000 * (h + lo + 2 * c) \in Int /\ 12000 * h \in Int /\ 12000 * lo \in Int
        /\ 12000 * lo <= 3000 * (h + lo + 2 * c) /\ 3000 * (h + lo + 2 * c) <= 12000 * h
    BY <1>1
  <2>2. QED
    BY <2>1, StepsAscend DEF Woodie
<1>5. Ascending(FibonacciPivots(h, lo, c))
  <2> DEFINE pp == Typical(h, lo, c)
             diff == h - lo
  <2>1. pp \in Int /\ diff \in Int /\ 0 <= diff
    BY <1>1 DEF Typical
  <2> HIDE DEF pp, diff
  <2> DEFINE one == 4584 * diff
             two == 7416 * diff
             three == 12000 * diff
  <2>2. /\ one \in Int /\ two \in Int /\ three \in Int
        /\ 0 <= one /\ one <= two /\ two <= three
    BY <2>1
  <2>3. FibonacciPivots(h, lo, c)
            = <<pp - three, pp - two, pp - one, pp, pp + one, pp + two, pp + three>>
    BY DEF FibonacciPivots, Ladder, pp, diff
  <2> HIDE DEF one, two, three
  <2>4. /\ pp - three \in Int /\ pp - two \in Int /\ pp - one \in Int
        /\ pp + one \in Int /\ pp + two \in Int /\ pp + three \in Int
        /\ pp - three <= pp - two /\ pp - two <= pp - one /\ pp - one <= pp
        /\ pp <= pp + one /\ pp + one <= pp + two /\ pp + two <= pp + three
    BY <2>1, <2>2
  <2>5. Ascending(<<pp - three, pp - two, pp - one, pp, pp + one, pp + two, pp + three>>)
    BY <2>1, <2>4, SevenAscend
  <2>6. QED
    BY <2>3, <2>5
<1>6. Ascending([i \in {1, 2, 3, 5, 6, 7} |-> Camarilla(h, lo, c)[i]])
  BY <1>1, CamarillaAscends
<1>7. Ascending(DeMark(h, lo, c, o))
  <2> DEFINE x == CASE c < o -> h + 2 * lo + c
                    [] c > o -> 2 * h + lo + c
                    [] OTHER -> h + lo + 2 * c
  <2>1. x \in Int /\ x <= 4 * h /\ 4 * lo <= x /\ 2 * x - 4 * h <= x /\ x <= 2 * x - 4 * lo
    BY <1>1, <1>2
  <2>2. Ascending(<<6000 * x - 12000 * h, 3000 * x, 6000 * x - 12000 * lo>>)
    <3> HIDE DEF x
    <3>1. /\ 6000 * x - 12000 * h \in Int /\ 3000 * x \in Int /\ 6000 * x - 12000 * lo \in Int
          /\ 6000 * x - 12000 * h <= 3000 * x /\ 3000 * x <= 6000 * x - 12000 * lo
      BY <1>1, <2>1
    <3>2. QED
      BY <3>1, ThreeAscend
  <2>3. QED
    BY <2>2 DEF DeMark
<1>8. QED
  BY <1>3, <1>4, <1>5, <1>6, <1>7 DEF LaddersAscend, PivotPoints, h, lo, c, o

(***************************************************************************)
(* Ratings                                                                 *)
(***************************************************************************)
LEMMA FurthestIs ==
    /\ Furthest \in Nat /\ NoValue \in Int /\ NoFigure \in Int
    /\ NoValue < -Furthest - 1000 /\ NoFigure < -2 * Furthest - 1000
BY SMT DEF Furthest, NoValue, NoFigure

LEMMA ValueInt == NoValue \in Int /\ Value \subseteq Int
BY FurthestIs DEF Value

\* The first band a value falls into is the one that rates it.
LEMMA FirstBand ==
    ASSUME NEW value, value # NoValue, NEW bands, DOMAIN bands \subseteq Int,
           NEW k \in DOMAIN bands, Falls(value, bands[k]),
           \A j \in DOMAIN bands : Falls(value, bands[j]) => k <= j
    PROVE  RateBands(value, bands) = bands[k].signal
<1> DEFINE hit == {i \in DOMAIN bands : Falls(value, bands[i])}
<1>1. k \in hit /\ \A j \in hit : k <= j /\ j \in Int
  OBVIOUS
<1>2. (CHOOSE i \in hit : \A j \in hit : i <= j) = k
  <2> HIDE DEF hit
  <2>1. \A i \in hit : (\A j \in hit : i <= j) => i = k
    BY <1>1
  <2>2. QED
    BY <1>1, <2>1
<1>3. QED
  BY <1>1, <1>2 DEF RateBands

LEMMA NoBand ==
    ASSUME NEW value, NEW bands,
           value = NoValue \/ \A i \in DOMAIN bands : ~Falls(value, bands[i])
    PROVE  RateBands(value, bands) = Neutral
BY DEF RateBands

\* The two shapes of a list of bands.
TwoRules(low, below, high, above) == <<Below(low, below), Above(high, above)>>
FourRules(a, b, c, d) ==
    <<Below(a, StrongBuy), Below(b, Buy), Above(c, StrongSell), Above(d, Sell)>>

LEMMA TwoBands ==
    ASSUME NEW value \in Int, NEW low \in Int, NEW high \in Int, low <= high,
           NEW below \in Signals, NEW above \in Signals
    PROVE  RateBands(value, TwoRules(low, below, high, above))
               = IF value = NoValue THEN Neutral
                 ELSE IF value < low THEN below ELSE IF value > high THEN above ELSE Neutral
<1> DEFINE bands == TwoRules(low, below, high, above)
<1>1. /\ DOMAIN bands = 1..2 /\ value \in Int
      /\ bands[1].op = "lt" /\ bands[1].threshold = low /\ bands[1].signal = below
      /\ bands[2].op = "gt" /\ bands[2].threshold = high /\ bands[2].signal = above
  BY ValueInt DEF TwoRules, Below, Above
<1> HIDE DEF bands
<1>2. /\ Falls(value, bands[1]) <=> value < low
      /\ Falls(value, bands[2]) <=> value > high
  BY <1>1 DEF Falls
<1>3. CASE value = NoValue
  BY <1>3, NoBand DEF bands
<1>4. CASE value # NoValue /\ value < low
  <2>1. /\ 1 \in DOMAIN bands /\ DOMAIN bands \subseteq Int /\ Falls(value, bands[1])
        /\ \A j \in DOMAIN bands : Falls(value, bands[j]) => 1 <= j
    BY <1>1, <1>2, <1>4
  <2>2. RateBands(value, bands) = bands[1].signal
    BY <1>4, <2>1, FirstBand
  <2>3. QED
    BY <1>1, <1>4, <2>2 DEF bands
<1>5. CASE value # NoValue /\ ~(value < low) /\ value > high
  <2>1. /\ 2 \in DOMAIN bands /\ DOMAIN bands \subseteq Int /\ Falls(value, bands[2])
        /\ \A j \in DOMAIN bands : Falls(value, bands[j]) => 2 <= j
    BY <1>1, <1>2, <1>5
  <2>2. RateBands(value, bands) = bands[2].signal
    BY <1>5, <2>1, FirstBand
  <2>3. QED
    BY <1>1, <1>5, <2>2 DEF bands
<1>6. CASE value # NoValue /\ ~(value < low) /\ ~(value > high)
  <2>1. RateBands(value, bands) = Neutral
    BY <1>1, <1>2, <1>6, NoBand
  <2>2. QED
    BY <1>6, <2>1 DEF bands
<1>7. QED
  BY <1>3, <1>4, <1>5, <1>6

LEMMA ZeroBands ==
    ASSUME NEW value \in Int
    PROVE  RateBands(value, ZeroLine)
               = IF value = NoValue THEN Neutral
                 ELSE IF value > 0 THEN Buy ELSE IF value < 0 THEN Sell ELSE Neutral
<1>1. /\ DOMAIN ZeroLine = 1..2 /\ value \in Int
      /\ ZeroLine[1].op = "gt" /\ ZeroLine[1].threshold = 0 /\ ZeroLine[1].signal = Buy
      /\ ZeroLine[2].op = "lt" /\ ZeroLine[2].threshold = 0 /\ ZeroLine[2].signal = Sell
  BY ValueInt DEF Below, Above, ZeroLine
<1>2. /\ Falls(value, ZeroLine[1]) <=> value > 0
      /\ Falls(value, ZeroLine[2]) <=> value < 0
  BY <1>1 DEF Falls
<1>3. CASE value = NoValue
  BY <1>3, NoBand
<1>4. CASE value # NoValue /\ value > 0
  <2>1. /\ 1 \in DOMAIN ZeroLine /\ DOMAIN ZeroLine \subseteq Int /\ Falls(value, ZeroLine[1])
        /\ \A j \in DOMAIN ZeroLine : Falls(value, ZeroLine[j]) => 1 <= j
    BY <1>1, <1>2, <1>4
  <2>2. RateBands(value, ZeroLine) = ZeroLine[1].signal
    BY <1>4, <2>1, FirstBand
  <2>3. QED
    BY <1>1, <1>4, <2>2
<1>5. CASE value # NoValue /\ value < 0
  <2>1. /\ 2 \in DOMAIN ZeroLine /\ DOMAIN ZeroLine \subseteq Int /\ Falls(value, ZeroLine[2])
        /\ \A j \in DOMAIN ZeroLine : Falls(value, ZeroLine[j]) => 2 <= j
    BY <1>1, <1>2, <1>5
  <2>2. RateBands(value, ZeroLine) = ZeroLine[2].signal
    BY <1>5, <2>1, FirstBand
  <2>3. QED
    BY <1>1, <1>5, <2>2
<1>6. CASE value # NoValue /\ ~(value > 0) /\ ~(value < 0)
  BY <1>1, <1>2, <1>6, NoBand
<1>7. QED
  BY <1>3, <1>4, <1>5, <1>6

LEMMA FourBands ==
    ASSUME NEW value \in Int, NEW a \in Int, NEW b \in Int, NEW c \in Int, NEW d \in Int,
           a <= b, b <= d, d <= c
    PROVE  RateBands(value, FourRules(a, b, c, d))
               = IF value = NoValue THEN Neutral
                 ELSE IF value < a THEN StrongBuy ELSE IF value < b THEN Buy
                 ELSE IF value > c THEN StrongSell ELSE IF value > d THEN Sell ELSE Neutral
<1> DEFINE bands == FourRules(a, b, c, d)
<1>1. /\ DOMAIN bands = 1..4 /\ value \in Int
      /\ bands[1].op = "lt" /\ bands[1].threshold = a /\ bands[1].signal = StrongBuy
      /\ bands[2].op = "lt" /\ bands[2].threshold = b /\ bands[2].signal = Buy
      /\ bands[3].op = "gt" /\ bands[3].threshold = c /\ bands[3].signal = StrongSell
      /\ bands[4].op = "gt" /\ bands[4].threshold = d /\ bands[4].signal = Sell
  BY ValueInt DEF FourRules, Below, Above
<1> HIDE DEF bands
<1>2. /\ Falls(value, bands[1]) <=> value < a
      /\ Falls(value, bands[2]) <=> value < b
      /\ Falls(value, bands[3]) <=> value > c
      /\ Falls(value, bands[4]) <=> value > d
  BY <1>1 DEF Falls
<1>3. CASE value = NoValue
  BY <1>3, NoBand DEF bands
<1>4. CASE value # NoValue /\ value < a
  <2>1. /\ 1 \in DOMAIN bands /\ DOMAIN bands \subseteq Int /\ Falls(value, bands[1])
        /\ \A j \in DOMAIN bands : Falls(value, bands[j]) => 1 <= j
    BY <1>1, <1>2, <1>4
  <2>2. RateBands(value, bands) = bands[1].signal
    BY <1>4, <2>1, FirstBand
  <2>3. QED
    BY <1>1, <1>4, <2>2 DEF bands
<1>5. CASE value # NoValue /\ ~(value < a) /\ value < b
  <2>1. /\ 2 \in DOMAIN bands /\ DOMAIN bands \subseteq Int /\ Falls(value, bands[2])
        /\ \A j \in DOMAIN bands : Falls(value, bands[j]) => 2 <= j
    BY <1>1, <1>2, <1>5
  <2>2. RateBands(value, bands) = bands[2].signal
    BY <1>5, <2>1, FirstBand
  <2>3. QED
    BY <1>1, <1>5, <2>2 DEF bands
<1>6. CASE value # NoValue /\ ~(value < a) /\ ~(value < b) /\ value > c
  <2>1. /\ 3 \in DOMAIN bands /\ DOMAIN bands \subseteq Int /\ Falls(value, bands[3])
        /\ \A j \in DOMAIN bands : Falls(value, bands[j]) => 3 <= j
    BY <1>1, <1>2, <1>6
  <2>2. RateBands(value, bands) = bands[3].signal
    BY <1>6, <2>1, FirstBand
  <2>3. QED
    BY <1>1, <1>6, <2>2 DEF bands
<1>7. CASE value # NoValue /\ ~(value < a) /\ ~(value < b) /\ ~(value > c) /\ value > d
  <2>1. /\ 4 \in DOMAIN bands /\ DOMAIN bands \subseteq Int /\ Falls(value, bands[4])
        /\ \A j \in DOMAIN bands : Falls(value, bands[j]) => 4 <= j
    BY <1>1, <1>2, <1>7
  <2>2. RateBands(value, bands) = bands[4].signal
    BY <1>7, <2>1, FirstBand
  <2>3. QED
    BY <1>1, <1>7, <2>2 DEF bands
<1>8. CASE value # NoValue /\ ~(value < a) /\ ~(value < b) /\ ~(value > c) /\ ~(value > d)
  <2>1. RateBands(value, bands) = Neutral
    BY <1>1, <1>2, <1>8, NoBand
  <2>2. QED
    BY <1>8, <2>1 DEF bands
<1>9. QED
  BY <1>3, <1>4, <1>5, <1>6, <1>7, <1>8

\* What the other side of a market reads.
LEMMA AroundValue ==
    ASSUME NEW v \in Value, NEW twice \in -200..200
    PROVE  /\ v \in Int /\ Around(twice, v) \in Int
           /\ Around(twice, v) = NoValue <=> v = NoValue
           /\ v # NoValue => Around(twice, v) = twice - v
<1>1. twice \in Int /\ -200 <= twice /\ twice <= 200 /\ v \in Int /\ NoValue \in Int
  BY ValueInt
<1>2. v # NoValue => -Furthest <= v /\ v <= Furthest
  BY FurthestIs DEF Value
<1>3. v # NoValue => twice - v # NoValue
  BY <1>1, <1>2, FurthestIs
<1>4. QED
  BY <1>1, <1>3 DEF Around

LEMMA TwoBandsMirror ==
    ASSUME NEW v \in Value, NEW low \in Int, NEW high \in Int, low <= high, NEW twice \in -200..200,
           low + high = twice, NEW below \in Signals, NEW above \in Signals, above = -below
    PROVE  /\ RateBands(v, TwoRules(low, below, high, above)) \in Signals
           /\ RateBands(Around(twice, v), TwoRules(low, below, high, above))
                  = -RateBands(v, TwoRules(low, below, high, above))
<1> DEFINE bands == TwoRules(low, below, high, above)
           w == Around(twice, v)
<1>1. /\ v \in Int /\ w \in Int
      /\ w = NoValue <=> v = NoValue
      /\ v # NoValue => w = twice - v
  BY AroundValue, ZenonT(40)
<1> HIDE DEF w
<1>2. /\ RateBands(v, bands) = IF v = NoValue THEN Neutral
                 ELSE IF v < low THEN below ELSE IF v > high THEN above ELSE Neutral
      /\ RateBands(w, bands) = IF w = NoValue THEN Neutral
                 ELSE IF w < low THEN below ELSE IF w > high THEN above ELSE Neutral
  BY <1>1, TwoBands
<1> HIDE DEF bands
<1>3. /\ RateBands(v, bands) \in Signals
      /\ RateBands(w, bands) = -RateBands(v, bands)
  BY <1>1, <1>2 DEF Signals, Neutral, StrongSell, StrongBuy
<1>4. QED
  BY <1>3 DEF bands, w

LEMMA ZeroMirror ==
    ASSUME NEW v \in Value
    PROVE  /\ RateBands(v, ZeroLine) \in Signals
           /\ RateBands(Around(0, v), ZeroLine) = -RateBands(v, ZeroLine)
<1> DEFINE w == Around(0, v)
<1>1. /\ v \in Int /\ w \in Int
      /\ w = NoValue <=> v = NoValue
      /\ v # NoValue => w = -v
  <2>1. 0 \in -200..200
    OBVIOUS
  <2>2. /\ v \in Int /\ Around(0, v) \in Int
        /\ Around(0, v) = NoValue <=> v = NoValue
        /\ v # NoValue => Around(0, v) = 0 - v
    BY <2>1, AroundValue
  <2>3. QED
    BY <2>2
<1> HIDE DEF w
<1>2. /\ RateBands(v, ZeroLine) = IF v = NoValue THEN Neutral
                 ELSE IF v > 0 THEN Buy ELSE IF v < 0 THEN Sell ELSE Neutral
      /\ RateBands(w, ZeroLine) = IF w = NoValue THEN Neutral
                 ELSE IF w > 0 THEN Buy ELSE IF w < 0 THEN Sell ELSE Neutral
  BY <1>1, ZeroBands
<1>3. /\ RateBands(v, ZeroLine) \in Signals
      /\ RateBands(w, ZeroLine) = -RateBands(v, ZeroLine)
  BY <1>1, <1>2 DEF Signals, Neutral, StrongSell, StrongBuy, Buy, Sell
<1>4. QED
  BY <1>3 DEF w

\* Four bands that lie around the middle of an oscillator's range.
Symmetric(a, b, c, d, twice) ==
    /\ a \in Int /\ b \in Int /\ c \in Int /\ d \in Int /\ twice \in -200..200
    /\ a <= b /\ b <= d /\ d <= c /\ a + c = twice /\ b + d = twice

LEMMA FourBandsMirror ==
    ASSUME NEW v \in Value, NEW a, NEW b, NEW c, NEW d, NEW twice, Symmetric(a, b, c, d, twice)
    PROVE  /\ RateBands(v, FourRules(a, b, c, d)) \in Signals
           /\ RateBands(Around(twice, v), FourRules(a, b, c, d))
                  = -RateBands(v, FourRules(a, b, c, d))
<1> DEFINE bands == FourRules(a, b, c, d)
           w == Around(twice, v)
<1>1. /\ a \in Int /\ b \in Int /\ c \in Int /\ d \in Int /\ twice \in -200..200
      /\ a <= b /\ b <= d /\ d <= c /\ a + c = twice /\ b + d = twice
  BY DEF Symmetric
<1>2. /\ v \in Int /\ w \in Int
      /\ w = NoValue <=> v = NoValue
      /\ v # NoValue => w = twice - v
  BY <1>1, AroundValue
<1> HIDE DEF w
<1>3. RateBands(v, bands) = IF v = NoValue THEN Neutral
                 ELSE IF v < a THEN StrongBuy ELSE IF v < b THEN Buy
                 ELSE IF v > c THEN StrongSell ELSE IF v > d THEN Sell ELSE Neutral
  BY <1>1, <1>2, FourBands
<1>4. RateBands(w, bands) = IF w = NoValue THEN Neutral
                 ELSE IF w < a THEN StrongBuy ELSE IF w < b THEN Buy
                 ELSE IF w > c THEN StrongSell ELSE IF w > d THEN Sell ELSE Neutral
  BY <1>1, <1>2, FourBands
<1> HIDE DEF bands
<1>5. /\ RateBands(v, bands) \in Signals
      /\ RateBands(w, bands) = -RateBands(v, bands)
  BY <1>1, <1>2, <1>3, <1>4 DEF Signals, Neutral, StrongSell, StrongBuy, Buy, Sell
<1>6. QED
  BY <1>5 DEF bands, w

LEMMA CompareMirror ==
    ASSUME NEW a \in Int, NEW b \in Int
    PROVE  /\ Compare(a, b) \in -1..1
           /\ Compare(b, a) = -Compare(a, b) /\ Compare(0 - a, 0 - b) = -Compare(a, b)
BY DEF Compare, Buy, Sell, Neutral

LEMMA CrossoverMirror ==
    ASSUME NEW a \in Value, NEW b \in Value
    PROVE  /\ RateCrossover(a, b) \in Signals
           /\ RateCrossover(Around(0, a), Around(0, b)) = -RateCrossover(a, b)
<1>1. 0 \in -200..200
  OBVIOUS
<1>2. /\ a \in Int /\ Around(0, a) \in Int
      /\ Around(0, a) = NoValue <=> a = NoValue
      /\ a # NoValue => Around(0, a) = 0 - a
  BY <1>1, AroundValue
<1>3. /\ b \in Int /\ Around(0, b) \in Int
      /\ Around(0, b) = NoValue <=> b = NoValue
      /\ b # NoValue => Around(0, b) = 0 - b
  BY <1>1, AroundValue
<1>4. /\ Compare(a, b) \in -1..1
      /\ Compare(0 - a, 0 - b) = -Compare(a, b)
  BY <1>2, <1>3, CompareMirror
<1>5. CASE NoValue \in {a, b}
  <2>1. NoValue \in {Around(0, a), Around(0, b)}
    BY <1>2, <1>3, <1>5
  <2>2. RateCrossover(a, b) = Neutral /\ RateCrossover(Around(0, a), Around(0, b)) = Neutral
    BY <1>5, <2>1 DEF RateCrossover
  <2>3. QED
    BY <2>2 DEF Neutral, Signals, StrongSell, StrongBuy
<1>6. CASE NoValue \notin {a, b}
  <2>1. RateCrossover(a, b) = Compare(a, b)
    BY <1>6 DEF RateCrossover
  <2>2. RateCrossover(Around(0, a), Around(0, b)) = Compare(0 - a, 0 - b)
    BY <1>2, <1>3, <1>6 DEF RateCrossover
  <2>3. QED
    BY <1>4, <2>1, <2>2 DEF Signals, StrongSell, StrongBuy
<1>7. QED
  BY <1>5, <1>6

LEMMA DirectionalMirror ==
    ASSUME NEW adx \in Value, NEW plus \in Value, NEW minus \in Value
    PROVE  /\ RateDirectional(adx, plus, minus) \in Signals
           /\ RateDirectional(adx, minus, plus) = -RateDirectional(adx, plus, minus)
<1>1. adx \in Int /\ plus \in Int /\ minus \in Int
  BY ValueInt
<1>2. Compare(plus, minus) \in -1..1 /\ Compare(minus, plus) = -Compare(plus, minus)
  BY <1>1, CompareMirror
<1>3. QED
  BY <1>1, <1>2 DEF RateDirectional, Neutral, Signals, StrongSell, StrongBuy

LEMMA KeysAre ==
    Keys = {"rsi", "stochastic", "cci", "adx", "awesome_oscillator", "momentum",
            "macd_crossover", "williams_r", "ultimate_oscillator", "atr",
            "bull_bear_power", "stochrsi", "roc"}
<1>1. DOMAIN IndicatorKeys = 1..13
  BY DEF IndicatorKeys
<1>2. DOMAIN IndicatorKeys = {1, 2, 3, 4, 5, 6, 7, 8, 9, 10, 11, 12, 13}
  BY <1>1
<1>3. QED
  BY <1>2 DEF Keys, IndicatorKeys

\* A banded indicator is rated by its bands alone.
LEMMA RateSignalBands ==
    ASSUME NEW key \in DOMAIN Bands, NEW reading
    PROVE  RateSignal(key, reading) = RateBands(reading[1], Bands[key])
<1>1. key \notin {"macd_crossover", "adx", "atr"}
  BY DEF Bands
<1>2. QED
  BY <1>1 DEF RateSignal

LEMMA RatingMirrors ==
    ASSUME NEW key \in Keys, NEW r \in [1..Arity(key) -> Value]
    PROVE  /\ RateSignal(key, r) \in Signals
           /\ RateSignal(key, MirrorReading(key, r)) = -RateSignal(key, r)
<1>1. CASE key \in {"awesome_oscillator", "momentum", "bull_bear_power", "roc"}
  <2>1. r[1] \in Value
    BY <1>1 DEF Arity
  <2>2. key \in DOMAIN Bands /\ Bands[key] = ZeroLine
    BY <1>1 DEF Bands
  <2>3. MirrorReading(key, r)[1] = Around(0, r[1])
    BY <1>1 DEF MirrorReading
  <2>4. /\ RateSignal(key, r) = RateBands(r[1], Bands[key])
        /\ RateSignal(key, MirrorReading(key, r)) = RateBands(MirrorReading(key, r)[1], Bands[key])
    BY <2>2, RateSignalBands
  <2>5. QED
    BY <2>1, <2>2, <2>3, <2>4, ZeroMirror
<1>2. CASE key = "rsi"
  <2>1. r[1] \in Value
    BY <1>2 DEF Arity
  <2>2. /\ key \in DOMAIN Bands
        /\ Bands[key] = FourRules(20, 30, 80, 70)
    BY <1>2 DEF Bands, FourRules
  <2>3. MirrorReading(key, r)[1] = Around(100, r[1])
    BY <1>2 DEF MirrorReading
  <2>4. Symmetric(20, 30, 80, 70, 100)
    BY DEF Symmetric
  <2>5. RateBands(r[1], FourRules(20, 30, 80, 70)) \in Signals
    BY <2>1, <2>4, FourBandsMirror
  <2>6. RateBands(Around(100, r[1]), FourRules(20, 30, 80, 70)) = -RateBands(r[1], FourRules(20, 30, 80, 70))
    BY <2>1, <2>4, FourBandsMirror
  <2>7. /\ RateSignal(key, r) = RateBands(r[1], Bands[key])
        /\ RateSignal(key, MirrorReading(key, r)) = RateBands(MirrorReading(key, r)[1], Bands[key])
    BY <2>2, RateSignalBands
  <2>8. QED
    BY <2>2, <2>3, <2>5, <2>6, <2>7
<1>3. CASE key = "cci"
  <2>1. r[1] \in Value
    BY <1>3 DEF Arity
  <2>2. /\ key \in DOMAIN Bands
        /\ Bands[key] = FourRules(-200, -100, 200, 100)
    BY <1>3 DEF Bands, FourRules
  <2>3. MirrorReading(key, r)[1] = Around(0, r[1])
    BY <1>3 DEF MirrorReading
  <2>4. Symmetric(-200, -100, 200, 100, 0)
    BY DEF Symmetric
  <2>5. RateBands(r[1], FourRules(-200, -100, 200, 100)) \in Signals
    BY <2>1, <2>4, FourBandsMirror
  <2>6. RateBands(Around(0, r[1]), FourRules(-200, -100, 200, 100)) = -RateBands(r[1], FourRules(-200, -100, 200, 100))
    BY <2>1, <2>4, FourBandsMirror
  <2>7. /\ RateSignal(key, r) = RateBands(r[1], Bands[key])
        /\ RateSignal(key, MirrorReading(key, r)) = RateBands(MirrorReading(key, r)[1], Bands[key])
    BY <2>2, RateSignalBands
  <2>8. QED
    BY <2>2, <2>3, <2>5, <2>6, <2>7
<1>4. CASE key \in {"stochastic", "stochrsi"}
  <2>1. r[1] \in Value
    BY <1>4 DEF Arity
  <2>2. key \in DOMAIN Bands /\ Bands[key] = TwoRules(20, Buy, 80, Sell)
    BY <1>4 DEF Bands, TwoRules
  <2>3. MirrorReading(key, r)[1] = Around(100, r[1])
    BY <1>4 DEF MirrorReading
  <2>4. /\ 20 \in Int /\ 80 \in Int /\ 20 <= 80 /\ 20 + 80 = 100
        /\ 100 \in -200..200 /\ Buy \in Signals /\ Sell \in Signals /\ Sell = -Buy
    BY DEF Buy, Sell, Signals, StrongSell, StrongBuy
  <2>5. RateBands(r[1], TwoRules(20, Buy, 80, Sell)) \in Signals
    BY <2>1, <2>4, TwoBandsMirror
  <2>6. RateBands(Around(100, r[1]), TwoRules(20, Buy, 80, Sell)) = -RateBands(r[1], TwoRules(20, Buy, 80, Sell))
    BY <2>1, <2>4, TwoBandsMirror
  <2>7. /\ RateSignal(key, r) = RateBands(r[1], Bands[key])
        /\ RateSignal(key, MirrorReading(key, r)) = RateBands(MirrorReading(key, r)[1], Bands[key])
    BY <2>2, RateSignalBands
  <2>8. QED
    BY <2>2, <2>3, <2>5, <2>6, <2>7
<1>5. CASE key = "ultimate_oscillator"
  <2>1. r[1] \in Value
    BY <1>5 DEF Arity
  <2>2. key \in DOMAIN Bands /\ Bands[key] = TwoRules(30, Buy, 70, Sell)
    BY <1>5 DEF Bands, TwoRules
  <2>3. MirrorReading(key, r)[1] = Around(100, r[1])
    BY <1>5 DEF MirrorReading
  <2>4. /\ 30 \in Int /\ 70 \in Int /\ 30 <= 70 /\ 30 + 70 = 100
        /\ 100 \in -200..200 /\ Buy \in Signals /\ Sell \in Signals /\ Sell = -Buy
    BY DEF Buy, Sell, Signals, StrongSell, StrongBuy
  <2>5. RateBands(r[1], TwoRules(30, Buy, 70, Sell)) \in Signals
    BY <2>1, <2>4, TwoBandsMirror
  <2>6. RateBands(Around(100, r[1]), TwoRules(30, Buy, 70, Sell)) = -RateBands(r[1], TwoRules(30, Buy, 70, Sell))
    BY <2>1, <2>4, TwoBandsMirror
  <2>7. /\ RateSignal(key, r) = RateBands(r[1], Bands[key])
        /\ RateSignal(key, MirrorReading(key, r)) = RateBands(MirrorReading(key, r)[1], Bands[key])
    BY <2>2, RateSignalBands
  <2>8. QED
    BY <2>2, <2>3, <2>5, <2>6, <2>7
<1>6. CASE key = "williams_r"
  <2>1. r[1] \in Value
    BY <1>6 DEF Arity
  <2>2. key \in DOMAIN Bands /\ Bands[key] = TwoRules(-80, Buy, -20, Sell)
    BY <1>6 DEF Bands, TwoRules
  <2>3. MirrorReading(key, r)[1] = Around(-100, r[1])
    BY <1>6 DEF MirrorReading
  <2>4. /\ -80 \in Int /\ -20 \in Int /\ -80 <= -20 /\ -80 + -20 = -100
        /\ -100 \in -200..200 /\ Buy \in Signals /\ Sell \in Signals /\ Sell = -Buy
    BY DEF Buy, Sell, Signals, StrongSell, StrongBuy
  <2>5. RateBands(r[1], TwoRules(-80, Buy, -20, Sell)) \in Signals
    BY <2>1, <2>4, TwoBandsMirror
  <2>6. RateBands(Around(-100, r[1]), TwoRules(-80, Buy, -20, Sell)) = -RateBands(r[1], TwoRules(-80, Buy, -20, Sell))
    BY <2>1, <2>4, TwoBandsMirror
  <2>7. /\ RateSignal(key, r) = RateBands(r[1], Bands[key])
        /\ RateSignal(key, MirrorReading(key, r)) = RateBands(MirrorReading(key, r)[1], Bands[key])
    BY <2>2, RateSignalBands
  <2>8. QED
    BY <2>2, <2>3, <2>5, <2>6, <2>7
<1>7. CASE key = "macd_crossover"
  <2>1. r[1] \in Value /\ r[2] \in Value
    BY <1>7 DEF Arity
  <2>2. key \notin DOMAIN Bands
    BY <1>7 DEF Bands
  <2>3. MirrorReading(key, r) = <<Around(0, r[1]), Around(0, r[2])>>
    BY <1>7 DEF MirrorReading
  <2>4. /\ RateSignal(key, r) = RateCrossover(r[1], r[2])
        /\ RateSignal(key, MirrorReading(key, r)) = RateCrossover(Around(0, r[1]), Around(0, r[2]))
    BY <1>7, <2>2, <2>3 DEF RateSignal
  <2>5. QED
    BY <2>1, <2>4, CrossoverMirror
<1>8. CASE key = "adx"
  <2>1. r[1] \in Value /\ r[2] \in Value /\ r[3] \in Value
    BY <1>8 DEF Arity
  <2>2. key \notin DOMAIN Bands
    BY <1>8 DEF Bands
  <2>3. MirrorReading(key, r) = <<r[1], r[3], r[2]>>
    BY <1>8 DEF MirrorReading
  <2>4. /\ RateSignal(key, r) = RateDirectional(r[1], r[2], r[3])
        /\ RateSignal(key, MirrorReading(key, r)) = RateDirectional(r[1], r[3], r[2])
    BY <1>8, <2>2, <2>3 DEF RateSignal
  <2>5. QED
    BY <2>1, <2>4, DirectionalMirror
<1>9. CASE key = "atr"
  <2>1. key \notin DOMAIN Bands
    BY <1>9 DEF Bands
  <2>2. \A reading : RateSignal(key, reading) = Neutral
    BY <1>9, <2>1 DEF RateSignal
  <2>3. QED
    BY <2>2 DEF Neutral, Signals, StrongSell, StrongBuy
<1>10. QED
  BY <1>1, <1>2, <1>3, <1>4, <1>5, <1>6, <1>7, <1>8, <1>9, KeysAre

(***************************************************************************)
(* The technical step                                                      *)
(***************************************************************************)
Tallies == [indicators : Vote, averages : Vote]
FlipBoth(t) == [indicators |-> Flip(t.indicators), averages |-> Flip(t.averages)]

\* The mirrored counts are the counts with buy and sell exchanged; the summary
\* is that of the counts.
TechnicalInv ==
    /\ tallies \in Tallies /\ mirrored = FlipBoth(tallies)
    /\ rated \in Nat
    /\ Done("technical") =>
           /\ rated = AllRated
           /\ output = [summary |-> CalculateSummaries(tallies.indicators, tallies.averages),
                        weekly |-> LongTermTrend(tallies.indicators, tallies.averages)]

LEMMA MaMirror ==
    ASSUME NEW ma \in {NoValue, -1, 0, 1}
    PROVE  /\ MaSignal(0, ma) \in Signals
           /\ MaSignal(0, IF ma = NoValue THEN NoValue ELSE -ma) = -MaSignal(0, ma)
<1>1. NoValue \notin {-1, 0, 1}
  BY FurthestIs
<1>2. CASE ma = NoValue
  <2>1. (IF ma = NoValue THEN NoValue ELSE -ma) = NoValue
    BY <1>2
  <2>2. MaSignal(0, NoValue) = 0
    BY DEF MaSignal, Neutral
  <2>3. QED
    BY <1>2, <2>1, <2>2 DEF Signals, StrongSell, StrongBuy
<1>3. CASE ma \in {-1, 0, 1}
  <2>1. /\ MaSignal(0, ma) = Compare(0, ma)
        /\ MaSignal(0, IF ma = NoValue THEN NoValue ELSE -ma) = Compare(0, -ma)
    BY <1>1, <1>3 DEF MaSignal
  <2>2. Compare(0, ma) \in -1..1 /\ Compare(0, -ma) = -Compare(0, ma)
    BY <1>3 DEF Compare, Buy, Sell, Neutral
  <2>3. QED
    BY <2>1, <2>2 DEF Signals, StrongSell, StrongBuy
<1>4. QED
  BY <1>2, <1>3

LEMMA TwoTallies ==
    ASSUME NEW votes \in Vote, NEW s \in Signals, NEW t \in Signals
    PROVE  /\ Tally(t, Tally(s, votes)) \in Vote
           /\ Tally(-t, Tally(-s, Flip(votes))) = Flip(Tally(t, Tally(s, votes)))
<1>1. Tally(s, votes) \in Vote /\ Tally(-s, Flip(votes)) = Flip(Tally(s, votes))
  BY TallyVote
<1>2. QED
  BY <1>1, TallyVote

LEMMA NoVotesVote == NoVotes \in Vote /\ Flip(NoVotes) = NoVotes
BY DEF NoVotes, Vote, Flip

LEMMA WithIndicators ==
    ASSUME NEW t \in Tallies, NEW v \in Vote
    PROVE  /\ [t EXCEPT !.indicators = v] \in Tallies
           /\ [FlipBoth(t) EXCEPT !.indicators = Flip(v)] = FlipBoth([t EXCEPT !.indicators = v])
BY DEF Tallies, FlipBoth

LEMMA WithAverages ==
    ASSUME NEW t \in Tallies, NEW v \in Vote
    PROVE  /\ [t EXCEPT !.averages = v] \in Tallies
           /\ [FlipBoth(t) EXCEPT !.averages = Flip(v)] = FlipBoth([t EXCEPT !.averages = v])
BY DEF Tallies, FlipBoth

LEMMA TechnicalInit == Init => TechnicalInv
<1> SUFFICES ASSUME Init PROVE TechnicalInv
  OBVIOUS
<1>1. tallies = [indicators |-> NoVotes, averages |-> NoVotes]
      /\ mirrored = [indicators |-> NoVotes, averages |-> NoVotes]
      /\ rated = 0 /\ stage = "working"
  BY DEF Init, NoTallies
<1>2. tallies \in Tallies /\ mirrored = FlipBoth(tallies)
  BY <1>1, NoVotesVote DEF Tallies, FlipBoth
<1>3. ~Done("technical")
  BY <1>1 DEF Done
<1>4. QED
  BY <1>1, <1>2, <1>3 DEF TechnicalInv

LEMMA RateIndicatorInv == TechnicalInv /\ RateIndicator => TechnicalInv'
<1> SUFFICES ASSUME TechnicalInv, RateIndicator PROVE TechnicalInv'
  OBVIOUS
<1> DEFINE key == IndicatorKeys[rated + 1]
<1>1. /\ rated \in Nat /\ rated < AllIndicators /\ AllIndicators = 13 /\ DOMAIN IndicatorKeys = 1..13
      /\ AllRated \in Nat /\ AllIndicators <= AllRated /\ part = "technical"
      /\ tallies \in Tallies /\ mirrored = FlipBoth(tallies)
  <2>1. /\ rated \in Nat /\ rated < AllIndicators /\ part = "technical"
        /\ tallies \in Tallies /\ mirrored = FlipBoth(tallies)
    BY DEF TechnicalInv, RateIndicator
  <2>2. AllIndicators = 13 /\ DOMAIN IndicatorKeys = 1..13
    BY DEF AllIndicators, IndicatorKeys
  <2>3. Averages \in Nat
    BY ReportAssumption, Zenon
  <2>4. AllRated \in Nat /\ AllIndicators <= AllRated
    BY <2>2, <2>3 DEF AllRated
  <2>5. QED
    BY <2>1, <2>2, <2>4
<1>2. key \in Keys
  BY <1>1 DEF Keys
<1>3. PICK r \in Readings[key] :
        /\ tallies' = [tallies EXCEPT !.indicators = Tally(RateSignal(key, r), @)]
        /\ mirrored' = [mirrored EXCEPT !.indicators = Tally(RateSignal(key, MirrorReading(key, r)), @)]
  BY DEF RateIndicator
<1>4. r \in [1..Arity(key) -> Value]
  BY <1>2, <1>3, ReportAssumption
<1>5. /\ rated' = rated + 1 /\ part' = part /\ stage' = stage /\ output' = output
  BY DEF RateIndicator, function
<1> HIDE DEF key
<1> DEFINE signal == RateSignal(key, r)
           next == Tally(signal, tallies.indicators)
<1>6. signal \in Signals /\ RateSignal(key, MirrorReading(key, r)) = -signal
  BY <1>2, <1>4, RatingMirrors
<1>7. tallies.indicators \in Vote /\ mirrored.indicators = Flip(tallies.indicators)
  BY <1>1 DEF Tallies, FlipBoth
<1> HIDE DEF signal
<1>8. next \in Vote /\ Tally(-signal, Flip(tallies.indicators)) = Flip(next)
  BY <1>6, <1>7, TallyVote
<1>9. tallies' = [tallies EXCEPT !.indicators = next]
  BY <1>3 DEF signal
<1>10. mirrored' = [FlipBoth(tallies) EXCEPT !.indicators = Flip(next)]
  BY <1>1, <1>3, <1>6, <1>7, <1>8
<1> HIDE DEF next
<1>11. tallies' \in Tallies /\ mirrored' = FlipBoth(tallies')
  BY <1>1, <1>8, <1>9, <1>10, WithIndicators
<1>12. ~Done("technical")'
  BY <1>1, <1>5 DEF TechnicalInv, Done
<1>13. QED
  BY <1>1, <1>5, <1>11, <1>12 DEF TechnicalInv, FlipBoth

LEMMA RateAveragesInv == TechnicalInv /\ RateAverages => TechnicalInv'
<1> SUFFICES ASSUME TechnicalInv, RateAverages PROVE TechnicalInv'
  OBVIOUS
<1>1. /\ rated \in Nat /\ rated < AllRated /\ AllRated \in Nat /\ part = "technical"
      /\ tallies \in Tallies /\ mirrored = FlipBoth(tallies)
  BY ReportAssumption DEF TechnicalInv, RateAverages, AllRated, AllIndicators, IndicatorKeys
<1>2. PICK sma \in {NoValue, -1, 0, 1}, ema \in {NoValue, -1, 0, 1} :
        /\ tallies' = [tallies EXCEPT !.averages = Tally(MaSignal(0, ema), Tally(MaSignal(0, sma), @))]
        /\ mirrored' = [mirrored EXCEPT !.averages =
                            Tally(MaSignal(0, IF ema = NoValue THEN NoValue ELSE -ema),
                                  Tally(MaSignal(0, IF sma = NoValue THEN NoValue ELSE -sma), @))]
  BY DEF RateAverages
<1>3. /\ rated' = rated + 1 /\ part' = part /\ stage' = stage /\ output' = output
  BY DEF RateAverages, function
<1> DEFINE s == MaSignal(0, sma)
           t == MaSignal(0, ema)
           next == Tally(t, Tally(s, tallies.averages))
<1>4. s \in Signals /\ MaSignal(0, IF sma = NoValue THEN NoValue ELSE -sma) = -s
  BY <1>2, MaMirror
<1>5. t \in Signals /\ MaSignal(0, IF ema = NoValue THEN NoValue ELSE -ema) = -t
  BY <1>2, MaMirror
<1>6. tallies.averages \in Vote /\ mirrored.averages = Flip(tallies.averages)
  BY <1>1 DEF Tallies, FlipBoth
<1> HIDE DEF s, t
<1>7. next \in Vote /\ Tally(-t, Tally(-s, Flip(tallies.averages))) = Flip(next)
  BY <1>4, <1>5, <1>6, TwoTallies
<1>8. tallies' = [tallies EXCEPT !.averages = next]
  BY <1>2 DEF s, t
<1>9. mirrored' = [FlipBoth(tallies) EXCEPT !.averages = Flip(next)]
  BY <1>1, <1>2, <1>4, <1>5, <1>6, <1>7
<1> HIDE DEF next
<1>10. tallies' \in Tallies /\ mirrored' = FlipBoth(tallies')
  BY <1>1, <1>7, <1>8, <1>9, WithAverages
<1>11. ~Done("technical")'
  BY <1>1, <1>3 DEF TechnicalInv, Done
<1>12. QED
  BY <1>1, <1>3, <1>10, <1>11 DEF TechnicalInv, FlipBoth

LEMMA FailuresInv == TechnicalInv /\ (IndicatorsFail \/ AveragesFail) => TechnicalInv'
<1> SUFFICES ASSUME TechnicalInv, IndicatorsFail \/ AveragesFail PROVE TechnicalInv'
  OBVIOUS
<1>1. /\ rated \in Nat /\ rated < AllRated /\ AllRated \in Nat /\ AllIndicators \in Nat
      /\ part = "technical" /\ tallies \in Tallies /\ mirrored = FlipBoth(tallies)
  BY ReportAssumption
  DEF TechnicalInv, IndicatorsFail, AveragesFail, AllRated, AllIndicators, IndicatorKeys
<1>2. /\ rated' \in {AllIndicators, AllRated}
      /\ part' = part /\ stage' = stage /\ output' = output
  BY DEF IndicatorsFail, AveragesFail, function
<1>3. ~Done("technical")'
  BY <1>1, <1>2 DEF TechnicalInv, Done
<1>4. CASE IndicatorsFail
  <2>1. /\ tallies' = [tallies EXCEPT !.indicators = NoVotes]
        /\ mirrored' = [FlipBoth(tallies) EXCEPT !.indicators = Flip(NoVotes)]
    BY <1>1, <1>4, NoVotesVote DEF IndicatorsFail
  <2>2. tallies' \in Tallies /\ mirrored' = FlipBoth(tallies')
    BY <1>1, <2>1, NoVotesVote, WithIndicators
  <2>3. QED
    BY <1>1, <1>2, <2>2, <1>3 DEF TechnicalInv, FlipBoth
<1>5. CASE AveragesFail
  <2>1. /\ tallies' = [tallies EXCEPT !.averages = NoVotes]
        /\ mirrored' = [FlipBoth(tallies) EXCEPT !.averages = Flip(NoVotes)]
    BY <1>1, <1>5, NoVotesVote DEF AveragesFail
  <2>2. tallies' \in Tallies /\ mirrored' = FlipBoth(tallies')
    BY <1>1, <2>1, NoVotesVote, WithAverages
  <2>3. QED
    BY <1>1, <1>2, <2>2, <1>3 DEF TechnicalInv, FlipBoth
<1>6. QED
  BY <1>4, <1>5

LEMMA SummariseInv == TechnicalInv /\ Summarise => TechnicalInv'
<1> SUFFICES ASSUME TechnicalInv, Summarise PROVE TechnicalInv'
  OBVIOUS
<1>1. tallies' = tallies /\ mirrored' = mirrored /\ rated' = rated /\ rated = AllRated
  BY DEF Summarise, technical
<1>2. output' = [summary |-> CalculateSummaries(tallies.indicators, tallies.averages),
                 weekly |-> LongTermTrend(tallies.indicators, tallies.averages)]
  BY DEF Summarise
<1>3. QED
  BY <1>1, <1>2 DEF TechnicalInv, FlipBoth, Done

\* What every action outside the technical step leaves alone.
LEMMA ElsewhereInv ==
    ASSUME TechnicalInv, UNCHANGED technical, part' = part, part # "technical" \/ UNCHANGED vars
    PROVE  TechnicalInv'
<1>1. tallies' = tallies /\ mirrored' = mirrored /\ rated' = rated
  BY DEF technical
<1>2. CASE part # "technical"
  BY <1>1, <1>2 DEF TechnicalInv, FlipBoth, Done
<1>3. CASE UNCHANGED vars
  BY <1>1, <1>3 DEF TechnicalInv, FlipBoth, Done, vars
<1>4. QED
  BY <1>2, <1>3

LEMMA TechnicalStep == TechnicalInv /\ [Next]_vars => TechnicalInv'
<1> SUFFICES ASSUME TechnicalInv, [Next]_vars PROVE TechnicalInv'
  OBVIOUS
<1>1. CASE RateIndicator
  BY <1>1, RateIndicatorInv
<1>2. CASE IndicatorsFail \/ AveragesFail
  BY <1>2, FailuresInv
<1>3. CASE RateAverages
  BY <1>3, RateAveragesInv
<1>4. CASE Summarise
  BY <1>4, SummariseInv
<1>5. CASE Pivot
  BY <1>5, ElsewhereInv DEF Pivot
<1>6. CASE Candle \/ Recognise \/ Aggregate \/ BuildReport
  <2>1. part' = part /\ part = "market" /\ UNCHANGED technical
    BY <1>6 DEF Candle, Recognise, Aggregate, BuildReport
  <2>2. QED
    BY <2>1, ElsewhereInv
<1>7. CASE CandlestickSignal \/ ChartShape \/ Scan
  <2>1. part' = part /\ part \in {"candlestick", "chart", "scanner"} /\ UNCHANGED technical
    BY <1>7 DEF CandlestickSignal, ChartShape, Scan
  <2>2. QED
    BY <2>1, ElsewhereInv
<1>8. CASE Forex \/ Commodity \/ Index \/ Unrecognised
  <2>1. part' = part /\ part = "fundamental" /\ UNCHANGED technical
    BY <1>8 DEF Forex, Commodity, Index, Unrecognised, Instrument
  <2>2. QED
    BY <2>1, ElsewhereInv
<1>9. CASE UNCHANGED vars
  BY <1>9, ElsewhereInv DEF vars, technical
<1>10. QED
  BY <1>1, <1>2, <1>3, <1>4, <1>5, <1>6, <1>7, <1>8, <1>9 DEF Next

LEMMA TechnicalMirror == TechnicalInv => VerdictsMirror /\ OverallBetweenGroups
<1> SUFFICES ASSUME TechnicalInv, Done("technical") PROVE VerdictsMirror /\ OverallBetweenGroups
  BY DEF VerdictsMirror, OverallBetweenGroups
<1> DEFINE i == tallies.indicators
           a == tallies.averages
           there == CalculateSummaries(mirrored.indicators, mirrored.averages)
<1>1. /\ i \in Vote /\ a \in Vote
      /\ mirrored.indicators = Flip(i) /\ mirrored.averages = Flip(a)
      /\ output.summary = CalculateSummaries(i, a) /\ output.weekly = LongTermTrend(i, a)
  BY DEF TechnicalInv, Tallies, FlipBoth
<1> HIDE DEF i, a
<1>2. /\ OverallSignal(Flip(i)) = -OverallSignal(i) /\ OverallSignal(Flip(a)) = -OverallSignal(a)
      /\ AllVotes(i, a) \in Vote /\ AllVotes(Flip(i), Flip(a)) = Flip(AllVotes(i, a))
      /\ OverallSignal(Flip(AllVotes(i, a))) = -OverallSignal(AllVotes(i, a))
  BY <1>1, OverallFlips, AllVotesVote
<1>3. there.votes = Flip(output.summary.votes)
  BY <1>1, <1>2 DEF CalculateSummaries
<1>4. /\ there.ma = -output.summary.ma /\ there.indicators = -output.summary.indicators
      /\ there.overall = -output.summary.overall
  BY <1>1, <1>2 DEF CalculateSummaries
<1>5. VerdictsMirror
  BY <1>3, <1>4 DEF VerdictsMirror
<1>6. Between(output.summary.overall, output.summary.ma, output.summary.indicators)
  <2>1. Between(OverallSignal(AllVotes(i, a)), OverallSignal(a), OverallSignal(i))
    BY <1>1, OverallIsBetween
  <2>2. QED
    BY <1>1, <2>1 DEF CalculateSummaries
<1>7. output.weekly \in {output.summary.overall, NoValue}
  BY <1>1 DEF LongTermTrend, CalculateSummaries
<1>8. QED
  BY <1>5, <1>6, <1>7 DEF OverallBetweenGroups

(***************************************************************************)
(* Pivots                                                                  *)
(***************************************************************************)
PivotInv ==
    Done("pivots") =>
        \E daily, main \in PivotCandles : main # <<>> /\ output = PivotPoints(PivotCandle(daily, main))

LEMMA PivotCandleOk ==
    ASSUME NEW daily \in PivotCandles, NEW main \in PivotCandles, main # <<>>
    PROVE  LaddersAscend(PivotPoints(PivotCandle(daily, main)))
<1> DEFINE Candles == [open : Int, high : Int, low : Int, close : Int]
           source == IF daily # <<>> THEN daily ELSE main
           k == IF Len(source) >= 2 THEN Len(source) - 1 ELSE 1
<1>1. /\ source \in PivotCandles /\ source # <<>>
      /\ source \in Seq(Candles)
  BY ReportAssumption
<1>2. PivotCandle(daily, main) = source[k]
  BY DEF PivotCandle
<1> HIDE DEF source, Candles
<1>3. k \in DOMAIN source /\ source[k] \in Candles
  <2>1. Len(source) \in Nat /\ DOMAIN source = 1..Len(source) /\ Len(source) # 0
    BY <1>1
  <2>2. k \in 1..Len(source)
    BY <2>1
  <2> HIDE DEF k
  <2>3. \A i \in 1..Len(source) : source[i] \in Candles
    BY <1>1
  <2>4. QED
    BY <2>1, <2>2, <2>3
<1> HIDE DEF k
<1> DEFINE candle == source[k]
<1>4. /\ candle.low <= candle.open /\ candle.open <= candle.high
      /\ candle.low <= candle.close /\ candle.close <= candle.high
  BY <1>1, <1>3, ReportAssumption
<1>5. QED
  BY <1>2, <1>3, <1>4, LaddersInOrder DEF Candles

LEMMA PivotStep == PivotInv /\ [Next]_vars => PivotInv'
<1> SUFFICES ASSUME PivotInv, [Next]_vars PROVE PivotInv'
  OBVIOUS
<1>1. CASE Pivot
  BY <1>1 DEF Pivot, PivotInv
<1>2. CASE RateIndicator \/ IndicatorsFail \/ RateAverages \/ AveragesFail \/ Summarise
  <2>1. part' = part /\ part = "technical"
    BY <1>2 DEF RateIndicator, IndicatorsFail, RateAverages, AveragesFail, Summarise
  <2>2. QED
    BY <2>1 DEF PivotInv, Done
<1>3. CASE Candle \/ Recognise \/ Aggregate \/ BuildReport
  <2>1. part' = part /\ part = "market"
    BY <1>3 DEF Candle, Recognise, Aggregate, BuildReport
  <2>2. QED
    BY <2>1 DEF PivotInv, Done
<1>4. CASE CandlestickSignal \/ ChartShape \/ Scan
  <2>1. part' = part /\ part \in {"candlestick", "chart", "scanner"}
    BY <1>4 DEF CandlestickSignal, ChartShape, Scan
  <2>2. QED
    BY <2>1 DEF PivotInv, Done
<1>5. CASE Forex \/ Commodity \/ Index \/ Unrecognised
  <2>1. part' = part /\ part = "fundamental"
    BY <1>5 DEF Forex, Commodity, Index, Unrecognised, Instrument
  <2>2. QED
    BY <2>1 DEF PivotInv, Done
<1>6. CASE UNCHANGED vars
  BY <1>6 DEF PivotInv, Done, vars
<1>7. QED
  BY <1>1, <1>2, <1>3, <1>4, <1>5, <1>6 DEF Next

LEMMA PivotsInOrder == PivotInv => PivotsOrdered
BY PivotCandleOk DEF PivotInv, PivotsOrdered

(***************************************************************************)
(* Trend lines                                                             *)
(***************************************************************************)
ChartInv ==
    Done("chart") => /\ input.upper \in Int /\ input.lower \in Int
                     /\ output = ClassifyPattern(input.upper, input.lower, FALSE)

\* The shapes a window without an impulse before it can have.
Converging(u, l) == u < -50 \/ l > 50
Triangle(u, l) == Converging(u, l) /\ ~(Abs(u - l) < 150)
SymmetricTriangle(u, l) == Triangle(u, l) /\ u < -100 /\ l > 100
Descending(u, l) == Triangle(u, l) /\ u < -100 /\ Abs(l) < 100
Rising(u, l) == Triangle(u, l) /\ Abs(u) < 100 /\ l > 100
RisingWedge(u, l) == u > 50 /\ l > 50 /\ Converging(u, l)
FallingWedge(u, l) == u < -50 /\ l < -50 /\ Converging(u, l)

LEMMA ShapeIs ==
    ASSUME NEW u, NEW l
    PROVE  ClassifyPattern(u, l, FALSE)
               = IF SymmetricTriangle(u, l) THEN Shape("Symmetric Triangle", TRUE, 55)
                 ELSE IF Descending(u, l) THEN Shape("Descending Triangle", FALSE, 60)
                 ELSE IF Rising(u, l) THEN Shape("Ascending Triangle", TRUE, 60)
                 ELSE IF RisingWedge(u, l) THEN Shape("Rising Wedge", FALSE, 55)
                 ELSE IF FallingWedge(u, l) THEN Shape("Falling Wedge", TRUE, 55)
                 ELSE NoShape
BY ZenonT(60)
DEF ClassifyPattern, SymmetricTriangle, Descending, Rising, RisingWedge, FallingWedge, Triangle, Converging

\* Each shape turned upside down.
LEMMA ShapesTurn ==
    ASSUME NEW u \in Int, NEW l \in Int
    PROVE  /\ SymmetricTriangle(-l, -u) <=> SymmetricTriangle(u, l)
           /\ Descending(-l, -u) <=> Rising(u, l)
           /\ Rising(-l, -u) <=> Descending(u, l)
           /\ RisingWedge(-l, -u) <=> FallingWedge(u, l)
           /\ FallingWedge(-l, -u) <=> RisingWedge(u, l)
           /\ ~(SymmetricTriangle(u, l) /\ Rising(u, l))
           /\ ~(Descending(u, l) /\ Rising(u, l))
           /\ ~(RisingWedge(u, l) /\ FallingWedge(u, l))
<1>1. Abs(-l - (-u)) = Abs(u - l) /\ Abs(-u) = Abs(u) /\ Abs(-l) = Abs(l)
  BY DEF Abs
<1>2. Triangle(-l, -u) <=> Triangle(u, l)
  BY <1>1 DEF Triangle, Converging
<1>3. /\ SymmetricTriangle(-l, -u) <=> SymmetricTriangle(u, l)
      /\ Descending(-l, -u) <=> Rising(u, l)
      /\ Rising(-l, -u) <=> Descending(u, l)
  BY <1>1, <1>2 DEF SymmetricTriangle, Descending, Rising
<1>4. /\ RisingWedge(-l, -u) <=> FallingWedge(u, l)
      /\ FallingWedge(-l, -u) <=> RisingWedge(u, l)
      /\ ~(RisingWedge(u, l) /\ FallingWedge(u, l))
  BY DEF RisingWedge, FallingWedge, Converging
<1>5. ~(SymmetricTriangle(u, l) /\ Rising(u, l)) /\ ~(Descending(u, l) /\ Rising(u, l))
  BY DEF SymmetricTriangle, Descending, Rising, Abs
<1>6. QED
  BY <1>3, <1>4, <1>5

LEMMA ClassifyMirrors ==
    ASSUME NEW upper \in Int, NEW lower \in Int
    PROVE  LET here == ClassifyPattern(upper, lower, FALSE)
               there == ClassifyPattern(-lower, -upper, FALSE) IN
           /\ there.confidence = here.confidence
           /\ here.name \notin {"none", "Symmetric Triangle"} => there.bullish = ~here.bullish
           /\ here.name = "Symmetric Triangle" => there = here
<1> DEFINE here == ClassifyPattern(upper, lower, FALSE)
           there == ClassifyPattern(-lower, -upper, FALSE)
<1>1. there = IF SymmetricTriangle(upper, lower) THEN Shape("Symmetric Triangle", TRUE, 55)
              ELSE IF Rising(upper, lower) THEN Shape("Descending Triangle", FALSE, 60)
              ELSE IF Descending(upper, lower) THEN Shape("Ascending Triangle", TRUE, 60)
              ELSE IF FallingWedge(upper, lower) THEN Shape("Rising Wedge", FALSE, 55)
              ELSE IF RisingWedge(upper, lower) THEN Shape("Falling Wedge", TRUE, 55)
              ELSE NoShape
  BY ShapeIs, ShapesTurn
<1>2. here = IF SymmetricTriangle(upper, lower) THEN Shape("Symmetric Triangle", TRUE, 55)
             ELSE IF Descending(upper, lower) THEN Shape("Descending Triangle", FALSE, 60)
             ELSE IF Rising(upper, lower) THEN Shape("Ascending Triangle", TRUE, 60)
             ELSE IF RisingWedge(upper, lower) THEN Shape("Rising Wedge", FALSE, 55)
             ELSE IF FallingWedge(upper, lower) THEN Shape("Falling Wedge", TRUE, 55)
             ELSE NoShape
  BY ShapeIs
<1>3. /\ ~(SymmetricTriangle(upper, lower) /\ Rising(upper, lower))
      /\ ~(Descending(upper, lower) /\ Rising(upper, lower))
      /\ ~(RisingWedge(upper, lower) /\ FallingWedge(upper, lower))
  BY ShapesTurn
<1> HIDE DEF here, there
<1>4. /\ there.confidence = here.confidence
      /\ here.name \notin {"none", "Symmetric Triangle"} => there.bullish = ~here.bullish
      /\ here.name = "Symmetric Triangle" => there = here
  BY <1>1, <1>2, <1>3 DEF Shape, NoShape
<1>5. QED
  BY <1>4 DEF here, there

LEMMA ShapesInv == ChartInv => ShapesMirror
<1> SUFFICES ASSUME ChartInv, Done("chart") PROVE ShapesMirror
  BY DEF ShapesMirror
<1> DEFINE upper == input.upper
           lower == input.lower
           there == ClassifyPattern(-lower, -upper, FALSE)
<1>1. upper \in Int /\ lower \in Int /\ output = ClassifyPattern(upper, lower, FALSE)
  BY DEF ChartInv
<1> HIDE DEF upper, lower
<1>2. /\ there.confidence = output.confidence
      /\ output.name \notin {"none", "Symmetric Triangle"} => there.bullish = ~output.bullish
      /\ output.name = "Symmetric Triangle" => there = output
  BY <1>1, ClassifyMirrors
<1>3. QED
  BY <1>2 DEF ShapesMirror, upper, lower

LEMMA ChartStep == ChartInv /\ [Next]_vars => ChartInv'
<1> SUFFICES ASSUME ChartInv, [Next]_vars PROVE ChartInv'
  OBVIOUS
<1>1. CASE ChartShape
  <2>1. PICK upper \in Slopes, lower \in Slopes :
            /\ input' = [upper |-> upper, lower |-> lower]
            /\ output' = ClassifyPattern(upper, lower, FALSE)
    BY <1>1 DEF ChartShape
  <2>2. upper \in Int /\ lower \in Int
    BY <2>1, ReportAssumption
  <2>3. QED
    BY <2>1, <2>2 DEF ChartInv
<1>2. CASE RateIndicator \/ IndicatorsFail \/ RateAverages \/ AveragesFail \/ Summarise
  <2>1. part' = part /\ part = "technical"
    BY <1>2 DEF RateIndicator, IndicatorsFail, RateAverages, AveragesFail, Summarise
  <2>2. QED
    BY <2>1 DEF ChartInv, Done
<1>3. CASE Candle \/ Recognise \/ Aggregate \/ BuildReport
  <2>1. part' = part /\ part = "market"
    BY <1>3 DEF Candle, Recognise, Aggregate, BuildReport
  <2>2. QED
    BY <2>1 DEF ChartInv, Done
<1>4. CASE Pivot \/ CandlestickSignal \/ Scan
  <2>1. part' = part /\ part \in {"pivots", "candlestick", "scanner"}
    BY <1>4 DEF Pivot, CandlestickSignal, Scan
  <2>2. QED
    BY <2>1 DEF ChartInv, Done
<1>5. CASE Forex \/ Commodity \/ Index \/ Unrecognised
  <2>1. part' = part /\ part = "fundamental"
    BY <1>5 DEF Forex, Commodity, Index, Unrecognised, Instrument
  <2>2. QED
    BY <2>1 DEF ChartInv, Done
<1>6. CASE UNCHANGED vars
  BY <1>6 DEF ChartInv, Done, vars
<1>7. QED
  BY <1>1, <1>2, <1>3, <1>4, <1>5, <1>6 DEF Next

(***************************************************************************)
(* Macro scores                                                            *)
(***************************************************************************)
Figure == {NoFigure} \cup (-Furthest)..Furthest
Currency == [rate : Figure, cpi : Figure]
IndexFigures == {"rate", "cpi", "unemployment"}

LEMMA FigureInt ==
    ASSUME NEW f \in Figure
    PROVE  f \in Int /\ (f # NoFigure => -Furthest <= f /\ f <= Furthest)
BY FurthestIs DEF Figure

LEMMA ClampIs ==
    ASSUME NEW limit \in Nat, NEW x \in Int, NEW y \in Int
    PROVE  /\ Clamp(limit, x) \in Int /\ Clamp(limit, -x) = -Clamp(limit, x)
           /\ x <= y => Clamp(limit, x) <= Clamp(limit, y)
BY DEF Clamp

LEMMA DifferentialOpposed ==
    ASSUME NEW a \in Figure, NEW b \in Figure
    PROVE  /\ Differential(a, b) \in Int
           /\ Differential(b, a) = NoFigure <=> Differential(a, b) = NoFigure
           /\ Differential(a, b) # NoFigure => Differential(b, a) = -Differential(a, b)
           /\ Differential(a, b) # NoFigure <=> a # NoFigure /\ b # NoFigure
           /\ Differential(a, b) # NoFigure => Differential(a, b) = a - b
<1>1. a \in Int /\ b \in Int /\ NoFigure \in Int
  BY FigureInt, FurthestIs
<1>2. CASE NoFigure \in {a, b}
  BY <1>1, <1>2 DEF Differential
<1>3. CASE NoFigure \notin {a, b}
  <2>1. a - b # NoFigure /\ b - a # NoFigure
    BY <1>3, FigureInt, FurthestIs
  <2>2. Differential(a, b) = a - b /\ Differential(b, a) = b - a
    BY <1>3 DEF Differential
  <2>3. QED
    BY <1>1, <1>3, <2>1, <2>2
<1>4. QED
  BY <1>2, <1>3

LEMMA WeightedOpposed ==
    ASSUME NEW a \in Figure, NEW b \in Figure, NEW weight \in {20, -10}, NEW limit \in Nat
    PROVE  /\ Weighted(weight, limit, Differential(a, b)) \in Int
           /\ Weighted(weight, limit, Differential(b, a)) = -Weighted(weight, limit, Differential(a, b))
<1> DEFINE d == Differential(a, b)
           e == Differential(b, a)
<1>1. d \in Int /\ (e = NoFigure <=> d = NoFigure) /\ (d # NoFigure => e = -d)
  BY DifferentialOpposed
<1> HIDE DEF d, e
<1>2. weight * d \in Int /\ weight * (-d) = -(weight * d)
  BY <1>1
<1>3. Clamp(limit, weight * d) \in Int /\ Clamp(limit, -(weight * d)) = -Clamp(limit, weight * d)
  BY <1>2, ClampIs
<1>4. CASE d = NoFigure
  <2>1. Weighted(weight, limit, d) = 0 /\ Weighted(weight, limit, e) = 0
    BY <1>1, <1>4 DEF Weighted
  <2>2. Weighted(weight, limit, d) \in Int /\ Weighted(weight, limit, e) = -Weighted(weight, limit, d)
    <3>1. 0 \in Int /\ \A n \in Int : n = 0 => -n = n
      OBVIOUS
    <3>2. QED
      BY <2>1, <3>1, Zenon
  <2>3. QED
    BY <2>2 DEF d, e
<1>5. CASE d # NoFigure
  <2>1. Weighted(weight, limit, d) = Clamp(limit, weight * d)
    BY <1>5 DEF Weighted
  <2>2. Weighted(weight, limit, e) = Clamp(limit, -(weight * d))
    BY <1>1, <1>2, <1>5 DEF Weighted
  <2>3. QED
    BY <1>3, <2>1, <2>2 DEF d, e
<1>6. QED
  BY <1>4, <1>5

LEMMA ForexOpposed ==
    ASSUME NEW base, NEW quote, NEW figures \in [{base, quote} -> Currency]
    PROVE  AnalyzeForex(quote, base, figures) = -AnalyzeForex(base, quote, figures)
<1> DEFINE b == Fetched(base, figures)
           q == Fetched(quote, figures)
           rates == Weighted(20, 600, Differential(b.rate, q.rate))
           prices == Weighted(-10, 400, Differential(b.cpi, q.cpi))
<1>1. b.rate \in Figure /\ q.rate \in Figure /\ b.cpi \in Figure /\ q.cpi \in Figure
  BY DEF Fetched, Currency, Figure
<1> HIDE DEF b, q
<1>2. /\ rates \in Int /\ Weighted(20, 600, Differential(q.rate, b.rate)) = -rates
  BY <1>1, WeightedOpposed
<1>3. /\ prices \in Int /\ Weighted(-10, 400, Differential(q.cpi, b.cpi)) = -prices
  BY <1>1, WeightedOpposed
<1>4. /\ AnalyzeForex(base, quote, figures) = Clamp(1000, rates + prices)
      /\ AnalyzeForex(quote, base, figures) = Clamp(1000, (-rates) + (-prices))
  BY <1>2, <1>3 DEF AnalyzeForex, b, q
<1> HIDE DEF rates, prices
<1>5. (-rates) + (-prices) = -(rates + prices) /\ rates + prices \in Int
  BY <1>2, <1>3
<1>6. Clamp(1000, -(rates + prices)) = -Clamp(1000, rates + prices)
  BY <1>5 DEF Clamp
<1>7. QED
  BY <1>4, <1>5, <1>6

\* A figure that is the same or higher.
NotLower(g, f) == g = f \/ (f # NoFigure /\ g > f)

LEMMA NotLowerIs ==
    ASSUME NEW f \in Figure, NEW g \in Figure, NotLower(g, f)
    PROVE  /\ f \in Int /\ g \in Int /\ f <= g
           /\ f = NoFigure <=> g = NoFigure
BY FigureInt, FurthestIs DEF NotLower

LEMMA ScoresFall ==
    ASSUME NEW f \in Figure, NEW g \in Figure, NotLower(g, f)
    PROVE  /\ ScoreInterestRate(f) \in Int /\ ScoreInterestRate(g) \in Int
           /\ ScoreInterestRate(g) <= ScoreInterestRate(f)
           /\ ScoreUnemployment(f) \in Int /\ ScoreUnemployment(g) \in Int
           /\ ScoreUnemployment(g) <= ScoreUnemployment(f)
           /\ ScoreInflation(f) \in Int /\ ScoreInflation(g) \in Int
           /\ ScoreInflation(g) <= ScoreInflation(f)
           /\ ScoreUsdStrength(f) \in Int /\ ScoreUsdStrength(g) \in Int
           /\ ScoreUsdStrength(g) <= ScoreUsdStrength(f)
<1>1. f \in Int /\ g \in Int /\ f <= g /\ (f = NoFigure <=> g = NoFigure)
  BY NotLowerIs
<1>2. /\ ScoreInterestRate(f) \in Int /\ ScoreInterestRate(g) \in Int
      /\ ScoreInterestRate(g) <= ScoreInterestRate(f)
  BY <1>1 DEF ScoreInterestRate, Clamp
<1>3. /\ ScoreUnemployment(f) \in Int /\ ScoreUnemployment(g) \in Int
      /\ ScoreUnemployment(g) <= ScoreUnemployment(f)
  BY <1>1 DEF ScoreUnemployment, Clamp
<1>4. /\ ScoreInflation(f) \in Int /\ ScoreInflation(g) \in Int
      /\ ScoreInflation(g) <= ScoreInflation(f)
  BY <1>1 DEF ScoreInflation, Clamp
<1>5. /\ ScoreUsdStrength(f) \in Int /\ ScoreUsdStrength(g) \in Int
      /\ ScoreUsdStrength(g) <= ScoreUsdStrength(f)
  BY <1>1 DEF ScoreUsdStrength, Clamp
<1>6. QED
  BY <1>2, <1>3, <1>4, <1>5

LEMMA EnvironmentFalls ==
    ASSUME NEW f \in Figure, NEW g \in Figure, NotLower(g, f), NEW cpi \in Figure
    PROVE  /\ ScoreRatesEnvironment(f, cpi) \in Int /\ ScoreRatesEnvironment(g, cpi) \in Int
           /\ ScoreRatesEnvironment(g, cpi) <= ScoreRatesEnvironment(f, cpi)
<1> DEFINE d == Differential(f, cpi)
           e == Differential(g, cpi)
<1>1. f \in Int /\ g \in Int /\ f <= g /\ (f = NoFigure <=> g = NoFigure) /\ cpi \in Int
  BY NotLowerIs, FigureInt
<1>2. /\ d \in Int /\ (d # NoFigure <=> f # NoFigure /\ cpi # NoFigure)
      /\ d # NoFigure => d = f - cpi
  BY DifferentialOpposed
<1>3. /\ e \in Int /\ (e # NoFigure <=> g # NoFigure /\ cpi # NoFigure)
      /\ e # NoFigure => e = g - cpi
  BY DifferentialOpposed
<1> HIDE DEF d, e
<1>4. (d = NoFigure <=> e = NoFigure) /\ (d # NoFigure => d <= e)
  BY <1>1, <1>2, <1>3
<1>5. /\ Weighted(-5, 200, d) \in Int /\ Weighted(-5, 200, e) \in Int
      /\ Weighted(-5, 200, e) <= Weighted(-5, 200, d)
  BY <1>2, <1>3, <1>4 DEF Weighted, Clamp
<1>6. QED
  BY <1>5 DEF ScoreRatesEnvironment, d, e

\* Inflation works on the real rate the other way.
LEMMA EnvironmentRises ==
    ASSUME NEW fed \in Figure, NEW f \in Figure, NEW g \in Figure, NotLower(g, f)
    PROVE  /\ ScoreRatesEnvironment(fed, f) \in Int /\ ScoreRatesEnvironment(fed, g) \in Int
           /\ ScoreRatesEnvironment(fed, g) >= ScoreRatesEnvironment(fed, f)
<1> DEFINE d == Differential(fed, f)
           e == Differential(fed, g)
<1>1. f \in Int /\ g \in Int /\ f <= g /\ (f = NoFigure <=> g = NoFigure) /\ fed \in Int
  BY NotLowerIs, FigureInt
<1>2. /\ d \in Int /\ (d # NoFigure <=> fed # NoFigure /\ f # NoFigure)
      /\ d # NoFigure => d = fed - f
  BY DifferentialOpposed
<1>3. /\ e \in Int /\ (e # NoFigure <=> fed # NoFigure /\ g # NoFigure)
      /\ e # NoFigure => e = fed - g
  BY DifferentialOpposed
<1> HIDE DEF d, e
<1>4. (d = NoFigure <=> e = NoFigure) /\ (d # NoFigure => e <= d)
  BY <1>1, <1>2, <1>3
<1>5. /\ Weighted(-5, 200, d) \in Int /\ Weighted(-5, 200, e) \in Int
      /\ Weighted(-5, 200, e) >= Weighted(-5, 200, d)
  BY <1>2, <1>3, <1>4 DEF Weighted, Clamp
<1>6. QED
  BY <1>5 DEF ScoreRatesEnvironment, d, e

LEMMA CotInt ==
    ASSUME NEW cot \in Cots
    PROVE  ScoreCot(cot) \in Int
<1>1. CASE cot = NoReport
  BY <1>1 DEF ScoreCot
<1>2. CASE cot \in [long : Nat, short : Nat]
  <2> DEFINE total == cot.long + cot.short
             net == 500 * (cot.long - cot.short)
  <2>1. total \in Nat /\ net \in Int /\ -net \in Int
    BY <1>2
  <2> HIDE DEF total, net
  <2>2. total # 0 => net \div total \in Int /\ (-net) \div total \in Int
    BY <2>1
  <2>3. total # 0 => Quotient(net, total) \in Int
    BY <2>1, <2>2 DEF Quotient
  <2>4. QED
    BY <2>3 DEF ScoreCot, total, net
<1>3. QED
  BY <1>1, <1>2, ReportAssumption

LEMMA CommodityFalls ==
    ASSUME NEW cot \in Cots, NEW f \in Figure, NEW g \in Figure, NotLower(g, f), NEW cpi \in Figure
    PROVE  AnalyzeCommodity(cot, g, cpi) <= AnalyzeCommodity(cot, f, cpi)
<1> DEFINE before == ScoreCot(cot) + ScoreUsdStrength(f) + ScoreRatesEnvironment(f, cpi)
           after == ScoreCot(cot) + ScoreUsdStrength(g) + ScoreRatesEnvironment(g, cpi)
<1>1. /\ ScoreCot(cot) \in Int /\ ScoreUsdStrength(f) \in Int /\ ScoreUsdStrength(g) \in Int
      /\ ScoreUsdStrength(g) <= ScoreUsdStrength(f)
  BY CotInt, ScoresFall
<1>2. /\ ScoreRatesEnvironment(f, cpi) \in Int /\ ScoreRatesEnvironment(g, cpi) \in Int
      /\ ScoreRatesEnvironment(g, cpi) <= ScoreRatesEnvironment(f, cpi)
  BY EnvironmentFalls
<1>3. before \in Int /\ after \in Int /\ after <= before
  BY <1>1, <1>2
<1> HIDE DEF before, after
<1>4. Clamp(1000, after) <= Clamp(1000, before)
  BY <1>3 DEF Clamp
<1>5. QED
  BY <1>4 DEF AnalyzeCommodity, before, after

LEMMA CommodityRises ==
    ASSUME NEW cot \in Cots, NEW fed \in Figure, NEW f \in Figure, NEW g \in Figure, NotLower(g, f)
    PROVE  AnalyzeCommodity(cot, fed, g) >= AnalyzeCommodity(cot, fed, f)
<1> DEFINE before == ScoreCot(cot) + ScoreUsdStrength(fed) + ScoreRatesEnvironment(fed, f)
           after == ScoreCot(cot) + ScoreUsdStrength(fed) + ScoreRatesEnvironment(fed, g)
<1>1. NotLower(fed, fed)
  BY DEF NotLower
<1>2. ScoreCot(cot) \in Int /\ ScoreUsdStrength(fed) \in Int
  BY <1>1, CotInt, ScoresFall
<1>3. /\ ScoreRatesEnvironment(fed, f) \in Int /\ ScoreRatesEnvironment(fed, g) \in Int
      /\ ScoreRatesEnvironment(fed, g) >= ScoreRatesEnvironment(fed, f)
  BY EnvironmentRises
<1>4. before \in Int /\ after \in Int /\ after >= before
  BY <1>2, <1>3
<1> HIDE DEF before, after
<1>5. Clamp(1000, after) >= Clamp(1000, before)
  BY <1>4 DEF Clamp
<1>6. QED
  BY <1>5 DEF AnalyzeCommodity, before, after

LEMMA IndexFalls ==
    ASSUME NEW region, NEW figures \in [IndexFigures -> Figure], NEW worse \in [IndexFigures -> Figure],
           \A name \in IndexFigures : NotLower(worse[name], figures[name])
    PROVE  AnalyzeIndex(region, worse) <= AnalyzeIndex(region, figures)
<1> DEFINE Given(given, name) == IF name \in RegionFigures[region] THEN given[name] ELSE NoFigure
           Score(given) == ScoreInterestRate(Given(given, "rate"))
                           + ScoreUnemployment(Given(given, "unemployment"))
                           + ScoreInflation(Given(given, "cpi"))
<1>1. CASE region \notin DOMAIN RegionFigures
  BY <1>1 DEF AnalyzeIndex
<1>2. CASE region \in DOMAIN RegionFigures
  <2>1. /\ AnalyzeIndex(region, figures) = Clamp(1000, Score(figures))
        /\ AnalyzeIndex(region, worse) = Clamp(1000, Score(worse))
    BY <1>2 DEF AnalyzeIndex
  <2>2. \A name \in IndexFigures :
            /\ Given(figures, name) \in Figure /\ Given(worse, name) \in Figure
            /\ NotLower(Given(worse, name), Given(figures, name))
    BY DEF Figure, NotLower
  <2>3. "rate" \in IndexFigures /\ "unemployment" \in IndexFigures /\ "cpi" \in IndexFigures
    BY DEF IndexFigures
  <2> HIDE DEF Given
  <2>4. /\ ScoreInterestRate(Given(figures, "rate")) \in Int
        /\ ScoreInterestRate(Given(worse, "rate")) \in Int
        /\ ScoreInterestRate(Given(worse, "rate")) <= ScoreInterestRate(Given(figures, "rate"))
    BY <2>2, <2>3, ScoresFall
  <2>5. /\ ScoreUnemployment(Given(figures, "unemployment")) \in Int
        /\ ScoreUnemployment(Given(worse, "unemployment")) \in Int
        /\ ScoreUnemployment(Given(worse, "unemployment"))
                <= ScoreUnemployment(Given(figures, "unemployment"))
    BY <2>2, <2>3, ScoresFall
  <2>6. /\ ScoreInflation(Given(figures, "cpi")) \in Int
        /\ ScoreInflation(Given(worse, "cpi")) \in Int
        /\ ScoreInflation(Given(worse, "cpi")) <= ScoreInflation(Given(figures, "cpi"))
    BY <2>2, <2>3, ScoresFall
  <2>7. Score(figures) \in Int /\ Score(worse) \in Int /\ Score(worse) <= Score(figures)
    BY <2>4, <2>5, <2>6
  <2> HIDE DEF Score
  <2>8. Clamp(1000, Score(worse)) <= Clamp(1000, Score(figures))
    BY <2>7 DEF Clamp
  <2>9. QED
    BY <2>1, <2>8
<1>3. QED
  BY <1>1, <1>2

\* What is known of a score: the figures it was made from.
ForexScored(i) ==
    /\ i.type = "forex"
    /\ i.figures \in [{i.base, i.quote} -> Currency]
    /\ output = AnalyzeForex(i.base, i.quote, i.figures)
CommodityScored(i) ==
    /\ i.type = "commodity"
    /\ i.cot \in Cots /\ i.fed \in Figures /\ i.cpi \in Figures
    /\ output = AnalyzeCommodity(i.cot, i.fed, i.cpi)
IndexScored(i) ==
    /\ i.type = "index"
    /\ i.figures \in [IndexFigures -> Figures]
    /\ output = AnalyzeIndex(i.region, i.figures)

FundamentalInv ==
    Done("fundamental") =>
        ForexScored(input) \/ CommodityScored(input) \/ IndexScored(input) \/ input.type = "unknown"

LEMMA FiguresTyped == Figures \subseteq Figure
BY ReportAssumption DEF Figure

LEMMA FundamentalStep == FundamentalInv /\ [Next]_vars => FundamentalInv'
<1> SUFFICES ASSUME FundamentalInv, [Next]_vars PROVE FundamentalInv'
  OBVIOUS
<1>1. CASE Forex
  <2>1. PICK base \in Currencies, quote \in Currencies :
            \E figures \in [{base, quote} -> [rate : Figures, cpi : Figures]] :
                /\ input' = [type |-> "forex", base |-> base, quote |-> quote, figures |-> figures]
                /\ output' = AnalyzeForex(base, quote, figures)
    BY <1>1 DEF Forex
  <2>2. PICK figures \in [{base, quote} -> [rate : Figures, cpi : Figures]] :
            /\ input' = [type |-> "forex", base |-> base, quote |-> quote, figures |-> figures]
            /\ output' = AnalyzeForex(base, quote, figures)
    BY <2>1
  <2>3. [rate : Figures, cpi : Figures] \subseteq Currency
    BY FiguresTyped DEF Currency
  <2>4. figures \in [{base, quote} -> Currency]
    BY <2>2, <2>3
  <2>5. /\ input'.type = "forex" /\ input'.base = base /\ input'.quote = quote
        /\ input'.figures = figures
    BY <2>2
  <2>6. ForexScored(input)'
    BY <2>2, <2>4, <2>5 DEF ForexScored
  <2>7. QED
    BY <2>6 DEF FundamentalInv
<1>2. CASE Commodity
  <2>1. PICK cot \in Cots, fed \in Figures, cpi \in Figures :
            /\ input' = [type |-> "commodity", cot |-> cot, fed |-> fed, cpi |-> cpi]
            /\ output' = AnalyzeCommodity(cot, fed, cpi)
    BY <1>2 DEF Commodity
  <2>2. CommodityScored(input)'
    BY <2>1 DEF CommodityScored
  <2>3. QED
    BY <2>2 DEF FundamentalInv
<1>3. CASE Index
  <2>1. PICK region \in {"US", "EU", "none"},
             figures \in [{"rate", "cpi", "unemployment"} -> Figures] :
            /\ input' = [type |-> "index", region |-> region, figures |-> figures]
            /\ output' = AnalyzeIndex(region, figures)
    BY <1>3 DEF Index
  <2>2. IndexScored(input)'
    BY <2>1 DEF IndexScored, IndexFigures
  <2>3. QED
    BY <2>2 DEF FundamentalInv
<1>4. CASE Unrecognised
  BY <1>4 DEF Unrecognised, FundamentalInv
<1>5. CASE RateIndicator \/ IndicatorsFail \/ RateAverages \/ AveragesFail \/ Summarise
  <2>1. part' = part /\ part = "technical"
    BY <1>5 DEF RateIndicator, IndicatorsFail, RateAverages, AveragesFail, Summarise
  <2>2. QED
    BY <2>1 DEF FundamentalInv, Done
<1>6. CASE Candle \/ Recognise \/ Aggregate \/ BuildReport
  <2>1. part' = part /\ part = "market"
    BY <1>6 DEF Candle, Recognise, Aggregate, BuildReport
  <2>2. QED
    BY <2>1 DEF FundamentalInv, Done
<1>7. CASE Pivot \/ CandlestickSignal \/ ChartShape \/ Scan
  <2>1. part' = part /\ part \in {"pivots", "candlestick", "chart", "scanner"}
    BY <1>7 DEF Pivot, CandlestickSignal, ChartShape, Scan
  <2>2. QED
    BY <2>1 DEF FundamentalInv, Done
<1>8. CASE UNCHANGED vars
  BY <1>8 DEF FundamentalInv, ForexScored, CommodityScored, IndexScored, Done, vars
<1>9. QED
  BY <1>1, <1>2, <1>3, <1>4, <1>5, <1>6, <1>7, <1>8 DEF Next

LEMMA PairsInv == FundamentalInv => PairsOpposed
<1> SUFFICES ASSUME FundamentalInv, Done("fundamental"), input.type = "forex"
             PROVE  AnalyzeForex(input.quote, input.base, input.figures) = -output
  BY DEF PairsOpposed
<1>1. ForexScored(input)
  BY DEF FundamentalInv, CommodityScored, IndexScored
<1>2. QED
  BY <1>1, ForexOpposed DEF ForexScored

LEMMA OneWayInv == FundamentalInv => FiguresPullOneWay
<1> DEFINE Higher(f) == {g \in Figures : f # NoFigure /\ g > f}
<1>1. ASSUME FundamentalInv, Done("fundamental"), input.type = "commodity", NEW g \in Higher(input.fed)
      PROVE  AnalyzeCommodity(input.cot, g, input.cpi) <= output
  <2>1. CommodityScored(input)
    BY <1>1 DEF FundamentalInv, ForexScored, IndexScored
  <2>2. /\ input.cot \in Cots /\ input.fed \in Figure /\ input.cpi \in Figure /\ g \in Figure
        /\ NotLower(g, input.fed)
    BY <1>1, <2>1, FiguresTyped DEF CommodityScored, NotLower
  <2>3. QED
    BY <2>1, <2>2, CommodityFalls DEF CommodityScored
<1>3. ASSUME FundamentalInv, Done("fundamental"), input.type = "commodity", NEW g \in Higher(input.cpi)
      PROVE  AnalyzeCommodity(input.cot, input.fed, g) >= output
  <2>1. CommodityScored(input)
    BY <1>3 DEF FundamentalInv, ForexScored, IndexScored
  <2>2. /\ input.cot \in Cots /\ input.fed \in Figure /\ input.cpi \in Figure /\ g \in Figure
        /\ NotLower(g, input.cpi)
    BY <1>3, <2>1, FiguresTyped DEF CommodityScored, NotLower
  <2>3. QED
    BY <2>1, <2>2, CommodityRises DEF CommodityScored
<1>2. ASSUME FundamentalInv, Done("fundamental"), input.type = "index",
             NEW name \in DOMAIN input.figures, NEW g \in Higher(input.figures[name])
      PROVE  AnalyzeIndex(input.region, [input.figures EXCEPT ![name] = g]) <= output
  <2> DEFINE figures == input.figures
             worse == [figures EXCEPT ![name] = g]
  <2>1. IndexScored(input)
    BY <1>2 DEF FundamentalInv, ForexScored, CommodityScored
  <2>2. /\ figures \in [IndexFigures -> Figure] /\ name \in IndexFigures /\ g \in Figure
        /\ output = AnalyzeIndex(input.region, figures)
    BY <1>2, <2>1, FiguresTyped DEF IndexScored
  <2>3. figures[name] # NoFigure /\ g > figures[name]
    BY <1>2
  <2> HIDE DEF figures
  <2>4. /\ worse \in [IndexFigures -> Figure]
        /\ \A n \in IndexFigures : NotLower(worse[n], figures[n])
    BY <2>2, <2>3 DEF NotLower
  <2> HIDE DEF worse
  <2>5. AnalyzeIndex(input.region, worse) <= AnalyzeIndex(input.region, figures)
    BY <2>2, <2>4, IndexFalls
  <2>6. QED
    BY <2>2, <2>5 DEF worse, figures
<1>4. QED
  BY <1>1, <1>2, <1>3 DEF FiguresPullOneWay

(***************************************************************************)
(* The theorems                                                            *)
(***************************************************************************)
ReportInv == TechnicalInv /\ PivotInv /\ ChartInv /\ FundamentalInv

LEMMA ReportInvHolds == Spec => []ReportInv
<1>1. Init => ReportInv
  BY TechnicalInit DEF Init, ReportInv, PivotInv, ChartInv, FundamentalInv, Done
<1>2. ReportInv /\ [Next]_vars => ReportInv'
  BY TechnicalStep, PivotStep, ChartStep, FundamentalStep DEF ReportInv
<1>3. QED
  BY <1>1, <1>2, PTL DEF Spec

\* Whatever the readings, the slopes and the figures: a market, a pair of trend
\* lines and a pair of currencies turned around get the opposite answer.
THEOREM SidesAlikeHolds == Spec => []SidesAlike
<1>1. ReportInv => SidesAlike
  BY TechnicalMirror, ShapesInv, PairsInv DEF ReportInv, SidesAlike
<1>2. QED
  BY <1>1, ReportInvHolds, PTL

\* Whatever the candles, the votes and the figures: the ladders ascend, the
\* whole lies between its parts, and a macro score moves one way with each figure:
\* a commodity's down with the Fed rate and up with inflation, an index's down with
\* the rate, inflation and unemployment.
THEOREM OrdersKeptHolds == Spec => []OrdersKept
<1>1. ReportInv => OrdersKept
  BY TechnicalMirror, PivotsInOrder, OneWayInv DEF ReportInv, OrdersKept
<1>2. QED
  BY <1>1, ReportInvHolds, PTL
=============================================================================
