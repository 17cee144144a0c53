------------------------------ MODULE MCReport -------------------------------
(***************************************************************************)
(* Report for TLC: readings on both sides of every threshold, histories of *)
(* six candles of a currency pair near 1.10.  A unit of price is 1/27 of a *)
(* cent and every price a multiple of 8 of them, so that no mean is printed*)
(* from exactly half a cent and every half of a range is a whole number.   *)
(***************************************************************************)
EXTENDS Report

One(values) == {<<v>> : v \in values \cup {NoValue}}
Few == <<NoValue, NoValue, NoValue>>

MCReadings ==
    [rsi |-> One({19, 20, 29, 50, 80, 81}), stochastic |-> One({19, 50, 80, 81}),
     cci |-> One({-201, -101, -100, 150, 201}),
     adx |-> {<<a, p, m>> : a \in {19, 20, 40}, p, m \in {10, 20}} \cup {Few},
     awesome_oscillator |-> One({-1, 0, 1}), momentum |-> One({-1, 1}),
     macd_crossover |-> {<<1, 2>>, <<2, 1>>, <<1, 1>>, <<1, NoValue>>},
     williams_r |-> One({-81, -80, -10}), ultimate_oscillator |-> One({29, 30, 71}),
     atr |-> One({5}), bull_bear_power |-> One({-1, 1}), stochrsi |-> One({19, 81}), roc |-> One({0, 1})]

MCPivotCandles ==
    {<<>>} \cup
    {<<[open |-> o, high |-> 9, low |-> lo, close |-> c]>> : o \in {6, 7}, lo \in {4, 5}, c \in {5, 6, 7, 9}} \cup
    {<<[open |-> 6, high |-> 9, low |-> 5, close |-> c], [open |-> 5, high |-> 5, low |-> 5, close |-> 5]>> : c \in {5, 8}}

Votes(b, s, n) == [buy |-> b, sell |-> s, neutral |-> n]
MCVerdicts ==
    {[votes |-> Votes(9, 2, 1), fundamental |-> -1000], [votes |-> Votes(7, 3, 2), fundamental |-> NoScore],
     [votes |-> Votes(2, 9, 1), fundamental |-> 600], [votes |-> Votes(3, 7, 2), fundamental |-> -200],
     [votes |-> NoVotes, fundamental |-> 0]}

MCCots == {NoReport} \cup [long : {0, 30, 90}, short : {0, 45}]

Scored(name, bullish, relevance, confidence) ==
    [name |-> name, category |-> "candlestick", bullish |-> bullish, relevance |-> relevance,
     confidence |-> confidence, reliability |-> 2]
MCLists ==
    {<<>>, <<Scored("a", TRUE, 6000, 70)>>, <<Scored("a", FALSE, 6000, 70)>>,
     <<Scored("b", TRUE, 7000, 70), Scored("a", TRUE, 6000, 50)>>,
     <<Scored("a", FALSE, 7000, 50), Scored("a", TRUE, 5000, 100)>>,
     <<Scored("a", TRUE, 7000, 70), Scored("a", TRUE, 6000, 70)>>}

MCExternal ==
    {[signals |-> <<>>, lines |-> NoLines, failed |-> "none"],
     [signals |-> <<[func |-> "ENGULFING", raw |-> -100, at |-> 6], [func |-> "HAMMER", raw |-> 200, at |-> 3]>>,
      lines |-> [upper |-> -120, lower |-> 120, fitted |-> TRUE], failed |-> "support_resistance"]}
Move(gap, body, upper, lower) == [gap |-> gap, body |-> body, upper |-> upper, lower |-> lower]
MCMoves == {Move(0, -16, 8, 0), Move(0, -8, 0, 0), Move(8, 0, 0, 0), Move(0, 8, 0, 8), Move(0, 24, 0, 0)}
MCFigures == {NoFigure, 0, 15, 30, 65}
MCSlopes == {-310, -150, -101, -100, -99, -60, -50, -40, 0, 40, 50, 60, 99, 100, 101, 150, 310}
=============================================================================
