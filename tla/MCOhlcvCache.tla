---------------------------- MODULE MCOhlcvCache ----------------------------
(***************************************************************************)
(* OhlcvCache for TLC: two calls over a market of a few candles, each one  *)
(* tick of the clock long.                                                 *)
(***************************************************************************)
EXTENDS OhlcvCache, TLC

UTC == [k \in Candles |-> 0]

\* As London's hours are: ahead of UTC by one until the clocks are put back when
\* the third candle begins.
London == [k \in Candles |-> IF k < 3 THEN 1 ELSE 0]

BothClocks == {UTC, London}
OnlyUTC == {UTC}

Symmetry == Permutations(Calls)
=============================================================================
