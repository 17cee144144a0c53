----------------------------- MODULE OhlcvCache -----------------------------
(***************************************************************************)
(* Candles of one symbol and timeframe: MultiTimeframeFetcher's            *)
(* _fetch_single_timeframe over OHLCVCacheService.get_ohlcv, called by     *)
(* several analyses at a time, over the rows of ohlcv_cache they share.    *)
(* Rows of different symbols or timeframes never meet.                     *)
(*                                                                         *)
(* Candles are numbered in time.  The newest one is still open and changes *)
(* until the next begins; the older ones are final.  A row is keyed by the *)
(* wall-clock time a provider stamps its candle with, the time zone        *)
(* stripped and not converted: providers stamp in the zone of the exchange *)
(* or in UTC, a change to summer time moves the stamps inside one answer,  *)
(* and four-hour candles are cut from wherever the answer begins.          *)
(***************************************************************************)
EXTENDS Integers

CONSTANTS
    Calls,       \* calls in flight at a time
    LastCandle,  \* bound: the market stops at this candle
    Window,      \* candles a provider returns, up to the newest
    Length,      \* ticks of a wall clock in a candle
    Furthest,    \* ticks between the slowest clock and the fastest
    Clocks       \* what a provider's clock is ahead by, of each candle

Candles == 1..LastCandle

ASSUME OhlcvAssumption ==
    /\ Window \in Nat \ {0}
    /\ LastCandle \in Nat
    /\ Window <= LastCandle
    /\ Length \in Nat \ {0}
    /\ Furthest \in Nat
    /\ Clocks \subseteq [Candles -> 0..Furthest]

VARIABLES
    intraday, \* whether the timeframe is in _INTRADAY_TIMEFRAMES
    market,   \* the newest candle there is
    rows,     \* ohlcv_cache
    recent,   \* whether max(fetched_at) is within _STALENESS_MINUTES
    call,     \* the state of each call
    clocks,   \* the clocks of the answers get_ohlcv has had so far
    late,     \* an open candle was stored after a newer one
    gap       \* an answer was stored that has no candle in common with the rows

ohlcvVars == <<intraday, market, rows, recent, call, clocks, late, gap>>

\* timestamp, as the database keeps it.
Stamp(k, clock) == Length * k + clock[k]
LastStamp == Length * LastCandle + Furthest

\* A row, or a candle of an answer: which candle it is, its timestamp, and
\* whether it was open when it was fetched.
Row == [of : Candles, at : 1..LastStamp, open : BOOLEAN]

\* get_latest_timestamp: the greatest timestamp, 0 without one.
Newest(table) ==
    IF table = {} THEN 0
    ELSE CHOOSE x \in 1..LastStamp :
            (\E r \in table : r.at = x) /\ \A r \in table : r.at <= x

\* What a provider returns when candle n is its newest: that one is open if the
\* market is still in it.
Quote(n, clock) ==
    {[of |-> k, at |-> Stamp(k, clock), open |-> k = market] :
        k \in {j \in Candles : n - Window < j /\ j <= n}}

\* The newest candle an answer may have.  Some end with the one before the
\* market's: the four-hour candles of yfinance leave out the bucket that is not
\* full.
Quotable == {market - 1, market} \cap Candles

CallPCs == {"idle", "age", "fetch", "upsert", "reread", "direct", "salvage",
            "done", "failed"}
Paths == {"none", "miss", "stale", "hit"}

\* How long ago the newest write was: within the five minutes, within them but
\* before the newest candle began, or longer.  No candle is shorter than that.
Ages == {"now", "since", "old"}

\* latest: latest_ts; answer: what the chain returned, {} without an answer;
\* result: what the call returned; hurt: a statement failed in this call.
CallState ==
    [pc : CallPCs, latest : 0..LastStamp, path : Paths,
     answer : SUBSET Row, result : SUBSET Row, hurt : BOOLEAN]

Idle == [pc |-> "idle", latest |-> 0, path |-> "none", answer |-> {},
         result |-> {}, hurt |-> FALSE]

Init ==
    /\ intraday \in BOOLEAN
    /\ market \in Window..LastCandle
    /\ rows = {}
    /\ recent = "old"
    /\ call = [c \in Calls |-> Idle]
    /\ clocks = {}
    /\ late = FALSE /\ gap = FALSE

marketVars == <<intraday, market>>
storeVars == <<rows, recent, clocks, late, gap>>

Step(c, from, s) ==
    /\ call[c].pc = from
    /\ call' = [call EXCEPT ![c] = s]

Goto(c, from, to) == Step(c, from, [call[c] EXCEPT !.pc = to])

\* Nothing a call has read matters after a failure.
Hurt(c, from, to) == Step(c, from, [Idle EXCEPT !.pc = to, !.hurt = TRUE])

Return(c, from, table) ==
    Step(c, from, [call[c] EXCEPT !.pc = "done", !.result = table])

(***************************************************************************)
(* get_ohlcv                                                               *)
(***************************************************************************)
\* The two queries are separate awaits, between which another call may commit.
ReadLatest(c) ==
    /\ Step(c, "idle", [Idle EXCEPT !.pc = "age", !.latest = Newest(rows)])
    /\ UNCHANGED <<marketVars, storeVars>>

\* Miss, stale or hit.
PathOf(latest) ==
    IF latest = 0 THEN "miss" ELSE IF intraday /\ recent = "old" THEN "stale" ELSE "hit"

ReadFetchedAt(c) ==
    /\ Step(c, "age",
            [call[c] EXCEPT !.pc = "fetch", !.path = PathOf(call[c].latest)])
    /\ UNCHANGED <<marketVars, storeVars>>

\* Mutant: the newest stored candle is not fetched again.
DeltaAfter(s) ==
    IF s.path = "hit" THEN {r \in s.answer : r.at > s.latest} ELSE s.answer

\* On a hit only what is stamped from the newest row on is written.
Delta(s) ==
    IF s.path = "hit" THEN {r \in s.answer : r.at >= s.latest} ELSE s.answer

\* The chain returns candles or raises: it never returns an empty list.  Without
\* a delta there is nothing to write.
Fetch(c) ==
    /\ \/ \E n \in Quotable, clock \in Clocks :
            LET s == [call[c] EXCEPT !.answer = Quote(n, clock)] IN
            /\ Step(c, "fetch",
                    [s EXCEPT !.pc = IF Delta(s) = {} THEN "reread" ELSE "upsert"])
            /\ clocks' = clocks \cup {clock}
       \/ /\ Goto(c, "fetch", IF call[c].path = "hit" THEN "reread" ELSE "direct")
          /\ UNCHANGED clocks
    /\ UNCHANGED <<marketVars, rows, recent, late, gap>>

\* Mutant: a row that is there already is inserted a second time.
WrittenTwice(table) == rows \cup table

\* upsert_ohlcv, row by row in the order of the candles: the last write wins.
Written(table) ==
    {r \in rows : \A w \in table : w.at # r.at}
        \cup {w \in table : \A v \in table : v.at = w.at => v.of <= w.of}

\* One transaction.
Commit(c) ==
    LET s == call[c] IN
    /\ rows' = Written(Delta(s))
    /\ recent' = "now"
    /\ late' = (late \/ \E a \in s.answer : a.open /\ a.at < Newest(rows))
    /\ gap' = (gap \/ (rows # {} /\ \A a \in s.answer, r \in rows : a.at # r.at))
    /\ UNCHANGED clocks

\* Mutant: the delta of a hit is written and not committed.
UpsertDeltaUncommitted(c) ==
    /\ IF call[c].path = "hit"
       THEN Goto(c, "upsert", "reread") /\ UNCHANGED storeVars
       ELSE Return(c, "upsert", call[c].answer) /\ Commit(c)
    /\ UNCHANGED marketVars

\* A miss and a stale read return the answer itself.
Upsert(c) ==
    /\ Commit(c)
    /\ IF call[c].path = "hit"
       THEN Goto(c, "upsert", "reread")
       ELSE Return(c, "upsert", call[c].answer)
    /\ UNCHANGED marketVars

\* A hit returns all rows, whatever became of the fetch.
Reread(c) ==
    /\ Return(c, "reread", rows)
    /\ UNCHANGED <<marketVars, storeVars>>

\* A failing statement: a failed write is forgiven on a hit; anything else
\* leaves get_ohlcv, and the candles it had with it.
StatementFails(c) ==
    /\ \/ Hurt(c, "idle", "direct")
       \/ Hurt(c, "age", "direct")
       \/ Hurt(c, "upsert", IF call[c].path = "hit" THEN "reread" ELSE "direct")
       \/ Hurt(c, "reread", "direct")
    /\ UNCHANGED <<marketVars, storeVars>>

(***************************************************************************)
(* The fallbacks of _fetch_single_timeframe                                *)
(***************************************************************************)
DirectFetch(c) ==
    /\ \/ \E n \in Quotable, clock \in Clocks :
            Step(c, "direct",
                 [call[c] EXCEPT !.pc = "done", !.answer = Quote(n, clock),
                                 !.result = Quote(n, clock)])
       \/ Goto(c, "direct", "salvage")
    /\ UNCHANGED <<marketVars, storeVars>>

\* Mutant: the second failure of the chain is final.
GiveUp(c) == Goto(c, "salvage", "failed") /\ UNCHANGED <<marketVars, storeVars>>

\* The rows are the last resort; without any the failure of the chain is raised.
Salvage(c) ==
    /\ \/ rows # {} /\ Return(c, "salvage", rows)
       \/ rows = {} /\ Goto(c, "salvage", "failed")
       \/ Hurt(c, "salvage", "failed")
    /\ UNCHANGED <<marketVars, storeVars>>

\* The caller is done with the answer; the slot stands for a later call.
NextCall(c) ==
    /\ call[c].pc \in {"done", "failed"}
    /\ call' = [call EXCEPT ![c] = Idle]
    /\ UNCHANGED <<marketVars, storeVars>>

(***************************************************************************)
(* Time                                                                    *)
(***************************************************************************)
MarketMoves ==
    /\ market < LastCandle
    /\ recent # "since"
    /\ market' = market + 1
    /\ recent' = IF recent = "now" THEN "since" ELSE "old"
    /\ UNCHANGED <<intraday, rows, clocks, late, gap, call>>

\* _STALENESS_MINUTES pass without a write.
GrowOld ==
    /\ recent # "old"
    /\ recent' = "old"
    /\ UNCHANGED <<marketVars, rows, clocks, late, gap, call>>

Serve(c) ==
    \/ ReadLatest(c) \/ ReadFetchedAt(c) \/ Fetch(c) \/ Upsert(c) \/ Reread(c)
    \/ StatementFails(c) \/ DirectFetch(c) \/ Salvage(c) \/ NextCall(c)

Next == MarketMoves \/ GrowOld \/ \E c \in Calls : Serve(c)

Spec == Init /\ [][Next]_ohlcvVars

(***************************************************************************)
(* What must hold                                                          *)
(***************************************************************************)
\* Types of the variables; the timestamp is the key of a row.
TypeOK ==
    /\ intraday \in BOOLEAN
    /\ market \in Window..LastCandle
    /\ rows \subseteq Row
    /\ \A r, q \in rows : r.at = q.at => r = q
    /\ recent \in Ages
    /\ call \in [Calls -> CallState]
    /\ clocks \subseteq Clocks
    /\ late \in BOOLEAN /\ gap \in BOOLEAN

\* All answers were stamped by one clock, which was not put forward or back.
OneClock == \A o, p \in clocks : \A j, k \in Candles : o[j] = p[k]

\* Between two candles of a table none is missing.
Whole(table) ==
    \A r, q \in table : \A k \in r.of..q.of : \E x \in table : x.of = k

\* Fetching again from the newest row on is enough on one clock: as long as no
\* open candle was stored after a newer one, and no answer was stored that has
\* no candle in common with the rows, every row behind the newest is final and
\* no candle between two rows is missing.
RowsSettled ==
    ~late /\ ~gap /\ OneClock =>
        /\ \A r \in rows : r.open => r.at = Newest(rows)
        /\ Whole(rows)

\* Whether the first of two tables is as new as the second, but for what the
\* clocks differ by.
AsNewAs(result, answer) ==
    \A a \in answer : \E r \in result :
        Length * (a.of - r.of) <= IF OneClock THEN 0 ELSE Furthest

\* A call for which the database works returns candles as new as those the chain
\* answered it with, whatever other calls store meanwhile: on one clock exactly,
\* and where the clock changes (another provider, summer time) older by no more
\* than the clocks differ.  What it takes from the rows goes as far as they went
\* when it began.
ResultIsNew ==
    \A c \in Calls : call[c].pc = "done" /\ ~call[c].hurt =>
        /\ AsNewAs(call[c].result, call[c].answer)
        /\ call[c].path = "hit" \/ call[c].answer = {} =>
              Newest(call[c].result) >= call[c].latest

\* A call for which the database works fails only if nothing was stored when it
\* began: the chain's failures cost freshness and not data.
FailsOnlyWhenEmpty ==
    \A c \in Calls : call[c].pc = "failed" /\ ~call[c].hurt => call[c].latest = 0

\* "Query DB -> fetch only missing candles -> upsert -> return full set": what a
\* call returns is the full set between its first candle and its last.
FullSet == \A c \in Calls : call[c].pc = "done" => Whole(call[c].result)
=============================================================================
