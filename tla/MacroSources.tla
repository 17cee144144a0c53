---------------------------- MODULE MacroSources ----------------------------
(***************************************************************************)
(* The macro data of one fundamental analysis.  The analyzer asks for its  *)
(* indicators one after the other; each has a route through FRED series    *)
(* and national sources.  Every source keeps a positive and a negative     *)
(* cache, and its requests are retried.  The sources live as long as the   *)
(* analysis.  Time passes only while a request is awaited.                 *)
(***************************************************************************)
EXTENDS Naturals, Sequences, SequencesExt, FiniteSetsExt

CONSTANTS
    Values,      \* values an indicator may have
    Fresh,       \* those of them whose month ended at most CPI_MAX_AGE_DAYS ago
    PosTtl,      \* CACHE_TTL_SECONDS, in ticks
    NegTtl,      \* NEGATIVE_CACHE_TTL_SECONDS, in ticks
    MaxRetries,  \* MAX_RETRIES
    MaxClock     \* bound: ticks an analysis may take

ASSUME MacroAssumption ==
    /\ Values # {} /\ Values \subseteq Nat \ {0} /\ Fresh \subseteq Values
    /\ PosTtl \in Nat \ {0} /\ NegTtl \in Nat \ {0}
    /\ MaxRetries \in Nat \ {0} /\ MaxClock \in Nat

None == 0

\* What the three analyzers ask for: of USDJPY, of a commodity, of W20.
ForexProgram == <<"fed_funds_rate", "boj_rate", "cpi_us", "cpi_jp">>
CommodityProgram == <<"cot", "fed_funds_rate", "fed_funds_rate", "cpi_us">>
IndexProgram == <<"pl_rate", "cpi_pl", "unemployment_pl", "gdp_pl">>

\* The class of the instrument chooses the analyzer.
Program(kind) ==
    CASE kind = "forex" -> ForexProgram
      [] kind = "commodity" -> CommodityProgram
      [] kind = "index" -> IndexProgram

Kinds == {"forex", "commodity", "index"}

\* US CPI has a national source behind FRED, JP CPI is OECD's, the Polish CPI has a
\* second FRED series; "cot" is FMP's report.
Route(indicator) ==
    CASE indicator = "cpi_us" -> <<"cpi_us", "bls">>
      [] indicator = "cpi_jp" -> <<"oecd">>
      [] indicator = "cpi_pl" -> <<"cpi_pl", "cpi_pl_annual">>
      [] OTHER -> <<indicator>>

Indicators == UNION {ToSet(Program(k)) : k \in Kinds}
Sources == UNION {ToSet(Route(i)) : i \in Indicators}
Fred == Sources \ {"bls", "oecd", "cot"}

\* The series whose last observation is older than the default window, and those of
\* them that SERIES_LOOKBACK_DAYS widens by hand.
Sparse == {"cpi_pl", "cpi_pl_annual", "gdp_pl"}
Overridden == {"cpi_us", "cpi_pl", "cpi_pl_annual"}

VARIABLES
    clock,
    kind,      \* the instrument analyzed
    results,   \* the answers so far
    call,      \* the request in progress
    pos,       \* positive caches: source -> the value and when it was stored
    neg,       \* negative caches: source -> when the failure was stored
    meta       \* metadata caches of FRED

vars == <<clock, kind, results, call, pos, neg, meta>>

Never == 0  \* instants count from 1

Call == [at : 1..2, pc : {"lookup", "meta", "fetch"}, attempt : 1..MaxRetries,
         wide : BOOLEAN]
Begin(at) == [at |-> at, pc |-> "lookup", attempt |-> 1, wide |-> FALSE]
Stored == [value : Values \cup {None}, when : 0..(MaxClock + 1)]
Nothing == [value |-> None, when |-> Never]

Init ==
    /\ clock = 1 /\ kind \in Kinds
    /\ results = <<>> /\ call = Begin(1)
    /\ pos = [s \in Sources |-> Nothing]
    /\ neg = [s \in Sources |-> Never]
    /\ meta = [s \in Fred |-> [known |-> Never, failed |-> Never]]

Finished == Len(results) = Len(Program(kind))
Indicator == Program(kind)[Len(results) + 1]
Source == Route(Indicator)[call.at]

\* A TTLCache drops an entry ttl after it was stored.
Within(when, ttl) == when # Never /\ clock < when + ttl

\* Mutant: any value FRED has is taken.
UsableStale(indicator, value) == value # None

\* Only the CPI of the countries with a source of their own must be fresh.
Usable(indicator, value) ==
    value # None /\ (indicator = "cpi_us" => value \in Fresh)

\* The source's answer is known: take it, or go on along the route.
Got(value) ==
    IF Usable(Indicator, value)
    THEN results' = Append(results, value) /\ call' = Begin(1)
    ELSE IF call.at < Len(Route(Indicator))
    THEN call' = Begin(call.at + 1) /\ UNCHANGED results
    ELSE results' = Append(results, None) /\ call' = Begin(1)

\* The caches of a source.  FMP's has no negative one.
CacheHit ==
    /\ ~Finished /\ call.pc = "lookup" /\ Within(pos[Source].when, PosTtl)
    /\ Got(pos[Source].value)
    /\ UNCHANGED <<clock, kind, pos, neg, meta>>

NegativeHit ==
    /\ ~Finished /\ call.pc = "lookup" /\ ~Within(pos[Source].when, PosTtl)
    /\ Within(neg[Source], NegTtl)
    /\ Got(None)
    /\ UNCHANGED <<clock, kind, pos, neg, meta>>

\* Mutant: a source is asked although a cache has its value.
MissUncached ==
    /\ ~Finished /\ call.pc = "lookup" /\ ~Within(neg[Source], NegTtl)
    /\ call' = [call EXCEPT !.pc = "fetch"]
    /\ UNCHANGED <<clock, kind, results, pos, neg, meta>>

\* A miss.  FRED first learns the frequency of the series, from its own two caches or
\* by a request, and with it the window to ask for.
Miss ==
    /\ ~Finished /\ call.pc = "lookup"
    /\ ~Within(pos[Source].when, PosTtl) /\ ~Within(neg[Source], NegTtl)
    /\ LET known == Source \in Fred /\ Within(meta[Source].known, PosTtl)
           unknown == Source \in Fred /\ Within(meta[Source].failed, NegTtl) IN
        call' = [call EXCEPT
            !.pc = IF Source \in Fred /\ ~known /\ ~unknown THEN "meta" ELSE "fetch",
            !.wide = known]
    /\ UNCHANGED <<clock, kind, results, pos, neg, meta>>

\* Mutant: the attempts start over.
RetryForever ==
    /\ call.pc \in {"meta", "fetch"}
    /\ call' = [call EXCEPT !.attempt = IF @ < MaxRetries THEN @ + 1 ELSE 1]
    /\ UNCHANGED <<clock, kind, results, pos, neg, meta>>

\* A transient failure of a request that has attempts left.
Retry ==
    /\ call.pc \in {"meta", "fetch"} /\ call.attempt < MaxRetries
    /\ Source # "cot"
    /\ call' = [call EXCEPT !.attempt = @ + 1]
    /\ UNCHANGED <<clock, kind, results, pos, neg, meta>>

MetadataAnswers(ok) ==
    /\ call.pc = "meta"
    /\ meta' = [meta EXCEPT ![Source] =
            IF ok THEN [known |-> clock, failed |-> Never] ELSE [@ EXCEPT !.failed = clock]]
    /\ call' = [call EXCEPT !.pc = "fetch", !.attempt = 1, !.wide = ok]
    /\ UNCHANGED <<clock, kind, results, pos, neg>>

Remember(s, v) ==
    /\ pos' = [pos EXCEPT ![s] = [value |-> v, when |-> clock]]
    /\ neg' = [neg EXCEPT ![s] = Never]

\* The latest observation in the window.
FetchAnswers ==
    /\ call.pc = "fetch"
    /\ Source \in Sparse => call.wide \/ Source \in Overridden
    /\ \E v \in Values : Remember(Source, v) /\ Got(v)
    /\ UNCHANGED <<clock, kind, meta>>

\* Mutant: a failure is not remembered.
ForgetFailure(s) == UNCHANGED neg

RememberFailure(s) ==
    neg' = IF s = "cot" THEN neg ELSE [neg EXCEPT ![s] = clock]

\* No usable observation, an HTTP error, or the attempts are used up.
FetchFails ==
    /\ call.pc = "fetch"
    /\ RememberFailure(Source)
    /\ Got(None)
    /\ UNCHANGED <<clock, kind, pos, meta>>

Tick ==
    /\ call.pc \in {"meta", "fetch"} /\ clock < MaxClock
    /\ clock' = clock + 1
    /\ UNCHANGED <<kind, results, call, pos, neg, meta>>

\* The next analysis makes its own sources.
NextAnalysis ==
    /\ Finished
    /\ clock' = 1 /\ kind' \in Kinds
    /\ results' = <<>> /\ call' = Begin(1)
    /\ pos' = [s \in Sources |-> Nothing]
    /\ neg' = [s \in Sources |-> Never]
    /\ meta' = [s \in Fred |-> [known |-> Never, failed |-> Never]]

Progress ==
    \/ CacheHit \/ NegativeHit \/ Miss \/ Retry
    \/ \E ok \in BOOLEAN : MetadataAnswers(ok)
    \/ FetchAnswers \/ FetchFails

Next == Progress \/ Tick \/ NextAnalysis

Spec == Init /\ [][Next]_vars

\* Requests end: every one has a timeout, FRED's that of the operating system.
FairSpec == Spec /\ WF_vars(Progress)

(***************************************************************************)
(* What must hold                                                          *)
(***************************************************************************)
TypeOK ==
    /\ clock \in 1..(MaxClock + 1) /\ kind \in Kinds
    /\ results \in Seq(Values \cup {None}) /\ Len(results) <= Len(Program(kind))
    /\ call \in Call
    /\ pos \in [Sources -> Stored]
    /\ neg \in [Sources -> 0..(MaxClock + 1)]
    /\ meta \in [Fred -> [known : 0..(MaxClock + 1), failed : 0..(MaxClock + 1)]]

\* A source never has a positive and a negative entry at once, so it does not matter
\* that fetch_series asks them in another order than fetch_series_observation.
OneCacheAnswers ==
    \A s \in Sources : ~(Within(pos[s].when, PosTtl) /\ Within(neg[s], NegTtl))

\* The Fed rate is fetched twice for a commodity, for the strength of the dollar and
\* for the real rate: both scores rest on the same rate, or on none.
SameRateTwice ==
    kind = "commodity" /\ Len(results) >= 3 => results[2] = results[3]

\* A US CPI in the results is fresh, whichever cache or source it is from, and FRED's
\* if FRED's is fresh.
CpiIsFresh ==
    \A i \in 1..Len(results) :
        Program(kind)[i] = "cpi_us" /\ results[i] # None =>
            /\ results[i] \in Fresh
            /\ pos["cpi_us"].value \in Fresh => results[i] = pos["cpi_us"].value

\* An analysis ends: every request is retried at most MAX_RETRIES times, and every
\* route ends.
AnalysisEnds == (results = <<>>) ~> Finished
=============================================================================
