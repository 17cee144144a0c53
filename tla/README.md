# Investment-Assistant in TLA+

Models, model-checking runs and machine-checked proofs for the Investment-Assistant
backend (`src/backend/app`, FastAPI on asyncio). Paths below are relative to
`src/backend/app` unless they say otherwise.

## The system

A client asks for an analysis of a symbol with `POST /analysis`. The server answers
with an id and runs a six-step pipeline in the background: fetch candles, technical
analysis, pattern recognition, fundamental analysis, aggregation, report. The client
follows it over `WS /ws/analysis/{id}` or `GET .../status` and fetches the report
with `GET /analysis/{id}`.

| Part | State it keeps | Operations | Interacts with |
|---|---|---|---|
| Pipeline and API (`orchestration/pipeline.py`, `api/v1/analysis.py`) | `analysis_tasks` (TTL cache of status objects), `_background_tasks`, `_analysis_semaphore`, `_analysis_results`, rows of `analysis_results` | trigger, run, fail, complete, get, get status, watch | everything below |
| WebSocket limiter (`core/ws_connection_limiter.py`) | a Redis hash per address, `_memory`, `_memory_conn_ids` | acquire, release | the WebSocket handler, Redis |
| Result cache (`modules/data_acquisition/redis_cache.py`, `cache.py`) | Redis keys, an in-memory fallback | get, set, invalidate | Redis, the API |
| OHLCV cache and fetch (`ohlcv_cache.py`, `multi_timeframe.py`, `timeframes.py`) | rows of `ohlcv_cache` | get_ohlcv, fetch | the provider chain, the database |
| Provider chain (`fallback_chain.py`, `providers/`, `core/daily_rate_limiter.py`) | a daily count per provider object | fetch_ohlcv, check, increment | the fetch of an analysis, `GET /market-data` |
| Macro sources (`modules/fundamental_analysis/data_sources/`) | positive, negative and metadata caches, made anew for each analysis | fetch_* | FRED, BLS, BFS, StatCan, OECD, FMP |
| Fundamental scoring, aggregation, strategy, technical analysis, patterns | none | pure functions of candles and observations | the pipeline |
| Client identity, authentication, request limits, errors, health | counters inside slowapi | checks around a handler | every endpoint |
| Frontend (`src/frontend/src`) | the page's analysis id, report and socket | submit, follow, reconnect, retry | the API |

What is hard in it: everything runs on one event loop, so code between two awaits is
atomic and anything may happen at an await; status objects are shared by reference
between the pipeline, two GET handlers and any number of sockets; a report is kept in
three places each of which may fail by itself; Redis comes and goes; a process restart
forgets some of the state and not the rest; several workers share one Redis and one
database. `PROJECT.json` lists each such place under `hazards`, with the properties
that watch it.

What makes each part correct:

- pipeline: permits and task references are conserved on every way out; COMPLETED is
  published only when the report can be read; a failure leaves no report; the status
  only moves forward; every accepted analysis ends.
- readers and watchers: a completed analysis is answered with its report while one of
  its places works; what a client was told stays true; a connection always ends.
- limiter: a live connection is counted, a dead one is not for long, a rejection is due
  to live connections and to what faults left behind, and each store keeps to the limit.
- OHLCV cache: on one wall clock a stored candle that is no longer the newest is final
  and no candle between two rows is missing; what a call returns is as new as what it
  found and, up to a difference of clocks, as what it fetched; a fetch that fails costs
  freshness and not data.
- provider chain: the first provider in order that has data answers; one is passed over
  for its limit only when it has given that many answers today; the fetches of an
  analysis all end, also those a failed main timeframe leaves behind.
- macro sources: no source contradicts itself, a rate asked for twice is the same twice,
  a CPI that is too old is not used, and every route ends.
- computation: what is written out apart for rising and falling is treated alike; what
  must be in order is; what is reported as found is there in the candles; a scenario
  risks less than it can win.

## Modules

| Module | Models | State and actions |
|---|---|---|
| `TTLCache` | `cachetools.TTLCache` as used here (external): bounded, least recently used goes first, lifetime renewed by assignment | operators on the sequence of keys |
| `Analysis` | `POST /analysis`, `_run_pipeline`, `AnalysisPipeline`, the registry and the places of a report | one action per stretch of code between awaits, see below |
| `JobService` | nothing of the code: the abstract promise of the service | refuse, accept, start, write report, succeed, fail, lose report, forget |
| `AnalysisRefinement` | `Analysis` implements `JobService` | the refinement mapping |
| `AnalysisRead` | `GET /analysis/{id}` and `RedisCache` as it uses it, beside the engine | `reader`: one record per request in flight |
| `AnalysisWatch` | `WS /ws/analysis/{id}` beside the engine | `watch`: one record per connection |
| `WsLimiter` | the limiter, both stores, several workers, and the connections it admits | one action per call of Redis, per memory section and per step of a connection |
| `OhlcvCache` | `_fetch_single_timeframe` over `OHLCVCacheService`, several calls over the rows of one symbol and timeframe | one action per query, fetch and commit; the market and the clock |
| `Providers` | `FallbackChainManager`, `DailyRateLimiter`, `MultiTimeframeFetcher.fetch`, `GET /market-data`: every caller of the chain | `task`: one record per fetch; one action per answer of a provider, the collection of the fetches, midnight |
| `MacroSources` | the data sources of one fundamental analysis: routes, caches, retries | `call`: the request in progress; one action per cache hit, attempt and answer; time passes at awaits |
| `Technical` | `modules/technical_analysis`: ratings, verdicts, the long-term trend, pivots | operators |
| `Fundamentals` | `modules/fundamental_analysis`: the scores of pairs, commodities and indices | operators |
| `Patterns` | `modules/pattern_recognition`: levels, retracements, impulse-correction-impulse, relevance | operators on a history of candles |
| `Scanner` | the rest of it: the candlestick table, the shapes of trend lines, the scan of several timeframes and its consolidation | operators |
| `Strategy` | `modules/signal_aggregation`, `modules/strategy_generator` | operators |
| `Report` | the pipeline's computing steps over these operators | a market candle by candle, then recognise, aggregate, build; the indicators one by one; the stand-alone functions on small inputs |
| `AnalysisProofs`, `AnalysisClientProofs`, `WsLimiterProofs`, `OhlcvCacheProofs`, `ProvidersProofs`, `MacroSourcesProofs`, `ReportProofs`, `MarketProofs` | theorems | - |
| `MC*` | instances for TLC | inputs and symmetry only |

`AnalysisRead` and `AnalysisWatch` each extend `Analysis` and compose it with their
own clients: `Work` of the engine interleaves with the steps of the handler. Two
smaller compositions instead of one keep the state spaces small; the two kinds of
client meet only through the recency order of the registry, and each of the
compositions has `ReadStatus` to stand for the other's lookups. `Report` extends
`Strategy`, which extends the four modules of operators.

`Analysis` in terms of the code: `status[id]` is the status object, shared by
reference, and `registry` the keys of `analysis_tasks` in order of use; an assignment
to `analysis_tasks` is `Publish`. `pc[id]` is the await a task is at (`fetch`,
`technical`, ... name the step it awaits, `persist` the commit, `cache` the SETEX).
`waiting` and `permits` are the semaphore, `background` is `_background_tasks`. An
action starts when the await returns and ends at the next one, so that `FundamentalDone`
contains the rest of step 4 and all of steps 5 and 6 up to the database session, and
`CacheReport` the return of `set`, `complete()`, the `finally` and the release of the
semaphore. `StepRaises` is an exception in any of these stretches, at each point of
progress it can leave the status in (`RaisedAt`). `RedisStores` is the moment Redis
executes SETEX, apart from the moment its reply is seen. Candles, indicators, scores
and reports are data no property here looks at: a step delivers, delivers nothing, or
raises; what it delivers is the subject of `Report`. Progress is counted in sixths.
Time is not counted: `ExpireStatus` may drop the status of any analysis that is not
running (a running one renews its hour at each step).

In `WsLimiter` one address is modelled, since entries of different addresses never
meet, and time is kept as seconds left, so that the state space is finite without a
horizon. `Tick` does not let a connection hold its slot longer than `MaxAge`: the
handler closes after 60 s, and the TTL is 300 s. `leftRedis` and `leftMem` are history:
the entries whose connection has no use for them any more because something failed (a
lost reply, a failed `accept()`, a failed release, a crash). What a client may be
rejected for is stated with them and with the slots in use, not with the contents of the
stores, so that an entry which a release in good order left there would show.

In `OhlcvCache` candles are numbered in time; of a stored candle only matters whether
it was open or final when it was fetched, since a final candle does not change. A row is
keyed by its `timestamp`, which the service compares and SQLite keeps with the time zone
stripped and not converted (`ohlcv_cache.py:168-170`). So a candle (`of`) and the stamp it
is stored under (`at`) are two things: yfinance stamps in the zone of the exchange, Twelve
Data and FMP in UTC, and each answer of the chain comes by a clock of `Clocks`, which says
how far ahead its stamp of each candle is. A clock need not keep its distance: in a
summer-time change it is put back within one answer. The four-hour candles of yfinance
are cut from wherever its answer begins (`yfinance_provider.py:123-147`): they are candles
of one numbering by a clock of their own, and the last bucket is left out until it is full
(`Quotable`). `rows` is the table for one symbol and timeframe, `recent` how long ago its
newest `fetched_at` is, in the three lengths the code can tell apart. `call[c].pc` is the
await a call is at: the query for the newest row, the one for `fetched_at` (another call
may commit between them), the chain, the upsert, the final select, and the two
fallbacks. The chain is a black box here that returns a window of candles up to the
newest, or raises; it never returns an empty list (`fallback_chain.py:64`), so the
branches for one are not there. `clocks`, `late` and `gap` are history: by which clocks
answers came, and whether an open candle was stored after a newer one, or an answer
without a candle in common with the rows. They are the three ways the rows can go wrong,
which `RowsSettled` names as such; `ResultIsNew` holds in all three, on several clocks up
to what they differ by (`Furthest`).

`Providers` opens that black box and leaves the rows out: `limiter[o][p]` is the
`DailyRateLimiter` of provider `p` in the chain that `o` owns, where each analysis makes a
chain of its own and the requests to `GET /market-data` share one. A fetch asks the
providers in their order; passing over one that has spent its limit and asking the next
is one step, since the code does not await in between; an answer that was lost
(a timeout, a broken connection) is not counted, any other is. When all have failed, the
service either had rows and answers from them, or raises and its caller tries the chain
a second time (`Exhausted`). `answered` is history: what each provider answered today.
`bundle[a]` is how far `MultiTimeframeFetcher.fetch`
has awaited its tasks, of which there is one per different timeframe.

`MacroSources` follows the analyzers through the indicators they ask for, one after the
other, each along its route of sources. A FRED series first needs its frequency, which
has caches of its own and decides the window to ask for (`wide`). `clock` moves only at
awaits, so that entries may expire in the middle of an analysis. The sources are made
anew for each analysis (`NextAnalysis`).

`Report` works through one part of the computation per behaviour (`part`). In the market
part a history grows candle by candle, then `Recognise`, `Aggregate` and `BuildReport`
are the pipeline's steps 3, 5 and 6. Prices are whole numbers and a printed price is
rounded to the cent as the code prints it (`Text`), because the code reads levels back
from their text. A candle opens off the last close by a gap and has a body and two wicks,
so that every high, low, open and close is free of the others. The bounces off the averages
are a list with an entry for each average, also where two are alike. An exponential average is
kept as a fraction over its own power of the period, with no rounding; Python's sort,
which keeps equals in their order, is written out as the list of indices in rank order
(`StableSort`), since the library's `SortSeq` leaves the order of equals open; a `None`
is an empty sequence (`FirstOf`), not a number. Scores are in ten-thousandths.
Candlestick signals (TA-Lib) and fitted trend lines (numpy) are external and given as
inputs; a detector may raise, which the pipeline survives. In the technical part the
indicators are rated one reading at a time together with the reading of the market turned
upside down, so that a mistake in one half of a table shows in the verdict.

Names like `PublishAppends` with a comment `Mutant:` are wrong variants of the
definition after them; no behaviour uses them, and each shows that a property can fail.

## Runs

| Run | Instance | Shows |
|---|---|---|
| `analysis` | 3 ids, 1 permit, 2 tasks, 2 registry entries; cache errors, expiry, restarts | bookkeeping, reports, visibility, the refinement of `JobService`, and that every accepted analysis ends |
| `analysis_failure_cause` | 2 ids, no faults | finding: the cause of a failure is overwritten |
| `read` | 2 ids, 2 readers; Redis flaps, entries expire and are corrupt, restarts | the database makes up for the cache, answers never go back, a refill plants only final reports |
| `watch` | 2 ids, 1 connection of 3 turns; Redis flaps, expiry, restarts; fairness of the handler only | what was told stays true and is backed by a report; a connection ends though its analysis need not |
| `watch_end` | 2 ids, 1 connection, no faults | finding: a connection can close as done without having sent the end |
| `limiter` | 3 connections, 2 workers, limit 1, TTL 2 | counting, caps, rejections due to live connections or faults, leftovers stop counting |
| `ohlcv` | 2 calls, 3 candles, windows of 2, clocks of UTC and of a zone with summer time | what is stored and returned, on every path, with every failure and when clocks change |
| `ohlcv_full_set` | 1 call, 5 candles, windows of 2, one clock | finding: a hit can return a series with a hole |
| `providers` | 1 analysis of 2 timeframes beside 1 request, 1 metered provider of limit 1, 1 midnight | overshoot, counts, the bundle, every fetch ends |
| `providers_quota` | 2 analyses, limit 2, no midnight | finding: the daily limit holds per analysis, not per day |
| `macro` | 2 values of which 1 is fresh, TTLs 3 and 2, 2 attempts, 3 ticks | caches that never contradict each other, the same rate twice, a fresh CPI, every analysis ends |
| `report` | histories of 6 candles of 5 moves, readings on both sides of every threshold, figures on both sides of every band | symmetry, order, that what is found is there, and what a scenario pays |

The bounds. With 3 ids, 2 tasks and 1 permit there are at once one running, one waiting
and one rejected analysis, and a registry of 2 has to evict one of three; more ids repeat
these cases, and the proofs cover every number. One permit suffices for `AnalysisRead`
and `AnalysisWatch`, whose clients look at one id at a time. Two readers are enough for
one to refill or invalidate under the other. Three turns let a connection send, sleep
and time out. In `limiter`, three connections meet a limit of one, two workers are
enough for one to crash or to lack the other's memory, and a TTL of 2 with a buffer of 2
and a maximal age of 1 lets an entry, its hash and its connection end in every order. In
`ohlcv` two calls are what it takes to store under or before each other, and three
candles let the market move past the newest of a first answer of two; a hole takes five
with one call, which `ohlcv_full_set` has. A candle is one tick long and the zone one
tick ahead of UTC until it puts its clocks back, so that a switch shifts a whole candle
and two candles of one answer can have the same stamp. In `providers` two fetches of one
analysis are what it takes to pass a limit together, one midnight to pass between a check
and its increment; the plan names a timeframe twice. In `macro` every entry can expire before it is asked for again,
and a positive entry can outlive the negative one or be outlived. In `report` the
windows of the detectors (swing order, ATR period, lookback, the periods of the two
averages, the least number of candles) are shortened so that six candles hold a swing, an impulse with its correction, and two
levels to cluster; they are constants of `Patterns`, `Scanner` and `Strategy` with the
code's values named beside them. The inputs of the tables are chosen at, just below and
just above each threshold.

Deadlock is checked in every run but `report`: `Quiescent` and the end of an analysis
are the states in which there is nothing left to do. A behaviour of `Report` ends when
its part is worked through. The modules' assumptions are evaluated by TLC in each run.

Faults are a constant of `Analysis`: each run says which of the database, Redis, the
cache and the process may fail, and the properties about reports hold for the sets of
faults that leave one place alone (`ReportSurvives`, `ReadSurvives`; an unreadable cached
report counts as a fault of the cache, since its reader deletes it). With every place
broken at once nothing can be promised, and the code promises nothing.

### Fairness

`Fairness` in `Analysis` is weak fairness of `Run(id)`: the event loop resumes a task
whose await has ended, HTTP and Redis calls have timeouts, and `asyncio.to_thread`
calls terminate. No fairness for clients, expiry, restarts or requests. That the
semaphore wakes in order is in the model (`waiting` is a queue), not an assumption.
`WatchFairSpec` assumes it only of the handler's own loop, whose awaits are sends
(ended by the client, or by uvicorn's keep-alive) and sleeps. `WsLimiter`'s fairness is
that time passes and that an admitted connection gets on. In `Providers` every fetch
gets on, and so does the task that collects them: httpx and yfinance time out. It is
not assumed that a provider ever answers well. In `MacroSources` the analysis gets on;
a request that never fails for good is out, as its attempts are counted.

## Proofs

TLAPS proves, for every value of the constants the modules' assumptions allow:

- `AnalysisProofs`: `TypeCorrect`, `PermitsAreConserved`, `BackgroundTasksLive`,
  `CompletedHasItsReport`, `FailedLeavesNoReport`, `StepsStayInOrder`,
  `RunningStaysVisible`, and `ServiceImplemented`: `Analysis` implements `JobService`.
  Before them, that assigning to and reading from the TTL cache keep it one
  (`SetItemIsCache`, `TouchIsCache`).
- `AnalysisClientProofs`: `ReportsCachedAreFinal`, `CompletedIsAnswered`, `AnswersStand`
  for any number of requests; `ToldStaysTrue`, `CompletedMessageIsBacked` for any number
  of connections and turns.
- `WsLimiterProofs`: `TypeCorrect`, `LiveCounted`, `StoresCapped`,
  `RejectionsJustified`, for every number of connections and workers, every limit and
  TTL with `MaxAge <= Ttl`.
- `OhlcvCacheProofs`: `TypeCorrect`, `RowsAreSettled`, `ResultsAreNew`,
  `FailuresFindNothing`, for every number of calls, length of the market and window, and
  any clocks that differ by at most `Furthest`.
- `ProvidersProofs`: `SpentIsAnsweredHolds`, `OvershootBoundedHolds`,
  `BundleIsTrueHolds`, for any number of analyses, requests, timeframes and midnights,
  and any limit.
- `MacroSourcesProofs`: `OneCacheAnswersHolds`, `SameRateTwiceHolds`, `CpiIsFreshHolds`,
  for any lifetimes, attempts and values.
- `ReportProofs`: `SidesAlikeHolds`, `OrdersKeptHolds`, for any readings, candles,
  slopes, votes and figures.
- `MarketProofs`: `PatternsRealHolds`, `EveryTouchCountedHolds`,
  `StrongVerdictNeverOpposedHolds`, `StrategiesPayHolds`, `StrategiesMirrorHolds`, for
  histories of any length, any detector windows and whatever TA-Lib, numpy and the
  votes say; `ScannerCompleteHolds`, for any lists from any timeframes.

`AnalysisProofs!IInv` strengthens the types by: only queued analyses are in the queue,
once each (`QueueOK`, without which a task could take two permits); permits and
background agree with where the tasks are (`AdmissionOK`); the status of an analysis
fits the place its task is at (`StatusesFit`, without which `failed` could follow a
saved report); a report exists only of an analysis that is saving it, completed, or
was forgotten by a restart (`ReportsOK`); and the place that survives holds it
(`ReportKept`: the row is written before the task can complete when saving cannot
fail, the cached report stays when caching cannot). There is one lemma per action.
`Visible` adds that the registry holds ids of requests only, so that by counting it has
room for the one that is assigned (`RoomForAll`). The refinement maps each action to a
step of `JobService` (`NextSimulates`); besides `IInv` it takes `RowsFirst`, that a
running analysis has a report only when it is about to complete.

`AnalysisClientProofs!ReadInv` says of a request, by where it is, which fault must have
led it there (`RequestOK`): with that, a request that gets to a bare status has met a
fault of each way to the report. `RegistryAlive` says the registry knows nobody from
before a restart, which is why an answer taken back can only be "not found".
`WatchInv` says of the status a connection is sending and of the one it sent last that
the present one went on from it (`Told`): steps counted in order, progress no smaller,
and the same object once it is terminal. That each operation only grows a status takes
that the progress of a running one counts the steps before the current one
(`ProgressOK`).

`WsLimiterProofs!IInv` adds to the types that every live connection has a lease: an
entry in the store that granted it, with at least as much left as its connection has
(`Leases`); that the hash outlives each of its entries (`HashOutlivesEntries`); that a
connection asking for a slot is in neither memory nor the way (`AskingIsFresh`); that
each store has no more entries than the limit (`RedisBound`, `MemoryBound`), from which
the caps follow; and that an entry is held by its connection or was left by a fault
(`OnlyFaultsLeaveEntries`), which every release in good order must keep. From the last,
a full store means that the limit is taken by what may stand against the client
(`FullIsJustified`), which is `RejectionsJustified`.

`OhlcvCacheProofs` first shows that a table with a row has a newest one (the `CHOOSE`
in `Newest` picks something), from the well-foundedness of the naturals. Its `IInv` says
that every row is stamped by a clock that answers came by (`Stamped`), and of every call,
given where it is, how its `latest` and its answer compare with the newest row
(`CallOK`), which is monotone in the rows and in the clocks, so that a step of one call
can only help the others; `QuietStep` covers the steps that write nothing, and
`CommitSettles` the one that does: on one clock the order of stamps is that of the
candles, the delta starts at or before the newest row, so the candle that was open is
written again, and the answer leaves no hole unless it is short. On several clocks a
stamp that is no later than another belongs to a candle that is later by at most the
difference of the clocks, whence the bound of `ResultIsNew`: what a hit does not write
is stamped before the newest row.

`ProvidersProofs!CountInv`: a count of today is no more than today's answers, and a count
of an earlier day bears an earlier date. `OvershootBounded` takes in addition `TasksInv`,
which knows each fetch, and that a count together with the requests that wait behind it
(`Behind`) stays within the limit plus the other fetches of the owner (`Bound`): a fetch
joins them only after a check that found the count below the limit, and an answer turns
one waiting into one counted. `BundleInv` says of every point of the collection that the
fetches before it are over, that none of them was a failed main timeframe, and that the
errors noted are exactly those of the failed ones (`Collected`); that those fetches
cannot change any more is what makes it inductive.

`MacroSourcesProofs!MacroInv`: a request is under way only after a miss of both caches
(`AskedOnMiss`), and between the two questions for the Fed rate the first answer stands
in one of them (`RateRemembered`): no time passes between them. `CpiInv` follows FRED's
series through an analysis, which asks for it once: its cache is empty until then, holds
nothing fresh while the route is at a later source, and what it holds afterwards is what
was answered, if it is fresh. Without the first part an old entry could be answered from
the cache past the check of its date.

`ReportProofs!ReportInv` keeps, while a part is worked on, what its result is made of;
the work is in the lemmas about the operators: every band table rates the mirrored reading
oppositely, the counts of the mirrored market are the counts exchanged, the environment
of rates falls with the Fed rate and rises with inflation through both of its clamps
(`CommodityRises`), and so on.

`MarketProofs!MarketInv` says by stage what there is: a history of candles, each with its
low and high around its open and close and all prices positive; from the second stage
patterns whose side, place, price and worth are what a detector can say of that history
(`ScoredFound`); then the decision made from them (`Decided`) and the scenarios built on
it (`Planned`). The invariants the runs check speak of one stage each and are not
inductive: that a scenario pays needs the prices of the patterns to be numbers two stages
earlier. `CandlestickInv` keeps the sign an indication was made from, and `ScannerInv` that
the list is what the consolidator makes of what was shown. The rest is about the
operators, for sequences of any length:

- Sums, the exponential average, the clusters and the library's folds are recursive
  functions. The library's induction theorems take an operator and cannot be cited, so
  that such a function exists, and with it what the model's `CHOOSE` of it stands for, is
  shown from the least number that would contradict it (`MinOfNaturals`); what holds of
  every prefix is then a set of numbers that has 0 and the next of each (`Upwards`), and
  what holds of a sum over a set is a family of subsets that has the empty one and grows
  by an element (`SetInduction`).
- `Filter` and `StableSort` are characterised once, as the elements at the kept or ranked
  indices in that order; that a filtered or sorted list stays sorted, keeps its elements
  and commutes with a renaming follow. The scanner's list, whose groups are filtered from
  a sorted list, and the targets rest on these.
- The levels are clusters stacked one above the other, with a price between every two
  (`Stacked`), so that their printed means rise, while their touches add up to the extrema
  seen so far (`TouchTotal`); both are kept as an extremum is added in the order of prices.
- The direction: a strong verdict weighs as much as the other two sources together at
  their most, so that the score never has the other sign.
- The scenarios: the stop is on the losing side by at least half a true range; a near
  target that is a level is at least the risk away, and one of three true ranges is let
  through by the filter only if it pays; the further one is twice the risk away or beyond
  the near one by the risk, also where the guard at the end has moved it.
- The mirror: the mirrored history has its patterns at the same places in the same order
  (`Facing`), so the levels below an entry are those above the mirrored one, sorting down
  is sorting up, and the first target that reaches a bound is at the same index; then the
  plans face each other (`PlanFacing`), and the filter keeps the same ones, since a ratio
  is made of distances.

The assumptions are those of the modules: positive limits, `Faults` among the listed
kinds, `MaxAge <= Ttl`, `Window <= LastCandle`, candles of at least a tick and clocks that
are ahead by 0 to `Furthest` ticks, finitely many requests in flight; in
`PatternsAssumption` and `ScannerAssumption` that windows, orders and periods are numbers
of candles, those that divide not 0, and the set of periods finite; in `ReportAssumption`
what the inputs of the computing steps are: a reading is a number or missing, with the
missing one out of the range of the numbers; a candle's open and close lie between its low
and its high; a move has wicks that are not negative; a signal names a function of the
table; votes are counts; a macro score is none or within its range. The sets
of ids and connections need not be finite; the cardinalities the code computes are those
of sets the invariant shows finite.

Every invariant and every action property that a passing run checks is a theorem. Only
model-checked is liveness: `AcceptedTerminates`, `ConnectionEnds`, `StaleReclaimed`,
`FetchesEnd`, `AnalysisEnds`. They rest on fairness, whose `ENABLED` none of the
installed provers can treat.

## Findings

- `watch_end`: after `await websocket.send_text` the handler decides from the live
  status object, so an analysis that ends during the send closes the connection with
  RUNNING as its last message (`api/v1/analysis.py:212-218`). The page has no handler
  for a close and keeps waiting.
- `analysis_failure_cause`: `_run_pipeline` overwrites the message of every failure
  with "Pipeline returned no report" (`api/v1/analysis.py:92`).
- `ohlcv_full_set`: the class comment of `OHLCVCacheService` promises the full set; an
  answer that does not reach the newest row leaves a hole that later hits return
  (`ohlcv_cache.py:162-177`), and the candle that was open before the hole keeps the
  values it had then.
- `providers_quota`: every pipeline builds its own chain (`orchestration/pipeline.py:103`),
  whose counters start at zero, so the limit of 800 requests a day is one per analysis;
  and the check comes before the await of the answer, the increment after it.

Seen while modelling, and not claimed otherwise by any text of the repository (or only in
passing):

- timestamps are compared and stored with their time zone stripped and not converted
  (`ohlcv_cache.py:168-170`), though yfinance stamps in the zone of the exchange and Twelve
  Data and FMP in UTC. After a switch of provider, a change to or from summer time, or
  four-hour candles cut from another hour, the delta of a hit is shifted: it can leave
  out the newest candles of the answer, so that the call returns rows older than what it
  fetched, by up to the difference of the clocks (`ResultIsNew`); and rows stay open
  though a newer one is there, lack a candle between two, or hold one candle twice under
  two timestamps (`RowsSettled` is about one clock for that reason);
- an answer of the chain stored after a newer one puts an open candle back over its
  final version, and on a daily timeframe nothing fetches it again (`late` in
  `OhlcvCache`); a write that fails on a miss throws the candles away and asks the chain
  a second time (`multi_timeframe.py:86-95`);
- connections granted by Redis before an outage do not count in the fallback, so a worker
  may hold the limit twice (`StoreCap` says just that); an entry of `_memory_conn_ids`
  whose `accept()` failed is never removed;
- flags and pennants are never detected: the search for a prior impulse gets the window
  of the pattern only (`chart_patterns.py:101`); a rising lower line counts as converging
  even when the lines diverge (`chart_patterns.py:138`); a symmetric triangle and a Doji
  are always bullish;
- the guard on the second target called unreachable (`sl_tp_calculator.py:157-159`) is
  reached through two levels whose printed prices coincide; levels and retracements are
  read back from texts of two decimals, coarse for a currency pair; the pattern of a
  level has that very level as its target;
- in a market without a range (ATR 0) a scenario has stop, entry and target at one price
  and no ratio, and passes the filter; the filter lets ratios through that are short by
  less than the rounding of their text;
- levels are clustered from the lowest up, so a mirrored market may have other levels;
- the złoty has no rate and no CPI in the tables, so its pairs are scored on the other
  currency alone; two commodities have no position report;
- the docstring of the index score says that low unemployment may signal overheating
  (`indices.py:108`); the rule has no such case, the score rises the lower it is, and
  `OrdersKept` states the rule;
- raising the Fed rate lowers a commodity's score twice, by the dollar and by the real
  rate, while inflation raises it (`commodities.py:69-94`), so that its figures pull
  opposite ways;
- without daily candles the pivots are those of the previous candle of the main timeframe.

## Not modelled

- Client identity (`core/client_identity.py`): a function of one request's headers
  without state, whose cases are its branches.
- The frontend: effects and state of a page run by React. What the server owes it is in
  `AnalysisWatch` and `AnalysisRead`; the page's retries of the report rest on
  `CompletedMessageHasReport`.
- The indicator formulas (pandas_ta), TA-Lib's candlestick functions and the regression
  of trend lines (numpy): floating-point library calls, which are inputs here. The
  texts of rationales and descriptions.
- What a source reads out of an HTTP answer: an answer has a usable value or not.
- `POST /technical-analysis`, `/patterns` and `/fundamental-analysis`: they keep no
  state and call the functions `Report` and `MacroSources` model; the search for symbols
  and the quote are reads.
- Authentication, the request limit, errors, logging, health: stateless checks around a
  handler, and slowapi's counters.
- Deployment, CI, scripts and the offline threshold calibration, which no handler calls.
- Pools and sessions of the database and Redis clients, which are library code.
