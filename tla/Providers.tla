------------------------------ MODULE Providers ------------------------------
(***************************************************************************)
(* The provider chain under its callers.  Each analysis owns a chain and   *)
(* runs one fetch per required timeframe at once; the requests of          *)
(* GET /market-data share one chain.  A chain asks its providers in order; *)
(* the metered ones count their answers per UTC day.  A provider's limit   *)
(* is checked and the request started without an await between a failed    *)
(* answer and the next provider, so that is one step here.                 *)
(***************************************************************************)
EXTENDS Naturals, FiniteSets, Sequences, SequencesExt, FiniteSetsExt

CONSTANTS
    Analyses,   \* analyses, each with a chain of its own
    Requests,   \* requests to GET /market-data in flight at a time
    Main,       \* the timeframe the analyses are asked for
    Others,     \* the pivots', the long-term trend's and the scanner's timeframes
    Keys,       \* the providers that have an API key
    Limit,      \* DAILY_RATE_LIMIT
    MaxDay      \* bound: midnights that pass

Metered == {"twelve_data", "fmp"}
Timeframes == {"M15", "H1", "H4", "D1", "W1"}

ASSUME ProvidersAssumption ==
    /\ "market" \notin Analyses /\ IsFiniteSet(Requests)
    /\ Keys \subseteq Metered /\ Limit \in Nat \ {0} /\ MaxDay \in Nat
    /\ Main \in Timeframes \ {"W1"} /\ Others \in Seq(Timeframes)

VARIABLES
    day,        \* the UTC date
    limiter,    \* owner -> metered provider -> its DailyRateLimiter
    answered,   \* history: answers of each metered provider today, per owner
    task,       \* what each fetch is doing
    bundle,     \* what MultiTimeframeFetcher.fetch of each analysis has collected
    cached      \* GET /market-data has a usable entry in its cache

vars == <<day, limiter, answered, task, bundle, cached>>

\* YFinance always, the others when they have a key, by priority.
Chain == SelectSeq(<<"yfinance", "twelve_data", "fmp">>,
                   LAMBDA p : p \in {"yfinance"} \cup Keys)

\* The timeframes of an analysis, each once, in the order they are first named.
Named == <<Main>> \o Others
Seen(i) == \E j \in 1..(i - 1) : Named[j] = Named[i]
Ordered == {i \in DOMAIN Named : ~Seen(i)}
Required ==
    [k \in 1..Cardinality(Ordered) |->
        Named[CHOOSE i \in Ordered : Cardinality({j \in Ordered : j < i}) = k - 1]]

Owners == Analyses \cup {"market"}
TasksOf(o) == IF o = "market" THEN {o} \X Requests ELSE {o} \X ToSet(Required)
Tasks == UNION {TasksOf(o) : o \in Owners}

\* call: "service" under OHLCVCacheService, "direct" without it, "market" for the
\* endpoint; at: the provider asked; from: where the candles came from.
Task == [call : {"service", "direct", "market"}, at : 0..Len(Chain),
         pc : {"start", "await", "rows", "done", "failed"},
         from : {"none", "rows", "cache"} \cup ToSet(Chain)]

Fresh(call) == [call |-> call, at |-> 0, pc |-> "start", from |-> "none"]
Bundle == [pc : {"fetching", "ready", "failed"}, next : 1..(Len(Required) + 1),
           errors : SUBSET Timeframes]

Init ==
    /\ day = 0
    /\ limiter = [o \in Owners |-> [p \in Keys |-> [count |-> 0, date |-> 0]]]
    /\ answered = [o \in Owners |-> [p \in Keys |-> 0]]
    /\ task = [t \in Tasks |-> Fresh(IF t[1] = "market" THEN "market" ELSE "service")]
    /\ bundle = [a \in Analyses |-> [pc |-> "fetching", next |-> 1, errors |-> {}]]
    /\ cached \in BOOLEAN

\* Mutant: a new day does not reset the count.
CheckedNever(l) == [l EXCEPT !.date = day]

\* check() starts a new count on a new date.
Checked(l) == IF l.date # day THEN [count |-> 0, date |-> day] ELSE l

\* Mutant: the limit is passed before it is noticed.
SpentLate(l) == Checked(l).count > Limit

Spent(l) == Checked(l).count >= Limit

Ended(t) == task[t].pc \in {"done", "failed"}
Done(c, from) == [c EXCEPT !.pc = "done", !.from = from]

\* Mutant: when everything failed, the direct fetch is tried for ever.
ExhaustedRetries(c) ==
    {IF c.call = "market" THEN [c EXCEPT !.pc = "failed", !.at = 0] ELSE Fresh("direct")}

\* All providers failed: the service answers from the rows that made it a hit, or
\* raises; then its caller tries again without it, and after that looks for stored
\* rows; the endpoint answers 502.
Exhausted(c) ==
    CASE c.call = "service" -> {Done(c, "rows"), Fresh("direct")}
      [] c.call = "direct" -> {[c EXCEPT !.pc = "rows", !.at = 0]}
      [] c.call = "market" -> {[c EXCEPT !.pc = "failed", !.at = 0]}

\* The chain goes on to its k-th provider, with the limiters `lim` of its owner:
\* those over their limit raise at once and are passed over.
GoOn(t, k, lim) ==
    LET open == {i \in k..Len(Chain) : Chain[i] \in Keys => ~Spent(lim[Chain[i]])}
        stop == IF open = {} THEN Len(Chain) ELSE Min(open)
        asked == {Chain[i] : i \in k..stop}
        moves == IF open = {} THEN Exhausted(task[t])
                 ELSE {[task[t] EXCEPT !.at = stop, !.pc = "await"]} IN
    /\ limiter' = [limiter EXCEPT ![t[1]] =
            [p \in Keys |-> IF p \in asked THEN Checked(lim[p]) ELSE lim[p]]]
    /\ \E c \in moves : task' = [task EXCEPT ![t] = c]

\* The session or a statement of the service fails before it fetches.
ServiceFails(t) ==
    /\ task[t] = Fresh("service")
    /\ task' = [task EXCEPT ![t] = Fresh("direct")]
    /\ UNCHANGED <<day, limiter, answered, bundle, cached>>

\* The endpoint finds a usable entry in its cache.
CacheHit(t) ==
    /\ task[t] = Fresh("market") /\ cached
    /\ task' = [task EXCEPT ![t] = Done(@, "cache")]
    /\ UNCHANGED <<day, limiter, answered, bundle, cached>>

\* A call of the chain begins.
StartFetch(t) ==
    /\ task[t].pc = "start"
    /\ task[t].call = "market" => ~cached
    /\ GoOn(t, 1, limiter[t[1]])
    /\ UNCHANGED <<day, answered, bundle, cached>>

\* An answer without candles, or an HTTP error, counts; the next provider is asked.
AnswerFails(t) ==
    LET o == t[1]
        p == Chain[task[t].at] IN
    /\ task[t].pc = "await"
    /\ GoOn(t, task[t].at + 1,
            IF p \in Keys THEN [limiter[o] EXCEPT ![p].count = @ + 1] ELSE limiter[o])
    /\ answered' = IF p \in Keys THEN [answered EXCEPT ![o][p] = @ + 1] ELSE answered
    /\ UNCHANGED <<day, bundle, cached>>

\* No answer: a timeout or a broken connection is not counted.
AnswerLost(t) ==
    /\ task[t].pc = "await"
    /\ GoOn(t, task[t].at + 1, limiter[t[1]])
    /\ UNCHANGED <<day, answered, bundle, cached>>

\* Candles.  The service may still fail to store them, which forgets the answer.
AnswerGood(t) ==
    LET o == t[1]
        p == Chain[task[t].at] IN
    /\ task[t].pc = "await"
    /\ \/ task' = [task EXCEPT ![t] = Done(@, p)]
       \/ task[t].call = "service" /\ task' = [task EXCEPT ![t] = Fresh("direct")]
    /\ limiter' = IF p \in Keys THEN [limiter EXCEPT ![o][p].count = @ + 1] ELSE limiter
    /\ answered' = IF p \in Keys THEN [answered EXCEPT ![o][p] = @ + 1] ELSE answered
    /\ cached' = (cached \/ task[t].call = "market")
    /\ UNCHANGED <<day, bundle>>

\* After the chain failed twice: rows stored earlier, if there are any to be read.
Salvage(t) ==
    /\ task[t].pc = "rows"
    /\ \/ task' = [task EXCEPT ![t] = Done(@, "rows")]
       \/ task' = [task EXCEPT ![t].pc = "failed"]
    /\ UNCHANGED <<day, limiter, answered, bundle, cached>>

\* Mutant: the main timeframe is forgiven like the others.
CollectForgives(a) ==
    LET tf == Required[bundle[a].next] IN
    /\ bundle[a].pc = "fetching" /\ Ended(<<a, tf>>)
    /\ LET failed == task[<<a, tf>>].pc = "failed" IN
        bundle' = [bundle EXCEPT ![a] =
            [pc |-> IF @.next = Len(Required) THEN "ready" ELSE "fetching",
             next |-> @.next + 1, errors |-> @.errors \cup (IF failed THEN {tf} ELSE {})]]
    /\ UNCHANGED <<day, limiter, answered, task, cached>>

\* fetch awaits its tasks in order.  The main one's failure is raised, and leaves
\* the others running; another's failure leaves an empty timeframe.
Collect(a) ==
    LET tf == Required[bundle[a].next]
        failed == task[<<a, tf>>].pc = "failed" IN
    /\ bundle[a].pc = "fetching" /\ Ended(<<a, tf>>)
    /\ bundle' = [bundle EXCEPT ![a] =
            IF failed /\ tf = Main THEN [@ EXCEPT !.pc = "failed"]
            ELSE [pc |-> IF @.next = Len(Required) THEN "ready" ELSE "fetching",
                  next |-> @.next + 1, errors |-> @.errors \cup (IF failed THEN {tf} ELSE {})]]
    /\ UNCHANGED <<day, limiter, answered, task, cached>>

\* The next request to the endpoint; the entry may have expired or become unusable.
NextRequest(t) ==
    /\ task[t].call = "market" /\ Ended(t)
    /\ task' = [task EXCEPT ![t] = Fresh("market")]
    /\ cached' \in {cached, FALSE}
    /\ UNCHANGED <<day, limiter, answered, bundle>>

Midnight ==
    /\ day < MaxDay
    /\ day' = day + 1
    /\ answered' = [o \in Owners |-> [p \in Keys |-> 0]]
    /\ UNCHANGED <<limiter, task, bundle, cached>>

Answer(t) == AnswerFails(t) \/ AnswerLost(t) \/ AnswerGood(t)
FetchStep(t) == ServiceFails(t) \/ CacheHit(t) \/ StartFetch(t) \/ Answer(t) \/ Salvage(t)

Next ==
    \/ \E t \in Tasks : FetchStep(t) \/ NextRequest(t)
    \/ \E a \in Analyses : Collect(a)
    \/ Midnight

Spec == Init /\ [][Next]_vars

\* Requests end: httpx and yfinance time out, and so do statements.
FairSpec ==
    /\ Spec
    /\ \A t \in Tasks : WF_vars(FetchStep(t))
    /\ \A a \in Analyses : WF_vars(Collect(a))

InFlight(o, p) == {t \in TasksOf(o) : task[t].pc = "await" /\ Chain[task[t].at] = p}

(***************************************************************************)
(* What must hold                                                          *)
(***************************************************************************)
TypeOK ==
    /\ day \in 0..MaxDay
    /\ limiter \in [Owners -> [Keys -> [count : Nat, date : 0..MaxDay]]]
    /\ answered \in [Owners -> [Keys -> Nat]]
    /\ task \in [Tasks -> Task]
    /\ bundle \in [Analyses -> Bundle]
    /\ cached \in BOOLEAN

\* check() comes before the await and increment() after it, so concurrent fetches
\* pass the check together: a limiter's count and the requests behind it stay within
\* the limit and the fetches that can be in flight besides the one that passed.
OvershootBounded ==
    \A o \in Owners, p \in Keys :
        limiter[o][p].count + Cardinality(InFlight(o, p))
            <= Limit + Cardinality(TasksOf(o)) - 1

\* A provider is passed over for its limit only when it has given that many answers
\* today, across midnights that pass between a check and its increment.
SpentIsAnswered ==
    \A o \in Owners, p \in Keys : Spent(limiter[o][p]) => answered[o][p] >= Limit

\* A bundle fails exactly for its main timeframe; a finished one has waited for all
\* its fetches, has the main candles, and lists exactly the timeframes it lacks.
BundleIsTrue ==
    \A a \in Analyses :
        /\ bundle[a].pc = "failed" => task[<<a, Main>>].pc = "failed"
        /\ bundle[a].pc = "ready" =>
            /\ \A t \in TasksOf(a) : Ended(t)
            /\ task[<<a, Main>>].pc = "done"
            /\ bundle[a].errors = {t[2] : t \in {u \in TasksOf(a) : task[u].pc = "failed"}}

\* Every fetch ends, also those a failed main timeframe left behind.
FetchesEnd == \A t \in Tasks : task[t].pc = "start" ~> Ended(t)

\* "rate limiting (800 req/day)" (CHANGELOG.md:803): a provider answers no more
\* than its limit in a day.
DailyQuota ==
    \A p \in Keys : MapThenSumSet(LAMBDA o : answered[o][p], Owners) <= Limit
=============================================================================
