------------------------- MODULE MacroSourcesProofs -------------------------
(***************************************************************************)
(* Theorems about MacroSources, for all lifetimes of the caches, numbers   *)
(* of retries and values.                                                  *)
(***************************************************************************)
EXTENDS MacroSources, TLAPS

\* What is known of a call and of the caches, whatever the bounds.
Calls == [at : Nat, pc : {"lookup", "meta", "fetch"}, attempt : Nat, wide : BOOLEAN]

CachesOK ==
    /\ clock \in Nat \ {0}
    /\ kind \in Kinds
    /\ results \in Seq(Nat) /\ Len(results) <= 4
    /\ call \in Calls
    /\ pos \in [Sources -> [value : Nat, when : Nat]]
    /\ neg \in [Sources -> Nat]

\* A call is somewhere on the route of an indicator.
OnRoute ==
    IF Finished THEN call.pc = "lookup" ELSE call.at \in 1..Len(Route(Indicator))

\* A source is asked only after its positive cache had nothing, and time cannot bring
\* an entry back.
AskedOnMiss == call.pc \in {"meta", "fetch"} => ~Within(pos[Source].when, PosTtl)

\* Both requests for the Fed rate have one source.
Rate == "fed_funds_rate"
AsksRate == kind = "commodity" /\ Len(results) \in {1, 2}

\* Between the two requests for the Fed rate no time passes: the second is at its
\* lookup, and the cache that answers it holds what the first one was answered.
RateRemembered ==
    kind = "commodity" /\ Len(results) = 2 =>
        /\ call.pc = "lookup"
        /\ \/ Within(pos[Rate].when, PosTtl) /\ results[2] = pos[Rate].value
           \/ /\ ~Within(pos[Rate].when, PosTtl) /\ Within(neg[Rate], NegTtl)
              /\ results[2] = None

MacroInv ==
    /\ CachesOK
    /\ OnRoute
    /\ AskedOnMiss
    /\ OneCacheAnswers
    /\ AsksRate => call.at = 1
    /\ RateRemembered
    /\ SameRateTwice

(***************************************************************************)
(* Programs and routes                                                     *)
(***************************************************************************)
\* What Append does, in the form the proofs below use it.
LEMMA Appended ==
    ASSUME NEW s \in Seq(Nat), NEW w \in Nat
    PROVE  /\ Append(s, w) \in Seq(Nat)
           /\ Len(Append(s, w)) = Len(s) + 1
           /\ Append(s, w)[Len(s) + 1] = w
           /\ \A i \in 1..Len(s) : Append(s, w)[i] = s[i]
OBVIOUS

\* Every analysis asks for four indicators.
LEMMA FourIndicators ==
    ASSUME NEW k \in Kinds
    PROVE  /\ Len(Program(k)) = 4
           /\ \A i \in 1..4 : Program(k)[i] \in Indicators
<1>1. Len(Program(k)) = 4 /\ DOMAIN Program(k) = 1..4
    <2>1. CASE k = "forex"
        BY <2>1 DEF Program, ForexProgram, CommodityProgram, IndexProgram
    <2>2. CASE k = "commodity"
        BY <2>2 DEF Program, ForexProgram, CommodityProgram, IndexProgram
    <2>3. CASE k = "index"
        BY <2>3 DEF Program, ForexProgram, CommodityProgram, IndexProgram
    <2> QED BY <2>1, <2>2, <2>3 DEF Kinds
<1>2. \A i \in 1..4 : Program(k)[i] \in ToSet(Program(k))
    BY <1>1 DEF ToSet
<1> QED BY <1>1, <1>2 DEF Indicators

\* Every route has a first source.
LEMMA RouteStarts ==
    ASSUME NEW i
    PROVE  /\ Len(Route(i)) \in Nat \ {0}
           /\ \A n \in 1..Len(Route(i)) : Route(i)[n] \in ToSet(Route(i))
<1>1. \/ Route(i) = <<"cpi_us", "bls">> \/ Route(i) = <<"oecd">>
      \/ Route(i) = <<"cpi_pl", "cpi_pl_annual">> \/ Route(i) = <<i>>
    BY DEF Route
<1>2. Len(Route(i)) \in Nat \ {0} /\ DOMAIN Route(i) = 1..Len(Route(i))
    BY <1>1
<1> QED BY <1>2 DEF ToSet

\* The source of a call is one of the sources.
LEMMA SourceIsOne == MacroInv /\ ~Finished => Source \in Sources
<1> SUFFICES ASSUME MacroInv, ~Finished PROVE Source \in Sources
    OBVIOUS
<1>1. Len(Program(kind)) = 4 /\ \A i \in 1..4 : Program(kind)[i] \in Indicators
    BY FourIndicators DEF MacroInv, CachesOK
<1>2. Len(results) \in Nat /\ Len(results) <= 4 /\ Len(results) # 4
    BY <1>1 DEF MacroInv, CachesOK, Finished
<1>3. Indicator \in Indicators
    <2>1. \A n \in Nat : n <= 4 /\ n # 4 => n + 1 \in 1..4
        OBVIOUS
    <2>2. Len(results) + 1 \in 1..4
        BY <1>2, <2>1
    <2> QED BY <1>1, <2>2 DEF Indicator
<1>4. Source \in ToSet(Route(Indicator))
    BY RouteStarts DEF MacroInv, OnRoute, Source
<1> QED BY <1>3, <1>4 DEF Sources

\* The second and the third request of a commodity's analysis go to the source of the
\* Fed rate, and nowhere after it.
LEMMA RateRoute ==
    ASSUME AsksRate
    PROVE  Indicator = Rate /\ Len(Route(Indicator)) = 1 /\ (call.at = 1 => Source = Rate)
<1>1. Program(kind) = <<"cot", "fed_funds_rate", "fed_funds_rate", "cpi_us">>
    BY DEF AsksRate, Program, ForexProgram, CommodityProgram, IndexProgram
<1>2. Indicator = Rate
    <2>1. CASE Len(results) = 1
        BY <1>1, <2>1 DEF Indicator, Rate
    <2>2. CASE Len(results) = 2
        BY <1>1, <2>2 DEF Indicator, Rate
    <2> QED BY <2>1, <2>2 DEF AsksRate
<1>3. Route(Rate) = <<Rate>>
    BY DEF Route, Rate
<1> QED BY <1>2, <1>3 DEF Source

\* An answer ends the call or sends it along its route.
LEMMA GotMoves ==
    ASSUME MacroInv, ~Finished, NEW v \in Nat, Got(v), UNCHANGED kind
    PROVE  /\ call' \in Calls /\ call'.pc = "lookup"
           /\ \/ results' = results /\ call.at < Len(Route(Indicator))
              \/ call'.at = 1 /\ \E w \in {v, None} : results' = Append(results, w)
           /\ Indicator # "cpi_us" /\ ~(call.at < Len(Route(Indicator)))
                => results' = Append(results, v)
           /\ results' \in Seq(Nat) /\ Len(results') <= 4
           /\ OnRoute'
<1>0. None \in Nat /\ results \in Seq(Nat) /\ call.at \in Nat
    BY DEF None, MacroInv, CachesOK, Calls
<1>1. Len(Program(kind)) = 4 /\ Len(results) \in Nat /\ Len(results) < 4
    <2>1. Len(Program(kind)) = 4
        BY FourIndicators DEF MacroInv, CachesOK
    <2>2. results \in Seq(Nat) /\ Len(results) <= 4
        BY DEF MacroInv, CachesOK
    <2>3. Len(results) \in Nat /\ Len(results) # 4
        BY <2>1, <2>2 DEF Finished
    <2>4. \A n \in Nat : n <= 4 /\ n # 4 => n < 4
        OBVIOUS
    <2> QED BY <2>1, <2>2, <2>3, <2>4
<1>2. ASSUME NEW w \in {v, None}, results' = Append(results, w), call' = Begin(1),
             Indicator = "cpi_us" \/ w = v
      PROVE  /\ call' \in Calls /\ call'.pc = "lookup" /\ call'.at = 1
             /\ results' \in Seq(Nat) /\ Len(results') <= 4 /\ OnRoute'
    <2>1. call' \in Calls /\ call'.pc = "lookup" /\ call'.at = 1
        BY <1>2 DEF Begin, Calls, MacroAssumption
    <2>2. results' \in Seq(Nat) /\ Len(results') <= 4
        BY <1>0, <1>1, <1>2, Appended
    <2>3. Len(Route(Indicator')) \in Nat \ {0}
        BY RouteStarts
    <2>4. OnRoute'
        BY <2>1, <2>3 DEF OnRoute
    <2> QED BY <2>1, <2>2, <2>4
<1>3. CASE Usable(Indicator, v)
    <2>1. results' = Append(results, v) /\ call' = Begin(1)
        BY <1>3 DEF Got
    <2> QED BY <2>1, <1>2
<1>4. CASE ~Usable(Indicator, v) /\ call.at < Len(Route(Indicator))
    <2>1. call' = Begin(call.at + 1) /\ results' = results
        BY <1>4 DEF Got
    <2>2. call' \in Calls /\ call'.pc = "lookup" /\ call'.at = call.at + 1
        BY <2>1, <1>0, MacroAssumption DEF Begin, Calls, MacroAssumption
    <2>3. Indicator' = Indicator
        BY <2>1 DEF Indicator
    <2>4. call.at \in 1..Len(Route(Indicator)) /\ Len(Route(Indicator)) \in Nat
        BY RouteStarts DEF MacroInv, OnRoute
    <2>5. OnRoute'
        BY <1>4, <2>2, <2>3, <2>4 DEF OnRoute
    <2> QED BY <1>0, <1>1, <1>4, <2>1, <2>2, <2>5
<1>5. CASE ~Usable(Indicator, v) /\ ~(call.at < Len(Route(Indicator)))
    <2>1. results' = Append(results, None) /\ call' = Begin(1)
        BY <1>5 DEF Got
    <2>2. Indicator # "cpi_us" => v = None
        BY <1>5 DEF Usable
    <2> QED BY <2>1, <2>2, <1>2
<1> QED BY <1>3, <1>4, <1>5

(***************************************************************************)
(* Answers                                                                 *)
(***************************************************************************)
\* An answer keeps the invariant if the caches after it agree with it.
LEMMA AnswerKeeps ==
    ASSUME MacroInv, ~Finished, NEW v \in Nat, Got(v), UNCHANGED <<clock, kind>>,
           pos' \in [Sources -> [value : Nat, when : Nat]], neg' \in [Sources -> Nat],
           OneCacheAnswers',
           Source = Rate =>
               \/ Within(pos[Rate].when, PosTtl)' /\ v = pos'[Rate].value
               \/ ~Within(pos[Rate].when, PosTtl)' /\ Within(neg[Rate], NegTtl)' /\ v = None,
           AsksRate /\ Len(results) = 2 => v = results[2]
    PROVE  MacroInv'
<1>0. results \in Seq(Nat) /\ None \in Nat /\ Len(results) \in Nat
    BY DEF MacroInv, CachesOK, None
<1>1. /\ call' \in Calls /\ call'.pc = "lookup"
      /\ \/ results' = results /\ call.at < Len(Route(Indicator))
         \/ call'.at = 1 /\ \E w \in {v, None} : results' = Append(results, w)
      /\ Indicator # "cpi_us" /\ ~(call.at < Len(Route(Indicator)))
            => results' = Append(results, v)
      /\ results' \in Seq(Nat) /\ Len(results') <= 4
      /\ OnRoute'
    BY GotMoves
<1>2. AskedOnMiss'
    BY <1>1 DEF AskedOnMiss
<1>3. CachesOK'
    BY <1>1 DEF CachesOK, MacroInv
<1>4. SUFFICES (AsksRate => call.at = 1)' /\ RateRemembered' /\ SameRateTwice'
    BY <1>1, <1>2, <1>3 DEF MacroInv
<1>5. CASE AsksRate
    <2>1. Indicator = Rate /\ Source = Rate /\ ~(call.at < Len(Route(Indicator)))
        <3>1. call.at = 1
            BY <1>5 DEF MacroInv
        <3>2. Indicator = Rate /\ Len(Route(Indicator)) = 1 /\ Source = Rate
            BY <1>5, <3>1, RateRoute
        <3> QED BY <3>1, <3>2
    <2>2. results' = Append(results, v) /\ call'.at = 1
        <3>1. results' = Append(results, v)
            BY <1>1, <2>1 DEF Rate
        <3>2. ~(results' = results /\ call.at < Len(Route(Indicator)))
            BY <2>1
        <3> QED BY <1>1, <3>1, <3>2
    <2>3. /\ Len(results') = Len(results) + 1 /\ results'[Len(results) + 1] = v
          /\ \A i \in 1..Len(results) : results'[i] = results[i]
        BY <2>2, <1>0, Appended
    <2>4. CASE Len(results) = 1
        <3>1. Len(results') = 2 /\ results'[2] = v
            BY <2>3, <2>4
        <3>2. RateRemembered'
            BY <3>1, <2>1, <1>1 DEF RateRemembered
        <3>3. SameRateTwice'
            BY <3>1 DEF SameRateTwice
        <3> QED BY <3>2, <3>3, <2>2
    <2>5. CASE Len(results) = 2
        <3>1. Len(results') = 3 /\ results'[3] = v /\ results'[2] = results[2]
            BY <2>3, <2>5
        <3>2. v = results[2]
            BY <1>5, <2>5
        <3> QED BY <3>1, <3>2, <2>2 DEF RateRemembered, SameRateTwice
    <2> QED BY <1>5, <2>4, <2>5 DEF AsksRate
<1>6. CASE ~AsksRate
    <2>1. CASE results' = results
        BY <1>6, <2>1 DEF RateRemembered, SameRateTwice, AsksRate, MacroInv
    <2>2. CASE results' # results
        <3>1. PICK w \in {v, None} : call'.at = 1 /\ results' = Append(results, w)
            BY <1>1, <2>2
        <3>2. /\ Len(results') = Len(results) + 1
              /\ \A i \in 1..Len(results) : results'[i] = results[i]
            BY <3>1, <1>0, Appended
        <3>5. kind' = "commodity" => Len(results) # 1 /\ Len(results) # 2
            BY <1>6 DEF AsksRate
        <3>3. RateRemembered'
            <4>1. \A n \in Nat : n + 1 = 2 => n = 1
                OBVIOUS
            <4>2. ~(kind' = "commodity" /\ Len(results') = 2)
                BY <3>2, <3>5, <1>0, <4>1
            <4> QED BY <4>2 DEF RateRemembered
        <3>4. SameRateTwice'
            <4>1. SUFFICES ASSUME kind = "commodity", Len(results') >= 3
                           PROVE  results'[2] = results'[3]
                BY DEF SameRateTwice
            <4>2. Len(results) >= 3
                <5>1. \A n \in Nat : n + 1 >= 3 /\ n # 2 => n >= 3
                    OBVIOUS
                <5> QED BY <4>1, <3>2, <3>5, <1>0, <5>1
            <4>3. results[2] = results[3]
                BY <4>1, <4>2 DEF SameRateTwice, MacroInv
            <4> QED BY <4>2, <4>3, <3>2, <1>0
        <3> QED BY <3>1, <3>3, <3>4
    <2> QED BY <2>1, <2>2
<1> QED BY <1>5, <1>6

\* A third request that meets what the second left is answered alike.
LEMMA SecondRate ==
    ASSUME MacroInv, AsksRate, Len(results) = 2
    PROVE  /\ Source = Rate /\ call.pc = "lookup"
           /\ \/ Within(pos[Source].when, PosTtl) /\ results[2] = pos[Source].value
              \/ /\ ~Within(pos[Source].when, PosTtl) /\ Within(neg[Source], NegTtl)
                 /\ results[2] = None
<1>1. Source = Rate
    BY RateRoute DEF MacroInv
<1> QED BY <1>1 DEF MacroInv, RateRemembered, AsksRate

\* An entry stored now has not expired.
LEMMA NewIsWithin ==
    ASSUME NEW ttl \in Nat \ {0}, CachesOK
    PROVE  Within(clock, ttl)
BY DEF Within, CachesOK, Never

\* The caches of the source answer.
LEMMA CacheHitKeeps == MacroInv /\ CacheHit => MacroInv'
<1> SUFFICES ASSUME MacroInv, CacheHit PROVE MacroInv'
    OBVIOUS
<1> DEFINE v == pos[Source].value
<1>1. v \in Nat
    BY SourceIsOne DEF MacroInv, CachesOK, CacheHit
<1>2. Got(v) /\ ~Finished /\ UNCHANGED <<clock, kind, pos, neg>>
    BY DEF CacheHit
<1>3. OneCacheAnswers' /\ pos' \in [Sources -> [value : Nat, when : Nat]]
      /\ neg' \in [Sources -> Nat]
    BY <1>2 DEF MacroInv, OneCacheAnswers, Within, CachesOK
<1>4. Source = Rate => Within(pos[Rate].when, PosTtl)' /\ v = pos'[Rate].value
    BY <1>2 DEF CacheHit, Within
<1>5. AsksRate /\ Len(results) = 2 => v = results[2]
    BY SecondRate DEF CacheHit
<1> HIDE DEF v
<1> QED BY <1>1, <1>2, <1>3, <1>4, <1>5, AnswerKeeps

LEMMA NegativeHitKeeps == MacroInv /\ NegativeHit => MacroInv'
<1> SUFFICES ASSUME MacroInv, NegativeHit PROVE MacroInv'
    OBVIOUS
<1>1. None \in Nat
    BY DEF None
<1>2. Got(None) /\ ~Finished /\ UNCHANGED <<clock, kind, pos, neg>>
    BY DEF NegativeHit
<1>3. OneCacheAnswers' /\ pos' \in [Sources -> [value : Nat, when : Nat]]
      /\ neg' \in [Sources -> Nat]
    BY <1>2 DEF MacroInv, OneCacheAnswers, Within, CachesOK
<1>4. Source = Rate => ~Within(pos[Rate].when, PosTtl)' /\ Within(neg[Rate], NegTtl)'
    BY <1>2 DEF NegativeHit, Within
<1>5. AsksRate /\ Len(results) = 2 => None = results[2]
    BY SecondRate DEF NegativeHit
<1> QED BY <1>1, <1>2, <1>3, <1>4, <1>5, AnswerKeeps

\* The request answers, or fails: the source had missed, so no positive entry hides
\* the failure.
LEMMA FetchAnswersKeeps == MacroInv /\ FetchAnswers => MacroInv'
<1> SUFFICES ASSUME MacroInv, FetchAnswers PROVE MacroInv'
    OBVIOUS
<1>1. PICK v \in Values : Remember(Source, v) /\ Got(v)
    BY DEF FetchAnswers
<1>2. v \in Nat /\ ~Finished /\ UNCHANGED <<clock, kind>>
    BY MacroAssumption DEF FetchAnswers, MacroAssumption, MacroInv, OnRoute
<1>3. Source \in Sources
    BY <1>2, SourceIsOne
<1>4. /\ pos' = [pos EXCEPT ![Source] = [value |-> v, when |-> clock]]
      /\ neg' = [neg EXCEPT ![Source] = Never]
    BY <1>1 DEF Remember
<1>5. clock \in Nat /\ pos \in [Sources -> [value : Nat, when : Nat]]
      /\ neg \in [Sources -> Nat] /\ Never \in Nat
    BY DEF MacroInv, CachesOK, Never
<1>6. pos' \in [Sources -> [value : Nat, when : Nat]] /\ neg' \in [Sources -> Nat]
    BY <1>2, <1>4, <1>5
<1>7. OneCacheAnswers'
    BY <1>2, <1>4, <1>5 DEF OneCacheAnswers, Within, MacroInv
<1>8. Source = Rate => Within(pos[Rate].when, PosTtl)' /\ v = pos'[Rate].value
    <2>1. SUFFICES ASSUME Source = Rate
                   PROVE  Within(pos[Rate].when, PosTtl)' /\ v = pos'[Rate].value
        OBVIOUS
    <2>2. pos'[Rate] = [value |-> v, when |-> clock]
        BY <2>1, <1>3, <1>4, <1>5
    <2>3. Within(clock, PosTtl)
        BY NewIsWithin, MacroAssumption DEF MacroAssumption, MacroInv
    <2> QED BY <2>2, <2>3, <1>2 DEF Within
<1>9. ~(AsksRate /\ Len(results) = 2)
    BY SecondRate DEF FetchAnswers
<1> QED BY <1>1, <1>2, <1>6, <1>7, <1>8, <1>9, AnswerKeeps

LEMMA FetchFailsKeeps == MacroInv /\ FetchFails => MacroInv'
<1> SUFFICES ASSUME MacroInv, FetchFails PROVE MacroInv'
    OBVIOUS
<1>1. None \in Nat /\ Got(None) /\ ~Finished /\ UNCHANGED <<clock, kind, pos>>
    BY DEF FetchFails, MacroInv, OnRoute, None
<1>2. Source \in Sources
    BY <1>1, SourceIsOne
<1>3. neg' = IF Source = "cot" THEN neg ELSE [neg EXCEPT ![Source] = clock]
    BY DEF FetchFails, RememberFailure
<1>4. clock \in Nat /\ pos \in [Sources -> [value : Nat, when : Nat]]
      /\ neg \in [Sources -> Nat]
    BY DEF MacroInv, CachesOK
<1>5. pos' \in [Sources -> [value : Nat, when : Nat]] /\ neg' \in [Sources -> Nat]
    BY <1>1, <1>3, <1>4
<1>6. ~Within(pos[Source].when, PosTtl)
    BY DEF MacroInv, AskedOnMiss, FetchFails
<1>7. OneCacheAnswers'
    BY <1>1, <1>3, <1>4, <1>6 DEF OneCacheAnswers, Within, MacroInv
<1>8. Source = Rate => ~Within(pos[Rate].when, PosTtl)' /\ Within(neg[Rate], NegTtl)'
    <2>1. SUFFICES ASSUME Source = Rate
                   PROVE  ~Within(pos[Rate].when, PosTtl)' /\ Within(neg[Rate], NegTtl)'
        OBVIOUS
    <2>2. neg'[Rate] = clock
        BY <2>1, <1>2, <1>3, <1>4 DEF Rate
    <2>3. Within(clock, NegTtl)
        BY NewIsWithin, MacroAssumption DEF MacroAssumption, MacroInv
    <2> QED BY <2>1, <2>2, <2>3, <1>1, <1>6 DEF Within
<1>9. ~(AsksRate /\ Len(results) = 2)
    BY SecondRate DEF FetchFails
<1> QED BY <1>1, <1>5, <1>7, <1>8, <1>9, AnswerKeeps

(***************************************************************************)
(* The other steps                                                         *)
(***************************************************************************)
\* A step of a call that stays at its source and touches neither cache.
LEMMA CallMoves ==
    ASSUME MacroInv, ~Finished, UNCHANGED <<clock, kind, results, pos, neg>>,
           call' \in Calls, call'.at = call.at,
           ~Within(pos[Source].when, PosTtl),
           ~(AsksRate /\ Len(results) = 2)
    PROVE  MacroInv'
<1>1. Indicator' = Indicator /\ Finished' = Finished
    BY DEF Indicator, Finished
<1>2. Source' = Source
    BY <1>1 DEF Source
<1>3. CachesOK' /\ OneCacheAnswers' /\ SameRateTwice'
    BY DEF MacroInv, CachesOK, OneCacheAnswers, SameRateTwice, Within
<1>4. AskedOnMiss'
    BY <1>2 DEF AskedOnMiss, Within
<1>5. OnRoute'
    BY <1>1 DEF OnRoute, MacroInv
<1>6. (AsksRate => call.at = 1)' /\ RateRemembered'
    BY DEF AsksRate, RateRemembered, MacroInv
<1> QED BY <1>3, <1>4, <1>5, <1>6 DEF MacroInv

LEMMA MissKeeps == MacroInv /\ Miss => MacroInv'
<1> SUFFICES ASSUME MacroInv, Miss PROVE MacroInv'
    OBVIOUS
<1>1. call \in Calls
    BY DEF MacroInv, CachesOK
<1>2. PICK p \in {"meta", "fetch"}, b \in BOOLEAN :
          call' = [call EXCEPT !.pc = p, !.wide = b]
    BY DEF Miss, Within
<1>3. call' \in Calls /\ call'.at = call.at
    BY <1>1, <1>2 DEF Calls
<1>4. ~(AsksRate /\ Len(results) = 2)
    BY SecondRate DEF Miss
<1> QED BY <1>3, <1>4, CallMoves DEF Miss

LEMMA RetryKeeps == MacroInv /\ Retry => MacroInv'
<1> SUFFICES ASSUME MacroInv, Retry PROVE MacroInv'
    OBVIOUS
<1>1. call \in Calls
    BY DEF MacroInv, CachesOK
<1>2. call' \in Calls /\ call'.at = call.at
    BY <1>1 DEF Retry, Calls
<1>3. ~Finished /\ ~Within(pos[Source].when, PosTtl)
    BY DEF MacroInv, OnRoute, AskedOnMiss, Retry
<1>4. ~(AsksRate /\ Len(results) = 2)
    BY SecondRate DEF Retry
<1> QED BY <1>2, <1>3, <1>4, CallMoves DEF Retry

LEMMA MetadataKeeps ==
    ASSUME MacroInv, NEW ok \in BOOLEAN, MetadataAnswers(ok)
    PROVE  MacroInv'
<1>1. call \in Calls
    BY DEF MacroInv, CachesOK
<1>2. call' \in Calls /\ call'.at = call.at
    BY <1>1 DEF MetadataAnswers, Calls
<1>3. ~Finished /\ ~Within(pos[Source].when, PosTtl)
    BY DEF MacroInv, OnRoute, AskedOnMiss, MetadataAnswers
<1>4. ~(AsksRate /\ Len(results) = 2)
    BY SecondRate DEF MetadataAnswers
<1> QED BY <1>2, <1>3, <1>4, CallMoves DEF MetadataAnswers

\* Time only takes entries away, and passes only while a request is awaited.
LEMMA TickKeeps == MacroInv /\ Tick => MacroInv'
<1> SUFFICES ASSUME MacroInv, Tick PROVE MacroInv'
    OBVIOUS
<1>1. clock' = clock + 1 /\ UNCHANGED <<kind, results, call, pos, neg>>
    BY DEF Tick
<1>2. Indicator' = Indicator /\ Finished' = Finished
    BY <1>1 DEF Indicator, Finished
<1>3. Source' = Source
    BY <1>1, <1>2 DEF Source
<1>4. ~Finished
    BY DEF MacroInv, OnRoute, Tick
<1>5. Source \in Sources
    BY <1>4, SourceIsOne
<1>6. clock \in Nat /\ PosTtl \in Nat /\ NegTtl \in Nat
      /\ \A s \in Sources : pos[s].when \in Nat /\ neg[s] \in Nat
    BY MacroAssumption DEF MacroInv, CachesOK, MacroAssumption
<1>7. \A s \in Sources : /\ Within(pos[s].when, PosTtl)' => Within(pos[s].when, PosTtl)
                         /\ Within(neg[s], NegTtl)' => Within(neg[s], NegTtl)
    BY <1>1, <1>6 DEF Within
<1>8. OneCacheAnswers'
    BY <1>7 DEF MacroInv, OneCacheAnswers
<1>9. AskedOnMiss'
    BY <1>1, <1>3, <1>5, <1>7 DEF MacroInv, AskedOnMiss
<1>10. CachesOK'
    BY <1>1 DEF MacroInv, CachesOK
<1>11. OnRoute'
    BY <1>1, <1>2 DEF OnRoute, MacroInv
<1>12. ~(AsksRate /\ Len(results) = 2)
    BY SecondRate DEF Tick
<1>13. RateRemembered' /\ SameRateTwice' /\ (AsksRate => call.at = 1)'
    BY <1>1, <1>12 DEF MacroInv, RateRemembered, SameRateTwice, AsksRate
<1> QED BY <1>8, <1>9, <1>10, <1>11, <1>13 DEF MacroInv

\* An analysis starts with empty caches.
Started ==
    /\ clock = 1 /\ kind \in Kinds /\ results = <<>> /\ call = Begin(1)
    /\ pos = [s \in Sources |-> Nothing] /\ neg = [s \in Sources |-> Never]

LEMMA StartedIsFine == Started => MacroInv
<1> SUFFICES ASSUME Started PROVE MacroInv
    OBVIOUS
<1> USE DEF Started
<1>1. call \in Calls /\ call.pc = "lookup" /\ call.at = 1
    BY DEF Begin, Calls
<1>2. results \in Seq(Nat) /\ Len(results) = 0
    OBVIOUS
<1>3. CachesOK
    BY <1>1, <1>2 DEF CachesOK, Nothing, None, Never
<1>4. OnRoute
    BY <1>1, RouteStarts DEF OnRoute
<1>5. AskedOnMiss /\ RateRemembered /\ SameRateTwice
    BY <1>1, <1>2 DEF AskedOnMiss, RateRemembered, SameRateTwice
<1>6. OneCacheAnswers
    BY DEF OneCacheAnswers, Within
<1> QED BY <1>1, <1>3, <1>4, <1>5, <1>6 DEF MacroInv

LEMMA NextKeeps == MacroInv /\ [Next]_vars => MacroInv'
<1> SUFFICES ASSUME MacroInv, [Next]_vars PROVE MacroInv'
    OBVIOUS
<1>1. CASE Progress
    BY <1>1, CacheHitKeeps, NegativeHitKeeps, MissKeeps, RetryKeeps, MetadataKeeps,
       FetchAnswersKeeps, FetchFailsKeeps DEF Progress
<1>2. CASE Tick
    BY <1>2, TickKeeps
<1>3. CASE NextAnalysis
    <2>1. Started'
        BY <1>3 DEF NextAnalysis, Started
    <2> QED BY <2>1, StartedIsFine, PTL
<1>4. CASE UNCHANGED vars
    BY <1>4 DEF vars, MacroInv, CachesOK, OnRoute, AskedOnMiss, OneCacheAnswers, AsksRate,
        RateRemembered, SameRateTwice, Within, Finished, Source, Indicator
<1> QED BY <1>1, <1>2, <1>3, <1>4 DEF Next

LEMMA MacroInvHolds == Spec => []MacroInv
<1>1. Init => MacroInv
    BY StartedIsFine DEF Init, Started
<1> QED BY <1>1, NextKeeps, PTL DEF Spec

(***************************************************************************)
(* The consumer prices of the United States                                *)
(***************************************************************************)
Cpi == "cpi_us"

\* The place of the indicator in the two programs that have it.
Place(k) == IF k = "forex" THEN 3 ELSE 4

\* FRED's series is asked at most once in an analysis: its cache is empty until then,
\* holds nothing fresh while the national source is asked, and what it holds afterwards
\* is what was answered, if it is fresh.
CpiInv ==
    kind # "index" =>
        /\ Len(results) < Place(kind) /\ (Len(results) + 1 = Place(kind) => call.at = 1)
                => pos[Cpi] = Nothing
        /\ Len(results) + 1 = Place(kind) /\ call.at # 1 => pos[Cpi].value \notin Fresh
        /\ Len(results) >= Place(kind) /\ results[Place(kind)] # None =>
               /\ results[Place(kind)] \in Fresh
               /\ pos[Cpi].value \in Fresh => results[Place(kind)] = pos[Cpi].value

LEMMA PlaceIs ==
    ASSUME NEW k \in Kinds, NEW i \in 1..4
    PROVE  Program(k)[i] = Cpi <=> k # "index" /\ i = Place(k)
<1>1. CASE k = "forex"
    <2>1. Program(k) = <<"fed_funds_rate", "boj_rate", "cpi_us", "cpi_jp">>
        BY <1>1 DEF Program, ForexProgram, CommodityProgram, IndexProgram
    <2>2. i = 1 \/ i = 2 \/ i = 3 \/ i = 4
        OBVIOUS
    <2> QED BY <1>1, <2>1, <2>2 DEF Cpi, Place
<1>2. CASE k = "commodity"
    <2>1. Program(k) = <<"cot", "fed_funds_rate", "fed_funds_rate", "cpi_us">>
        BY <1>2 DEF Program, ForexProgram, CommodityProgram, IndexProgram
    <2>2. i = 1 \/ i = 2 \/ i = 3 \/ i = 4
        OBVIOUS
    <2> QED BY <1>2, <2>1, <2>2 DEF Cpi, Place
<1>3. CASE k = "index"
    <2>1. Program(k) = <<"pl_rate", "cpi_pl", "unemployment_pl", "gdp_pl">>
        BY <1>3 DEF Program, ForexProgram, CommodityProgram, IndexProgram
    <2>2. i = 1 \/ i = 2 \/ i = 3 \/ i = 4
        OBVIOUS
    <2> QED BY <1>3, <2>1, <2>2 DEF Cpi, Place
<1> QED BY <1>1, <1>2, <1>3 DEF Kinds

\* Only the indicator's own route leads to FRED's series, and from there to the
\* national source.
LEMMA CpiRoute ==
    ASSUME MacroInv, ~Finished
    PROVE  /\ Len(results) \in 0..3
           /\ Indicator = Cpi <=> kind # "index" /\ Len(results) + 1 = Place(kind)
           /\ Indicator # Cpi => Source # Cpi
           /\ Indicator = Cpi =>
                  /\ call.at \in {1, 2} /\ Len(Route(Indicator)) = 2
                  /\ Source = Cpi <=> call.at = 1
<1>1. Len(results) \in 0..3
    <2>1. Len(Program(kind)) = 4
        BY FourIndicators DEF MacroInv, CachesOK
    <2>2. Len(results) \in Nat /\ Len(results) <= 4 /\ Len(results) # 4
        BY <2>1 DEF MacroInv, CachesOK, Finished
    <2>3. \A n \in Nat : n <= 4 /\ n # 4 => n \in 0..3
        OBVIOUS
    <2> QED BY <2>2, <2>3
<1>2. Indicator = Cpi <=> kind # "index" /\ Len(results) + 1 = Place(kind)
    <2>1. \A n \in 0..3 : n + 1 \in 1..4
        OBVIOUS
    <2>2. Len(results) + 1 \in 1..4
        BY <1>1, <2>1
    <2> QED BY <2>2, PlaceIs DEF Indicator, MacroInv, CachesOK
<1>3. call.at \in 1..Len(Route(Indicator)) /\ call.at \in Nat
    BY DEF MacroInv, OnRoute, CachesOK, Calls
<1>4. CASE Indicator = Cpi
    <2>1. Route(Indicator) = <<"cpi_us", "bls">>
        BY <1>4 DEF Route, Cpi
    <2>2. call.at = 1 \/ call.at = 2
        BY <1>3, <2>1
    <2> QED BY <1>1, <1>2, <1>4, <2>1, <2>2 DEF Source, Cpi
<1>5. CASE Indicator # Cpi
    <2>1. \/ Route(Indicator) = <<"oecd">> \/ Route(Indicator) = <<"cpi_pl", "cpi_pl_annual">>
          \/ Route(Indicator) = <<Indicator>>
        BY <1>5 DEF Route, Cpi
    <2>2. \/ Len(Route(Indicator)) = 1
          \/ Len(Route(Indicator)) = 2 /\ Route(Indicator) = <<"cpi_pl", "cpi_pl_annual">>
        <3>1. Len(<<"oecd">>) = 1 /\ Len(<<Indicator>>) = 1 /\ Len(<<"cpi_pl", "cpi_pl_annual">>) = 2
            OBVIOUS
        <3> QED BY <2>1, <3>1
    <2>3. \A n \in Nat : (n \in 1..1 => n = 1) /\ (n \in 1..2 => n = 1 \/ n = 2)
        OBVIOUS
    <2>4. call.at = 1 \/ (call.at = 2 /\ Route(Indicator) = <<"cpi_pl", "cpi_pl_annual">>)
        BY <1>3, <2>2, <2>3
    <2>5. Source # Cpi
        BY <1>5, <2>1, <2>4 DEF Source, Cpi
    <2> QED BY <1>1, <1>2, <1>5, <2>5
<1> QED BY <1>4, <1>5

\* An answer: only the series' own request writes its cache.
LEMMA CpiAnswer ==
    ASSUME MacroInv, CpiInv, ~Finished, NEW v \in Nat, Got(v), UNCHANGED kind,
           Source # Cpi => pos'[Cpi] = pos[Cpi],
           Source = Cpi => pos'[Cpi].value = v \/ (pos'[Cpi] = pos[Cpi] /\ v = None)
    PROVE  CpiInv'
<1> DEFINE n == Len(results)
           place == Place(kind)
<1>0. SUFFICES ASSUME kind # "index" PROVE CpiInv'
    BY DEF CpiInv
<1>1. /\ n \in 0..3 /\ place \in {3, 4}
      /\ Indicator = Cpi <=> n + 1 = place
      /\ Indicator # Cpi => Source # Cpi
      /\ Indicator = Cpi => /\ call.at \in {1, 2} /\ Len(Route(Indicator)) = 2
                            /\ Source = Cpi <=> call.at = 1
    BY <1>0, CpiRoute DEF Place
<1>2. results \in Seq(Nat) /\ None \in Nat /\ None \notin Fresh
    BY MacroAssumption DEF MacroInv, CachesOK, None, MacroAssumption
<1>3. ASSUME NEW w \in {v, None}
      PROVE  /\ Len(Append(results, w)) = n + 1 /\ Append(results, w)[n + 1] = w
             /\ \A i \in 1..n : Append(results, w)[i] = results[i]
    BY <1>2, Appended
<1>4. \A at : Begin(at).at = at
    BY DEF Begin
<1>5. CASE n + 1 = place
    <2>1. pos[Cpi] = Nothing \/ (call.at = 2 /\ pos[Cpi].value \notin Fresh)
        BY <1>0, <1>1, <1>5 DEF CpiInv
    <2>2. CASE Usable(Indicator, v)
        <3>1. results' = Append(results, v) /\ v \in Fresh /\ v # None
            BY <1>1, <1>5, <2>2 DEF Got, Usable, Cpi
        <3>2. Len(results') = place /\ results'[place] = v
            BY <1>3, <1>5, <3>1
        <3>3. pos'[Cpi].value \in Fresh => pos'[Cpi].value = v
            <4>1. CASE call.at = 1
                BY <1>1, <1>5, <3>1, <4>1
            <4>2. CASE call.at = 2
                BY <1>1, <1>2, <1>5, <2>1, <4>2 DEF Nothing
            <4> QED BY <1>1, <1>5, <4>1, <4>2
        <3> QED BY <1>0, <1>1, <3>1, <3>2, <3>3 DEF CpiInv
    <2>3. CASE ~Usable(Indicator, v) /\ call.at = 1
        <3>1. call.at = 1 /\ Len(Route(Indicator)) = 2
            BY <1>1, <1>5, <2>3
        <3>2. call.at < Len(Route(Indicator)) /\ call.at + 1 = 2
            BY <3>1
        <3>3. results' = results /\ call'.at = 2
            BY <1>4, <2>3, <3>2 DEF Got
        <3>4. v \notin Fresh
            BY <1>1, <1>2, <1>5, <2>3 DEF Usable, Cpi
        <3>5. pos'[Cpi].value \notin Fresh
            BY <1>1, <1>2, <1>5, <2>1, <2>3, <3>4 DEF Nothing
        <3> QED BY <1>0, <1>1, <1>5, <3>3, <3>5 DEF CpiInv
    <2>4. CASE ~Usable(Indicator, v) /\ call.at = 2
        <3>1. call.at = 2 /\ Len(Route(Indicator)) = 2
            BY <1>1, <1>5, <2>4
        <3>2. ~(call.at < Len(Route(Indicator)))
            BY <3>1
        <3>3. results' = Append(results, None)
            BY <2>4, <3>2 DEF Got
        <3>4. Len(results') = place /\ results'[place] = None
            BY <1>3, <1>5, <3>3
        <3> QED BY <1>0, <1>1, <3>4 DEF CpiInv
    <2> QED BY <1>1, <1>5, <2>2, <2>3, <2>4
<1>6. CASE n + 1 # place
    <2>1. pos'[Cpi] = pos[Cpi]
        BY <1>1, <1>6
    <2>2. \/ results' = results
          \/ call'.at = 1 /\ \E w \in {v, None} : results' = Append(results, w)
        BY <1>4 DEF Got
    <2>3. CASE n < place
        <3>1. pos[Cpi] = Nothing /\ n + 1 < place
            BY <1>0, <1>1, <1>6, <2>3 DEF CpiInv
        <3>2. Len(results') <= n + 1 /\ Len(results') \in Nat
              /\ (Len(results') = n + 1 => call'.at = 1)
            BY <1>1, <1>3, <2>2
        <3> QED BY <1>0, <1>1, <1>2, <2>1, <3>1, <3>2 DEF CpiInv, Nothing
    <2>4. CASE n >= place
        <3>1. Len(results') >= place /\ Len(results') \in Nat /\ results'[place] = results[place]
            BY <1>1, <1>3, <2>2, <2>4
        <3> QED BY <1>0, <1>1, <2>1, <2>4, <3>1 DEF CpiInv
    <2> QED BY <1>1, <2>3, <2>4
<1> QED BY <1>5, <1>6

LEMMA CpiSource == Cpi \in Sources
<1>1. DOMAIN Program("forex") = 1..4 /\ Program("forex")[3] = Cpi
    BY DEF Program, ForexProgram, CommodityProgram, IndexProgram, Cpi
<1>2. Cpi \in Indicators
    BY <1>1 DEF Indicators, Kinds, ToSet
<1>3. DOMAIN Route(Cpi) = 1..2 /\ Route(Cpi)[1] = Cpi
    BY DEF Route, Cpi
<1>4. Cpi \in ToSet(Route(Cpi))
    BY <1>3 DEF ToSet
<1> QED BY <1>2, <1>4 DEF Sources

LEMMA CpiStarted == Started => CpiInv
<1> SUFFICES ASSUME Started PROVE CpiInv
    OBVIOUS
<1>1. Len(results) = 0 /\ call.at = 1 /\ pos[Cpi] = Nothing /\ Place(kind) \in {3, 4}
    BY CpiSource DEF Started, Begin, Place
<1> QED BY <1>1 DEF CpiInv

LEMMA CpiNext == MacroInv /\ CpiInv /\ [Next]_vars => CpiInv'
<1> SUFFICES ASSUME MacroInv, CpiInv, [Next]_vars PROVE CpiInv'
    OBVIOUS
<1>0. /\ pos \in [Sources -> [value : Nat, when : Nat]] /\ call \in Calls /\ clock \in Nat
      /\ call.pc # "lookup" => ~Finished
    BY DEF MacroInv, CachesOK, OnRoute
<1>1. ASSUME UNCHANGED <<kind, results, pos>>, call'.at = call.at
      PROVE  CpiInv'
    BY <1>1 DEF CpiInv
<1>2. CASE CacheHit
    <2>1. pos[Source].value \in Nat
        BY <1>0, <1>2, SourceIsOne DEF CacheHit
    <2> QED BY <1>2, <2>1, CpiAnswer DEF CacheHit
<1>3. CASE NegativeHit
    <2>1. None \in Nat
        BY DEF None
    <2> QED BY <1>3, <2>1, CpiAnswer DEF NegativeHit
<1>4. CASE Miss \/ Retry \/ \E ok \in BOOLEAN : MetadataAnswers(ok)
    <2>1. call'.at = call.at /\ UNCHANGED <<kind, results, pos>>
        BY <1>0, <1>4 DEF Miss, Retry, MetadataAnswers, Calls
    <2> QED BY <2>1, <1>1
<1>5. CASE FetchAnswers
    <2>1. PICK v \in Values : Remember(Source, v) /\ Got(v)
        BY <1>5 DEF FetchAnswers
    <2>2. v \in Nat /\ ~Finished /\ kind' = kind
        BY <1>0, <1>5, MacroAssumption DEF FetchAnswers, MacroAssumption
    <2>3. Source \in Sources
        BY <2>2, SourceIsOne
    <2>4. pos' = [pos EXCEPT ![Source] = [value |-> v, when |-> clock]]
        BY <2>1 DEF Remember
    <2>5. (Source # Cpi => pos'[Cpi] = pos[Cpi]) /\ (Source = Cpi => pos'[Cpi].value = v)
        BY <1>0, <2>3, <2>4
    <2> QED BY <2>1, <2>2, <2>5, CpiAnswer
<1>6. CASE FetchFails
    <2>1. None \in Nat
        BY DEF None
    <2> QED BY <1>0, <1>6, <2>1, CpiAnswer DEF FetchFails
<1>7. CASE Tick
    BY <1>1, <1>7 DEF Tick
<1>8. CASE NextAnalysis
    <2>1. Started'
        BY <1>8 DEF NextAnalysis, Started
    <2> QED BY <2>1, CpiStarted, PTL
<1>9. CASE UNCHANGED vars
    BY <1>1, <1>9 DEF vars
<1> QED BY <1>2, <1>3, <1>4, <1>5, <1>6, <1>7, <1>8, <1>9 DEF Next, Progress

LEMMA CpiInvHolds == Spec => []CpiInv
<1>1. Init => CpiInv
    BY CpiStarted DEF Init, Started
<1> QED BY <1>1, CpiNext, MacroInvHolds, PTL DEF Spec

(***************************************************************************)
(* Theorems                                                                *)
(***************************************************************************)
\* No source has a positive and a negative entry at once, however the lifetimes of the
\* two caches compare and however long its requests take.
THEOREM OneCacheAnswersHolds == Spec => []OneCacheAnswers
<1>1. MacroInv => OneCacheAnswers
    BY DEF MacroInv
<1> QED BY <1>1, MacroInvHolds, PTL

\* A commodity is scored on one Fed rate, fetched twice.
THEOREM SameRateTwiceHolds == Spec => []SameRateTwice
<1>1. MacroInv => SameRateTwice
    BY DEF MacroInv
<1> QED BY <1>1, MacroInvHolds, PTL

\* A US CPI an analysis was given is fresh, whichever source it is from, and FRED's
\* where FRED has a fresh one.
THEOREM CpiIsFreshHolds == Spec => []CpiIsFresh
<1>1. MacroInv /\ CpiInv => CpiIsFresh
    <2>1. ASSUME MacroInv, CpiInv, NEW i \in 1..Len(results), Program(kind)[i] = Cpi, results[i] # None
          PROVE  /\ results[i] \in Fresh
                 /\ pos[Cpi].value \in Fresh => results[i] = pos[Cpi].value
        <3>1. kind \in Kinds /\ Len(results) \in Nat /\ Len(results) <= 4
            BY <2>1 DEF MacroInv, CachesOK
        <3>2. i \in 1..4 /\ i <= Len(results)
            BY <2>1, <3>1
        <3>3. kind # "index" /\ i = Place(kind)
            BY <2>1, <3>1, <3>2, PlaceIs
        <3> QED BY <2>1, <3>2, <3>3 DEF CpiInv
    <2> QED BY <2>1 DEF CpiIsFresh, Cpi
<1> QED BY <1>1, MacroInvHolds, CpiInvHolds, PTL
=============================================================================
