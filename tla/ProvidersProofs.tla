--------------------------- MODULE ProvidersProofs ---------------------------
(***************************************************************************)
(* Proofs about Providers, for any number of analyses and requests, any    *)
(* limit and any number of midnights: a provider is passed over only when  *)
(* its day's answers are used up, how far its limit is overshot, and what  *)
(* the bundle of an analysis holds.                                        *)
(***************************************************************************)
EXTENDS Providers, FiniteSetTheorems, TLAPS

Limiter == [count : Nat, date : Nat]

\* A count of today is no more than today's answers; one of an earlier day is
\* behind the date and will be reset.
CountInv ==
    /\ day \in Nat
    /\ limiter \in [Owners -> [Keys -> Limiter]]
    /\ answered \in [Owners -> [Keys -> Nat]]
    /\ \A o \in Owners, p \in Keys :
           /\ limiter[o][p].date <= day
           /\ limiter[o][p].date = day => limiter[o][p].count <= answered[o][p]

\* The same of the limiters of one owner, against that owner's answers.
Counts(lim, got) ==
    /\ lim \in [Keys -> Limiter] /\ got \in [Keys -> Nat]
    /\ \A p \in Keys : /\ lim[p].date <= day
                       /\ lim[p].date = day => lim[p].count <= got[p]

LEMMA OwnerIs ==
    ASSUME NEW t \in Tasks
    PROVE  t[1] \in Owners
<1>1. PICK o \in Owners : t \in TasksOf(o)
  BY DEF Tasks
<1>2. CASE o = "market"
  BY <1>1, <1>2 DEF TasksOf
<1>3. CASE o # "market"
  BY <1>1, <1>3 DEF TasksOf
<1>4. QED
  BY <1>2, <1>3

LEMMA CountsOf ==
    ASSUME CountInv, NEW o \in Owners
    PROVE  Counts(limiter[o], answered[o]) /\ day \in Nat
BY DEF CountInv, Counts

\* One owner's limiters and answers change, the date does not.
LEMMA CountsAt ==
    ASSUME CountInv, NEW o \in Owners, NEW lim, NEW got, Counts(lim, got), day' = day,
           limiter' = [limiter EXCEPT ![o] = lim], answered' = [answered EXCEPT ![o] = got]
    PROVE  CountInv'
<1>1. /\ day' \in Nat /\ limiter' \in [Owners -> [Keys -> Limiter]]
      /\ answered' \in [Owners -> [Keys -> Nat]]
  BY DEF CountInv, Counts
<1>2. ASSUME NEW q \in Owners, NEW p \in Keys
      PROVE  /\ limiter'[q][p].date <= day'
             /\ limiter'[q][p].date = day' => limiter'[q][p].count <= answered'[q][p]
  <2>1. CASE q = o
    <3>1. limiter'[q] = lim /\ answered'[q] = got
      BY <2>1 DEF CountInv
    <3>2. QED
      BY <3>1 DEF Counts
  <2>2. CASE q # o
    <3>1. limiter'[q] = limiter[q] /\ answered'[q] = answered[q]
      BY <2>2 DEF CountInv
    <3>2. QED
      BY <3>1 DEF CountInv
  <2>3. QED
    BY <2>1, <2>2
<1>3. QED
  BY <1>1, <1>2 DEF CountInv

LEMMA CheckedCounts ==
    ASSUME NEW lim, NEW got, Counts(lim, got), day \in Nat, NEW asked
    PROVE  Counts([p \in Keys |-> IF p \in asked THEN Checked(lim[p]) ELSE lim[p]], got)
<1> DEFINE next == [p \in Keys |-> IF p \in asked THEN Checked(lim[p]) ELSE lim[p]]
<1>1. ASSUME NEW p \in Keys
      PROVE  /\ next[p] \in Limiter /\ next[p].date <= day
             /\ next[p].date = day => next[p].count <= got[p]
  <2>1. lim[p] \in Limiter /\ got[p] \in Nat /\ lim[p].date <= day
        /\ (lim[p].date = day => lim[p].count <= got[p])
    BY DEF Counts
  <2>2. next[p] = lim[p] \/ next[p] = Checked(lim[p])
    OBVIOUS
  <2>3. CASE next[p] = lim[p]
    BY <2>1, <2>3
  <2>4. CASE next[p] = Checked(lim[p])
    <3>1. CASE lim[p].date = day
      BY <2>1, <2>4, <3>1 DEF Checked
    <3>2. CASE lim[p].date # day
      <4>1. next[p] = [count |-> 0, date |-> day]
        BY <2>4, <3>2 DEF Checked
      <4>2. QED
        BY <2>1, <4>1 DEF Limiter
    <3>3. QED
      BY <3>1, <3>2
  <2>5. QED
    BY <2>2, <2>3, <2>4
<1>2. next \in [Keys -> Limiter]
  BY <1>1
<1>3. QED
  BY <1>1, <1>2 DEF Counts

\* An answer is counted where it is given.
LEMMA CountedAnswer ==
    ASSUME NEW lim, NEW got, Counts(lim, got), NEW p \in Keys
    PROVE  Counts([lim EXCEPT ![p].count = @ + 1], [got EXCEPT ![p] = @ + 1])
<1> DEFINE more == [lim EXCEPT ![p].count = @ + 1]
           then == [got EXCEPT ![p] = @ + 1]
<1>1. lim \in [Keys -> Limiter] /\ got \in [Keys -> Nat]
  BY DEF Counts
<1>2. ASSUME NEW q \in Keys
      PROVE  /\ more[q] \in Limiter /\ then[q] \in Nat /\ more[q].date = lim[q].date
             /\ \/ more[q].count = lim[q].count + 1 /\ then[q] = got[q] + 1
                \/ more[q].count = lim[q].count /\ then[q] = got[q]
  <2>1. lim[q] \in Limiter /\ got[q] \in Nat
    BY <1>1
  <2>2. CASE q = p
    BY <1>1, <2>1, <2>2 DEF Limiter
  <2>3. CASE q # p
    BY <1>1, <2>1, <2>3
  <2>4. QED
    BY <2>2, <2>3
<1>3. more \in [Keys -> Limiter] /\ then \in [Keys -> Nat]
  <2>1. more = [q \in Keys |-> more[q]] /\ then = [q \in Keys |-> then[q]]
    BY <1>1
  <2>2. QED
    BY <1>2, <2>1
<1>4. \A q \in Keys : lim[q] \in Limiter /\ got[q] \in Nat
  BY <1>1
<1> HIDE DEF more, then
<1>5. ASSUME NEW q \in Keys
      PROVE  /\ more[q].date <= day
             /\ more[q].date = day => more[q].count <= then[q]
  BY <1>2, <1>4, <1>5 DEF Counts, Limiter
<1>6. QED
  BY <1>3, <1>5 DEF Counts, more, then

LEMMA GoOnCounts ==
    ASSUME CountInv, NEW t \in Tasks, NEW k, NEW lim, NEW got, Counts(lim, got), GoOn(t, k, lim),
           answered' = [answered EXCEPT ![t[1]] = got], day' = day
    PROVE  CountInv'
<1>1. t[1] \in Owners
  BY OwnerIs
<1>2. PICK asked : limiter' = [limiter EXCEPT ![t[1]] =
                        [p \in Keys |-> IF p \in asked THEN Checked(lim[p]) ELSE lim[p]]]
  BY DEF GoOn
<1>3. Counts([p \in Keys |-> IF p \in asked THEN Checked(lim[p]) ELSE lim[p]], got)
  BY CheckedCounts DEF CountInv
<1>4. QED
  BY <1>1, <1>2, <1>3, CountsAt

LEMMA CountInit == Init => CountInv
<1> SUFFICES ASSUME Init PROVE CountInv
  OBVIOUS
<1>1. /\ day = 0
      /\ limiter = [o \in Owners |-> [p \in Keys |-> [count |-> 0, date |-> 0]]]
      /\ answered = [o \in Owners |-> [p \in Keys |-> 0]]
  BY DEF Init
<1>2. QED
  BY <1>1 DEF CountInv, Limiter

LEMMA CountStep == CountInv /\ [Next]_vars => CountInv'
<1> SUFFICES ASSUME CountInv, [Next]_vars PROVE CountInv'
  OBVIOUS
<1>0. ASSUME UNCHANGED <<day, limiter, answered>> PROVE CountInv'
  BY <1>0 DEF CountInv
<1>1. ASSUME NEW t \in Tasks, ServiceFails(t) \/ CacheHit(t) \/ Salvage(t) \/ NextRequest(t)
      PROVE  CountInv'
  BY <1>0, <1>1 DEF ServiceFails, CacheHit, Salvage, NextRequest
<1>2. ASSUME NEW t \in Tasks, StartFetch(t) \/ AnswerLost(t)
      PROVE  CountInv'
  <2>1. t[1] \in Owners
    BY OwnerIs
  <2>2. Counts(limiter[t[1]], answered[t[1]])
    BY <2>1, CountsOf
  <2>3. /\ \E k : GoOn(t, k, limiter[t[1]])
        /\ day' = day /\ answered' = [answered EXCEPT ![t[1]] = answered[t[1]]]
    BY <1>2, <2>1 DEF StartFetch, AnswerLost, CountInv
  <2>4. QED
    BY <2>2, <2>3, GoOnCounts
<1>3. ASSUME NEW t \in Tasks, AnswerFails(t)
      PROVE  CountInv'
  <2> DEFINE o == t[1]
             p == Chain[task[t].at]
  <2>1. o \in Owners
    BY OwnerIs
  <2>2. Counts(limiter[o], answered[o])
    BY <2>1, CountsOf
  <2>3. CASE p \in Keys
    <3>1. Counts([limiter[o] EXCEPT ![p].count = @ + 1], [answered[o] EXCEPT ![p] = @ + 1])
      BY <2>2, <2>3, CountedAnswer
    <3>2. /\ GoOn(t, task[t].at + 1, [limiter[o] EXCEPT ![p].count = @ + 1])
          /\ answered' = [answered EXCEPT ![o] = [answered[o] EXCEPT ![p] = @ + 1]]
          /\ day' = day
      BY <1>3, <2>1, <2>3 DEF AnswerFails
    <3>3. QED
      BY <3>1, <3>2, GoOnCounts
  <2>4. CASE p \notin Keys
    <3>1. /\ GoOn(t, task[t].at + 1, limiter[o])
          /\ answered' = [answered EXCEPT ![o] = answered[o]]
          /\ day' = day
      BY <1>3, <2>1, <2>4 DEF AnswerFails, CountInv
    <3>2. QED
      BY <2>2, <3>1, GoOnCounts
  <2>5. QED
    BY <2>3, <2>4
<1>4. ASSUME NEW t \in Tasks, AnswerGood(t)
      PROVE  CountInv'
  <2> DEFINE o == t[1]
             p == Chain[task[t].at]
  <2>1. o \in Owners
    BY OwnerIs
  <2>2. Counts(limiter[o], answered[o])
    BY <2>1, CountsOf
  <2>3. CASE p \in Keys
    <3>1. Counts([limiter[o] EXCEPT ![p].count = @ + 1], [answered[o] EXCEPT ![p] = @ + 1])
      BY <2>2, <2>3, CountedAnswer
    <3>2. /\ limiter' = [limiter EXCEPT ![o] = [limiter[o] EXCEPT ![p].count = @ + 1]]
          /\ answered' = [answered EXCEPT ![o] = [answered[o] EXCEPT ![p] = @ + 1]]
          /\ day' = day
      BY <1>4, <2>1, <2>3 DEF AnswerGood
    <3>3. QED
      BY <2>1, <3>1, <3>2, CountsAt
  <2>4. CASE p \notin Keys
    BY <1>0, <1>4, <2>4 DEF AnswerGood
  <2>5. QED
    BY <2>3, <2>4
<1>5. ASSUME NEW a \in Analyses, Collect(a)
      PROVE  CountInv'
  BY <1>0, <1>5 DEF Collect
<1>6. CASE Midnight
  <2>1. /\ day' = day + 1 /\ limiter' = limiter
        /\ answered' = [o \in Owners |-> [p \in Keys |-> 0]]
    BY <1>6 DEF Midnight
  <2>2. \A o \in Owners, p \in Keys : limiter[o][p].date \in Nat /\ limiter[o][p].date < day'
    BY <2>1 DEF CountInv, Limiter
  <2>3. QED
    BY <2>1, <2>2 DEF CountInv
<1>7. CASE UNCHANGED vars
  BY <1>0, <1>7 DEF vars
<1>8. QED
  BY <1>1, <1>2, <1>3, <1>4, <1>5, <1>6, <1>7 DEF Next, FetchStep, Answer

(***************************************************************************)
(* The timeframes of an analysis, and the fetches of an owner              *)
(***************************************************************************)
Before == OpToRel(<, Nat)

LEMMA BeforeIff ==
    ASSUME NEW x \in Nat, NEW y \in Nat
    PROVE  <<x, y>> \in Before <=> x < y
BY DEF Before, OpToRel

LEMMA MinIs ==
    ASSUME NEW S \in SUBSET Nat, S # {}
    PROVE  Min(S) \in S /\ \A x \in S : Min(S) <= x
<1>1. IsWellFoundedOn(Before, Nat)
  BY NatLessThanWellFounded DEF Before
<1>2. PICK m \in S : \A x \in S : <<x, m>> \notin Before
  BY <1>1, WFMin
<1>3. ASSUME NEW x \in S PROVE m <= x
  <2>1. ~(x < m)
    BY <1>2, BeforeIff
  <2>2. QED
    BY <2>1
<1>4. QED
  BY <1>3 DEF Min

\* The frame the analysis is asked for comes first.
LEMMA RequiredIs ==
    /\ Len(Required) \in Nat \ {0} /\ DOMAIN Required = 1..Len(Required)
    /\ Required[1] = Main
<1>1. Named \in Seq(Timeframes) /\ Len(Named) \in Nat /\ DOMAIN Named = 1..Len(Named)
      /\ 1 \in DOMAIN Named /\ Named[1] = Main
  <2>1. <<Main>> \in Seq(Timeframes) /\ Others \in Seq(Timeframes)
    BY ProvidersAssumption DEF ProvidersAssumption
  <2>2. QED
    BY <2>1 DEF Named
<1>2. Ordered \in SUBSET (1..Len(Named)) /\ 1 \in Ordered
  BY <1>1 DEF Ordered, Seen
<1>3. IsFiniteSet(1..Len(Named))
  BY <1>1, FS_Interval
<1>4. IsFiniteSet(Ordered) /\ Cardinality(Ordered) \in Nat \ {0}
  <2>1. IsFiniteSet(Ordered)
    BY <1>2, <1>3, FS_Subset
  <2>2. QED
    BY <1>2, <2>1, FS_CardinalityType, FS_EmptySet
<1>5. DOMAIN Required = 1..Cardinality(Ordered) /\ Len(Required) = Cardinality(Ordered)
  BY <1>4 DEF Required
<1>6. ASSUME NEW i \in Ordered
      PROVE  Cardinality({j \in Ordered : j < i}) = 0 <=> i = 1
  <2>1. {j \in Ordered : j < i} \in SUBSET Ordered
    OBVIOUS
  <2>2. IsFiniteSet({j \in Ordered : j < i})
    BY <1>4, <2>1, FS_Subset
  <2>3. {j \in Ordered : j < i} = {} <=> i = 1
    <3>1. ASSUME NEW j \in Ordered PROVE j \in Nat /\ j >= 1
      <4>1. j \in 1..Len(Named)
        BY <1>2
      <4>2. QED
        BY <4>1
    <3>2. CASE i = 1
      <4>1. ~ \E j \in Ordered : j < 1
        BY <3>1
      <4>2. QED
        BY <3>2, <4>1
    <3>3. CASE i # 1
      <4>1. 1 \in {j \in Ordered : j < i}
        BY <1>2, <3>1, <3>3
      <4>2. QED
        BY <3>3, <4>1
    <3>4. QED
      BY <3>2, <3>3
  <2>4. QED
    BY <2>2, <2>3, FS_EmptySet
<1>7. (CHOOSE i \in Ordered : Cardinality({j \in Ordered : j < i}) = 1 - 1) = 1
  BY <1>2, <1>6
<1>8. Required[1] = Main
  <2>1. 1 \in 1..Cardinality(Ordered)
    BY <1>4
  <2>2. Required[1] = Named[CHOOSE i \in Ordered : Cardinality({j \in Ordered : j < i}) = 1 - 1]
    BY <2>1 DEF Required
  <2>3. QED
    BY <1>1, <1>7, <2>2
<1>9. QED
  BY <1>4, <1>5, <1>8

LEMMA TasksOfAre ==
    /\ \A o \in Owners : IsFiniteSet(TasksOf(o)) /\ TasksOf(o) \subseteq Tasks
    /\ \A t \in Tasks : t[1] \in Owners /\ t \in TasksOf(t[1])
    /\ \A o \in Owners : \A t \in TasksOf(o) : t[1] = o
<1>1. IsFiniteSet(ToSet(Required))
  <2>1. IsFiniteSet(1..Len(Required))
    BY RequiredIs, FS_Interval
  <2>2. Required \in Surjection(1..Len(Required), ToSet(Required))
    <3>1. Required \in [1..Len(Required) -> ToSet(Required)]
      BY RequiredIs DEF ToSet, Required
    <3>2. QED
      BY <3>1, RequiredIs DEF Surjection, ToSet
  <2>3. QED
    BY <2>1, <2>2, FS_Surjection
<1>2. ASSUME NEW o \in Owners
      PROVE  IsFiniteSet(TasksOf(o))
  <2>1. IsFiniteSet({o}) /\ IsFiniteSet(Requests)
    BY FS_Singleton, ProvidersAssumption DEF ProvidersAssumption
  <2>2. QED
    BY <1>1, <2>1, FS_Product DEF TasksOf
<1>3. \A o \in Owners : \A t \in TasksOf(o) : t[1] = o
  BY DEF TasksOf
<1>4. QED
  BY <1>2, <1>3 DEF Tasks

(***************************************************************************)
(* The fetches                                                             *)
(***************************************************************************)
\* A fetch for an analysis never runs as a request to the endpoint.
IsTask(t, c) ==
    /\ c = [call |-> c.call, at |-> c.at, pc |-> c.pc, from |-> c.from]
    /\ c.at \in Nat
    /\ IF t[1] = "market" THEN c.call = "market" ELSE c.call \in {"service", "direct"}

LEMMA MovedIs ==
    ASSUME NEW t, NEW c, IsTask(t, c)
    PROVE  /\ \A from : IsTask(t, Done(c, from)) /\ Done(c, from).pc = "done"
           /\ IsTask(t, [c EXCEPT !.pc = "failed"])
<1>1. PICK call, at, pc, from : c = [call |-> call, at |-> at, pc |-> pc, from |-> from]
  BY DEF IsTask
<1>2. ASSUME NEW f
      PROVE  Done(c, f) = [call |-> call, at |-> at, pc |-> "done", from |-> f]
  <2>1. Done(c, f) = [[c EXCEPT !.pc = "done"] EXCEPT !.from = f]
    BY DEF Done
  <2>2. [c EXCEPT !.pc = "done"] = [call |-> call, at |-> at, pc |-> "done", from |-> from]
    BY <1>1
  <2>3. [[call |-> call, at |-> at, pc |-> "done", from |-> from] EXCEPT !.from = f]
            = [call |-> call, at |-> at, pc |-> "done", from |-> f]
    OBVIOUS
  <2>4. QED
    BY <2>1, <2>2, <2>3
<1>3. [c EXCEPT !.pc = "failed"] = [call |-> call, at |-> at, pc |-> "failed", from |-> from]
  BY <1>1
<1>4. at \in Nat /\ IF t[1] = "market" THEN call = "market" ELSE call \in {"service", "direct"}
  BY <1>1 DEF IsTask
<1>5. \A d, f : IsTask(t, [call |-> call, at |-> at, pc |-> d, from |-> f])
  BY <1>4 DEF IsTask
<1>6. QED
  BY <1>2, <1>3, <1>5

\* Where a fetch goes when every provider failed, it does not wait for one.
LEMMA ExhaustedIs ==
    ASSUME NEW t, NEW c, IsTask(t, c), NEW next \in Exhausted(c)
    PROVE  IsTask(t, next) /\ next.pc # "await"
<1>1. PICK call, at, pc, from : c = [call |-> call, at |-> at, pc |-> pc, from |-> from]
  BY DEF IsTask
<1>2. IF t[1] = "market" THEN call = "market" ELSE call \in {"service", "direct"}
  BY <1>1 DEF IsTask
<1>3. \A d, f : IsTask(t, [call |-> call, at |-> 0, pc |-> d, from |-> f])
  BY <1>2 DEF IsTask
<1>4. CASE call = "service"
  <2>1. next = Done(c, "rows") \/ next = Fresh("direct")
    BY <1>1, <1>4 DEF Exhausted
  <2>2. IsTask(t, Fresh("direct")) /\ Fresh("direct").pc = "start"
    BY <1>2, <1>4 DEF Fresh, IsTask
  <2>3. IsTask(t, Done(c, "rows")) /\ Done(c, "rows").pc = "done"
    BY MovedIs
  <2>4. CASE next = Done(c, "rows")
    BY <2>3, <2>4
  <2>5. CASE next = Fresh("direct")
    BY <2>2, <2>5
  <2>6. QED
    BY <2>1, <2>4, <2>5
<1>5. CASE call \in {"direct", "market"}
  <2>1. \/ next = [c EXCEPT !.pc = "rows", !.at = 0]
        \/ next = [c EXCEPT !.pc = "failed", !.at = 0]
    BY <1>1, <1>5 DEF Exhausted
  <2>2. \/ next = [call |-> call, at |-> 0, pc |-> "rows", from |-> from]
        \/ next = [call |-> call, at |-> 0, pc |-> "failed", from |-> from]
    BY <1>1, <2>1
  <2>3. QED
    BY <1>3, <2>2
<1>6. QED
  BY <1>2, <1>4, <1>5

TasksInv ==
    /\ task = [t \in Tasks |-> task[t]]
    /\ \A t \in Tasks : IsTask(t, task[t])

\* What a fetch does to its limiters when it goes on to the next provider: it waits
\* behind one that is below its limit.
LEMMA GoOnGoes ==
    ASSUME CountInv, TasksInv, NEW t \in Tasks, NEW k \in Nat, NEW lim \in [Keys -> Limiter],
           GoOn(t, k, lim), ~Ended(t)
    PROVE  \E c : /\ task' = [task EXCEPT ![t] = c] /\ IsTask(t, c)
                  /\ \A o \in Owners \ {t[1]} : limiter'[o] = limiter[o]
                  /\ \A p \in Keys :
                        /\ limiter'[t[1]][p].count <= lim[p].count
                        /\ c.pc = "await" /\ Chain[c.at] = p => limiter'[t[1]][p].count < Limit
<1> DEFINE open == {i \in k..Len(Chain) : Chain[i] \in Keys => ~Spent(lim[Chain[i]])}
           stop == IF open = {} THEN Len(Chain) ELSE Min(open)
           asked == {Chain[i] : i \in k..stop}
           moves == IF open = {} THEN Exhausted(task[t])
                    ELSE {[task[t] EXCEPT !.at = stop, !.pc = "await"]}
<1>1. PICK c \in moves : task' = [task EXCEPT ![t] = c]
  BY DEF GoOn
<1>2. limiter' = [limiter EXCEPT ![t[1]] =
            [p \in Keys |-> IF p \in asked THEN Checked(lim[p]) ELSE lim[p]]]
  BY DEF GoOn
<1>3. limiter \in [Owners -> [Keys -> Limiter]] /\ t[1] \in Owners /\ IsTask(t, task[t])
  BY OwnerIs DEF CountInv, TasksInv
<1>4. open # {} => stop \in open /\ stop \in Nat /\ stop \in k..stop
  <2>1. open \in SUBSET Nat
    OBVIOUS
  <2>2. open # {} => Min(open) \in open
    BY <2>1, MinIs
  <2>3. QED
    BY <2>1, <2>2
<1>5. IsTask(t, c)
  <2>1. CASE open = {}
    BY <1>1, <1>3, <2>1, ExhaustedIs
  <2>2. CASE open # {}
    <3>1. c = [call |-> task[t].call, at |-> stop, pc |-> "await", from |-> task[t].from]
      BY <1>1, <1>3, <2>2 DEF IsTask
    <3>2. QED
      BY <1>3, <1>4, <2>2, <3>1 DEF IsTask
  <2>3. QED
    BY <2>1, <2>2
<1>6. ASSUME NEW p \in Keys
      PROVE  /\ limiter'[t[1]][p].count <= lim[p].count
             /\ c.pc = "await" /\ Chain[c.at] = p => limiter'[t[1]][p].count < Limit
  <2>1. limiter'[t[1]][p] = IF p \in asked THEN Checked(lim[p]) ELSE lim[p]
    BY <1>2, <1>3
  <2>2. lim[p] \in Limiter
    OBVIOUS
  <2>3. limiter'[t[1]][p].count <= lim[p].count
    BY <2>1, <2>2 DEF Checked, Limiter
  <2>4. ASSUME c.pc = "await", Chain[c.at] = p
        PROVE  limiter'[t[1]][p].count < Limit
    <3>1. open # {}
      BY <1>1, <1>3, <2>4, ExhaustedIs
    <3>2. c.at = stop
      BY <1>1, <1>3, <3>1 DEF IsTask
    <3>3. p \in asked /\ ~Spent(lim[p])
      BY <1>4, <2>4, <3>1, <3>2
    <3>4. Checked(lim[p]).count \in Nat
      BY <2>2, CountInv DEF Checked, Limiter
    <3>5. Checked(lim[p]).count < Limit
      BY <3>3, <3>4, ProvidersAssumption DEF Spent
    <3>6. QED
      BY <2>1, <3>3, <3>5
  <2>5. QED
    BY <2>3, <2>4
<1>7. \A o \in Owners \ {t[1]} : limiter'[o] = limiter[o]
  BY <1>2, <1>3
<1>8. QED
  BY <1>1, <1>5, <1>6, <1>7

\* The other steps of a fetch, and what a step does to the others.
LEMMA StepMoves ==
    ASSUME CountInv, TasksInv, NEW t \in Tasks, FetchStep(t) \/ NextRequest(t)
    PROVE  \E c : task' = [task EXCEPT ![t] = c] /\ IsTask(t, c)
<1>1. /\ IsTask(t, task[t]) /\ t[1] \in Owners
      /\ limiter[t[1]] \in [Keys -> Limiter]
  BY OwnerIs DEF CountInv, TasksInv
<1>2. CASE ServiceFails(t)
  <2>1. IsTask(t, Fresh("direct"))
    BY <1>1, <1>2 DEF ServiceFails, Fresh, IsTask
  <2>2. QED
    BY <1>2, <2>1 DEF ServiceFails
<1>3. CASE CacheHit(t)
  <2>1. task' = [task EXCEPT ![t] = Done(task[t], "cache")]
    BY <1>3 DEF CacheHit
  <2>2. IsTask(t, Done(task[t], "cache"))
    BY <1>1, MovedIs
  <2>3. QED
    BY <2>1, <2>2
<1>4. CASE StartFetch(t)
  BY <1>1, <1>4, GoOnGoes DEF StartFetch, Ended
<1>5. CASE AnswerLost(t)
  <2>1. task[t].at + 1 \in Nat
    BY <1>1 DEF IsTask
  <2>2. QED
    BY <1>1, <1>5, <2>1, GoOnGoes DEF AnswerLost, Ended
<1>6. CASE AnswerFails(t)
  <2> DEFINE p == Chain[task[t].at]
             lim == IF p \in Keys THEN [limiter[t[1]] EXCEPT ![p].count = @ + 1] ELSE limiter[t[1]]
  <2>1. task[t].at + 1 \in Nat
    BY <1>1 DEF IsTask
  <2>2. lim \in [Keys -> Limiter]
    BY <1>1 DEF Limiter
  <2>3. GoOn(t, task[t].at + 1, lim) /\ ~Ended(t)
    BY <1>6 DEF AnswerFails, Ended
  <2>4. QED
    BY <2>1, <2>2, <2>3, GoOnGoes
<1>7. CASE AnswerGood(t)
  <2>1. \/ task' = [task EXCEPT ![t] = Done(task[t], Chain[task[t].at])]
        \/ task[t].call = "service" /\ task' = [task EXCEPT ![t] = Fresh("direct")]
    BY <1>7 DEF AnswerGood
  <2>2. IsTask(t, Done(task[t], Chain[task[t].at]))
    BY <1>1, MovedIs
  <2>3. task[t].call = "service" => IsTask(t, Fresh("direct"))
    BY <1>1 DEF Fresh, IsTask
  <2>4. QED
    BY <2>1, <2>2, <2>3
<1>8. CASE Salvage(t)
  <2>1. \/ task' = [task EXCEPT ![t] = Done(task[t], "rows")]
        \/ task' = [task EXCEPT ![t] = [task[t] EXCEPT !.pc = "failed"]]
    BY <1>8 DEF Salvage
  <2>2. IsTask(t, Done(task[t], "rows")) /\ IsTask(t, [task[t] EXCEPT !.pc = "failed"])
    BY <1>1, MovedIs
  <2>3. QED
    BY <2>1, <2>2
<1>9. CASE NextRequest(t)
  <2>1. IsTask(t, Fresh("market"))
    BY <1>1, <1>9 DEF NextRequest, Fresh, IsTask
  <2>2. QED
    BY <1>9, <2>1 DEF NextRequest
<1>10. QED
  BY <1>2, <1>3, <1>4, <1>5, <1>6, <1>7, <1>8, <1>9 DEF FetchStep, Answer

LEMMA TasksInit == Init => TasksInv
BY DEF Init, TasksInv, IsTask, Fresh

LEMMA TasksStep == CountInv /\ TasksInv /\ [Next]_vars => TasksInv'
<1> SUFFICES ASSUME CountInv, TasksInv, [Next]_vars PROVE TasksInv'
  OBVIOUS
<1>1. ASSUME NEW t \in Tasks, FetchStep(t) \/ NextRequest(t)
      PROVE  TasksInv'
  <2>1. PICK c : task' = [task EXCEPT ![t] = c] /\ IsTask(t, c)
    BY <1>1, StepMoves
  <2>2. QED
    BY <2>1 DEF TasksInv
<1>2. CASE UNCHANGED task
  BY <1>2 DEF TasksInv
<1>3. QED
  BY <1>1, <1>2 DEF Next, Collect, Midnight, vars

(***************************************************************************)
(* How far a limit is overshot                                             *)
(***************************************************************************)
\* The fetches behind a limiter when the fetches are tk.
Waiting(o, p, tk) == {t \in TasksOf(o) : tk[t].pc = "await" /\ Chain[tk[t].at] = p}

\* A fetch that becomes c waits for the provider p of o.
Joins(t, c, o, p) == t[1] = o /\ c.pc = "await" /\ Chain[c.at] = p

\* What the counter of a limiter may still come to, and how far it may.
Behind(o, p, lim, tk) == lim[o][p].count + Cardinality(Waiting(o, p, tk))
Bound(o) == Limit + Cardinality(TasksOf(o)) - 1

LEMMA WaitingIs ==
    ASSUME NEW o \in Owners, NEW p
    PROVE  /\ IsFiniteSet(Waiting(o, p, task)) /\ Cardinality(Waiting(o, p, task)) \in Nat
           /\ Cardinality(Waiting(o, p, task)) <= Cardinality(TasksOf(o))
           /\ Cardinality(TasksOf(o)) \in Nat
<1>1. IsFiniteSet(TasksOf(o)) /\ Waiting(o, p, task) \in SUBSET TasksOf(o)
  BY TasksOfAre DEF Waiting
<1>2. QED
  BY <1>1, FS_Subset, FS_CardinalityType

\* One fetch moves: who passed the check starts behind a counter below the limit, and
\* who has his answer counted is no longer behind it.
LEMMA BehindAt ==
    ASSUME CountInv, CountInv', OvershootBounded, TasksInv, NEW t \in Tasks, NEW c,
           task' = [task EXCEPT ![t] = c], NEW o \in Owners, NEW p \in Keys,
           IF Joins(t, c, o, p)
           THEN limiter'[o][p].count < Limit
           ELSE \/ limiter'[o][p].count <= limiter[o][p].count
                \/ limiter'[o][p].count <= limiter[o][p].count + 1 /\ t \in Waiting(o, p, task)
    PROVE  Behind(o, p, limiter', task') <= Bound(o)
<1> DEFINE n == limiter'[o][p].count
           m == limiter[o][p].count
           here == Joins(t, c, o, p)
           I == Waiting(o, p, task)
<1>1. /\ n \in Nat /\ m \in Nat /\ Limit \in Nat \ {0}
      /\ m + Cardinality(I) <= Limit + Cardinality(TasksOf(o)) - 1
  BY ProvidersAssumption DEF CountInv, Limiter, OvershootBounded, Behind, Bound, InFlight, Waiting, ProvidersAssumption
<1>2. \A u \in TasksOf(o) : task'[u] = IF u = t THEN c ELSE task[u]
  BY TasksOfAre DEF TasksInv
<1>3. t \in TasksOf(o) <=> t[1] = o
  BY TasksOfAre
<1>4. Waiting(o, p, task') = IF here THEN I \cup {t} ELSE I \ {t}
  BY <1>2, <1>3 DEF Waiting, Joins
<1>5. /\ IsFiniteSet(I) /\ Cardinality(I) \in Nat
      /\ IsFiniteSet(TasksOf(o)) /\ Cardinality(TasksOf(o)) \in Nat
  BY WaitingIs, TasksOfAre
<1>6. Cardinality(I \ {t}) = IF t \in I THEN Cardinality(I) - 1 ELSE Cardinality(I)
  BY <1>5, FS_RemoveElement
<1>7. CASE here
  <2>1. I \cup {t} \in SUBSET TasksOf(o)
    BY <1>3, <1>7 DEF Waiting, Joins
  <2>2. Cardinality(I \cup {t}) \in Nat /\ Cardinality(I \cup {t}) <= Cardinality(TasksOf(o))
    BY <1>5, <2>1, FS_Subset, FS_CardinalityType
  <2>3. n < Limit
    BY <1>7
  <2>4. Behind(o, p, limiter', task') = n + Cardinality(I \cup {t})
    BY <1>4, <1>7 DEF Behind
  <2>5. n + Cardinality(I \cup {t}) <= Bound(o)
    BY <1>1, <1>5, <2>2, <2>3 DEF Bound
  <2>6. QED
    BY <2>4, <2>5
<1>8. CASE ~here
  <2>1. n <= m \/ (n <= m + 1 /\ t \in I)
    BY <1>8
  <2>2. Behind(o, p, limiter', task') = n + Cardinality(I \ {t})
    BY <1>4, <1>8 DEF Behind
  <2>3. n + Cardinality(I \ {t}) <= Bound(o)
    BY <1>1, <1>5, <1>6, <2>1 DEF Bound
  <2>4. QED
    BY <2>2, <2>3
<1>9. QED
  BY <1>7, <1>8

LEMMA OvershootInit == Init => OvershootBounded
<1> SUFFICES ASSUME Init, NEW o \in Owners, NEW p \in Keys
             PROVE  Behind(o, p, limiter, task) <= Bound(o)
  BY DEF OvershootBounded, Behind, Bound, InFlight, Waiting
<1>1. limiter[o][p].count = 0
  BY DEF Init
<1>2. Waiting(o, p, task) = {}
  BY TasksOfAre DEF Init, Waiting, Fresh
<1>3. Cardinality({}) = 0 /\ Cardinality(TasksOf(o)) \in Nat /\ Limit \in Nat \ {0}
  BY FS_EmptySet, WaitingIs, ProvidersAssumption DEF ProvidersAssumption
<1>4. QED
  BY <1>1, <1>2, <1>3 DEF Behind, Bound

\* The steps of one fetch.
LEMMA OvershootFetch ==
    ASSUME CountInv, CountInv', OvershootBounded, TasksInv, NEW t \in Tasks,
           FetchStep(t) \/ NextRequest(t)
    PROVE  OvershootBounded'
<1> SUFFICES ASSUME NEW o \in Owners, NEW p \in Keys
             PROVE  Behind(o, p, limiter', task') <= Bound(o)
  BY DEF OvershootBounded, Behind, Bound, InFlight, Waiting
<1>1. /\ IsTask(t, task[t]) /\ t[1] \in Owners /\ t \in TasksOf(t[1])
      /\ limiter \in [Owners -> [Keys -> Limiter]]
  BY TasksOfAre DEF CountInv, TasksInv
<1>2. limiter[o][p].count \in Nat
  BY <1>1 DEF Limiter
<1>3. ASSUME limiter' = limiter, NEW c, task' = [task EXCEPT ![t] = c], c.pc # "await"
      PROVE  Behind(o, p, limiter', task') <= Bound(o)
  <2>1. ~Joins(t, c, o, p) /\ limiter'[o][p].count <= limiter[o][p].count
    BY <1>2, <1>3 DEF Joins
  <2>2. QED
    BY <1>3, <2>1, BehindAt
<1>4. CASE ServiceFails(t)
  <2>1. limiter' = limiter /\ task' = [task EXCEPT ![t] = Fresh("direct")]
    BY <1>4 DEF ServiceFails
  <2>2. Fresh("direct").pc # "await"
    BY DEF Fresh
  <2>3. QED
    BY <1>3, <2>1, <2>2
<1>5. CASE CacheHit(t)
  <2>1. limiter' = limiter /\ task' = [task EXCEPT ![t] = Done(task[t], "cache")]
    BY <1>5 DEF CacheHit
  <2>2. Done(task[t], "cache").pc # "await"
    BY <1>1, MovedIs
  <2>3. QED
    BY <1>3, <2>1, <2>2
<1>6. CASE NextRequest(t)
  <2>1. limiter' = limiter /\ task' = [task EXCEPT ![t] = Fresh("market")]
    BY <1>6 DEF NextRequest
  <2>2. Fresh("market").pc # "await"
    BY DEF Fresh
  <2>3. QED
    BY <1>3, <2>1, <2>2
<1>7. CASE Salvage(t)
  <2>1. [task[t] EXCEPT !.pc = "failed"].pc = "failed"
    BY <1>1 DEF IsTask
  <2>2. \/ task' = [task EXCEPT ![t] = Done(task[t], "rows")]
        \/ task' = [task EXCEPT ![t] = [task[t] EXCEPT !.pc = "failed"]]
    BY <1>7 DEF Salvage
  <2>3. limiter' = limiter
    BY <1>7 DEF Salvage
  <2>4. QED
    BY <1>1, <1>3, <2>1, <2>2, <2>3, MovedIs
<1>8. CASE AnswerGood(t)
  <2> DEFINE q == Chain[task[t].at]
  <2>1. PICK c : task' = [task EXCEPT ![t] = c] /\ c.pc # "await"
    <3>1. Done(task[t], q).pc # "await" /\ Fresh("direct").pc # "await"
      BY <1>1, MovedIs DEF Fresh
    <3>2. \/ task' = [task EXCEPT ![t] = Done(task[t], q)]
          \/ task' = [task EXCEPT ![t] = Fresh("direct")]
      BY <1>8 DEF AnswerGood
    <3>3. QED
      BY <3>1, <3>2
  <2>2. limiter'[o][p].count <= limiter[o][p].count + (IF o = t[1] /\ p = q THEN 1 ELSE 0)
    BY <1>1, <1>2, <1>8 DEF AnswerGood, Limiter
  <2>3. o = t[1] /\ p = q => t \in Waiting(o, p, task)
    BY <1>1, <1>8 DEF AnswerGood, Waiting
  <2>4. QED
    <3>1. ~Joins(t, c, o, p)
      BY <2>1 DEF Joins
    <3>2. \/ limiter'[o][p].count <= limiter[o][p].count
          \/ limiter'[o][p].count <= limiter[o][p].count + 1 /\ t \in Waiting(o, p, task)
      BY <1>2, <2>2, <2>3
    <3>3. QED
      BY <2>1, <3>1, <3>2, BehindAt
<1>9. CASE StartFetch(t) \/ AnswerLost(t) \/ AnswerFails(t)
  <2> DEFINE q == Chain[task[t].at]
  <2>1. PICK k \in Nat, lim \in [Keys -> Limiter] :
            /\ GoOn(t, k, lim)
            /\ \/ lim = limiter[t[1]]
               \/ /\ task[t].pc = "await" /\ q \in Keys
                  /\ lim = [limiter[t[1]] EXCEPT ![q].count = @ + 1]
    <3>1. task[t].at + 1 \in Nat /\ 1 \in Nat /\ limiter[t[1]] \in [Keys -> Limiter]
      BY <1>1 DEF IsTask
    <3>2. q \in Keys => [limiter[t[1]] EXCEPT ![q].count = @ + 1] \in [Keys -> Limiter]
      BY <3>1 DEF Limiter
    <3>3. QED
      BY <1>9, <3>1, <3>2 DEF StartFetch, AnswerLost, AnswerFails
  <2>2. ~Ended(t)
    BY <1>9 DEF StartFetch, AnswerLost, AnswerFails, Ended
  <2>3. PICK c : /\ task' = [task EXCEPT ![t] = c] /\ IsTask(t, c)
                 /\ \A u \in Owners \ {t[1]} : limiter'[u] = limiter[u]
                 /\ \A r \in Keys :
                        /\ limiter'[t[1]][r].count <= lim[r].count
                        /\ c.pc = "await" /\ Chain[c.at] = r => limiter'[t[1]][r].count < Limit
    BY <2>1, <2>2, GoOnGoes
  <2>4. CASE o # t[1]
    <3>1. limiter'[o] = limiter[o]
      BY <2>3, <2>4
    <3>2. QED
      <4>1. ~Joins(t, c, o, p) /\ limiter'[o][p].count <= limiter[o][p].count
        BY <1>2, <2>4, <3>1 DEF Joins
      <4>2. QED
        BY <2>3, <4>1, BehindAt
  <2>5. CASE o = t[1]
    <3>1. lim[p].count = limiter[o][p].count \/ (lim[p].count = limiter[o][p].count + 1 /\ p = q /\ task[t].pc = "await")
      BY <1>1, <2>1, <2>5 DEF Limiter
    <3>2. /\ limiter'[o][p].count <= lim[p].count
          /\ c.pc = "await" /\ Chain[c.at] = p => limiter'[o][p].count < Limit
      BY <2>3, <2>5
    <3>3. p = q /\ task[t].pc = "await" => t \in Waiting(o, p, task)
      BY <1>1, <2>5 DEF Waiting
    <3>4. limiter'[o][p].count \in Nat
      BY DEF CountInv, Limiter
    <3>5. QED
      <4>1. Joins(t, c, o, p) => limiter'[o][p].count < Limit
        BY <3>2 DEF Joins
      <4>2. \/ limiter'[o][p].count <= limiter[o][p].count
            \/ limiter'[o][p].count <= limiter[o][p].count + 1 /\ t \in Waiting(o, p, task)
        BY <1>2, <3>1, <3>2, <3>3, <3>4
      <4>3. QED
        BY <2>3, <4>1, <4>2, BehindAt
  <2>6. QED
    BY <2>4, <2>5
<1>10. QED
  BY <1>4, <1>5, <1>6, <1>7, <1>8, <1>9 DEF FetchStep, Answer

LEMMA OvershootStep ==
    CountInv /\ CountInv' /\ TasksInv /\ OvershootBounded /\ [Next]_vars => OvershootBounded'
<1> SUFFICES ASSUME CountInv, CountInv', TasksInv, OvershootBounded, [Next]_vars
             PROVE  OvershootBounded'
  OBVIOUS
<1>1. CASE \E t \in Tasks : FetchStep(t) \/ NextRequest(t)
  BY <1>1, OvershootFetch
<1>2. CASE UNCHANGED <<task, limiter>>
  BY <1>2 DEF OvershootBounded, Behind, Bound, InFlight, Waiting
<1>3. QED
  BY <1>1, <1>2 DEF Next, Collect, Midnight, vars

(***************************************************************************)
(* What a bundle has collected                                             *)
(***************************************************************************)
FetchOf(a, k) == <<a, Required[k]>>

\* The fetches before the n-th are over, as fetch() has noted down.
Collected(a, n, errors, tk) ==
    /\ \A k \in 1..(n - 1) :
           /\ tk[FetchOf(a, k)].pc \in {"done", "failed"}
           /\ tk[FetchOf(a, k)].pc = "failed" => Required[k] # Main
    /\ \A tf : tf \in errors <=>
           \E k \in 1..(n - 1) : Required[k] = tf /\ tk[FetchOf(a, k)].pc = "failed"

BundleOK(a, b, tk) ==
    /\ b = [pc |-> b.pc, next |-> b.next, errors |-> b.errors]
    /\ b.pc \in {"fetching", "ready", "failed"} /\ b.next \in Nat \ {0}
    /\ b.pc = "fetching" => b.next <= Len(Required)
    /\ b.pc = "ready" => b.next = Len(Required) + 1
    /\ IF b.pc = "failed" THEN tk[<<a, Main>>].pc = "failed"
       ELSE b.next <= Len(Required) + 1 /\ Collected(a, b.next, b.errors, tk)

BundleInv ==
    /\ bundle = [a \in Analyses |-> bundle[a]]
    /\ \A a \in Analyses : BundleOK(a, bundle[a], task)

LEMMA FetchIs ==
    ASSUME NEW a \in Analyses
    PROVE  /\ \A k \in 1..Len(Required) : FetchOf(a, k) \in Tasks /\ FetchOf(a, k)[1] = a
           /\ <<a, Main>> \in Tasks /\ a # "market"
           /\ \A t \in TasksOf(a) : \E k \in 1..Len(Required) : t = FetchOf(a, k)
<1>1. a # "market" /\ a \in Owners
  BY ProvidersAssumption DEF ProvidersAssumption, Owners
<1>2. TasksOf(a) = {a} \X ToSet(Required)
  BY <1>1 DEF TasksOf
<1>3. \A k \in 1..Len(Required) : Required[k] \in ToSet(Required)
  BY RequiredIs DEF ToSet
<1>4. Main \in ToSet(Required)
  BY RequiredIs, <1>3
<1>5. \A tf \in ToSet(Required) : \E k \in 1..Len(Required) : tf = Required[k]
  BY RequiredIs DEF ToSet
<1>6. QED
  BY <1>1, <1>2, <1>3, <1>4, <1>5, TasksOfAre DEF FetchOf

\* Nobody starts a fetch of an analysis again when it is over.
LEMMA EndedStays ==
    ASSUME CountInv, TasksInv, NEW t \in Tasks, FetchStep(t) \/ NextRequest(t),
           NEW u \in Tasks, u[1] # "market", Ended(u)
    PROVE  task'[u] = task[u]
<1>1. PICK c : task' = [task EXCEPT ![t] = c]
  BY StepMoves
<1>2. u # t
  <2>1. SUFFICES ASSUME u = t PROVE FALSE
    OBVIOUS
  <2>2. task[u].call \in {"service", "direct"}
    BY DEF TasksInv, IsTask
  <2>3. NextRequest(t)
    BY <2>1 DEF FetchStep, Answer, ServiceFails, CacheHit, StartFetch, AnswerFails, AnswerLost,
                AnswerGood, Salvage, Ended, Fresh
  <2>4. QED
    BY <2>1, <2>2, <2>3 DEF NextRequest
<1>3. QED
  BY <1>1, <1>2 DEF TasksInv

LEMMA BundleOKStays ==
    ASSUME NEW a \in Analyses, NEW b, BundleOK(a, b, task),
           \A u \in Tasks : u[1] # "market" /\ Ended(u) => task'[u] = task[u]
    PROVE  BundleOK(a, b, task')
<1>1. CASE b.pc = "failed"
  <2>1. <<a, Main>> \in Tasks /\ <<a, Main>>[1] # "market" /\ Ended(<<a, Main>>)
    BY <1>1, FetchIs DEF BundleOK, Ended
  <2>2. QED
    BY <1>1, <2>1 DEF BundleOK
<1>2. CASE b.pc # "failed"
  <2>1. b.next \in Nat \ {0} /\ b.next <= Len(Required) + 1 /\ Len(Required) \in Nat
        /\ Collected(a, b.next, b.errors, task)
    BY <1>2, RequiredIs DEF BundleOK
  <2>2. ASSUME NEW k \in 1..(b.next - 1)
        PROVE  task'[FetchOf(a, k)] = task[FetchOf(a, k)]
    <3>1. k \in 1..Len(Required)
      BY <2>1
    <3>2. FetchOf(a, k) \in Tasks /\ FetchOf(a, k)[1] # "market"
      BY <3>1, FetchIs
    <3>3. Ended(FetchOf(a, k))
      BY <2>1 DEF Collected, Ended
    <3>4. QED
      BY <3>2, <3>3
  <2>3. Collected(a, b.next, b.errors, task')
    BY <2>1, <2>2 DEF Collected
  <2>4. QED
    BY <1>2, <2>3 DEF BundleOK
<1>3. QED
  BY <1>1, <1>2

\* The next fetch is awaited.
LEMMA CollectNext ==
    ASSUME NEW a \in Analyses, NEW n \in 1..Len(Required), NEW errors, Ended(FetchOf(a, n)),
           Collected(a, n, errors, task),
           ~(task[FetchOf(a, n)].pc = "failed" /\ Required[n] = Main)
    PROVE  Collected(a, n + 1,
                errors \cup (IF task[FetchOf(a, n)].pc = "failed" THEN {Required[n]} ELSE {}), task)
<1>1. n \in Nat /\ (n + 1) - 1 = n
  BY RequiredIs
<1>2. \A k : k \in 1..n <=> k \in 1..(n - 1) \/ k = n
  BY <1>1
<1>3. \A k \in 1..n : /\ task[FetchOf(a, k)].pc \in {"done", "failed"}
                      /\ task[FetchOf(a, k)].pc = "failed" => Required[k] # Main
  BY <1>2 DEF Collected, Ended
<1>4. \A tf : tf \in errors \cup (IF task[FetchOf(a, n)].pc = "failed" THEN {Required[n]} ELSE {})
           <=> \E k \in 1..n : Required[k] = tf /\ task[FetchOf(a, k)].pc = "failed"
  BY <1>2 DEF Collected
<1>5. QED
  BY <1>1, <1>3, <1>4 DEF Collected

LEMMA CollectKeeps ==
    ASSUME BundleInv, NEW a \in Analyses, Collect(a)
    PROVE  BundleInv'
<1> DEFINE b == bundle[a]
           failed == task[FetchOf(a, b.next)].pc = "failed"
           errors == b.errors \cup (IF failed THEN {Required[b.next]} ELSE {})
           c == IF failed /\ Required[b.next] = Main THEN [b EXCEPT !.pc = "failed"]
                ELSE [pc |-> IF b.next = Len(Required) THEN "ready" ELSE "fetching",
                      next |-> b.next + 1, errors |-> errors]
<1>1. b.pc = "fetching" /\ Ended(FetchOf(a, b.next)) /\ task' = task
  BY DEF Collect, FetchOf
<1>2. bundle' = [bundle EXCEPT ![a] = c]
  BY DEF Collect, FetchOf
<1>3. BundleOK(a, b, task)
  BY DEF BundleInv
<1>4. b.next \in 1..Len(Required) /\ Collected(a, b.next, b.errors, task) /\ Len(Required) \in Nat
  BY <1>1, <1>3, RequiredIs DEF BundleOK
<1>5. BundleOK(a, c, task)
  <2>1. CASE failed /\ Required[b.next] = Main
    <3>1. c = [pc |-> "failed", next |-> b.next, errors |-> b.errors]
      BY <1>3, <2>1 DEF BundleOK
    <3>2. task[<<a, Main>>].pc = "failed"
      BY <2>1 DEF FetchOf
    <3>3. QED
      BY <1>4, <3>1, <3>2 DEF BundleOK
  <2>2. CASE ~(failed /\ Required[b.next] = Main)
    <3>1. Collected(a, b.next + 1, errors, task)
      BY <1>1, <1>4, <2>2, CollectNext
    <3>2. c = [pc |-> IF b.next = Len(Required) THEN "ready" ELSE "fetching",
               next |-> b.next + 1, errors |-> errors]
      BY <2>2
    <3> HIDE DEF c, errors
    <3>3. c.pc = (IF b.next = Len(Required) THEN "ready" ELSE "fetching")
          /\ c.next = b.next + 1 /\ c.errors = errors
      BY <3>2
    <3>4. QED
      BY <1>4, <3>1, <3>2, <3>3 DEF BundleOK
  <2>3. QED
    BY <2>1, <2>2
<1> HIDE DEF c
<1>6. QED
  BY <1>1, <1>2, <1>5 DEF BundleInv

LEMMA BundleInit == Init => BundleInv
<1> SUFFICES ASSUME Init PROVE BundleInv
  OBVIOUS
<1>1. bundle = [a \in Analyses |-> [pc |-> "fetching", next |-> 1, errors |-> {}]]
  BY DEF Init
<1>2. \A a : Collected(a, 1, {}, task)
  BY DEF Collected
<1>3. ASSUME NEW a \in Analyses
      PROVE  BundleOK(a, bundle[a], task)
  <2>1. bundle[a] = [pc |-> "fetching", next |-> 1, errors |-> {}]
    BY <1>1
  <2>2. Len(Required) \in Nat \ {0}
    BY RequiredIs
  <2>3. QED
    BY <1>2, <2>1, <2>2 DEF BundleOK
<1>4. QED
  BY <1>1, <1>3 DEF BundleInv

LEMMA BundleStep == CountInv /\ TasksInv /\ BundleInv /\ [Next]_vars => BundleInv'
<1> SUFFICES ASSUME CountInv, TasksInv, BundleInv, [Next]_vars PROVE BundleInv'
  OBVIOUS
<1>1. ASSUME NEW t \in Tasks, FetchStep(t) \/ NextRequest(t)
      PROVE  BundleInv'
  <2>1. bundle' = bundle
    BY <1>1 DEF FetchStep, Answer, ServiceFails, CacheHit, StartFetch, AnswerFails, AnswerLost,
                AnswerGood, Salvage, NextRequest
  <2>2. \A u \in Tasks : u[1] # "market" /\ Ended(u) => task'[u] = task[u]
    BY <1>1, EndedStays
  <2>3. \A a \in Analyses : BundleOK(a, bundle[a], task')
    BY <2>2, BundleOKStays DEF BundleInv
  <2>4. QED
    BY <2>1, <2>3 DEF BundleInv
<1>2. ASSUME NEW a \in Analyses, Collect(a)
      PROVE  BundleInv'
  BY <1>2, CollectKeeps
<1>3. CASE UNCHANGED <<task, bundle>>
  BY <1>3 DEF BundleInv
<1>4. QED
  BY <1>1, <1>2, <1>3 DEF Next, Midnight, vars

LEMMA CollectedIsTrue ==
    ASSUME BundleInv, NEW a \in Analyses, bundle[a].pc = "ready"
    PROVE  /\ \A t \in TasksOf(a) : Ended(t)
           /\ task[<<a, Main>>].pc = "done"
           /\ bundle[a].errors = {t[2] : t \in {u \in TasksOf(a) : task[u].pc = "failed"}}
<1> DEFINE n == Len(Required) + 1
<1>1. Collected(a, n, bundle[a].errors, task)
  BY DEF BundleInv, BundleOK
<1>2. n - 1 = Len(Required) /\ 1 \in 1..Len(Required) /\ FetchOf(a, 1) = <<a, Main>>
  BY RequiredIs DEF FetchOf
<1>3. \A k \in 1..Len(Required) : FetchOf(a, k) \in TasksOf(a) /\ FetchOf(a, k)[2] = Required[k]
  BY FetchIs, TasksOfAre DEF FetchOf
<1>4. \A t \in TasksOf(a) : \E k \in 1..Len(Required) : t = FetchOf(a, k)
  BY FetchIs
<1> HIDE DEF n
<1>5. \A k \in 1..Len(Required) :
          /\ task[FetchOf(a, k)].pc \in {"done", "failed"}
          /\ task[FetchOf(a, k)].pc = "failed" => Required[k] # Main
  BY <1>1, <1>2 DEF Collected
<1>6. \A tf : tf \in bundle[a].errors <=>
          \E k \in 1..Len(Required) : Required[k] = tf /\ task[FetchOf(a, k)].pc = "failed"
  BY <1>1, <1>2 DEF Collected
<1>7. \A t \in TasksOf(a) : Ended(t)
  BY <1>4, <1>5 DEF Ended
<1>8. task[<<a, Main>>].pc = "done"
  BY <1>2, <1>5, RequiredIs
<1>9. \A tf : tf \in bundle[a].errors
              <=> \E t \in TasksOf(a) : task[t].pc = "failed" /\ t[2] = tf
  BY <1>3, <1>4, <1>6
<1>10. QED
  BY <1>7, <1>8, <1>9

LEMMA ProvidersInvHolds == Spec => [](CountInv /\ TasksInv /\ OvershootBounded /\ BundleInv)
<1>1. Init => CountInv /\ TasksInv /\ OvershootBounded /\ BundleInv
  BY CountInit, TasksInit, OvershootInit, BundleInit
<1>2. CountInv /\ TasksInv /\ OvershootBounded /\ BundleInv /\ [Next]_vars
        => (CountInv /\ TasksInv /\ OvershootBounded /\ BundleInv)'
  BY CountStep, TasksStep, OvershootStep, BundleStep
<1>3. QED
  BY <1>1, <1>2, PTL DEF Spec

\* Whatever number of fetches passed the check of a limiter together, their answers
\* and the requests still out exceed the limit by at most the other fetches.
THEOREM OvershootBoundedHolds == Spec => []OvershootBounded
BY ProvidersInvHolds, PTL

\* A bundle is ready with every fetch over, the main candles in it and exactly the
\* failed timeframes listed, and fails only for its main timeframe.
THEOREM BundleIsTrueHolds == Spec => []BundleIsTrue
<1>1. BundleInv => BundleIsTrue
  <2>1. ASSUME BundleInv, NEW a \in Analyses, bundle[a].pc = "failed"
        PROVE  task[<<a, Main>>].pc = "failed"
    BY <2>1 DEF BundleInv, BundleOK
  <2>2. QED
    BY <2>1, CollectedIsTrue DEF BundleIsTrue
<1>2. QED
  BY <1>1, ProvidersInvHolds, PTL

\* However many fetches share a limiter, and however the midnights fall between
\* a check and the count of its answer: who is passed over has answered Limit times.
THEOREM SpentIsAnsweredHolds == Spec => []SpentIsAnswered
<1>1. CountInv => SpentIsAnswered
  <2>1. ASSUME CountInv, NEW o \in Owners, NEW p \in Keys, Spent(limiter[o][p])
        PROVE  answered[o][p] >= Limit
    <3>1. limiter[o][p] \in Limiter /\ answered[o][p] \in Nat /\ Limit \in Nat \ {0} /\ day \in Nat
      BY <2>1, ProvidersAssumption DEF CountInv
    <3>2. limiter[o][p].date = day
      BY <2>1, <3>1 DEF Spent, Checked
    <3>3. limiter[o][p].count >= Limit
      BY <2>1, <3>2 DEF Spent, Checked
    <3>4. QED
      BY <2>1, <3>1, <3>2, <3>3 DEF CountInv, Limiter
  <2>2. QED
    BY <2>1 DEF SpentIsAnswered
<1>2. QED
  BY <1>1, CountInit, CountStep, PTL DEF Spec
=============================================================================
