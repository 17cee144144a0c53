-------------------------- MODULE OhlcvCacheProofs --------------------------
(***************************************************************************)
(* Proofs about OhlcvCache, for any calls, any market, any window and any  *)
(* clocks.                                                                 *)
(***************************************************************************)
EXTENDS OhlcvCache, WellFoundedInduction, TLAPS

(***************************************************************************)
(* Timestamps                                                              *)
(***************************************************************************)
LEMMA LengthOrder ==
    ASSUME NEW x \in Int, NEW y \in Int
    PROVE  /\ Length * x \in Int
           /\ Length * x <= Length * y <=> x <= y
           /\ Length * (x - y) = Length * x - Length * y
<1>1. Length \in Int /\ Length > 0
  BY OhlcvAssumption
<1>2. Length * x \in Int /\ Length * y \in Int
  BY <1>1
<1>3. Length * (x - y) = Length * x - Length * y
  BY <1>1
<1>4. ASSUME x <= y
      PROVE  Length * x <= Length * y
  <2>1. y - x \in Nat
    BY <1>4
  <2>2. Length * (y - x) >= 0
    BY <1>1, <2>1
  <2>3. Length * (y - x) = Length * y - Length * x
    BY <1>1
  <2>4. QED
    BY <1>2, <2>2, <2>3
<1>5. ASSUME ~(x <= y)
      PROVE  ~(Length * x <= Length * y)
  <2>1. x - y \in Nat /\ x - y > 0
    BY <1>5
  <2>2. Length * (x - y) > 0
    BY <1>1, <2>1
  <2>3. QED
    BY <1>2, <1>3, <2>2
<1>6. QED
  BY <1>2, <1>3, <1>4, <1>5

LEMMA StampTyped ==
    ASSUME NEW k \in Candles, NEW clock \in Clocks
    PROVE  /\ clock[k] \in 0..Furthest
           /\ Length * k \in Int
           /\ Stamp(k, clock) \in 1..LastStamp
           /\ LastStamp \in Nat
<1>1. clock[k] \in 0..Furthest /\ Furthest \in Nat
  BY OhlcvAssumption
<1>2. k \in Int /\ 1 <= k /\ k <= LastCandle /\ LastCandle \in Int
  BY OhlcvAssumption DEF Candles
<1>3. /\ Length * k \in Int /\ Length * LastCandle \in Int
      /\ Length * k <= Length * LastCandle
  BY <1>2, LengthOrder
<1>4. Length * k >= 1
  BY <1>2, OhlcvAssumption
<1>5. /\ Length * k + clock[k] >= 1
      /\ Length * k + clock[k] <= Length * LastCandle + Furthest
      /\ Length * k + clock[k] \in Int
      /\ Length * LastCandle + Furthest \in Nat
  BY <1>1, <1>3, <1>4
<1>6. QED
  BY <1>1, <1>3, <1>5 DEF Stamp, LastStamp

LEMMA LastStampTyped == LastStamp \in Nat
<1>1. Length * LastCandle \in Nat
  BY OhlcvAssumption
<1>2. QED
  BY <1>1, OhlcvAssumption DEF LastStamp

LEMMA RowFields ==
    ASSUME NEW table \in SUBSET Row, NEW r \in table
    PROVE  /\ r.of \in Candles /\ r.at \in 1..LastStamp /\ r.open \in BOOLEAN
           /\ r.of \in Int /\ r.at \in Int
           /\ r = [of |-> r.of, at |-> r.at, open |-> r.open]
BY OhlcvAssumption, LastStampTyped DEF Row, Candles

(***************************************************************************)
(* The newest row of a table                                               *)
(***************************************************************************)
Before == OpToRel(<, Nat)

LEMMA BeforeIff ==
    ASSUME NEW x \in Nat, NEW y \in Nat
    PROVE  <<x, y>> \in Before <=> x < y
BY DEF Before, OpToRel

\* A bounded set has a greatest element: the one with the fewest left above it.
LEMMA HasMaximum ==
    ASSUME NEW N \in Nat, NEW T \in SUBSET (1..N), T # {}
    PROVE  \E k \in T : \A j \in T : j <= k
<1> DEFINE Left == {n \in Nat : \E k \in T : n = N - k}
<1>1. Left # {}
  <2>1. PICK k \in T : TRUE
    OBVIOUS
  <2>2. N - k \in Left
    OBVIOUS
  <2>3. QED
    BY <2>2
<1>2. IsWellFoundedOn(Before, Nat)
  BY NatLessThanWellFounded DEF Before
<1>3. PICK x \in Left : \A y \in Left : ~(<<y, x>> \in Before)
  BY <1>1, <1>2, WFMin
<1>4. PICK k \in T : x = N - k
  OBVIOUS
<1>5. ASSUME NEW j \in T
      PROVE  j <= k
  <2>1. N - j \in Left /\ x \in Nat
    OBVIOUS
  <2>2. ~(N - j < x)
    BY <2>1, <1>3, BeforeIff
  <2>3. QED
    BY <2>2, <1>4
<1>6. QED
  BY <1>5

\* What get_latest_timestamp returns.
LEMMA NewestProperties ==
    ASSUME NEW table \in SUBSET Row
    PROVE  /\ Newest(table) \in 0..LastStamp
           /\ Newest(table) = 0 <=> table = {}
           /\ table # {} => \E r \in table : r.at = Newest(table)
           /\ \A r \in table : r.at <= Newest(table)
<1>1. CASE table = {}
  BY <1>1, LastStampTyped DEF Newest
<1>2. CASE table # {}
  <2> DEFINE T == {x \in 1..LastStamp : \E r \in table : r.at = x}
  <2>1. T # {}
    <3>1. PICK r \in table : TRUE
      BY <1>2
    <3>2. r.at \in T
      BY RowFields
    <3>3. QED
      BY <3>2
  <2>2. PICK x \in T : \A y \in T : y <= x
    BY <2>1, LastStampTyped, HasMaximum
  <2>3. \A r \in table : r.at <= x
    BY <2>2, RowFields
  <2>4. \E y \in 1..LastStamp :
          (\E r \in table : r.at = y) /\ \A r \in table : r.at <= y
    BY <2>3
  <2>5. /\ Newest(table) \in 1..LastStamp
        /\ \E r \in table : r.at = Newest(table)
        /\ \A r \in table : r.at <= Newest(table)
    BY <2>4, <1>2 DEF Newest
  <2>6. QED
    BY <2>5, <1>2, LastStampTyped
<1>3. QED
  BY <1>1, <1>2

LEMMA NewestIs ==
    ASSUME NEW table \in SUBSET Row, NEW n \in table, \A r \in table : r.at <= n.at
    PROVE  Newest(table) = n.at
<1>1. /\ Newest(table) \in Int /\ n.at \in Int /\ n.at <= Newest(table)
      /\ \E r \in table : r.at = Newest(table)
  BY NewestProperties, RowFields, LastStampTyped
<1>2. QED
  BY <1>1

\* A table that reaches every timestamp of another is no older.
LEMMA NewestMonotone ==
    ASSUME NEW t \in SUBSET Row, NEW u \in SUBSET Row,
           \A r \in t : \E q \in u : q.at = r.at
    PROVE  Newest(t) <= Newest(u)
<1>1. Newest(t) \in Nat /\ Newest(u) \in Nat
  BY NewestProperties, LastStampTyped
<1>2. CASE t = {}
  BY <1>1, <1>2, NewestProperties
<1>3. CASE t # {}
  BY <1>3, NewestProperties
<1>4. QED
  BY <1>2, <1>3

(***************************************************************************)
(* The inductive invariant                                                 *)
(***************************************************************************)
\* OneClock and AsNewAs of given clocks.
Steady(os) == \A o, p \in os : \A j, k \in Candles : o[j] = p[k]

AsNew(result, answer, os) ==
    \A a \in answer : \E r \in result :
        Length * (a.of - r.of) <= IF Steady(os) THEN 0 ELSE Furthest

\* Every row carries the time of one of the clocks.
Stamped(table, os) == \A r \in table : \E o \in os : r.at = Stamp(r.of, o)

\* What a provider's answer is: successive candles, of which the last may be open.
AnswerOK(answer, os) ==
    /\ Whole(answer)
    /\ \A r, q \in answer : r.of = q.of => r = q
    /\ \A r, q \in answer : r.open => q.of <= r.of
    /\ Stamped(answer, os)

\* What a call is to return.
ResultOK(s, os) ==
    /\ AsNew(s.result, s.answer, os)
    /\ s.path = "hit" \/ s.answer = {} => Newest(s.result) >= s.latest

\* What the state of a call says about the newest row and the clocks.
CallOK(s, newest, os) ==
    /\ s.latest <= newest
    /\ s.pc \in {"age", "fetch"} => s.answer = {}
    /\ s.pc \in {"direct", "salvage"} => s.answer = {}
    /\ s.pc = "direct" => s.path # "hit"
    /\ s.pc = "upsert" => AnswerOK(s.answer, os) /\ Delta(s) # {}
    /\ s.pc = "reread" => /\ Stamped(s.answer, os)
                          /\ \A a \in s.answer : a.at <= newest
    /\ s.pc = "done" /\ ~s.hurt => ResultOK(s, os)
    /\ s.pc = "failed" /\ ~s.hurt => s.latest = 0

CallsOK == \A c \in Calls : CallOK(call[c], Newest(rows), clocks)

IInv ==
    /\ TypeOK
    /\ Stamped(rows, clocks)
    /\ CallsOK
    /\ RowsSettled

LEMMA SteadyIff ==
    /\ OneClock <=> Steady(clocks)
    /\ \A result, answer : AsNewAs(result, answer) <=> AsNew(result, answer, clocks)
BY DEF OneClock, Steady, AsNewAs, AsNew

LEMMA StampedMonotone ==
    ASSUME NEW table, NEW os, NEW os2, os \subseteq os2, Stamped(table, os)
    PROVE  Stamped(table, os2)
BY DEF Stamped

\* An answer stays as new as it was on more clocks.
LEMMA AsNewMonotone ==
    ASSUME NEW result \in SUBSET Row, NEW answer \in SUBSET Row,
           NEW os, NEW os2, os \subseteq os2, AsNew(result, answer, os)
    PROVE  AsNew(result, answer, os2)
<1>1. Steady(os2) => Steady(os)
  BY DEF Steady
<1>2. SUFFICES ASSUME NEW a \in answer
               PROVE  \E r \in result :
                        Length * (a.of - r.of) <= IF Steady(os2) THEN 0 ELSE Furthest
  BY DEF AsNew
<1>3. PICK r \in result : Length * (a.of - r.of) <= IF Steady(os) THEN 0 ELSE Furthest
  BY DEF AsNew
<1>4. a.of - r.of \in Int
  BY RowFields
<1>5. Length * (a.of - r.of) \in Int /\ Furthest \in Nat
  BY <1>4, OhlcvAssumption
<1>6. Length * (a.of - r.of) <= IF Steady(os2) THEN 0 ELSE Furthest
  BY <1>1, <1>3, <1>5
<1>7. QED
  BY <1>6

LEMMA CallOKMonotone ==
    ASSUME NEW s \in CallState, NEW n \in Nat, NEW n2 \in Nat, n <= n2,
           NEW os, NEW os2, os \subseteq os2, CallOK(s, n, os)
    PROVE  CallOK(s, n2, os2)
<1>1. /\ s.latest \in Int
      /\ s.answer \in SUBSET Row /\ s.result \in SUBSET Row
  BY LastStampTyped DEF CallState
<1>2. s.latest <= n2
  BY <1>1 DEF CallOK
<1>3. ASSUME s.pc = "upsert"
      PROVE  AnswerOK(s.answer, os2) /\ Delta(s) # {}
  BY <1>3, StampedMonotone DEF CallOK, AnswerOK
<1>4. ASSUME s.pc = "reread"
      PROVE  Stamped(s.answer, os2) /\ \A a \in s.answer : a.at <= n2
  <2>1. Stamped(s.answer, os2)
    BY <1>4, StampedMonotone DEF CallOK
  <2>2. \A a \in s.answer : a.at <= n2
    BY <1>1, <1>4, RowFields DEF CallOK
  <2>3. QED
    BY <2>1, <2>2
<1>5. ASSUME s.pc = "done", ~s.hurt
      PROVE  ResultOK(s, os2)
  BY <1>1, <1>5, AsNewMonotone DEF CallOK, ResultOK
<1>6. QED
  BY <1>2, <1>3, <1>4, <1>5 DEF CallOK

\* A step of one call that takes no row away leaves the others as they should be.
LEMMA StepKeepsCalls ==
    ASSUME TypeOK, TypeOK', CallsOK,
           NEW c \in Calls, NEW from, NEW s, Step(c, from, s),
           CallOK(s, Newest(rows'), clocks'),
           Newest(rows) <= Newest(rows'), clocks \subseteq clocks'
    PROVE  CallsOK'
<1>1. Newest(rows) \in Nat /\ Newest(rows') \in Nat
  BY NewestProperties, LastStampTyped DEF TypeOK
<1>2. ASSUME NEW d \in Calls
      PROVE  CallOK(call'[d], Newest(rows'), clocks')
  <2>1. CASE d = c
    BY <2>1 DEF Step, TypeOK
  <2>2. CASE d # c
    <3>1. call'[d] = call[d] /\ call[d] \in CallState
      BY <2>2 DEF Step, TypeOK
    <3>2. CallOK(call[d], Newest(rows), clocks)
      BY DEF CallsOK
    <3>3. QED
      BY <3>1, <3>2, <1>1, CallOKMonotone
  <2>3. QED
    BY <2>1, <2>2
<1>3. QED
  BY <1>2 DEF CallsOK

LEMMA IdleTyped == Idle \in CallState
BY LastStampTyped DEF Idle, CallState, CallPCs, Paths

LEMMA InitIInv == Init => IInv
<1> SUFFICES ASSUME Init PROVE IInv
  OBVIOUS
<1>1. Newest({}) = 0 /\ rows = {}
  BY DEF Newest, Init
<1>2. TypeOK
  BY <1>1, IdleTyped DEF Init, TypeOK, Ages
<1>3. CallsOK
  <2>1. CallOK(Idle, 0, clocks)
    BY DEF CallOK, Idle
  <2>2. QED
    BY <1>1, <2>1 DEF Init, CallsOK
<1>4. Stamped(rows, clocks) /\ RowsSettled
  BY <1>1 DEF Stamped, RowsSettled, Whole
<1>5. QED
  BY <1>2, <1>3, <1>4 DEF IInv

(***************************************************************************)
(* The steps that leave the rows alone                                     *)
(***************************************************************************)
\* It is enough to look at the record a step of a call leaves.
LEMMA QuietStep ==
    ASSUME IInv, NEW c \in Calls, NEW from, NEW s, Step(c, from, s),
           s \in CallState, CallOK(s, Newest(rows), clocks'),
           clocks \subseteq clocks', clocks' \subseteq Clocks,
           UNCHANGED <<marketVars, rows, recent, late, gap>>
    PROVE  IInv'
<1>1. /\ rows' = rows /\ market' = market /\ intraday' = intraday
      /\ recent' = recent /\ late' = late /\ gap' = gap
  BY DEF marketVars
<1>2. TypeOK'
  BY <1>1 DEF IInv, TypeOK, Step
<1>3. Newest(rows) \in Nat
  BY NewestProperties, LastStampTyped DEF IInv, TypeOK
<1>4. CallsOK'
  <2>1. CallOK(s, Newest(rows'), clocks') /\ Newest(rows) <= Newest(rows')
    BY <1>1, <1>3
  <2>2. QED
    BY <1>2, <2>1, StepKeepsCalls DEF IInv
<1>5. Stamped(rows', clocks')
  BY <1>1, StampedMonotone DEF IInv
<1>6. RowsSettled'
  <2>1. OneClock' => OneClock
    BY DEF OneClock
  <2>2. Newest(rows)' = Newest(rows) /\ Whole(rows)' = Whole(rows)
    BY <1>1
  <2>3. QED
    BY <1>1, <2>1, <2>2 DEF IInv, RowsSettled
<1>7. QED
  BY <1>2, <1>4, <1>5, <1>6 DEF IInv

\* What the invariant says of one call.
LEMMA OneCall ==
    ASSUME IInv, NEW c \in Calls
    PROVE  /\ call[c] \in CallState
           /\ call[c].latest \in 0..LastStamp
           /\ call[c].answer \in SUBSET Row
           /\ call[c].path \in Paths /\ call[c].hurt \in BOOLEAN
           /\ call[c].result \in SUBSET Row
           /\ CallOK(call[c], Newest(rows), clocks)
           /\ rows \in SUBSET Row
           /\ Newest(rows) \in 0..LastStamp
           /\ Newest(rows) \in Int /\ call[c].latest \in Int
           /\ clocks \subseteq Clocks
<1>1. rows \in SUBSET Row /\ call[c] \in CallState /\ clocks \subseteq Clocks
  BY DEF IInv, TypeOK
<1>2. Newest(rows) \in 0..LastStamp
  BY <1>1, NewestProperties
<1>3. QED
  BY <1>1, <1>2, LastStampTyped DEF IInv, CallsOK, CallState

\* A step that asks no provider and writes nothing.
LEMMA StoreAlone ==
    ASSUME UNCHANGED <<marketVars, storeVars>>
    PROVE  clocks' = clocks /\ UNCHANGED <<marketVars, rows, recent, late, gap>>
BY DEF storeVars

LEMMA SilentStep ==
    ASSUME IInv, NEW c \in Calls, NEW from, NEW s, Step(c, from, s),
           s \in CallState, CallOK(s, Newest(rows), clocks),
           UNCHANGED <<marketVars, storeVars>>
    PROVE  IInv'
<1>1. clocks' = clocks /\ UNCHANGED <<marketVars, rows, recent, late, gap>>
  BY StoreAlone
<1>2. clocks \subseteq clocks' /\ clocks' \subseteq Clocks
  BY <1>1 DEF IInv, TypeOK
<1>3. CallOK(s, Newest(rows), clocks')
  BY <1>1
<1>4. QED
  BY <1>1, <1>2, <1>3, QuietStep

LEMMA HurtStep ==
    ASSUME IInv, NEW c \in Calls, NEW from, NEW to \in {"direct", "reread", "failed"},
           Hurt(c, from, to), UNCHANGED <<marketVars, storeVars>>
    PROVE  IInv'
<1> DEFINE s == [Idle EXCEPT !.pc = to, !.hurt = TRUE]
<1>1. s \in CallState
  BY IdleTyped DEF CallState, CallPCs
<1>2. CallOK(s, Newest(rows), clocks)
  <2>1. /\ s.pc = to /\ s.hurt = TRUE /\ s.latest = 0
        /\ s.answer = {} /\ s.path = "none"
    BY DEF Idle
  <2>2. 0 <= Newest(rows)
    BY OneCall, LastStampTyped
  <2>3. QED
    BY <2>1, <2>2 DEF CallOK, Stamped
<1>3. QED
  BY <1>1, <1>2, SilentStep DEF Hurt

LEMMA ReturnRows ==
    ASSUME IInv, NEW c \in Calls, NEW from \in {"reread", "salvage"},
           Return(c, from, rows), UNCHANGED <<marketVars, storeVars>>
    PROVE  IInv'
<1> DEFINE s == [call[c] EXCEPT !.pc = "done", !.result = rows]
<1>1. s \in CallState
  BY OneCall DEF CallState, CallPCs
<1>2. /\ s.pc = "done" /\ s.hurt = call[c].hurt /\ s.result = rows
      /\ s.latest = call[c].latest /\ s.answer = call[c].answer
  BY OneCall DEF CallState
<1>3. /\ Stamped(call[c].answer, clocks)
      /\ \A a \in call[c].answer : a.at <= Newest(rows)
  <2>1. call[c].pc = from
    BY DEF Return, Step
  <2>2. QED
    BY <2>1, OneCall DEF CallOK, Stamped
<1>4. AsNew(rows, call[c].answer, clocks)
  <2>1. SUFFICES ASSUME NEW a \in call[c].answer
                 PROVE  \E r \in rows : Length * (a.of - r.of)
                                          <= IF Steady(clocks) THEN 0 ELSE Furthest
    BY DEF AsNew
  <2>2. PICK p \in clocks : a.at = Stamp(a.of, p)
    BY <1>3 DEF Stamped
  <2>3. a.of \in Candles /\ a.of \in Int /\ a.at \in 1..LastStamp
    BY OneCall, RowFields
  <2>4. rows # {}
    <3>1. a.at <= Newest(rows) /\ 1 <= a.at
      BY <1>3, <2>3, LastStampTyped
    <3>2. Newest(rows) # 0
      BY <3>1, <2>3, LastStampTyped, OneCall
    <3>3. QED
      BY <3>2, OneCall, NewestProperties
  <2>5. PICK r \in rows : r.at = Newest(rows)
    BY <2>4, OneCall, NewestProperties
  <2>6. PICK o \in clocks : r.at = Stamp(r.of, o)
    BY DEF IInv, Stamped
  <2>7. r.of \in Candles /\ r.of \in Int
    BY OneCall, RowFields
  <2>8. o \in Clocks /\ p \in Clocks
    BY OneCall
  <2>9. /\ o[r.of] \in 0..Furthest /\ p[a.of] \in 0..Furthest
        /\ Length * r.of \in Int /\ Length * a.of \in Int
    BY <2>3, <2>7, <2>8, StampTyped
  <2>10. Length * a.of + p[a.of] <= Length * r.of + o[r.of]
    <3>1. Stamp(a.of, p) <= Stamp(r.of, o)
      BY <1>3, <2>2, <2>5, <2>6
    <3>2. QED
      BY <3>1 DEF Stamp
  <2>11. Length * (a.of - r.of) = Length * a.of - Length * r.of
    BY <2>3, <2>7, LengthOrder
  <2>12. Steady(clocks) => o[r.of] = p[a.of]
    BY <2>3, <2>7 DEF Steady
  <2>13. Length * (a.of - r.of) <= IF Steady(clocks) THEN 0 ELSE Furthest
    BY <2>9, <2>10, <2>11, <2>12, OhlcvAssumption
  <2>14. QED
    BY <2>13
<1>5. CallOK(s, Newest(rows), clocks)
  <2>1. Newest(rows) >= call[c].latest
    BY OneCall DEF CallOK
  <2>2. ResultOK(s, clocks)
    BY <1>2, <1>4, <2>1 DEF ResultOK
  <2>3. QED
    BY <1>2, <2>1, <2>2, OneCall DEF CallOK
<1>6. QED
  BY <1>1, <1>5, SilentStep DEF Return

LEMMA ReadsIInv ==
    ASSUME IInv, NEW c \in Calls, ReadLatest(c) \/ ReadFetchedAt(c)
    PROVE  IInv'
<1>1. CASE ReadLatest(c)
  <2> DEFINE s == [Idle EXCEPT !.pc = "age", !.latest = Newest(rows)]
  <2>1. s \in CallState
    BY IdleTyped, OneCall DEF CallState, CallPCs
  <2>2. CallOK(s, Newest(rows), clocks)
    BY OneCall DEF CallOK, Idle
  <2>3. QED
    BY <1>1, <2>1, <2>2, SilentStep DEF ReadLatest
<1>2. CASE ReadFetchedAt(c)
  <2> DEFINE s == [call[c] EXCEPT !.pc = "fetch", !.path = PathOf(call[c].latest)]
  <2>1. s \in CallState
    BY OneCall DEF CallState, CallPCs, PathOf, Paths
  <2>2. /\ s.pc = "fetch" /\ s.latest = call[c].latest /\ s.answer = call[c].answer
    BY OneCall DEF CallState
  <2>3. call[c].pc = "age"
    BY <1>2 DEF ReadFetchedAt, Step
  <2>4. CallOK(s, Newest(rows), clocks)
    BY <2>2, <2>3, OneCall DEF CallOK
  <2>5. QED
    BY <1>2, <2>1, <2>4, SilentStep DEF ReadFetchedAt
<1>3. QED
  BY <1>1, <1>2

LEMMA QuoteProperties ==
    ASSUME NEW n \in Candles, NEW clock \in Clocks, NEW os, clock \in os
    PROVE  /\ Quote(n, clock) \in SUBSET Row /\ Quote(n, clock) # {}
           /\ n <= market => AnswerOK(Quote(n, clock), os)
<1> DEFINE K == {j \in Candles : n - Window < j /\ j <= n}
           q == Quote(n, clock)
<1>1. /\ \A k \in K : k \in Int /\ k \in Candles /\ n - Window < k /\ k <= n
      /\ \A k \in Candles : n - Window < k /\ k <= n => k \in K
      /\ n \in Int /\ Window \in Int
  BY OhlcvAssumption DEF Candles
<1>2. q = {[of |-> k, at |-> Stamp(k, clock), open |-> k = market] : k \in K}
  BY DEF Quote
<1>3. \A k \in K : Stamp(k, clock) \in 1..LastStamp
  BY StampTyped
<1> HIDE DEF K, q
<1>4. \A k \in K : [of |-> k, at |-> Stamp(k, clock), open |-> k = market] \in Row
  BY <1>1, <1>3 DEF Row
<1>5. q \in SUBSET Row
  BY <1>2, <1>4
<1>6. \A r \in q : /\ r.of \in K /\ r.at = Stamp(r.of, clock)
                   /\ r.open = (r.of = market)
  BY <1>2
<1>7. \A k \in K : \E r \in q : r.of = k
  <2>1. SUFFICES ASSUME NEW k \in K PROVE \E r \in q : r.of = k
    OBVIOUS
  <2>2. [of |-> k, at |-> Stamp(k, clock), open |-> k = market] \in q
    BY <1>2
  <2>3. QED
    BY <2>2
<1>8. ASSUME n <= market
      PROVE  AnswerOK(q, os)
  <2>1. Whole(q)
    <3>1. SUFFICES ASSUME NEW r \in q, NEW p \in q, NEW k \in r.of..p.of
                   PROVE  \E x \in q : x.of = k
      BY DEF Whole
    <3>2. r.of \in Int /\ p.of \in Int /\ r.of \in Candles /\ p.of \in Candles
          /\ n - Window < r.of /\ p.of <= n
      BY <1>1, <1>6
    <3>3. k \in Candles /\ n - Window < k /\ k <= n
      BY <3>2, <1>1, OhlcvAssumption DEF Candles
    <3>4. QED
      BY <3>3, <1>1, <1>7
  <2>2. \A r, p \in q : r.of = p.of => r = p
    BY <1>2
  <2>3. \A r, p \in q : r.open => p.of <= r.of
    <3>1. SUFFICES ASSUME NEW r \in q, NEW p \in q, r.open
                   PROVE  p.of <= r.of
      OBVIOUS
    <3>2. r.of = market /\ p.of <= n /\ r.of <= n /\ r.of \in Int /\ p.of \in Int
      BY <3>1, <1>1, <1>6
    <3>3. QED
      BY <3>2, <1>1, <1>8
  <2>4. Stamped(q, os)
    BY <1>6 DEF Stamped
  <2>5. QED
    BY <2>1, <2>2, <2>3, <2>4 DEF AnswerOK
<1>9. q # {}
  <2>1. n \in K
    BY <1>1, OhlcvAssumption
  <2>2. QED
    BY <2>1, <1>7
<1>10. QED
  BY <1>5, <1>8, <1>9 DEF q

LEMMA FetchIInv ==
    ASSUME IInv, NEW c \in Calls, Fetch(c)
    PROVE  IInv'
<1>1. call[c].pc = "fetch" /\ UNCHANGED <<marketVars, rows, recent, late, gap>>
  BY DEF Fetch, Step, Goto
<1>2. ASSUME NEW n \in Quotable, NEW clock \in Clocks,
             NEW s, s = [call[c] EXCEPT !.answer = Quote(n, clock)],
             NEW to, to = (IF Delta(s) = {} THEN "reread" ELSE "upsert"),
             Step(c, "fetch", [s EXCEPT !.pc = to]),
             clocks' = clocks \cup {clock}
      PROVE  IInv'
  <2> DEFINE t == [s EXCEPT !.pc = to]
  <2>1. n \in Candles /\ n <= market
    BY OhlcvAssumption DEF Quotable, Candles, IInv, TypeOK
  <2>2. /\ Quote(n, clock) \in SUBSET Row
        /\ AnswerOK(Quote(n, clock), clocks')
    BY <2>1, <1>2, QuoteProperties
  <2>3. s \in CallState
    BY <1>2, <2>2, OneCall DEF CallState
  <2>4. to \in CallPCs
    BY <1>2 DEF CallPCs
  <2>5. t \in CallState
    BY <2>3, <2>4 DEF CallState
  <2>6. /\ t.pc = to /\ t.hurt = call[c].hurt /\ t.path = call[c].path
        /\ t.latest = call[c].latest /\ t.answer = Quote(n, clock)
        /\ s.path = call[c].path /\ s.latest = call[c].latest
        /\ s.answer = Quote(n, clock)
    BY <1>2, <2>3, OneCall DEF CallState
  <2>7. Delta(t) = Delta(s)
    BY <2>6 DEF Delta
  <2>8. t.latest <= Newest(rows)
    BY <2>6, OneCall DEF CallOK
  <2>9. CASE Delta(s) = {}
    <3>1. \A a \in t.answer : a.at <= Newest(rows)
      <4>1. SUFFICES ASSUME NEW a \in t.answer PROVE a.at <= Newest(rows)
        OBVIOUS
      <4>2. ~(a.at >= t.latest)
        BY <2>6, <2>9, <4>1 DEF Delta
      <4>3. a.at \in Int
        BY <2>2, <2>6, RowFields
      <4>4. QED
        BY <4>2, <4>3, <2>6, <2>8, OneCall
    <3>2. Stamped(t.answer, clocks')
      BY <2>2, <2>6 DEF AnswerOK
    <3>3. CallOK(t, Newest(rows), clocks')
      BY <1>2, <2>6, <2>8, <2>9, <3>1, <3>2 DEF CallOK
    <3>4. QED
      BY <1>1, <1>2, <2>5, <3>3, QuietStep, OneCall
  <2>10. CASE Delta(s) # {}
    <3>1. t.pc = "upsert" /\ Delta(t) # {} /\ AnswerOK(t.answer, clocks')
      BY <1>2, <2>2, <2>6, <2>7, <2>10
    <3>2. CallOK(t, Newest(rows), clocks')
      <4> HIDE DEF t
      <4>1. QED
        BY <2>8, <3>1 DEF CallOK
    <3>3. QED
      BY <1>1, <1>2, <2>5, <3>2, QuietStep, OneCall
  <2>11. QED
    BY <2>9, <2>10
<1>3. ASSUME NEW to, to = (IF call[c].path = "hit" THEN "reread" ELSE "direct"),
             Goto(c, "fetch", to), UNCHANGED clocks
      PROVE  IInv'
  <2> DEFINE s == [call[c] EXCEPT !.pc = to]
  <2>1. s \in CallState
    BY <1>3, OneCall DEF CallState, CallPCs
  <2>2. /\ s.pc = to /\ s.hurt = call[c].hurt /\ s.path = call[c].path
        /\ s.latest = call[c].latest /\ s.answer = call[c].answer
    BY OneCall DEF CallState
  <2>3. s.latest <= Newest(rows) /\ s.answer = {}
    BY <1>1, <2>2, OneCall DEF CallOK
  <2>4. CallOK(s, Newest(rows), clocks)
    BY <1>3, <2>2, <2>3 DEF CallOK, Stamped
  <2>5. UNCHANGED <<marketVars, storeVars>>
    BY <1>1, <1>3 DEF storeVars
  <2>6. QED
    BY <1>3, <2>1, <2>4, <2>5, SilentStep DEF Goto
<1>4. QED
  <2>1. CASE \E n \in Quotable, clock \in Clocks :
               LET s == [call[c] EXCEPT !.answer = Quote(n, clock)] IN
               /\ Step(c, "fetch",
                       [s EXCEPT !.pc = IF Delta(s) = {} THEN "reread" ELSE "upsert"])
               /\ clocks' = clocks \cup {clock}
    BY <2>1, <1>2
  <2>2. CASE /\ Goto(c, "fetch", IF call[c].path = "hit" THEN "reread" ELSE "direct")
             /\ UNCHANGED clocks
    BY <2>2, <1>3
  <2>3. QED
    BY <2>1, <2>2 DEF Fetch

LEMMA RereadIInv ==
    ASSUME IInv, NEW c \in Calls, Reread(c)
    PROVE  IInv'
BY ReturnRows DEF Reread

LEMMA StatementFailsIInv ==
    ASSUME IInv, NEW c \in Calls, StatementFails(c)
    PROVE  IInv'
<1>1. UNCHANGED <<marketVars, storeVars>>
  BY DEF StatementFails
<1>2. PICK from \in CallPCs, to \in {"direct", "reread", "failed"} : Hurt(c, from, to)
  BY DEF StatementFails, CallPCs
<1>3. QED
  BY <1>1, <1>2, HurtStep

\* The answer itself is as new as the answer.
LEMMA AsNewSelf ==
    ASSUME NEW answer \in SUBSET Row, NEW os
    PROVE  AsNew(answer, answer, os)
<1>1. SUFFICES ASSUME NEW a \in answer
               PROVE  Length * (a.of - a.of) <= IF Steady(os) THEN 0 ELSE Furthest
  BY DEF AsNew
<1>2. a.of \in Int
  BY RowFields
<1>3. Length * (a.of - a.of) = 0
  BY <1>2, OhlcvAssumption
<1>4. QED
  BY <1>3, OhlcvAssumption

LEMMA DirectFetchIInv ==
    ASSUME IInv, NEW c \in Calls, DirectFetch(c)
    PROVE  IInv'
<1>1. call[c].pc = "direct" /\ UNCHANGED <<marketVars, storeVars>>
  BY DEF DirectFetch, Step, Goto
<1>2. ASSUME NEW n \in Quotable, NEW clock \in Clocks,
             Step(c, "direct", [call[c] EXCEPT !.pc = "done",
                                               !.answer = Quote(n, clock),
                                               !.result = Quote(n, clock)])
      PROVE  IInv'
  <2> DEFINE s == [call[c] EXCEPT !.pc = "done", !.answer = Quote(n, clock),
                                  !.result = Quote(n, clock)]
  <2>1. Quote(n, clock) \in SUBSET Row /\ Quote(n, clock) # {}
    <3>1. n \in Candles /\ clock \in Clocks
      BY DEF Quotable
    <3>2. QED
      BY <3>1, QuoteProperties
  <2>2. s \in CallState
    BY <2>1, OneCall DEF CallState, CallPCs
  <2>3. /\ s.pc = "done" /\ s.result = Quote(n, clock)
        /\ s.latest = call[c].latest /\ s.answer = Quote(n, clock)
        /\ s.path = call[c].path /\ s.hurt = call[c].hurt
    BY OneCall DEF CallState
  <2>4. AsNew(s.result, s.answer, clocks)
    BY <2>1, <2>3, AsNewSelf
  <2>5. ResultOK(s, clocks)
    BY <1>1, <2>1, <2>3, <2>4, OneCall DEF ResultOK, CallOK
  <2>6. CallOK(s, Newest(rows), clocks)
    BY <2>3, <2>5, OneCall DEF CallOK
  <2>7. QED
    BY <1>1, <1>2, <2>2, <2>6, SilentStep DEF storeVars
<1>3. CASE Goto(c, "direct", "salvage")
  <2> DEFINE s == [call[c] EXCEPT !.pc = "salvage"]
  <2>1. s \in CallState
    BY OneCall DEF CallState, CallPCs
  <2>2. s.pc = "salvage" /\ s.latest = call[c].latest /\ s.answer = call[c].answer
    BY OneCall DEF CallState
  <2>3. CallOK(s, Newest(rows), clocks)
    BY <1>1, <2>2, OneCall DEF CallOK
  <2>4. QED
    BY <1>1, <1>3, <2>1, <2>3, SilentStep DEF Goto, storeVars
<1>4. QED
  BY <1>2, <1>3 DEF DirectFetch

LEMMA SalvageIInv ==
    ASSUME IInv, NEW c \in Calls, Salvage(c)
    PROVE  IInv'
<1>1. call[c].pc = "salvage" /\ UNCHANGED <<marketVars, storeVars>>
  BY DEF Salvage, Step, Goto, Return, Hurt
<1>2. CASE Return(c, "salvage", rows)
  BY <1>1, <1>2, ReturnRows
<1>3. CASE rows = {} /\ Goto(c, "salvage", "failed")
  <2> DEFINE s == [call[c] EXCEPT !.pc = "failed"]
  <2>1. s \in CallState
    BY OneCall DEF CallState, CallPCs
  <2>2. s.pc = "failed" /\ s.latest = call[c].latest /\ s.answer = call[c].answer
    BY OneCall DEF CallState
  <2>3. Newest(rows) = 0 /\ s.latest = 0
    BY <1>3, <2>2, OneCall, NewestProperties, LastStampTyped DEF CallOK
  <2>4. CallOK(s, Newest(rows), clocks)
    BY <2>2, <2>3 DEF CallOK
  <2>5. QED
    BY <1>1, <1>3, <2>1, <2>4, SilentStep DEF Goto
<1>4. CASE Hurt(c, "salvage", "failed")
  BY <1>1, <1>4, HurtStep
<1>5. QED
  BY <1>2, <1>3, <1>4 DEF Salvage

LEMMA NextCallIInv ==
    ASSUME IInv, NEW c \in Calls, NextCall(c)
    PROVE  IInv'
<1>1. Step(c, call[c].pc, Idle) /\ UNCHANGED <<marketVars, storeVars>>
  BY DEF NextCall, Step
<1>2. CallOK(Idle, Newest(rows), clocks)
  BY OneCall DEF CallOK, Idle
<1>3. QED
  BY <1>1, <1>2, IdleTyped, SilentStep

(***************************************************************************)
(* The step that writes                                                    *)
(***************************************************************************)
\* What a call that is about to write knows.
LEMMA AboutToWrite ==
    ASSUME IInv, NEW c \in Calls, call[c].pc = "upsert"
    PROVE  /\ AnswerOK(call[c].answer, clocks)
           /\ Delta(call[c]) # {} /\ Delta(call[c]) \in SUBSET call[c].answer
           /\ Delta(call[c]) \in SUBSET Row
           /\ call[c].latest <= Newest(rows)
<1>1. AnswerOK(call[c].answer, clocks) /\ Delta(call[c]) # {}
  BY OneCall DEF CallOK
<1>2. call[c].answer \in SUBSET Row /\ call[c].latest <= Newest(rows)
  BY OneCall DEF CallOK
<1>3. Delta(call[c]) \in SUBSET call[c].answer
  BY DEF Delta
<1>4. QED
  BY <1>1, <1>2, <1>3

\* A write leaves a row at every timestamp it found one, and one at every
\* timestamp it was given; and there is no other row.
LEMMA WrittenProperties ==
    ASSUME rows \in SUBSET Row, NEW table \in SUBSET Row
    PROVE  /\ Written(table) \in SUBSET (rows \cup table)
           /\ Written(table) \in SUBSET Row
           /\ \A r \in rows \cup table : \E x \in Written(table) : x.at = r.at
<1>1. /\ Written(table) \in SUBSET (rows \cup table)
      /\ Written(table) \in SUBSET Row
  BY DEF Written
<1>2. ASSUME NEW r \in table
      PROVE  \E x \in Written(table) : x.at = r.at
  <2> DEFINE T == {k \in Candles : \E v \in table : v.at = r.at /\ v.of = k}
  <2>1. r.of \in T
    BY RowFields
  <2>2. T \in SUBSET (1..LastCandle) /\ LastCandle \in Nat
    BY OhlcvAssumption DEF Candles
  <2>3. PICK k \in T : \A j \in T : j <= k
    BY <2>1, <2>2, HasMaximum
  <2>4. PICK w \in table : w.at = r.at /\ w.of = k
    BY <2>3
  <2>5. \A v \in table : v.at = w.at => v.of <= w.of
    BY <2>3, <2>4, RowFields
  <2>6. QED
    BY <2>4, <2>5 DEF Written
<1>3. ASSUME NEW r \in rows
      PROVE  \E x \in Written(table) : x.at = r.at
  <2>1. CASE \E w \in table : w.at = r.at
    BY <2>1, <1>2
  <2>2. CASE \A w \in table : w.at # r.at
    BY <2>2 DEF Written
  <2>3. QED
    BY <2>1, <2>2
<1>4. QED
  BY <1>1, <1>2, <1>3

\* The timestamp stays the key.
LEMMA WrittenUnique ==
    ASSUME rows \in SUBSET Row, NEW table \in SUBSET Row,
           \A r, q \in rows : r.at = q.at => r = q,
           \A r, q \in table : r.of = q.of => r = q
    PROVE  \A r, q \in Written(table) : r.at = q.at => r = q
<1> SUFFICES ASSUME NEW r \in Written(table), NEW q \in Written(table), r.at = q.at
             PROVE  r = q
  OBVIOUS
<1> DEFINE Kept == {x \in rows : \A w \in table : w.at # x.at}
           New == {w \in table : \A v \in table : v.at = w.at => v.of <= w.of}
<1>1. r \in Kept \cup New /\ q \in Kept \cup New
  BY DEF Written
<1>2. CASE r \in Kept /\ q \in Kept
  BY <1>2
<1>3. CASE r \in New /\ q \in New
  <2>1. r.of <= q.of /\ q.of <= r.of /\ r.of \in Int /\ q.of \in Int
    BY <1>3, RowFields
  <2>2. QED
    BY <1>3, <2>1
<1>4. ~(r \in Kept /\ q \in New) /\ ~(r \in New /\ q \in Kept)
  OBVIOUS
<1>5. QED
  BY <1>1, <1>2, <1>3, <1>4

\* On one clock the timestamps are in the order of the candles.
LEMMA InOrder ==
    ASSUME IInv, OneClock, NEW c \in Calls, call[c].pc = "upsert",
           NEW r \in rows \cup call[c].answer, NEW q \in rows \cup call[c].answer
    PROVE  /\ r.at <= q.at <=> r.of <= q.of
           /\ r.of \in Candles /\ q.of \in Candles /\ r.of \in Int /\ q.of \in Int
           /\ r.at \in Int /\ q.at \in Int
<1>1. Stamped(rows, clocks) /\ Stamped(call[c].answer, clocks)
  BY AboutToWrite DEF IInv, AnswerOK
<1>2. PICK o \in clocks : r.at = Stamp(r.of, o)
  BY <1>1 DEF Stamped
<1>3. PICK p \in clocks : q.at = Stamp(q.of, p)
  BY <1>1 DEF Stamped
<1>4. rows \cup call[c].answer \in SUBSET Row /\ o \in Clocks /\ p \in Clocks
  BY OneCall
<1>5. /\ r.of \in Candles /\ q.of \in Candles /\ r.of \in Int /\ q.of \in Int
      /\ r.at \in Int /\ q.at \in Int
  BY <1>4, RowFields
<1>6. o[r.of] = p[q.of]
  BY <1>5 DEF OneClock
<1>7. /\ o[r.of] \in 0..Furthest
      /\ Length * r.of \in Int /\ Length * q.of \in Int
  BY <1>4, <1>5, StampTyped
<1>8. Length * r.of <= Length * q.of <=> r.of <= q.of
  BY <1>5, LengthOrder
<1>9. r.at = Length * r.of + o[r.of] /\ q.at = Length * q.of + o[r.of]
  BY <1>2, <1>3, <1>6 DEF Stamp
<1>10. o[r.of] \in Int
  BY <1>7, OhlcvAssumption
<1>11. r.at <= q.at <=> r.of <= q.of
  BY <1>7, <1>8, <1>9, <1>10
<1>12. QED
  BY <1>5, <1>11

LEMMA CommitSettles ==
    ASSUME IInv, NEW c \in Calls, call[c].pc = "upsert", Commit(c)
    PROVE  RowsSettled'
<1> DEFINE s == call[c]
           d == Delta(s)
           all == rows \cup s.answer
<1> SUFFICES ASSUME ~late', ~gap', OneClock'
             PROVE  /\ \A r \in rows' : r.open => r.at = Newest(rows')
                    /\ Whole(rows')
  BY DEF RowsSettled, Whole
<1>1. /\ OneClock /\ rows' = Written(d)
      /\ ~late /\ ~gap
      /\ \A a \in s.answer : a.open => ~(a.at < Newest(rows))
      /\ rows # {} => \E a \in s.answer, r \in rows : a.at = r.at
  <2>1. clocks' = clocks
    BY DEF Commit
  <2>2. OneClock
    BY <2>1 DEF OneClock
  <2>3. late \in BOOLEAN /\ gap \in BOOLEAN
    BY DEF IInv, TypeOK
  <2>4. QED
    BY <2>2, <2>3 DEF Commit
<1>2. /\ \A r \in rows : r.open => r.at = Newest(rows)
      /\ Whole(rows)
  BY <1>1 DEF IInv, RowsSettled
<1>3. /\ AnswerOK(s.answer, clocks) /\ d # {} /\ d \in SUBSET s.answer
      /\ d \in SUBSET Row /\ s.latest <= Newest(rows)
  BY AboutToWrite
<1>4. /\ rows \in SUBSET Row /\ s.answer \in SUBSET Row /\ all \in SUBSET Row
      /\ s.latest \in Int /\ Newest(rows) \in Int
  BY OneCall
<1>5. /\ rows' \in SUBSET (rows \cup d) /\ rows' \in SUBSET Row
      /\ \A r \in rows \cup d : \E x \in rows' : x.at = r.at
  BY <1>1, <1>3, <1>4, WrittenProperties
<1>6. /\ \A r \in rows : r.at <= Newest(rows)
      /\ rows # {} => \E r \in rows : r.at = Newest(rows)
  BY <1>4, NewestProperties
<1>7. ASSUME NEW r \in all, NEW q \in all
      PROVE  /\ r.at <= q.at <=> r.of <= q.of
             /\ r.of \in Int /\ q.of \in Int /\ r.at \in Int /\ q.at \in Int
             /\ r.of \in Candles
  BY <1>1, <1>7, InOrder
\* A candle of the answer that is no older than a written one, or than the newest
\* row, is written.
<1>8. ASSUME NEW x \in s.answer, \E r \in d : r.at <= x.at
      PROVE  x \in d
  <2>1. PICK r \in d : r.at <= x.at
    BY <1>8
  <2>2. x.at \in Int /\ r.at \in Int
    BY <1>3, <1>4, RowFields
  <2>3. QED
    BY <2>1, <2>2, <1>4 DEF Delta
<1>9. ASSUME NEW x \in s.answer, Newest(rows) <= x.at
      PROVE  x \in d
  <2>1. x.at \in Int
    BY <1>4, RowFields
  <2>2. s.latest <= x.at
    BY <2>1, <1>3, <1>4, <1>9
  <2>3. QED
    BY <2>2 DEF Delta
<1>10. /\ Whole(s.answer)
       /\ \A r, q \in s.answer : r.open => q.of <= r.of
  BY <1>3 DEF AnswerOK
<1> HIDE DEF s, d, all
<1>11. ASSUME NEW r \in rows', r.open
       PROVE  r.at = Newest(rows')
  <2>1. \A q \in rows' : q.at <= r.at
    <3>1. SUFFICES ASSUME NEW q \in rows' PROVE q.at <= r.at
      OBVIOUS
    <3>2. r \in all /\ q \in all /\ r.at \in Int /\ q.at \in Int
      BY <1>3, <1>5, RowFields DEF all
    <3>3. CASE r \in d
      <4>1. CASE q \in rows
        <5>1. q.at <= Newest(rows) /\ ~(r.at < Newest(rows))
          BY <4>1, <3>3, <1>1, <1>3, <1>6, <1>11
        <5>2. QED
          BY <5>1, <3>2, <1>4
      <4>2. CASE q \in d
        BY <4>2, <3>2, <3>3, <1>3, <1>7, <1>10, <1>11
      <4>3. QED
        BY <4>1, <4>2, <1>5
    <3>4. CASE r \in rows /\ r \notin d
      <4>1. r.at = Newest(rows)
        BY <3>4, <1>2, <1>11
      <4>2. CASE q \in rows
        BY <4>1, <4>2, <1>6
      <4>3. CASE q \in d
        <5>1. SUFFICES ASSUME ~(q.at <= r.at) PROVE FALSE
          OBVIOUS
        <5>2. PICK a \in s.answer, b \in rows : a.at = b.at
          BY <3>4, <1>1
        <5>3. a.at <= r.at /\ a \in all /\ q \in s.answer
          BY <5>2, <4>1, <4>3, <1>3, <1>6 DEF all
        <5>4. a.of <= r.of /\ r.of <= q.of /\ r.of \in Int /\ a.of \in Int /\ q.of \in Int
          <6>1. r.at <= q.at
            BY <5>1, <3>2
          <6>2. QED
            BY <6>1, <5>3, <3>2, <1>7
        <5>5. r.of \in a.of..q.of
          BY <5>4
        <5>6. PICK x \in s.answer : x.of = r.of
          BY <5>3, <5>5, <1>10 DEF Whole
        <5>7. x \in all /\ x.at <= r.at /\ r.at <= x.at
          BY <5>6, <5>4, <3>2, <1>7 DEF all
        <5>8. x.at = r.at
          BY <5>7, <3>2, <1>7
        <5>9. x \in d
          BY <5>8, <4>1, <1>4, <1>9
        <5>10. r \in {y \in rows : \A w \in d : w.at # y.at}
          BY <3>4, <1>1 DEF Written
        <5>11. QED
          BY <5>8, <5>9, <5>10
      <4>4. QED
        BY <4>2, <4>3, <1>5
    <3>5. QED
      BY <3>3, <3>4, <1>5
  <2>2. QED
    BY <2>1, <1>5, NewestIs
\* The candle of a row or of a written one is still there.
<1>12. ASSUME NEW k, \E r \in rows \cup d : r.of = k
       PROVE  \E x \in rows' : x.of = k
  <2>1. PICK r \in rows \cup d : r.of = k
    BY <1>12
  <2>2. PICK x \in rows' : x.at = r.at
    BY <1>5
  <2>3. r \in all /\ x \in all
    BY <1>3, <1>5 DEF all
  <2>4. x.of = r.of
    <3>1. x.at <= r.at /\ r.at <= x.at
      BY <2>2, <2>3, <1>7
    <3>2. x.of <= r.of /\ r.of <= x.of /\ x.of \in Int /\ r.of \in Int
      BY <2>3, <3>1, <1>7
    <3>3. QED
      BY <3>2
  <2>5. QED
    BY <2>1, <2>4
<1>13. ASSUME NEW r \in rows', NEW q \in rows', NEW k \in r.of..q.of
       PROVE  \E x \in rows \cup d : x.of = k
  <2>1. /\ r \in rows \cup d /\ q \in rows \cup d /\ r \in all /\ q \in all
        /\ r.of \in Int /\ q.of \in Int /\ k \in Int /\ r.of <= k /\ k <= q.of
    BY <1>3, <1>5, <1>7 DEF all
  \* A candle of the answer behind a written one.
  <2>2. ASSUME NEW a \in s.answer, r \in d, k <= a.of
        PROVE  \E x \in d : x.of = k
    <3>1. a \in all /\ r \in s.answer /\ a.of \in Int
      BY <2>2, <1>3, <1>7 DEF all
    <3>2. k \in r.of..a.of
      BY <2>1, <2>2, <3>1
    <3>3. PICK x \in s.answer : x.of = k
      BY <3>1, <3>2, <1>10 DEF Whole
    <3>4. r.at <= x.at
      BY <2>1, <3>3, <1>7 DEF all
    <3>5. QED
      BY <3>3, <3>4, <2>2, <1>8
  <2>3. CASE r \in rows /\ q \in rows
    BY <2>3, <1>2 DEF Whole
  <2>4. CASE r \in d /\ q \in d
    BY <2>1, <2>2, <2>4, <1>3
  <2>5. CASE r \in rows /\ q \in d
    <3>1. PICK a \in s.answer, b \in rows : a.at = b.at
      BY <2>5, <1>1
    <3>2. a \in all /\ b \in all /\ q \in s.answer
      BY <2>5, <1>3 DEF all
    <3>3. a.of = b.of /\ a.of \in Int /\ b.of \in Int
      <4>1. /\ a.of <= b.of /\ b.of <= a.of
            /\ a.of \in Int /\ b.of \in Int
        BY <3>1, <3>2, <1>7
      <4>2. QED
        BY <4>1
    <3>4. CASE k <= b.of
      <4>1. k \in r.of..b.of
        BY <2>1, <3>3, <3>4
      <4>2. QED
        BY <2>5, <3>1, <4>1, <1>2 DEF Whole
    <3>5. CASE ~(k <= b.of)
      <4>1. k \in a.of..q.of
        BY <2>1, <3>3, <3>5
      <4>2. PICK x \in s.answer : x.of = k
        BY <3>1, <3>2, <4>1, <1>10 DEF Whole
      <4>3. CASE x \in d
        BY <4>2, <4>3
      <4>4. CASE x \notin d
        <5>1. PICK n \in rows : n.at = Newest(rows)
          BY <2>5, <1>6
        <5>2. x \in all /\ n \in all
          BY <5>1 DEF all
        <5>3. x.at <= n.at
          BY <4>4, <5>1, <5>2, <1>4, <1>7, <1>9
        <5>4. k <= n.of /\ n.of \in Int
          BY <4>2, <5>2, <5>3, <1>7
        <5>5. k \in r.of..n.of
          BY <2>1, <5>4
        <5>6. QED
          BY <2>5, <5>1, <5>5, <1>2 DEF Whole
      <4>5. QED
        BY <4>3, <4>4
    <3>6. QED
      BY <3>4, <3>5
  <2>6. CASE r \in d /\ q \in rows
    <3>1. PICK a \in s.answer, b \in rows : a.at = b.at
      BY <2>6, <1>1
    <3>2. a \in all /\ b \in all
      BY DEF all
    <3>3. a.of = b.of /\ a.of \in Int /\ b.of \in Int
      <4>1. /\ a.of <= b.of /\ b.of <= a.of
            /\ a.of \in Int /\ b.of \in Int
        BY <3>1, <3>2, <1>7
      <4>2. QED
        BY <4>1
    <3>4. CASE k <= a.of
      BY <2>2, <2>6, <3>4
    <3>5. CASE ~(k <= a.of)
      <4>1. k \in b.of..q.of
        BY <2>1, <3>3, <3>5
      <4>2. QED
        BY <2>6, <4>1, <1>2 DEF Whole
    <3>6. QED
      BY <3>4, <3>5
  <2>7. QED
    BY <2>1, <2>3, <2>4, <2>5, <2>6
<1>14. Whole(rows')
  BY <1>12, <1>13 DEF Whole
<1>15. QED
  BY <1>11, <1>14

LEMMA UpsertIInv ==
    ASSUME IInv, NEW c \in Calls, Upsert(c)
    PROVE  IInv'
<1> DEFINE d == Delta(call[c])
<1>1. call[c].pc = "upsert" /\ Commit(c) /\ UNCHANGED marketVars
  BY DEF Upsert, Goto, Return, Step
<1>2. market' = market /\ intraday' = intraday /\ clocks' = clocks /\ rows' = Written(d)
  BY <1>1 DEF marketVars, Commit
<1>3. /\ AnswerOK(call[c].answer, clocks) /\ d # {} /\ d \in SUBSET call[c].answer
      /\ d \in SUBSET Row /\ call[c].latest <= Newest(rows)
  BY <1>1, AboutToWrite
<1>4. rows \in SUBSET Row /\ call[c].answer \in SUBSET Row
  BY OneCall
<1> HIDE DEF d
<1>5. /\ rows' \in SUBSET (rows \cup d) /\ rows' \in SUBSET Row
      /\ \A r \in rows \cup d : \E x \in rows' : x.at = r.at
  BY <1>2, <1>3, <1>4, WrittenProperties
<1>6. \A r, q \in rows' : r.at = q.at => r = q
  <2>1. \A r, q \in rows : r.at = q.at => r = q
    BY DEF IInv, TypeOK
  <2>2. \A r, q \in d : r.of = q.of => r = q
    BY <1>3 DEF AnswerOK
  <2>3. QED
    BY <2>1, <2>2, <1>2, <1>3, <1>4, WrittenUnique
<1>7. Newest(rows) <= Newest(rows')
  BY <1>4, <1>5, NewestMonotone
<1>8. /\ Newest(rows') \in Int /\ Newest(rows) \in Int /\ call[c].latest \in Int
      /\ \A r \in rows' : r.at <= Newest(rows')
  BY <1>5, NewestProperties, LastStampTyped, OneCall
<1>9. Stamped(rows', clocks')
  BY <1>2, <1>3, <1>5 DEF Stamped, AnswerOK, IInv
<1>10. /\ recent' \in Ages /\ late' \in BOOLEAN /\ gap' \in BOOLEAN
  BY <1>1 DEF Commit, Ages, IInv, TypeOK
<1>11. PICK s \in CallState : /\ Step(c, "upsert", s)
                              /\ CallOK(s, Newest(rows'), clocks')
  <2>1. CASE Goto(c, "upsert", "reread")
    <3> DEFINE s == [call[c] EXCEPT !.pc = "reread"]
    <3>1. s \in CallState
      BY OneCall DEF CallState, CallPCs
    <3>2. s.pc = "reread" /\ s.latest = call[c].latest /\ s.answer = call[c].answer
      BY OneCall DEF CallState
    <3>3. \A a \in call[c].answer : a.at <= Newest(rows')
      <4>1. SUFFICES ASSUME NEW a \in call[c].answer PROVE a.at <= Newest(rows')
        OBVIOUS
      <4>2. CASE a \in d
        BY <4>2, <1>5, <1>8
      <4>3. CASE a \notin d
        <5>1. ~(a.at >= call[c].latest) /\ a.at \in Int
          BY <4>1, <4>3, <1>4, RowFields DEF d, Delta
        <5>2. QED
          BY <5>1, <1>3, <1>7, <1>8
      <4>4. QED
        BY <4>2, <4>3
    <3>4. Stamped(call[c].answer, clocks')
      BY <1>2, <1>3 DEF AnswerOK
    <3>5. call[c].latest <= Newest(rows')
      BY <1>3, <1>7, <1>8
    <3>6. CallOK(s, Newest(rows'), clocks')
      BY <3>2, <3>3, <3>4, <3>5 DEF CallOK
    <3>7. QED
      BY <2>1, <3>1, <3>6 DEF Goto
  <2>2. CASE call[c].path # "hit" /\ Return(c, "upsert", call[c].answer)
    <3> DEFINE s == [call[c] EXCEPT !.pc = "done", !.result = call[c].answer]
    <3>1. s \in CallState
      BY OneCall DEF CallState, CallPCs
    <3>2. /\ s.pc = "done" /\ s.result = call[c].answer /\ s.path = call[c].path
          /\ s.latest = call[c].latest /\ s.answer = call[c].answer
      BY OneCall DEF CallState
    <3>3. s.answer # {}
      BY <3>2, <1>3
    <3>4. AsNew(s.result, s.answer, clocks')
      BY <3>2, <1>4, AsNewSelf
    <3>5. ResultOK(s, clocks')
      BY <2>2, <3>2, <3>3, <3>4 DEF ResultOK
    <3>6. call[c].latest <= Newest(rows')
      BY <1>3, <1>7, <1>8
    <3>7. CallOK(s, Newest(rows'), clocks')
      BY <3>2, <3>5, <3>6 DEF CallOK
    <3>8. QED
      BY <2>2, <3>1, <3>7 DEF Return
  <2>3. QED
    BY <2>1, <2>2 DEF Upsert
<1>12. TypeOK'
  BY <1>2, <1>5, <1>6, <1>10, <1>11 DEF IInv, TypeOK, Step
<1>13. CallsOK'
  <2>1. clocks \subseteq clocks'
    BY <1>2
  <2>2. QED
    BY <2>1, <1>7, <1>11, <1>12, StepKeepsCalls DEF IInv
<1>14. RowsSettled'
  BY <1>1, CommitSettles
<1>15. QED
  BY <1>9, <1>12, <1>13, <1>14 DEF IInv

(***************************************************************************)
(* Time                                                                    *)
(***************************************************************************)
LEMMA TimeIInv ==
    ASSUME IInv, MarketMoves \/ GrowOld
    PROVE  IInv'
<1>1. /\ rows' = rows /\ call' = call /\ late' = late /\ gap' = gap
      /\ intraday' = intraday /\ recent' \in Ages /\ clocks' = clocks
      /\ market' \in Window..LastCandle
  BY OhlcvAssumption DEF MarketMoves, GrowOld, marketVars, IInv, TypeOK, Ages
<1>2. TypeOK'
  BY <1>1 DEF IInv, TypeOK
<1>3. CallsOK' /\ Stamped(rows, clocks)' /\ RowsSettled'
  BY <1>1 DEF IInv, CallsOK, RowsSettled, OneClock
<1>4. QED
  BY <1>2, <1>3 DEF IInv

\* IInv is inductive: every step of every call (get_ohlcv, _fetch_single_timeframe)
\* and of the clock preserves it.
THEOREM Invariant == Spec => []IInv
<1>1. Init => IInv
  BY InitIInv
<1>2. IInv /\ [Next]_ohlcvVars => IInv'
  <2> SUFFICES ASSUME IInv, [Next]_ohlcvVars PROVE IInv'
    OBVIOUS
  <2>1. CASE MarketMoves \/ GrowOld
    BY <2>1, TimeIInv
  <2>2. ASSUME NEW c \in Calls, Serve(c)
        PROVE  IInv'
    BY <2>2, ReadsIInv, FetchIInv, UpsertIInv, RereadIInv, StatementFailsIInv,
       DirectFetchIInv, SalvageIInv, NextCallIInv DEF Serve
  <2>3. CASE UNCHANGED ohlcvVars
    BY <2>3 DEF ohlcvVars, IInv, TypeOK, CallsOK, RowsSettled, OneClock
  <2>4. QED
    BY <2>1, <2>2, <2>3 DEF Next
<1>3. QED
  BY <1>1, <1>2, PTL DEF Spec

\* The variables of OhlcvCache keep their types, and the timestamp stays the key of
\* the rows, as the ON CONFLICT clause of upsert_ohlcv has it.
THEOREM TypeCorrect == Spec => []TypeOK
<1>1. IInv => TypeOK
  BY DEF IInv
<1>2. QED
  BY <1>1, Invariant, PTL

\* However many calls overlap, fetching from the newest row on (get_ohlcv) leaves
\* final candles without holes behind it, while all answers are stamped by one
\* clock, no open candle is stored after a newer one, and every answer has a candle
\* in common with the rows.
THEOREM RowsAreSettled == Spec => []RowsSettled
<1>1. IInv => RowsSettled
  BY DEF IInv
<1>2. QED
  BY <1>1, Invariant, PTL

\* What _fetch_single_timeframe returns with a working database is as new as the
\* chain's answer, but for what the clocks of the answers differ by, and as new as
\* the rows when it began if it comes from them.
THEOREM ResultsAreNew == Spec => []ResultIsNew
<1>1. IInv => ResultIsNew
  BY SteadyIff DEF IInv, CallsOK, CallOK, ResultOK, ResultIsNew
<1>2. QED
  BY <1>1, Invariant, PTL

\* _fetch_single_timeframe with a working database raises only if it found no row.
THEOREM FailuresFindNothing == Spec => []FailsOnlyWhenEmpty
<1>1. IInv => FailsOnlyWhenEmpty
  BY DEF IInv, CallsOK, CallOK, FailsOnlyWhenEmpty
<1>2. QED
  BY <1>1, Invariant, PTL
=============================================================================
