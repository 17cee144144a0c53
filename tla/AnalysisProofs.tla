--------------------------- MODULE AnalysisProofs ---------------------------
(***************************************************************************)
(* Proofs about Analysis, for any set of ids, any limits and any faults.   *)
(***************************************************************************)
EXTENDS AnalysisRefinement, SequenceTheorems, FiniteSetTheorems, TLAPS

(***************************************************************************)
(* What the operations of a TTLCache return, for any keys and any size.    *)
(***************************************************************************)
\* Removing one entry of a sequence closes the gap it leaves.
LEMMA RemoveAtProperties ==
    ASSUME NEW S, NEW s \in Seq(S), NEW k \in 1..Len(s)
    PROVE  /\ RemoveAt(s, k) \in Seq(S)
           /\ Len(RemoveAt(s, k)) = Len(s) - 1
           /\ \A i \in 1..(Len(s) - 1) :
                 RemoveAt(s, k)[i] = IF i < k THEN s[i] ELSE s[i + 1]
<1> DEFINE left == SubSeq(s, 1, k - 1)
           right == SubSeq(s, k + 1, Len(s))
<1>0. s \in [1..Len(s) -> S] /\ Len(s) \in Nat
  BY LenProperties
<1>1. left \in Seq(S) /\ Len(left) = k - 1 /\ \A i \in 1..(k - 1) : left[i] = s[i]
  BY <1>0
<1>2. \A i \in (k + 1)..Len(s) : s[i] \in S
  BY <1>0
<1>3. /\ right \in Seq(S)
      /\ Len(right) = IF k + 1 <= Len(s) THEN Len(s) - (k + 1) + 1 ELSE 0
  BY <1>0, <1>2, SubSeqProperties
<1>4. \A i \in 1..(Len(s) - k) : right[i] = s[k + i]
  BY <1>0
<1> HIDE DEF left, right
<1>5. Len(right) = Len(s) - k
  <2>0. k \in Int /\ Len(s) \in Int /\ k <= Len(s)
    BY <1>0
  <2>1. CASE k + 1 <= Len(s)
    <3>1. Len(right) = Len(s) - (k + 1) + 1
      BY <1>3, <2>1
    <3> QED
      BY <2>0, <3>1
  <2>2. CASE ~(k + 1 <= Len(s))
    <3>1. Len(right) = 0 /\ Len(s) = k
      BY <1>3, <2>2, <2>0
    <3> QED
      BY <2>0, <3>1
  <2> QED
    BY <2>1, <2>2
<1>6. /\ left \o right \in Seq(S)
      /\ Len(left \o right) = Len(left) + Len(right)
      /\ \A i \in 1..(Len(left) + Len(right)) :
            (left \o right)[i] = IF i <= Len(left) THEN left[i] ELSE right[i - Len(left)]
  BY <1>1, <1>3, ConcatProperties
<1>7. Len(left \o right) = Len(s) - 1
  BY <1>0, <1>1, <1>5, <1>6
<1>8. ASSUME NEW i \in 1..(Len(s) - 1)
      PROVE  (left \o right)[i] = IF i < k THEN s[i] ELSE s[i + 1]
  <2>1. (left \o right)[i] = IF i <= k - 1 THEN left[i] ELSE right[i - (k - 1)]
    BY <1>0, <1>1, <1>5, <1>6
  <2>2. CASE i < k
    BY <1>1, <2>1, <2>2
  <2>3. CASE ~(i < k)
    <3>1. i - (k - 1) \in 1..(Len(s) - k) /\ k + (i - (k - 1)) = i + 1
      BY <1>0, <2>3
    <3> QED
      BY <1>4, <2>1, <2>3, <3>1
  <2> QED
    BY <2>2, <2>3
<1>9. RemoveAt(s, k) = left \o right
  BY DEF RemoveAt, left, right
<1> QED
  BY <1>6, <1>7, <1>8, <1>9

\* Deleting yields a cache with the same keys but one, and room for one more.
LEMMA DelItemProperties ==
    ASSUME NEW Keys, NEW maxsize \in Nat, NEW cache, NEW key,
           IsCache(cache, Keys, maxsize)
    PROVE  /\ IsCache(DelItem(cache, key), Keys, maxsize)
           /\ ToSet(DelItem(cache, key)) = ToSet(cache) \ {key}
           /\ key \in ToSet(cache) => Len(DelItem(cache, key)) = Len(cache) - 1
           /\ key \notin ToSet(cache) => DelItem(cache, key) = cache
<1> DEFINE rest == DelItem(cache, key)
<1>0. /\ cache \in Seq(Keys) /\ Len(cache) \in Nat /\ Len(cache) <= maxsize
      /\ DOMAIN cache = 1..Len(cache)
      /\ \A i, j \in 1..Len(cache) : cache[i] = cache[j] => i = j
  BY LenProperties DEF IsCache
<1>1. CASE key \notin ToSet(cache)
  BY <1>1 DEF DelItem, ToSet
<1>2. CASE key \in ToSet(cache)
  <2>1. PICK k \in 1..Len(cache) :
          cache[k] = key /\ rest = RemoveAt(cache, k)
    <3>1. \E k \in DOMAIN cache : cache[k] = key
      BY <1>2 DEF ToSet
    <3> QED
      BY <1>0, <1>2, <3>1 DEF DelItem
  <2>4. /\ rest \in Seq(Keys) /\ Len(rest) = Len(cache) - 1
        /\ \A i \in 1..(Len(cache) - 1) :
              rest[i] = IF i < k THEN cache[i] ELSE cache[i + 1]
    <3>1. /\ RemoveAt(cache, k) \in Seq(Keys)
          /\ Len(RemoveAt(cache, k)) = Len(cache) - 1
          /\ \A i \in 1..(Len(cache) - 1) :
                RemoveAt(cache, k)[i] = IF i < k THEN cache[i] ELSE cache[i + 1]
      BY <1>0, RemoveAtProperties
    <3> HIDE DEF rest
    <3> QED
      BY <2>1, <3>1
  <2> HIDE DEF rest
  <2>5. DOMAIN rest = 1..(Len(cache) - 1)
    BY <2>4, LenProperties
  <2>6. IsCache(rest, Keys, maxsize)
    BY <1>0, <2>1, <2>4, <2>5 DEF IsCache
  <2>7. ToSet(rest) = ToSet(cache) \ {key}
    <3>1. ASSUME NEW x \in ToSet(rest) PROVE x \in ToSet(cache) \ {key}
      <4>1. PICK i \in 1..(Len(cache) - 1) : rest[i] = x
        BY <2>5, <3>1 DEF ToSet
      <4>2. PICK j \in 1..Len(cache) : cache[j] = x /\ j # k
        <5>1. CASE i < k
          BY <1>0, <2>4, <4>1, <5>1
        <5>2. CASE ~(i < k)
          BY <1>0, <2>4, <4>1, <5>2
        <5> QED
          BY <5>1, <5>2
      <4>3. x # key
        BY <1>0, <2>1, <4>2
      <4> QED
        BY <1>0, <4>2, <4>3 DEF ToSet
    <3>2. ASSUME NEW x \in ToSet(cache) \ {key} PROVE x \in ToSet(rest)
      <4>1. PICK i \in 1..Len(cache) : cache[i] = x
        BY <1>0, <3>2 DEF ToSet
      <4>2. CASE i < k
        BY <1>0, <2>4, <2>5, <4>1, <4>2 DEF ToSet
      <4>3. CASE i > k
        <5>1. i - 1 \in 1..(Len(cache) - 1) /\ rest[i - 1] = x
          BY <1>0, <2>4, <4>1, <4>3
        <5> QED
          BY <2>5, <5>1 DEF ToSet
      <4> QED
        BY <2>1, <3>2, <4>1, <4>2, <4>3
    <3> QED
      BY <3>1, <3>2
  <2> QED
    BY <1>2, <2>4, <2>6, <2>7 DEF rest
<1> QED
  BY <1>1, <1>2

\* What is left of a cache without a key, by itself.
LEMMA DelItemForgets ==
    ASSUME NEW Keys, NEW maxsize \in Nat, NEW cache, NEW key,
           IsCache(cache, Keys, maxsize)
    PROVE  ToSet(DelItem(cache, key)) = ToSet(cache) \ {key}
<1>1. /\ IsCache(DelItem(cache, key), Keys, maxsize)
      /\ ToSet(DelItem(cache, key)) = ToSet(cache) \ {key}
      /\ key \in ToSet(cache) => Len(DelItem(cache, key)) = Len(cache) - 1
      /\ key \notin ToSet(cache) => DelItem(cache, key) = cache
  BY DelItemProperties, Zenon
<1> QED
  BY <1>1

\* Adding a key that is absent, where there is room.
LEMMA AppendToCache ==
    ASSUME NEW Keys, NEW maxsize \in Nat, NEW cache \in Seq(Keys), NEW key \in Keys,
           NEW longer, longer = Append(cache, key),
           IsCache(cache, Keys, maxsize),
           key \notin ToSet(cache), Len(cache) < maxsize
    PROVE  /\ IsCache(longer, Keys, maxsize)
           /\ \A x : x \in ToSet(longer) <=> x \in ToSet(cache) \/ x = key
<1>1. /\ cache \in Seq(Keys) /\ Len(cache) \in Nat
      /\ DOMAIN cache = 1..Len(cache)
      /\ \A i, j \in 1..Len(cache) : cache[i] = cache[j] => i = j
  BY LenProperties DEF IsCache
<1>2. /\ longer \in Seq(Keys)
      /\ Len(longer) = Len(cache) + 1
      /\ DOMAIN longer = 1..(Len(cache) + 1)
      /\ \A i \in 1..Len(cache) : longer[i] = cache[i]
      /\ longer[Len(cache) + 1] = key
  BY <1>1, AppendProperties, LenProperties
<1>3. ToSet(longer) = ToSet(cache) \cup {key}
  BY <1>1, <1>2 DEF ToSet
<1>4. \A i \in 1..Len(cache) : cache[i] # key
  BY <1>1 DEF ToSet
<1>5. IsCache(longer, Keys, maxsize)
  BY <1>1, <1>2, <1>4 DEF IsCache
<1> QED
  BY <1>3, <1>5

\* Eviction leaves a cache with room for one more.
LEMMA TailOfCache ==
    ASSUME NEW Keys, NEW maxsize \in Nat, NEW cache,
           IsCache(cache, Keys, maxsize), cache # <<>>
    PROVE  /\ IsCache(Tail(cache), Keys, maxsize)
           /\ ToSet(Tail(cache)) \subseteq ToSet(cache)
           /\ Len(Tail(cache)) = Len(cache) - 1
<1>1. /\ cache \in Seq(Keys) /\ Len(cache) \in Nat
      /\ DOMAIN cache = 1..Len(cache)
      /\ \A i, j \in 1..Len(cache) : cache[i] = cache[j] => i = j
  BY LenProperties DEF IsCache
<1>2. /\ Tail(cache) \in Seq(Keys) /\ Len(Tail(cache)) = Len(cache) - 1
      /\ \A i \in 1..Len(Tail(cache)) : Tail(cache)[i] = cache[i + 1]
      /\ DOMAIN Tail(cache) = 1..(Len(cache) - 1)
  BY <1>1, HeadTailProperties, LenProperties
<1> QED
  BY <1>1, <1>2 DEF IsCache, ToSet

\* An assignment yields a cache again, whatever was in it, and the key is in it.
THEOREM SetItemIsCache ==
    ASSUME NEW Keys, NEW maxsize \in Nat \ {0}, NEW cache, NEW key \in Keys,
           IsCache(cache, Keys, maxsize)
    PROVE  /\ IsCache(SetItem(cache, key, maxsize), Keys, maxsize)
           /\ key \in ToSet(SetItem(cache, key, maxsize))
           /\ ToSet(SetItem(cache, key, maxsize)) \subseteq ToSet(cache) \cup {key}
<1> DEFINE rest == DelItem(cache, key)
<1>0. Len(cache) \in Nat /\ Len(cache) <= maxsize /\ maxsize \in Nat
  BY LenProperties DEF IsCache
<1>1. /\ IsCache(rest, Keys, maxsize) /\ ToSet(rest) = ToSet(cache) \ {key}
      /\ key \in ToSet(cache) => Len(rest) = Len(cache) - 1
      /\ key \notin ToSet(cache) => rest = cache
  BY DelItemProperties
<1>2. CASE key \notin ToSet(cache) /\ Len(cache) >= maxsize
  <2>1. cache # <<>>
    BY <1>2, EmptySeq
  <2>2. /\ IsCache(Tail(cache), Keys, maxsize)
        /\ ToSet(Tail(cache)) \subseteq ToSet(cache)
        /\ Len(Tail(cache)) < maxsize
        /\ Tail(cache) \in Seq(Keys)
    BY <1>0, <2>1, TailOfCache DEF IsCache
  <2>3. SetItem(cache, key, maxsize) = Append(Tail(cache), key)
    BY <1>1, <1>2 DEF SetItem
  <2>4. key \notin ToSet(Tail(cache))
    BY <1>2, <2>2
  <2>5. IsCache(Append(Tail(cache), key), Keys, maxsize)
    BY <1>0, <2>2, <2>4, AppendToCache
  <2>6. \A x : x \in ToSet(Append(Tail(cache), key)) <=>
                 x \in ToSet(Tail(cache)) \/ x = key
    BY <1>0, <2>2, <2>4, AppendToCache
  <2> QED
    BY <2>2, <2>3, <2>5, <2>6
<1>3. CASE ~(key \notin ToSet(cache) /\ Len(cache) >= maxsize)
  <2>1. SetItem(cache, key, maxsize) = Append(rest, key)
    BY <1>3 DEF SetItem
  <2>2. Len(rest) < maxsize /\ key \notin ToSet(rest) /\ rest \in Seq(Keys)
    BY <1>0, <1>1, <1>3 DEF IsCache
  <2> HIDE DEF rest
  <2>3. IsCache(Append(rest, key), Keys, maxsize)
    BY <1>0, <1>1, <2>2, AppendToCache
  <2>4. \A x : x \in ToSet(Append(rest, key)) <=> x \in ToSet(rest) \/ x = key
    BY <1>0, <1>1, <2>2, AppendToCache
  <2> QED
    BY <1>1, <2>1, <2>3, <2>4
<1> QED
  BY <1>2, <1>3

\* A read only moves its key to the end.
THEOREM TouchIsCache ==
    ASSUME NEW Keys, NEW maxsize \in Nat, NEW cache, NEW key,
           IsCache(cache, Keys, maxsize)
    PROVE  /\ IsCache(Touch(cache, key), Keys, maxsize)
           /\ ToSet(Touch(cache, key)) = ToSet(cache)
<1>1. CASE key \notin ToSet(cache)
  BY <1>1 DEF Touch
<1>2. CASE key \in ToSet(cache)
  <2>1. /\ Touch(cache, key) = Append(DelItem(cache, key), key)
        /\ key \in Keys
    BY <1>2, ElementOfSeq, LenProperties DEF Touch, ToSet, IsCache
  <2>2. /\ IsCache(DelItem(cache, key), Keys, maxsize)
        /\ ToSet(DelItem(cache, key)) = ToSet(cache) \ {key}
        /\ Len(DelItem(cache, key)) < maxsize
        /\ DelItem(cache, key) \in Seq(Keys)
    BY <1>2, DelItemProperties, LenProperties DEF IsCache
  <2>3. key \notin ToSet(DelItem(cache, key))
    BY <2>2
  <2>4. IsCache(Append(DelItem(cache, key), key), Keys, maxsize)
    BY <2>1, <2>2, <2>3, AppendToCache
  <2>5. \A x : x \in ToSet(Append(DelItem(cache, key), key)) <=>
                 x \in ToSet(DelItem(cache, key)) \/ x = key
    BY <2>1, <2>2, <2>3, AppendToCache
  <2>6. \A x : x \in ToSet(Touch(cache, key)) <=> x \in ToSet(cache)
    BY <1>2, <2>1, <2>2, <2>5
  <2> QED
    BY <2>1, <2>4, <2>6
<1> QED
  BY <1>1, <1>2

(***************************************************************************)
(* The inductive invariant: the types; the bookkeeping of the admission    *)
(* control, with the queue it relies on; how far the status object of an   *)
(* analysis is, given where its task is; and where a report can be.        *)
(***************************************************************************)
\* Only tasks in the queue are resumed from it, and each one once.
QueueOK ==
    /\ \A i \in 1..Len(waiting) : pc[waiting[i]] = "queued"
    /\ \A i, j \in 1..Len(waiting) : waiting[i] = waiting[j] => i = j

AdmissionOK ==
    /\ IsFiniteSet(Active) /\ PermitsConserved
    /\ IsFiniteSet(background) /\ BackgroundIsLive

\* The first n steps are completed, and nothing else.
FirstSteps(s, n) ==
    /\ Len(s.steps_completed) = n
    /\ \A k \in 1..n : s.steps_completed[k] = k

InStep(s, k, n) ==
    s.status = "running" /\ s.current_step = k /\ FirstSteps(s, n)

\* A running analysis in step k has completed the steps before it, and all six
\* when its report is being saved.
StatusFits(s, p) ==
    /\ p \in {"unused", "lost"} => s = NoStatus
    /\ p \in {"rejected", "queued"} => s = NewStatus
    /\ p = "fetch" => InStep(s, 1, 0)
    /\ p = "technical" => InStep(s, 2, 1)
    /\ p = "patterns" => InStep(s, 3, 2)
    /\ p = "fundamental" => InStep(s, 4, 3)
    /\ p \in {"persist", "cache"} => InStep(s, 6, 6)
    /\ p = "finished" =>
          \/ s.status = "completed" /\ FirstSteps(s, 6)
          \/ s.status = "failed" /\ \E n \in 0..5 : FirstSteps(s, n)

StatusesFit == \A id \in Ids : StatusFits(status[id], pc[id])

\* A report exists only of an analysis that is saving it, completed, or was lost.
ReportsOK ==
    \A id \in redisResults \cup memResults \cup dbResults :
        \/ pc[id] \in {"cache", "lost"}
        \/ status[id].status = "completed"

\* Why a completed analysis has its report in spite of the faults: its row was
\* written before it was cached, or its cached report stays.
ReportKept ==
    /\ "persist" \notin Faults =>
          \A id \in Ids :
            (pc[id] = "cache" \/ status[id].status = "completed") => id \in dbResults
    /\ {"cache", "expire", "corrupt"} \cap Faults = {} =>
          \A id \in Ids :
            status[id].status = "completed" => id \in redisResults \cup memResults

IInv ==
    /\ TypeOK /\ QueueOK /\ AdmissionOK
    /\ StatusesFit /\ ReportsOK /\ ReportKept

(***************************************************************************)
(* Status objects                                                          *)
(***************************************************************************)
LEMMA StatusTypes ==
    ASSUME NEW s \in Status, NEW k \in Steps
    PROVE  /\ Update(s, k) \in Status
           /\ CompleteStep(s, k) \in Status
           /\ Complete(s) \in Status
           /\ \A e \in {"no_report"} \cup Causes : Fail(s, e) \in Status
<1>1. s.steps_completed \in Seq(Steps)
  BY DEF Status
<1>2. Append(s.steps_completed, k) \in Seq(Steps)
  BY <1>1, AppendProperties
<1>3. CompleteStep(s, k) \in Status
  BY <1>2 DEF Status, CompleteStep
<1>4. Update(s, k) \in Status
  <2>1. k - 1 \in 0..6 /\ k \in {0} \cup Steps
    BY DEF Steps
  <2>2. [s EXCEPT !.status = "running"] \in Status
    BY DEF Status
  <2>3. ASSUME NEW t \in Status
        PROVE  [t EXCEPT !.progress_pct = k - 1, !.current_step = k] \in Status
    BY <2>1 DEF Status
  <2> QED
    BY <2>2, <2>3 DEF Update
<1>5. Complete(s) \in Status
  <2>1. 6 \in 0..6 /\ 0 \in {0} \cup Steps
    OBVIOUS
  <2>2. [s EXCEPT !.status = "completed"] \in Status
    BY DEF Status, Terminal
  <2>3. ASSUME NEW t \in Status
        PROVE  [t EXCEPT !.progress_pct = 6, !.current_step = 0] \in Status
    BY <2>1 DEF Status
  <2> QED
    BY <2>2, <2>3 DEF Complete
<1>6. \A e \in {"no_report"} \cup Causes : Fail(s, e) \in Status
  BY DEF Status, Fail, Terminal
<1> QED
  BY <1>3, <1>4, <1>5, <1>6

LEMMA InitialStatus ==
    NoStatus \in Status /\ NewStatus \in Status /\ FirstSteps(NewStatus, 0)
<1>1. <<>> \in Seq(Steps) /\ Len(<<>>) = 0
  BY EmptySeq
<1>2. NoStatus \in Status
  BY <1>1 DEF NoStatus, Status, Terminal
<1>3. NewStatus \in Status /\ NewStatus.steps_completed = <<>>
  BY <1>2 DEF NewStatus, NoStatus, Status, Terminal
<1> QED
  BY <1>1, <1>2, <1>3 DEF FirstSteps

LEMMA NextStepCompletes ==
    ASSUME NEW s \in Status, NEW n \in 0..5, FirstSteps(s, n)
    PROVE  FirstSteps(CompleteStep(s, n + 1), n + 1)
<1>0. s.steps_completed \in Seq(Steps) /\ n + 1 \in Steps
  BY DEF Status, Steps
<1> DEFINE longer == Append(s.steps_completed, n + 1)
<1>1. /\ Len(longer) = Len(s.steps_completed) + 1
      /\ \A i \in 1..Len(s.steps_completed) : longer[i] = s.steps_completed[i]
      /\ longer[Len(s.steps_completed) + 1] = n + 1
  BY <1>0, AppendProperties
<1>2. CompleteStep(s, n + 1).steps_completed = longer
  BY DEF CompleteStep, Status
<1> QED
  BY <1>1, <1>2 DEF FirstSteps

LEMMA UpdateStarts ==
    ASSUME NEW s \in Status, NEW k \in Steps, NEW n \in 0..6, FirstSteps(s, n)
    PROVE  InStep(Update(s, k), k, n)
BY DEF Status, Update, InStep, FirstSteps

\* From step n to step n + 1.
LEMMA StepFollows ==
    ASSUME NEW s \in Status, NEW n \in 1..5, InStep(s, n, n - 1)
    PROVE  /\ Update(CompleteStep(s, n), n + 1) \in Status
           /\ InStep(Update(CompleteStep(s, n), n + 1), n + 1, n)
<1>1. CompleteStep(s, n) \in Status
  BY StatusTypes DEF Steps
<1>2. FirstSteps(CompleteStep(s, n), n)
  <2>1. n - 1 \in 0..5 /\ (n - 1) + 1 = n
    OBVIOUS
  <2> QED
    BY <2>1, NextStepCompletes DEF InStep
<1> QED
  BY <1>1, <1>2, StatusTypes, UpdateStarts DEF Steps

LEMMA LastStepCompletes ==
    ASSUME NEW s \in Status, InStep(s, 6, 5)
    PROVE  CompleteStep(s, 6) \in Status /\ InStep(CompleteStep(s, 6), 6, 6)
<1>1. FirstSteps(CompleteStep(s, 6), 6)
  BY NextStepCompletes DEF InStep
<1>2. CompleteStep(s, 6) \in Status
  BY StatusTypes DEF Steps
<1> QED
  BY <1>1, <1>2 DEF InStep, CompleteStep, Status

\* Where the first exception can leave the status object.
LEMMA RaisedStatus ==
    ASSUME IInv, NEW id \in Ids, NEW s \in RaisedAt(id)
    PROVE  /\ pc[id] \in Running
           /\ s \in Status
           /\ \E n \in 0..5 : FirstSteps(s, n)
<1>0. status[id] \in Status /\ StatusFits(status[id], pc[id])
  BY DEF IInv, TypeOK, StatusesFit
<1>1. CASE pc[id] = "fetch"
  <2>1. s = CompleteStep(status[id], 1) /\ InStep(status[id], 1, 0)
    BY <1>0, <1>1 DEF RaisedAt, StatusFits
  <2>2. FirstSteps(s, 1)
    BY <1>0, <2>1, NextStepCompletes DEF InStep
  <2> QED
    BY <1>0, <1>1, <2>1, <2>2, StatusTypes DEF Running, Steps
<1>2. CASE pc[id] \in {"technical", "patterns"}
  <2>1. s = status[id]
    BY <1>2 DEF RaisedAt
  <2> QED
    BY <1>0, <1>2, <2>1 DEF StatusFits, InStep, Running
<1>3. CASE pc[id] = "fundamental"
  <2> DEFINE a == AggregationReached(status[id])
  <2>1. s \in {a, ReportReached(status[id])} /\ InStep(status[id], 4, 3)
    BY <1>0, <1>3 DEF RaisedAt, StatusFits
  <2>2. a \in Status /\ InStep(a, 5, 4)
    BY <1>0, <2>1, StepFollows DEF AggregationReached
  <2>3. ReportReached(status[id]) \in Status /\ InStep(ReportReached(status[id]), 6, 5)
    BY <2>2, StepFollows DEF ReportReached
  <2> QED
    BY <1>3, <2>1, <2>2, <2>3 DEF InStep, Running
<1>4. CASE pc[id] \notin {"fetch", "technical", "patterns", "fundamental"}
  BY <1>4 DEF RaisedAt
<1> QED
  BY <1>1, <1>2, <1>3, <1>4

(***************************************************************************)
(* Parts that several actions share                                        *)
(***************************************************************************)
LEMMA PublishAndGoto ==
    ASSUME IInv, NEW id \in Ids, NEW s \in Status, NEW to \in PCs,
           Publish(id, s), Goto(id, to), StatusFits(s, to)
    PROVE  /\ status' \in [Ids -> Status] /\ pc' \in [Ids -> PCs]
           /\ IsCache(registry', Ids, MaxTracked)
           /\ \A d \in Ids : status'[d] = IF d = id THEN s ELSE status[d]
           /\ \A d \in Ids : pc'[d] = IF d = id THEN to ELSE pc[d]
           /\ StatusesFit'
<1>1. /\ status' = [status EXCEPT ![id] = s]
      /\ pc' = [pc EXCEPT ![id] = to]
      /\ status \in [Ids -> Status] /\ pc \in [Ids -> PCs]
  BY DEF Publish, Goto, IInv, TypeOK
<1>2. IsCache(registry', Ids, MaxTracked)
  <2>1. registry' = SetItem(registry, id, MaxTracked)
    BY DEF Publish
  <2>2. IsCache(registry, Ids, MaxTracked) /\ MaxTracked \in Nat \ {0}
    BY LimitsAssumption DEF IInv, TypeOK
  <2> QED
    BY <2>1, <2>2, SetItemIsCache
<1>3. /\ status' \in [Ids -> Status] /\ pc' \in [Ids -> PCs]
      /\ \A d \in Ids : status'[d] = IF d = id THEN s ELSE status[d]
      /\ \A d \in Ids : pc'[d] = IF d = id THEN to ELSE pc[d]
  BY <1>1
<1>4. StatusesFit'
  <2> SUFFICES ASSUME NEW d \in Ids PROVE StatusFits(status'[d], pc'[d])
    BY DEF StatusesFit
  <2>1. CASE d = id
    BY <1>3, <2>1
  <2>2. CASE d # id
    BY <1>3, <2>2 DEF IInv, StatusesFit
  <2> QED
    BY <2>1, <2>2
<1> QED
  BY <1>2, <1>3, <1>4

\* A task that stays inside the semaphore, or a request that never gets there.
LEMMA AdmissionStays ==
    ASSUME IInv, NEW id \in Ids, NEW to \in PCs,
           Goto(id, to), UNCHANGED admission,
           \/ pc[id] \in Running /\ to \in Running
           \/ pc[id] = "unused" /\ to = "rejected"
    PROVE  QueueOK' /\ AdmissionOK'
<1>0. pc \in [Ids -> PCs] /\ waiting \in Seq(Ids)
  BY DEF IInv, TypeOK
<1>1. /\ \A d \in Ids : pc'[d] = IF d = id THEN to ELSE pc[d]
      /\ UNCHANGED <<waiting, permits, background>>
  BY <1>0 DEF Goto, admission
<1>2. Active' = Active /\ Live' = Live
  BY <1>1 DEF Active, Live, Running
<1>3. QueueOK'
  BY <1>0, <1>1, ElementOfSeq DEF IInv, QueueOK, Running
<1>4. AdmissionOK'
  BY <1>1, <1>2 DEF IInv, AdmissionOK, PermitsConserved, BackgroundIsLive
<1> QED
  BY <1>3, <1>4

\* A task that leaves the semaphore gives its permit back.
LEMMA AdmissionEnds ==
    ASSUME IInv, NEW id \in Ids, pc[id] \in Running, Finish(id)
    PROVE  /\ QueueOK' /\ AdmissionOK'
           /\ permits' \in 0..MaxConcurrent /\ background' \subseteq Ids
<1>0. /\ pc \in [Ids -> PCs] /\ waiting \in Seq(Ids)
      /\ permits \in 0..MaxConcurrent /\ background \subseteq Ids
      /\ MaxConcurrent \in Nat /\ MaxBackground \in Nat
  BY LimitsAssumption DEF IInv, TypeOK
<1>1. /\ \A d \in Ids : pc'[d] = IF d = id THEN "finished" ELSE pc[d]
      /\ background' = background \ {id} /\ permits' = permits + 1
      /\ UNCHANGED waiting
  BY <1>0 DEF Finish, Goto
<1>2. /\ Active' = Active \ {id} /\ Live' = Live \ {id}
      /\ id \in Active /\ id \in Live
  BY <1>1 DEF Active, Live, Running
<1>3. /\ IsFiniteSet(Active') /\ Cardinality(Active') = Cardinality(Active) - 1
      /\ Cardinality(Active') \in Nat /\ Cardinality(Active) \in Nat
  BY <1>2, FS_RemoveElement, FS_CardinalityType DEF IInv, AdmissionOK
<1>4. PermitsConserved'
  BY <1>0, <1>1, <1>3 DEF IInv, AdmissionOK, PermitsConserved
<1>5. IsFiniteSet(background') /\ BackgroundIsLive'
  <2>1. /\ IsFiniteSet(background \ {id})
        /\ Cardinality(background \ {id}) = Cardinality(background) - 1
        /\ Cardinality(background) \in Nat
    BY <1>2, FS_RemoveElement, FS_CardinalityType
    DEF IInv, AdmissionOK, BackgroundIsLive
  <2> QED
    BY <1>0, <1>1, <1>2, <2>1 DEF IInv, AdmissionOK, BackgroundIsLive
<1>6. QueueOK'
  BY <1>0, <1>1, ElementOfSeq DEF IInv, QueueOK, Running
<1>7. permits' \in 0..MaxConcurrent
  BY <1>0, <1>1, <1>3, <1>4 DEF PermitsConserved
<1> QED
  BY <1>0, <1>1, <1>3, <1>4, <1>5, <1>6, <1>7 DEF AdmissionOK

\* A step that saves no report and completes nothing.
LEMMA ReportsStay ==
    ASSUME IInv, NEW id \in Ids, UNCHANGED stores,
           pc[id] \notin {"cache", "lost"}, status[id].status # "completed",
           pc'[id] # "cache", status'[id].status # "completed",
           \A d \in Ids \ {id} : pc'[d] = pc[d] /\ status'[d] = status[d]
    PROVE  ReportsOK' /\ ReportKept'
<1>1. UNCHANGED <<redisResults, memResults, dbResults>>
  BY DEF stores
<1>2. /\ redisResults \subseteq Ids /\ memResults \subseteq Ids
      /\ dbResults \subseteq Ids
  BY DEF IInv, TypeOK
<1>3. id \notin redisResults \cup memResults \cup dbResults
  BY DEF IInv, ReportsOK
<1>4. ReportsOK'
  BY <1>1, <1>2, <1>3 DEF IInv, ReportsOK
<1>5. ReportKept'
  BY <1>1 DEF IInv, ReportKept
<1> QED
  BY <1>4, <1>5

\* A step of the pipeline before its report exists; or a request turned away.
LEMMA PublishOnly ==
    ASSUME IInv, NEW id \in Ids, NEW s \in Status, NEW to \in PCs,
           Publish(id, s), Goto(id, to), UNCHANGED <<admission, stores>>,
           StatusFits(s, to), s.status \in {"pending", "running"},
           \/ pc[id] \in Running \ {"cache"} /\ to \in Running \ {"cache"}
           \/ pc[id] = "unused" /\ to = "rejected"
    PROVE  IInv'
<1>1. /\ status' \in [Ids -> Status] /\ pc' \in [Ids -> PCs]
      /\ IsCache(registry', Ids, MaxTracked)
      /\ \A d \in Ids : status'[d] = IF d = id THEN s ELSE status[d]
      /\ \A d \in Ids : pc'[d] = IF d = id THEN to ELSE pc[d]
      /\ StatusesFit'
  BY PublishAndGoto
<1>2. /\ UNCHANGED <<waiting, permits, background>> /\ UNCHANGED stores
      /\ UNCHANGED <<redisResults, memResults, dbResults>>
  BY DEF admission, stores
<1>3. TypeOK'
  BY <1>1, <1>2 DEF IInv, TypeOK
<1>4. QueueOK' /\ AdmissionOK'
  BY AdmissionStays
<1>5. ReportsOK' /\ ReportKept'
  <2>1. pc[id] \notin {"cache", "lost"} /\ pc'[id] # "cache"
    BY <1>1 DEF Running
  <2>2. status[id].status # "completed" /\ status'[id].status # "completed"
    BY <1>1 DEF IInv, StatusesFit, StatusFits, InStep, NoStatus, Running
  <2> QED
    BY <1>1, <1>2, <2>1, <2>2, ReportsStay
<1> QED
  BY <1>1, <1>3, <1>4, <1>5 DEF IInv

(***************************************************************************)
(* The actions                                                             *)
(***************************************************************************)
LEMMA TriggerRejectedKeeps ==
    ASSUME IInv, NEW id \in Ids, TriggerRejected(id)
    PROVE  IInv'
<1>1. /\ NewStatus \in Status /\ StatusFits(NewStatus, "rejected")
      /\ NewStatus.status = "pending"
  BY InitialStatus DEF StatusFits, NewStatus, NoStatus
<1> QED
  BY <1>1, PublishOnly DEF TriggerRejected, PCs

LEMMA AdvanceKeeps ==
    ASSUME IInv, NEW id \in Ids,
           FetchDone(id) \/ TechnicalDone(id) \/ PatternsDone(id)
    PROVE  IInv'
<1>0. status[id] \in Status /\ StatusFits(status[id], pc[id])
  BY DEF IInv, TypeOK, StatusesFit
<1>1. PICK k \in 1..3, to \in {"technical", "patterns", "fundamental"} :
        /\ Publish(id, Update(CompleteStep(status[id], k), k + 1))
        /\ Goto(id, to)
        /\ UNCHANGED <<admission, stores>>
        /\ pc[id] \in Running \ {"cache"}
        /\ InStep(status[id], k, k - 1)
        /\ k = 1 => to = "technical"
        /\ k = 2 => to = "patterns"
        /\ k = 3 => to = "fundamental"
  <2>1. CASE FetchDone(id)
    BY <1>0, <2>1 DEF FetchDone, Advance, StatusFits, Running
  <2>2. CASE TechnicalDone(id)
    BY <1>0, <2>2 DEF TechnicalDone, Advance, StatusFits, Running
  <2>3. CASE PatternsDone(id)
    BY <1>0, <2>3 DEF PatternsDone, Advance, StatusFits, Running
  <2> QED
    BY <2>1, <2>2, <2>3
<1> DEFINE s == Update(CompleteStep(status[id], k), k + 1)
<1>2. s \in Status /\ InStep(s, k + 1, k)
  BY <1>0, <1>1, StepFollows
<1> HIDE DEF s
<1>3. StatusFits(s, to) /\ s.status = "running"
  BY <1>1, <1>2 DEF StatusFits, InStep
<1>4. to \in PCs /\ to \in Running \ {"cache"}
  BY <1>1 DEF PCs, Running
<1>5. Publish(id, s)
  BY <1>1 DEF s
<1> QED
  BY <1>1, <1>2, <1>3, <1>4, <1>5, PublishOnly

LEMMA FundamentalDoneKeeps ==
    ASSUME IInv, NEW id \in Ids, FundamentalDone(id)
    PROVE  IInv'
<1>0. /\ status[id] \in Status /\ InStep(status[id], 4, 3)
      /\ pc[id] = "fundamental"
  BY DEF IInv, TypeOK, StatusesFit, StatusFits, FundamentalDone
<1>1. /\ AggregationReached(status[id]) \in Status
      /\ InStep(AggregationReached(status[id]), 5, 4)
  BY <1>0, StepFollows DEF AggregationReached
<1>2. /\ ReportReached(status[id]) \in Status
      /\ InStep(ReportReached(status[id]), 6, 5)
  BY <1>1, StepFollows DEF ReportReached
<1> DEFINE s == CompleteStep(ReportReached(status[id]), 6)
<1>3. s \in Status /\ InStep(s, 6, 6)
  BY <1>2, LastStepCompletes
<1>4. Publish(id, s) /\ Goto(id, "persist") /\ UNCHANGED <<admission, stores>>
  BY DEF FundamentalDone
<1> HIDE DEF s
<1>5. StatusFits(s, "persist") /\ s.status = "running"
  BY <1>3 DEF StatusFits, InStep
<1> QED
  BY <1>0, <1>3, <1>4, <1>5, PublishOnly DEF PCs, Running

LEMMA TriggerAcceptedKeeps ==
    ASSUME IInv, NEW id \in Ids, TriggerAccepted(id)
    PROVE  IInv'
<1>0. /\ waiting \in Seq(Ids) /\ Len(waiting) \in Nat /\ pc[id] = "unused"
      /\ background \subseteq Ids
      /\ Cardinality(background) < MaxBackground /\ MaxBackground \in Nat
      /\ background' = background \cup {id} /\ waiting' = Append(waiting, id)
      /\ UNCHANGED <<permits, redisResults, memResults, dbResults>>
  BY LenProperties, LimitsAssumption DEF IInv, TypeOK, TriggerAccepted, stores
<1>1. NewStatus \in Status /\ StatusFits(NewStatus, "queued")
  BY InitialStatus DEF StatusFits
<1>2. /\ status' \in [Ids -> Status] /\ pc' \in [Ids -> PCs]
      /\ IsCache(registry', Ids, MaxTracked)
      /\ \A d \in Ids : status'[d] = IF d = id THEN NewStatus ELSE status[d]
      /\ \A d \in Ids : pc'[d] = IF d = id THEN "queued" ELSE pc[d]
      /\ StatusesFit'
  BY <1>1, PublishAndGoto DEF TriggerAccepted, PCs
<1>3. /\ waiting' \in Seq(Ids) /\ Len(waiting') = Len(waiting) + 1
      /\ \A i \in 1..Len(waiting) : waiting'[i] = waiting[i]
      /\ waiting'[Len(waiting) + 1] = id
  BY <1>0, AppendProperties
<1>4. QueueOK'
  <2>1. \A i \in 1..Len(waiting) : waiting[i] \in Ids /\ waiting[i] # id
    BY <1>0, ElementOfSeq DEF IInv, QueueOK
  <2>2. \A i \in 1..Len(waiting') : pc'[waiting'[i]] = "queued"
    BY <1>0, <1>2, <1>3, <2>1 DEF IInv, QueueOK
  <2>3. \A i, j \in 1..Len(waiting') : waiting'[i] = waiting'[j] => i = j
    BY <1>0, <1>3, <2>1 DEF IInv, QueueOK
  <2> QED
    BY <2>2, <2>3 DEF QueueOK
<1>5. AdmissionOK'
  <2>1. Active' = Active /\ Live' = Live \cup {id} /\ id \notin Live
    BY <1>0, <1>2 DEF Active, Live, Running
  <2>2. /\ IsFiniteSet(background')
        /\ Cardinality(background') = Cardinality(background) + 1
        /\ Cardinality(background) \in Nat
    BY <1>0, <2>1, FS_AddElement, FS_CardinalityType
    DEF IInv, AdmissionOK, BackgroundIsLive
  <2>3. BackgroundIsLive'
    BY <1>0, <2>1, <2>2 DEF IInv, AdmissionOK, BackgroundIsLive
  <2> QED
    BY <1>0, <2>1, <2>2, <2>3 DEF IInv, AdmissionOK, PermitsConserved
<1>6. ReportsOK' /\ ReportKept'
  <2>1. status[id].status # "completed" /\ status'[id].status # "completed"
    BY <1>0, <1>2 DEF IInv, StatusesFit, StatusFits, NoStatus, NewStatus
  <2> QED
    BY <1>0, <1>2, <2>1, ReportsStay DEF stores
<1>7. TypeOK'
  BY <1>0, <1>2, <1>3 DEF IInv, TypeOK
<1> QED
  BY <1>2, <1>4, <1>5, <1>6, <1>7 DEF IInv

LEMMA StartRunKeeps ==
    ASSUME IInv, NEW id \in Ids, StartRun(id)
    PROVE  IInv'
<1>0. /\ waiting \in Seq(Ids) /\ Len(waiting) \in Nat /\ waiting # <<>>
      /\ id = Head(waiting) /\ waiting' = Tail(waiting)
      /\ permits > 0 /\ permits' = permits - 1
      /\ permits \in 0..MaxConcurrent /\ MaxConcurrent \in Nat
      /\ UNCHANGED <<background, redisResults, memResults, dbResults>>
  BY LenProperties, LimitsAssumption DEF IInv, TypeOK, StartRun, stores
<1>1. 1 \in 1..Len(waiting) /\ waiting[1] = id /\ pc[id] = "queued"
  <2>1. Len(waiting) # 0 /\ Head(waiting) = waiting[1]
    BY <1>0, EmptySeq
  <2> QED
    BY <1>0, <2>1 DEF IInv, QueueOK
<1> DEFINE s == Update(status[id], 1)
<1>2. s \in Status /\ InStep(s, 1, 0)
  <2>1. status[id] = NewStatus
    BY <1>1 DEF IInv, StatusesFit, StatusFits
  <2> QED
    BY <2>1, InitialStatus, StatusTypes, UpdateStarts DEF Steps
<1>3. Publish(id, s) /\ Goto(id, "fetch")
  BY DEF StartRun
<1> HIDE DEF s
<1>4. StatusFits(s, "fetch")
  BY <1>2 DEF StatusFits
<1>5. /\ status' \in [Ids -> Status] /\ pc' \in [Ids -> PCs]
      /\ IsCache(registry', Ids, MaxTracked)
      /\ \A d \in Ids : status'[d] = IF d = id THEN s ELSE status[d]
      /\ \A d \in Ids : pc'[d] = IF d = id THEN "fetch" ELSE pc[d]
      /\ StatusesFit'
  BY <1>2, <1>3, <1>4, PublishAndGoto DEF PCs, Running
<1>6. /\ waiting' \in Seq(Ids) /\ Len(waiting') = Len(waiting) - 1
      /\ \A i \in 1..Len(waiting') : waiting'[i] = waiting[i + 1]
  BY <1>0, HeadTailProperties
<1>7. QueueOK'
  <2>1. \A i \in 1..Len(waiting') :
          /\ i + 1 \in 1..Len(waiting) /\ waiting'[i] = waiting[i + 1]
          /\ waiting'[i] \in Ids /\ waiting'[i] # id
    BY <1>0, <1>1, <1>6, ElementOfSeq DEF IInv, QueueOK
  <2> QED
    BY <1>5, <2>1 DEF IInv, QueueOK
<1>8. AdmissionOK'
  <2>1. Active' = Active \cup {id} /\ id \notin Active /\ Live' = Live
    BY <1>1, <1>5 DEF Active, Live, Running
  <2>2. /\ IsFiniteSet(Active')
        /\ Cardinality(Active') = Cardinality(Active) + 1
        /\ Cardinality(Active) \in Nat
    BY <2>1, FS_AddElement, FS_CardinalityType DEF IInv, AdmissionOK
  <2>3. PermitsConserved'
    BY <1>0, <2>2 DEF IInv, AdmissionOK, PermitsConserved
  <2> QED
    BY <1>0, <2>1, <2>2, <2>3 DEF IInv, AdmissionOK, BackgroundIsLive
<1>9. ReportsOK' /\ ReportKept'
  <2>1. status[id].status # "completed" /\ status'[id].status # "completed"
    BY <1>1, <1>2, <1>5 DEF IInv, StatusesFit, StatusFits, NoStatus, NewStatus, InStep
  <2> QED
    BY <1>0, <1>1, <1>5, <2>1, ReportsStay DEF stores
<1>10. TypeOK'
  BY <1>0, <1>5, <1>6 DEF IInv, TypeOK
<1> QED
  BY <1>5, <1>7, <1>8, <1>9, <1>10 DEF IInv

LEMMA EndFailedKeeps ==
    ASSUME IInv, NEW id \in Ids, NEW s \in Status, NEW cause \in Causes,
           pc[id] \in Running \ {"cache"}, \E n \in 0..5 : FirstSteps(s, n),
           EndFailed(id, s, cause)
    PROVE  IInv'
<1> DEFINE t == Fail(Fail(s, cause), "no_report")
<1>1. t \in Status /\ t.status = "failed" /\ t.steps_completed = s.steps_completed
  <2>1. 1 \in Steps
    BY DEF Steps
  <2>2. Fail(s, cause) \in Status
    BY <2>1, StatusTypes
  <2>3. t \in Status
    BY <2>1, <2>2, StatusTypes
  <2> QED
    BY <2>3 DEF Fail, Status
<1>2. Publish(id, t) /\ Finish(id) /\ UNCHANGED <<redisResults, memResults, dbResults>>
  BY DEF EndFailed, stores
<1> HIDE DEF t
<1>3. StatusFits(t, "finished")
  BY <1>1 DEF StatusFits, FirstSteps
<1>4. /\ status' \in [Ids -> Status] /\ pc' \in [Ids -> PCs]
      /\ IsCache(registry', Ids, MaxTracked)
      /\ \A d \in Ids : status'[d] = IF d = id THEN t ELSE status[d]
      /\ \A d \in Ids : pc'[d] = IF d = id THEN "finished" ELSE pc[d]
      /\ StatusesFit'
  BY <1>1, <1>2, <1>3, PublishAndGoto DEF Finish, PCs
<1>5. /\ QueueOK' /\ AdmissionOK'
      /\ permits' \in 0..MaxConcurrent /\ background' \subseteq Ids
  BY <1>2, AdmissionEnds
<1>6. ReportsOK' /\ ReportKept'
  <2>1. status[id].status # "completed" /\ status'[id].status # "completed"
    BY <1>1, <1>4 DEF IInv, StatusesFit, StatusFits, InStep, Running
  <2>2. pc[id] \notin {"cache", "lost"}
    BY DEF Running
  <2> QED
    BY <1>2, <1>4, <2>1, <2>2, ReportsStay DEF stores
<1>7. TypeOK'
  BY <1>2, <1>4, <1>5 DEF IInv, TypeOK, Finish
<1> QED
  BY <1>4, <1>5, <1>6, <1>7 DEF IInv

LEMMA FailureKeeps ==
    ASSUME IInv, NEW id \in Ids, FetchEmpty(id) \/ StepRaises(id)
    PROVE  IInv'
<1>1. CASE FetchEmpty(id)
  <2> DEFINE s == CompleteStep(status[id], 1)
  <2>1. /\ status[id] \in Status /\ InStep(status[id], 1, 0)
        /\ pc[id] \in Running \ {"cache"}
    BY <1>1 DEF IInv, TypeOK, StatusesFit, StatusFits, FetchEmpty, Running
  <2>2. s \in Status /\ FirstSteps(s, 1)
    BY <2>1, StatusTypes, NextStepCompletes DEF InStep, Steps
  <2>3. EndFailed(id, s, "no_data")
    BY <1>1 DEF FetchEmpty
  <2> HIDE DEF s
  <2> QED
    BY <2>1, <2>2, <2>3, EndFailedKeeps DEF Causes
<1>2. CASE StepRaises(id)
  <2>1. PICK s \in RaisedAt(id) : EndFailed(id, s, "exception")
    BY <1>2 DEF StepRaises
  <2>2. s \in Status /\ \E n \in 0..5 : FirstSteps(s, n)
    BY RaisedStatus
  <2>3. pc[id] \in Running \ {"cache"}
    BY RaisedStatus DEF RaisedAt
  <2> QED
    BY <2>1, <2>2, <2>3, EndFailedKeeps DEF Causes
<1> QED
  BY <1>1, <1>2

LEMMA PersistResultKeeps ==
    ASSUME IInv, NEW id \in Ids, PersistResult(id)
    PROVE  IInv'
<1>0. /\ pc \in [Ids -> PCs] /\ pc[id] = "persist"
      /\ UNCHANGED <<status, registry, waiting, permits, background,
                      redisResults, memResults>>
      /\ \/ dbResults' = dbResults \cup {id}
         \/ "persist" \in Faults /\ dbResults' = dbResults
  BY DEF PersistResult, admission, IInv, TypeOK
<1>1. /\ pc' \in [Ids -> PCs]
      /\ \A d \in Ids : pc'[d] = IF d = id THEN "cache" ELSE pc[d]
  BY <1>0 DEF PersistResult, Goto, PCs, Running
<1>2. TypeOK'
  BY <1>0, <1>1 DEF IInv, TypeOK
<1>3. QueueOK' /\ AdmissionOK'
  BY <1>0, AdmissionStays DEF PersistResult, PCs, Running
<1>4. StatusesFit'
  BY <1>0, <1>1 DEF IInv, StatusesFit, StatusFits
<1>5. ReportsOK'
  BY <1>0, <1>1 DEF IInv, TypeOK, ReportsOK
<1>6. ReportKept'
  BY <1>0, <1>1 DEF IInv, ReportKept
<1> QED
  BY <1>2, <1>3, <1>4, <1>5, <1>6 DEF IInv

LEMMA RedisStoresKeeps ==
    ASSUME IInv, NEW id \in Ids, RedisStores(id)
    PROVE  IInv'
<1>0. /\ pc[id] = "cache" /\ redisResults' = redisResults \cup {id}
      /\ UNCHANGED <<status, registry, pc, waiting, permits, background,
                      memResults, dbResults>>
  BY DEF RedisStores, admission
<1>1. TypeOK' /\ StatusesFit'
  BY <1>0 DEF IInv, TypeOK, StatusesFit
<1>2. QueueOK' /\ AdmissionOK'
  BY <1>0 DEF IInv, QueueOK, AdmissionOK, PermitsConserved, BackgroundIsLive,
              Active, Live
<1>3. ReportsOK' /\ ReportKept'
  BY <1>0 DEF IInv, ReportsOK, ReportKept
<1> QED
  BY <1>1, <1>2, <1>3 DEF IInv

LEMMA CacheReportKeeps ==
    ASSUME IInv, NEW id \in Ids, CacheReport(id)
    PROVE  IInv'
<1>0. /\ pc[id] = "cache" /\ status[id] \in Status /\ InStep(status[id], 6, 6)
      /\ UNCHANGED <<redisResults, dbResults>>
      /\ \/ id \in redisResults /\ UNCHANGED memResults
         \/ "redis" \in Faults /\ memResults' = memResults \cup {id}
         \/ "cache" \in Faults /\ UNCHANGED memResults
  BY DEF CacheReport, IInv, TypeOK, StatusesFit, StatusFits
<1> DEFINE s == Complete(status[id])
<1>1. s \in Status /\ s.status = "completed" /\ FirstSteps(s, 6)
  <2>1. s \in Status
    BY <1>0, StatusTypes DEF Steps
  <2> QED
    BY <1>0, <2>1 DEF Complete, Status, InStep, FirstSteps
<1>2. Publish(id, s) /\ Finish(id)
  BY DEF CacheReport
<1> HIDE DEF s
<1>3. StatusFits(s, "finished")
  BY <1>1 DEF StatusFits
<1>4. /\ status' \in [Ids -> Status] /\ pc' \in [Ids -> PCs]
      /\ IsCache(registry', Ids, MaxTracked)
      /\ \A d \in Ids : status'[d] = IF d = id THEN s ELSE status[d]
      /\ \A d \in Ids : pc'[d] = IF d = id THEN "finished" ELSE pc[d]
      /\ StatusesFit'
  BY <1>1, <1>2, <1>3, PublishAndGoto DEF Finish, PCs
<1>5. /\ QueueOK' /\ AdmissionOK'
      /\ permits' \in 0..MaxConcurrent /\ background' \subseteq Ids
  BY <1>0, <1>2, AdmissionEnds DEF Running
<1>6. TypeOK'
  BY <1>0, <1>2, <1>4, <1>5 DEF IInv, TypeOK, Finish
<1>7. ReportsOK'
  BY <1>0, <1>1, <1>4 DEF IInv, TypeOK, ReportsOK
<1>8. ReportKept'
  BY <1>0, <1>1, <1>4 DEF IInv, ReportKept
<1> QED
  BY <1>4, <1>5, <1>6, <1>7, <1>8 DEF IInv

\* Reading and expiring touch the registry only.
LEMMA RegistryOnlyKeeps ==
    ASSUME IInv, NEW id \in Ids, ReadStatus(id) \/ ExpireStatus(id)
    PROVE  IInv'
<1>0. /\ UNCHANGED <<status, pc, waiting, permits, background,
                      redisResults, memResults, dbResults>>
      /\ registry' \in {Touch(registry, id), DelItem(registry, id)}
  BY DEF ReadStatus, ExpireStatus, admission, stores
<1>1. IsCache(registry, Ids, MaxTracked) /\ MaxTracked \in Nat
  BY LimitsAssumption DEF IInv, TypeOK
<1>2. IsCache(registry', Ids, MaxTracked)
  <2>1. CASE registry' = Touch(registry, id)
    BY <1>1, <2>1, TouchIsCache
  <2>2. CASE registry' = DelItem(registry, id)
    BY <1>1, <2>2, DelItemProperties
  <2> QED
    BY <1>0, <2>1, <2>2
<1>3. TypeOK' /\ StatusesFit'
  BY <1>0, <1>2 DEF IInv, TypeOK, StatusesFit
<1>4. QueueOK' /\ AdmissionOK'
  BY <1>0 DEF IInv, QueueOK, AdmissionOK, PermitsConserved, BackgroundIsLive,
              Active, Live
<1>5. ReportsOK' /\ ReportKept'
  BY <1>0 DEF IInv, ReportsOK, ReportKept
<1> QED
  BY <1>3, <1>4, <1>5 DEF IInv

LEMMA ExpireReportKeeps ==
    ASSUME IInv, NEW id \in Ids, ExpireReport(id)
    PROVE  IInv'
<1>0. /\ UNCHANGED <<status, registry, pc, waiting, permits, background, dbResults>>
      /\ redisResults' \subseteq redisResults /\ memResults' \subseteq memResults
      /\ "expire" \in Faults
  BY DEF ExpireReport, admission
<1>1. TypeOK' /\ StatusesFit'
  BY <1>0 DEF IInv, TypeOK, StatusesFit
<1>2. QueueOK' /\ AdmissionOK'
  BY <1>0 DEF IInv, QueueOK, AdmissionOK, PermitsConserved, BackgroundIsLive,
              Active, Live
<1>3. ReportsOK'
  BY <1>0 DEF IInv, ReportsOK
<1>4. ReportKept'
  BY <1>0 DEF IInv, ReportKept
<1> QED
  BY <1>1, <1>2, <1>3, <1>4 DEF IInv

LEMMA RestartKeeps ==
    ASSUME IInv, Restart
    PROVE  IInv'
<1>0. /\ status' = [id \in Ids |-> NoStatus] /\ registry' = <<>>
      /\ pc' = [id \in Ids |-> IF pc[id] = "unused" THEN "unused" ELSE "lost"]
      /\ waiting' = <<>> /\ permits' = MaxConcurrent /\ background' = {}
      /\ memResults' = {} /\ UNCHANGED <<redisResults, dbResults>>
      /\ MaxConcurrent \in Nat /\ MaxBackground \in Nat /\ MaxTracked \in Nat
  BY LimitsAssumption DEF Restart
<1>1. IsCache(registry', Ids, MaxTracked) /\ Len(<<>>) = 0 /\ <<>> \in Seq(Ids)
  BY <1>0, EmptySeq DEF IsCache
<1>2. TypeOK'
  BY <1>0, <1>1, InitialStatus DEF IInv, TypeOK, PCs
<1>3. QueueOK'
  BY <1>0, <1>1 DEF QueueOK
<1>4. AdmissionOK'
  <2>1. Active' = {} /\ Live' = {}
    BY <1>0 DEF Active, Live, Running
  <2> QED
    BY <1>0, <2>1, FS_EmptySet DEF AdmissionOK, PermitsConserved, BackgroundIsLive
<1>5. StatusesFit'
  BY <1>0 DEF StatusesFit, StatusFits
<1>6. ReportsOK'
  <2> SUFFICES ASSUME NEW id \in redisResults \cup dbResults PROVE pc'[id] = "lost"
    BY <1>0 DEF ReportsOK
  <2>1. id \in Ids /\ pc[id] # "unused"
    BY DEF IInv, TypeOK, ReportsOK, StatusesFit, StatusFits, NoStatus
  <2> QED
    BY <1>0, <2>1
<1>7. ReportKept'
  BY <1>0 DEF ReportKept, NoStatus
<1> QED
  BY <1>2, <1>3, <1>4, <1>5, <1>6, <1>7 DEF IInv

(***************************************************************************)
(* The invariant holds                                                     *)
(***************************************************************************)
LEMMA InitIInv == Init => IInv
<1> SUFFICES ASSUME Init PROVE IInv
  OBVIOUS
<1>0. /\ MaxConcurrent \in Nat /\ MaxBackground \in Nat /\ MaxTracked \in Nat
      /\ Len(<<>>) = 0 /\ <<>> \in Seq(Ids) /\ Active = {} /\ Live = {}
  BY LimitsAssumption, EmptySeq DEF Init, Active, Live, Running
<1>1. TypeOK
  <2>1. IsCache(registry, Ids, MaxTracked)
    BY <1>0 DEF Init, IsCache
  <2> QED
    BY <1>0, <2>1, InitialStatus DEF Init, TypeOK, PCs
<1>2. QueueOK /\ AdmissionOK
  BY <1>0, FS_EmptySet
  DEF Init, QueueOK, AdmissionOK, PermitsConserved, BackgroundIsLive
<1>3. StatusesFit /\ ReportsOK /\ ReportKept
  BY DEF Init, StatusesFit, StatusFits, ReportsOK, ReportKept, NoStatus
<1> QED
  BY <1>1, <1>2, <1>3 DEF IInv

LEMMA StepKeepsIInv == IInv /\ [Next]_engineVars => IInv'
<1> SUFFICES ASSUME IInv, [Next]_engineVars PROVE IInv'
  OBVIOUS
<1>1. ASSUME NEW id \in Ids, TriggerRejected(id) \/ TriggerAccepted(id)
      PROVE  IInv'
  BY <1>1, TriggerRejectedKeeps, TriggerAcceptedKeeps
<1>2. ASSUME NEW id \in Ids, Run(id) PROVE IInv'
  BY <1>2, StartRunKeeps, AdvanceKeeps, FundamentalDoneKeeps, FailureKeeps,
     PersistResultKeeps, RedisStoresKeeps, CacheReportKeeps DEF Run
<1>3. ASSUME NEW id \in Ids, ReadStatus(id) \/ ExpireStatus(id) \/ ExpireReport(id)
      PROVE  IInv'
  BY <1>3, RegistryOnlyKeeps, ExpireReportKeeps
<1>4. CASE Restart
  BY <1>4, RestartKeeps
<1>5. CASE UNCHANGED engineVars
  BY <1>5 DEF engineVars, IInv, TypeOK, QueueOK, AdmissionOK, PermitsConserved,
              BackgroundIsLive, Active, Live, StatusesFit, ReportsOK, ReportKept
<1> QED
  BY <1>1, <1>2, <1>3, <1>4, <1>5 DEF Next, Work, Quiescent

LEMMA Invariance == Spec => []IInv
<1> QED
  BY InitIInv, StepKeepsIInv, PTL DEF Spec

(***************************************************************************)
(* The theorems                                                            *)
(***************************************************************************)
\* Every variable keeps its type: the registry stays a cache of its size, no status
\* object leaves the steps of the pipeline, no permit its range.
THEOREM TypeCorrect == Spec => []TypeOK
<1>1. IInv => TypeOK
  BY DEF IInv
<1> QED
  BY <1>1, Invariance, PTL

\* Permits are neither lost nor invented, however pipelines end.
THEOREM PermitsAreConserved == Spec => []PermitsConserved
<1>1. IInv => PermitsConserved
  BY DEF IInv, AdmissionOK
<1> QED
  BY <1>1, Invariance, PTL

\* _background_tasks is exactly the set of the accepted tasks that have not ended,
\* and never larger than its limit.
THEOREM BackgroundTasksLive == Spec => []BackgroundIsLive
<1>1. IInv => BackgroundIsLive
  BY DEF IInv, AdmissionOK
<1> QED
  BY <1>1, Invariance, PTL

\* COMPLETED is shown only of an analysis whose report can be read, as long as the
\* faults leave the database, or else the cache, alone.
THEOREM CompletedHasItsReport == Spec => []CompletedHasReport
<1>1. IInv => CompletedHasReport
  BY DEF IInv, ReportKept, ReportSurvives, CompletedHasReport
<1> QED
  BY <1>1, Invariance, PTL

\* A failed analysis leaves no report, whatever goes wrong.
THEOREM FailedLeavesNoReport == Spec => []FailedHasNoReport
<1>1. IInv => FailedHasNoReport
  BY DEF IInv, ReportsOK, StatusesFit, StatusFits, InStep, NoStatus, FailedHasNoReport
<1> QED
  BY <1>1, Invariance, PTL

(***************************************************************************)
(* The order of the steps                                                  *)
(***************************************************************************)
\* What StepsInOrder says of one status object with n completed steps.
Ordered(s, n) ==
    /\ \A k \in 1..n : s.steps_completed[k] = k
    /\ s.status \in {"none", "pending"} => n = 0
    /\ s.status = "running" =>
          n = s.current_step - 1 \/ (n = 6 /\ s.current_step = 6)
    /\ s.status = "completed" => n = 6
    /\ s.status = "failed" => n < 6

LEMMA InStepIsOrdered ==
    ASSUME NEW s, NEW k \in 1..6, NEW n \in 0..6, InStep(s, k, n),
           n = k - 1 \/ (n = 6 /\ k = 6)
    PROVE  Ordered(s, Len(s.steps_completed))
<1>1. /\ Len(s.steps_completed) = n /\ s.status = "running"
      /\ s.current_step = k
      /\ \A i \in 1..n : s.steps_completed[i] = i
  BY DEF InStep, FirstSteps
<1> QED
  BY <1>1 DEF Ordered

LEMMA EndIsOrdered ==
    ASSUME NEW s, NEW n \in 0..6, FirstSteps(s, n),
           \/ s.status = "completed" /\ n = 6
           \/ s.status = "failed" /\ n < 6
    PROVE  Ordered(s, Len(s.steps_completed))
<1>1. /\ Len(s.steps_completed) = n
      /\ \A i \in 1..n : s.steps_completed[i] = i
  BY DEF FirstSteps
<1> QED
  BY <1>1 DEF Ordered

LEMMA FitsAreOrdered ==
    ASSUME NEW s, NEW p \in PCs, StatusFits(s, p)
    PROVE  Ordered(s, Len(s.steps_completed))
<1>1. CASE p \in {"unused", "rejected", "queued", "lost"}
  <2>1. s.status \in {"none", "pending"} /\ s.steps_completed = <<>>
    BY <1>1 DEF StatusFits, NoStatus, NewStatus
  <2>2. Len(s.steps_completed) = 0
    BY <2>1, EmptySeq
  <2>3. \A k \in 1..0 : s.steps_completed[k] = k
    OBVIOUS
  <2> QED
    BY <2>1, <2>2, <2>3 DEF Ordered
<1>2. CASE p = "fetch"
  <2>1. InStep(s, 1, 0)
    BY <1>2 DEF StatusFits
  <2> QED
    BY <2>1, InStepIsOrdered
<1>3. CASE p = "technical"
  <2>1. InStep(s, 2, 1)
    BY <1>3 DEF StatusFits
  <2> QED
    BY <2>1, InStepIsOrdered
<1>4. CASE p = "patterns"
  <2>1. InStep(s, 3, 2)
    BY <1>4 DEF StatusFits
  <2> QED
    BY <2>1, InStepIsOrdered
<1>5. CASE p = "fundamental"
  <2>1. InStep(s, 4, 3)
    BY <1>5 DEF StatusFits
  <2> QED
    BY <2>1, InStepIsOrdered
<1>6. CASE p \in {"persist", "cache"}
  <2>1. InStep(s, 6, 6)
    BY <1>6 DEF StatusFits
  <2> QED
    BY <2>1, InStepIsOrdered
<1>7. CASE p = "finished"
  <2>1. \/ s.status = "completed" /\ FirstSteps(s, 6)
        \/ s.status = "failed" /\ \E n \in 0..5 : FirstSteps(s, n)
    BY <1>7 DEF StatusFits
  <2>2. CASE s.status = "completed" /\ FirstSteps(s, 6)
    BY <2>2, EndIsOrdered
  <2>3. CASE s.status = "failed" /\ \E n \in 0..5 : FirstSteps(s, n)
    <3>1. PICK n \in 0..5 : FirstSteps(s, n)
      BY <2>3
    <3>2. n \in 0..6 /\ n < 6
      OBVIOUS
    <3> QED
      BY <2>3, <3>1, <3>2, EndIsOrdered
  <2> QED
    BY <2>1, <2>2, <2>3
<1> QED
  BY <1>1, <1>2, <1>3, <1>4, <1>5, <1>6, <1>7 DEF PCs, Running

\* The completed steps are the first ones, in order, up to the current one.
THEOREM StepsStayInOrder == Spec => []StepsInOrder
<1>1. ASSUME IInv, NEW id \in Ids
      PROVE  Ordered(status[id], Len(status[id].steps_completed))
  <2>1. StatusFits(status[id], pc[id]) /\ pc[id] \in PCs
    BY <1>1 DEF IInv, TypeOK, StatusesFit
  <2> QED
    BY <2>1, FitsAreOrdered
<1>2. IInv => StepsInOrder
  BY <1>1 DEF StepsInOrder, Ordered
<1> QED
  BY <1>2, Invariance, PTL

(***************************************************************************)
(* A running analysis can be found                                         *)
(***************************************************************************)
Used == {id \in Ids : pc[id] # "unused"}

\* Only ids of requests are in the registry, and none of a running analysis is missing
\* while there is room for all of them.
Visible ==
    /\ IsFiniteSet(Used)
    /\ ToSet(registry) \subseteq Used
    /\ Cardinality(Used) <= MaxTracked => Active \subseteq ToSet(registry)

\* A cache that has room for a set of keys is not full while one of them is missing.
LEMMA RoomForAll ==
    ASSUME NEW Keys, NEW maxsize \in Nat, NEW cache, IsCache(cache, Keys, maxsize),
           NEW U, IsFiniteSet(U), Cardinality(U) <= maxsize,
           ToSet(cache) \subseteq U, NEW key \in U, key \notin ToSet(cache)
    PROVE  Len(cache) < maxsize
<1>1. /\ cache \in Seq(Keys) /\ Len(cache) \in Nat /\ DOMAIN cache = 1..Len(cache)
      /\ \A i, j \in 1..Len(cache) : cache[i] = cache[j] => i = j
  BY LenProperties DEF IsCache
<1>2. cache \in [1..Len(cache) -> U \ {key}]
  <2>1. \A i \in 1..Len(cache) : cache[i] \in U /\ cache[i] # key
    BY <1>1 DEF ToSet
  <2>2. cache = [i \in 1..Len(cache) |-> cache[i]]
    BY <1>1, LenProperties
  <2> QED
    BY <2>1, <2>2
<1>3. cache \in Injection(1..Len(cache), U \ {key})
  BY <1>1, <1>2 DEF Injection, IsInjective
<1>4. /\ IsFiniteSet(U \ {key}) /\ Cardinality(U \ {key}) = Cardinality(U) - 1
      /\ Cardinality(U) \in Nat
  BY FS_RemoveElement, FS_CardinalityType
<1>5. Cardinality(1..Len(cache)) <= Cardinality(U \ {key})
  BY <1>3, <1>4, FS_Injection
<1>6. Cardinality(1..Len(cache)) = Len(cache)
  <2>1. ASSUME NEW n \in Nat PROVE Cardinality(1..n) = n
    <3>1. Cardinality(1..n) = IF 1 > n THEN 0 ELSE n - 1 + 1
      BY FS_Interval
    <3> QED
      BY <3>1
  <2> QED
    BY <1>1, <2>1
<1> QED
  BY <1>1, <1>4, <1>5, <1>6

\* An assignment evicts nobody while there is room.
LEMMA SetItemEvictsNobody ==
    ASSUME NEW Keys, NEW maxsize \in Nat \ {0}, NEW cache, NEW key \in Keys,
           IsCache(cache, Keys, maxsize), key \in ToSet(cache) \/ Len(cache) < maxsize
    PROVE  ToSet(cache) \cup {key} \subseteq ToSet(SetItem(cache, key, maxsize))
<1> DEFINE rest == DelItem(cache, key)
<1>0. Len(cache) \in Nat /\ Len(cache) <= maxsize /\ maxsize \in Nat
  BY LenProperties DEF IsCache
<1>1. /\ IsCache(rest, Keys, maxsize) /\ ToSet(rest) = ToSet(cache) \ {key}
      /\ key \in ToSet(cache) => Len(rest) = Len(cache) - 1
      /\ key \notin ToSet(cache) => rest = cache
  BY DelItemProperties
<1>2. SetItem(cache, key, maxsize) = Append(rest, key)
  BY <1>0 DEF SetItem
<1> HIDE DEF rest
<1>3. rest \in Seq(Keys) /\ key \notin ToSet(rest) /\ Len(rest) < maxsize
  BY <1>0, <1>1 DEF IsCache
<1>4. \A x : x \in ToSet(Append(rest, key)) <=> x \in ToSet(rest) \/ x = key
  <2>1. PICK longer : longer = Append(rest, key)
    OBVIOUS
  <2>2. maxsize \in Nat /\ rest \in Seq(Keys) /\ IsCache(rest, Keys, maxsize)
    BY <1>0, <1>1, <1>3
  <2>3. /\ IsCache(longer, Keys, maxsize)
        /\ \A x : x \in ToSet(longer) <=> x \in ToSet(rest) \/ x = key
    BY ONLY <1>3, <2>1, <2>2, key \in Keys, AppendToCache, Zenon
  <2>4. QED
    BY <2>1, <2>3
<1>5. ToSet(cache) \cup {key} \subseteq ToSet(Append(rest, key))
  BY <1>1, <1>4
<1> QED
  BY <1>2, <1>5

LEMMA PublishKeepsVisible ==
    ASSUME IInv, Visible, NEW id \in Ids, NEW s, NEW to, to # "unused",
           Publish(id, s), Goto(id, to)
    PROVE  Visible'
<1>0. /\ IsCache(registry, Ids, MaxTracked) /\ MaxTracked \in Nat \ {0}
      /\ registry' = SetItem(registry, id, MaxTracked)
      /\ \A d \in Ids : pc'[d] = IF d = id THEN to ELSE pc[d]
  BY LimitsAssumption DEF IInv, TypeOK, Publish, Goto
<1>1. Used' = Used \cup {id} /\ Active' \subseteq Active \cup {id}
  BY <1>0 DEF Used, Active
<1>2. IsFiniteSet(Used') /\ Cardinality(Used) <= Cardinality(Used')
      /\ Cardinality(Used) \in Nat /\ Cardinality(Used') \in Nat
  <2>1. IsFiniteSet(Used \cup {id})
    BY FS_AddElement DEF Visible
  <2> QED
    BY <1>1, <2>1, FS_Subset, FS_CardinalityType DEF Visible
<1>3. ToSet(registry') \subseteq Used'
  BY <1>0, <1>1, SetItemIsCache DEF Visible
<1>4. ASSUME Cardinality(Used') <= MaxTracked
      PROVE  Active' \subseteq ToSet(registry')
  <2>1. Active \subseteq ToSet(registry)
    BY <1>0, <1>2, <1>4 DEF Visible
  <2>2. id \in ToSet(registry) \/ Len(registry) < MaxTracked
    BY <1>0, <1>1, <1>2, <1>4, RoomForAll DEF Visible
  <2>3. ToSet(registry) \cup {id} \subseteq ToSet(registry')
    BY <1>0, <2>2, SetItemEvictsNobody
  <2> QED
    BY <1>1, <2>1, <2>3
<1> QED
  BY <1>2, <1>3, <1>4 DEF Visible

LEMMA NextKeepsVisible == IInv /\ Visible /\ [Next]_engineVars => Visible'
<1> SUFFICES ASSUME IInv, Visible, [Next]_engineVars PROVE Visible'
  OBVIOUS
<1>0. /\ pc \in [Ids -> PCs]
      /\ IsCache(registry, Ids, MaxTracked) /\ MaxTracked \in Nat \ {0}
  BY LimitsAssumption DEF IInv, TypeOK
<1>1. ASSUME NEW id \in Ids, TriggerRejected(id) \/ TriggerAccepted(id) \/ StartRun(id)
      PROVE  Visible'
  BY <1>1, PublishKeepsVisible DEF TriggerRejected, TriggerAccepted, StartRun
<1>2. ASSUME NEW id \in Ids,
             FetchDone(id) \/ TechnicalDone(id) \/ PatternsDone(id) \/ FundamentalDone(id)
      PROVE  Visible'
  BY <1>2, PublishKeepsVisible
  DEF FetchDone, TechnicalDone, PatternsDone, FundamentalDone, Advance
<1>3. ASSUME NEW id \in Ids, FetchEmpty(id) \/ StepRaises(id) \/ CacheReport(id)
      PROVE  Visible'
  BY <1>3, PublishKeepsVisible DEF FetchEmpty, StepRaises, EndFailed, CacheReport, Finish
<1>4. ASSUME NEW id \in Ids, PersistResult(id) PROVE Visible'
  <2>1. Used' = Used /\ Active' = Active /\ registry' = registry
    BY <1>0, <1>4 DEF PersistResult, Goto, Used, Active, Running
  <2> QED
    BY <2>1 DEF Visible
<1>5. ASSUME NEW id \in Ids, ReadStatus(id) PROVE Visible'
  <2>1. Used' = Used /\ Active' = Active
    BY <1>5 DEF ReadStatus, Used, Active
  <2>2. ToSet(registry') = ToSet(registry)
    BY <1>0, <1>5, TouchIsCache DEF ReadStatus
  <2> QED
    BY <2>1, <2>2 DEF Visible
<1>6. ASSUME NEW id \in Ids, ExpireStatus(id) PROVE Visible'
  <2>1. Used' = Used /\ Active' = Active /\ id \notin Active
    BY <1>6 DEF ExpireStatus, Used, Active
  <2>2. ToSet(registry') = ToSet(registry) \ {id}
    BY <1>0, <1>6, DelItemProperties DEF ExpireStatus
  <2> QED
    BY <2>1, <2>2 DEF Visible
<1>7. CASE Restart
  <2>1. Used' = Used /\ Active' = {}
    BY <1>0, <1>7 DEF Restart, Used, Active, Running
  <2>2. ToSet(registry') = {}
    BY <1>7 DEF Restart, ToSet
  <2> QED
    BY <2>1, <2>2 DEF Visible
<1>8. CASE UNCHANGED <<pc, registry>>
  BY <1>8 DEF Visible, Used, Active
<1> QED
  BY <1>1, <1>2, <1>3, <1>4, <1>5, <1>6, <1>7, <1>8
  DEF Next, Work, Run, Quiescent, engineVars, RedisStores, ExpireReport

\* As long as the registry has room for every request, each running analysis is in it.
THEOREM RunningStaysVisible == Spec => []RunningVisible
<1>1. Init => Visible
  <2> SUFFICES ASSUME Init PROVE Visible
    OBVIOUS
  <2>1. Used = {} /\ Active = {} /\ ToSet(registry) = {}
    BY DEF Init, Used, Active, Running, ToSet
  <2> QED
    BY <2>1, FS_EmptySet DEF Visible
<1>2. Visible => RunningVisible
  BY DEF Visible, RunningVisible, Used
<1> QED
  BY <1>1, <1>2, InitIInv, StepKeepsIInv, NextKeepsVisible, PTL DEF Spec

(***************************************************************************)
(* The refinement of JobService                                            *)
(***************************************************************************)
\* A cached report has its row, when rows are always written: the row comes first.
RowsFirst == "persist" \notin Faults => redisResults \cup memResults \subseteq dbResults

phase == [id \in Ids |-> Phase(id)]
reports == redisResults \cup memResults \cup dbResults

\* The phase of an analysis follows from its pc and the end of its status.
PhaseFits ==
    \A id \in Ids :
        \/ pc[id] = "unused" /\ phase[id] = "new"
        \/ pc[id] = "rejected" /\ phase[id] = "refused"
        \/ pc[id] = "queued" /\ phase[id] = "waiting"
        \/ pc[id] \in Running /\ phase[id] = "running"
        \/ pc[id] = "lost" /\ phase[id] = "forgotten"
        \/ pc[id] = "finished" /\ status[id].status = "completed" /\ phase[id] = "succeeded"
        \/ pc[id] = "finished" /\ status[id].status # "completed" /\ phase[id] = "failed"

LEMMA PhasesFit == IInv => PhaseFits
<1> SUFFICES ASSUME IInv, NEW id \in Ids
             PROVE  \/ pc[id] = "unused" /\ Phase(id) = "new"
                    \/ pc[id] = "rejected" /\ Phase(id) = "refused"
                    \/ pc[id] = "queued" /\ Phase(id) = "waiting"
                    \/ pc[id] \in Running /\ Phase(id) = "running"
                    \/ pc[id] = "lost" /\ Phase(id) = "forgotten"
                    \/ /\ pc[id] = "finished" /\ status[id].status = "completed"
                       /\ Phase(id) = "succeeded"
                    \/ /\ pc[id] = "finished" /\ status[id].status # "completed"
                       /\ Phase(id) = "failed"
  BY DEF PhaseFits, phase
<1>1. pc[id] \in PCs
  BY DEF IInv, TypeOK
<1> QED
  BY <1>1 DEF Phase, PCs, Running

\* The cardinality of JobService is that of Analysis.
LEMMA SameCardinality ==
    ASSUME NEW S
    PROVE  Service!Cardinality(S) = Cardinality(S)
BY DEF Cardinality, Service!Cardinality

\* The sets whose sizes JobService compares are those the code counts.
LEMMA PhaseSets ==
    ASSUME IInv
    PROVE  /\ Service!InPhase("running") = Active
           /\ Service!InPhase("waiting") \cup Service!InPhase("running") = background
<1>1. \A id \in Ids : /\ phase[id] = "running" <=> pc[id] \in Running
                      /\ phase[id] = "waiting" <=> pc[id] = "queued"
  BY PhasesFit DEF PhaseFits, Running
<1>2. Service!InPhase("running") = Active
  BY <1>1 DEF Service!InPhase, Active, phase
<1>3. Service!InPhase("waiting") \cup Service!InPhase("running") = Live
  BY <1>1 DEF Service!InPhase, Live, phase
<1> QED
  BY <1>2, <1>3 DEF IInv, AdmissionOK, BackgroundIsLive

\* A step of one task leaves the phases of the others alone.
LEMMA OnePhaseMoves ==
    ASSUME NEW id \in Ids, NEW to, Phase(id)' = to,
           \A d \in Ids \ {id} : pc'[d] = pc[d] /\ status'[d] = status[d]
    PROVE  phase' = [phase EXCEPT ![id] = to]
<1>1. \A d \in Ids \ {id} : Phase(d)' = Phase(d)
  BY DEF Phase
<1> QED
  BY <1>1 DEF phase

LEMMA PhaseStays ==
    ASSUME NEW id \in Ids, Phase(id)' = Phase(id),
           \A d \in Ids \ {id} : pc'[d] = pc[d] /\ status'[d] = status[d]
    PROVE  phase' = phase
<1>1. \A d \in Ids : Phase(d)' = Phase(d)
  BY DEF Phase
<1> QED
  BY <1>1 DEF phase

\* Publishing and moving a task touches that task only.
LEMMA OthersStay ==
    ASSUME IInv, NEW id \in Ids, NEW s, NEW to, Publish(id, s), Goto(id, to)
    PROVE  /\ pc'[id] = to /\ status'[id] = s
           /\ \A d \in Ids \ {id} : pc'[d] = pc[d] /\ status'[d] = status[d]
BY DEF Publish, Goto, IInv, TypeOK

\* Requests and the start of a task.
LEMMA AdmissionSimulates ==
    ASSUME IInv, NEW id \in Ids, TriggerRejected(id) \/ TriggerAccepted(id) \/ StartRun(id)
    PROVE  Service!Refuse(id) \/ Service!Accept(id) \/ Service!Start(id)
<1>0. PhaseFits
  BY PhasesFit
<1>1. reports' = reports
  BY DEF reports, TriggerRejected, TriggerAccepted, StartRun, stores
<1>2. CASE TriggerRejected(id)
  <2>1. /\ pc[id] = "unused" /\ pc'[id] = "rejected"
        /\ \A d \in Ids \ {id} : pc'[d] = pc[d] /\ status'[d] = status[d]
    BY <1>2, OthersStay DEF TriggerRejected
  <2>2. phase[id] = "new" /\ phase' = [phase EXCEPT ![id] = "refused"]
    BY <1>0, <2>1, OnePhaseMoves DEF PhaseFits, Phase, Running
  <2>3. Cardinality(Service!InPhase("waiting") \cup Service!InPhase("running"))
            >= MaxBackground
    BY <1>2, PhaseSets DEF TriggerRejected
  <2>5. Service!Move(id, "new", "refused")
    BY <2>2 DEF Service!Move, phase
  <2> QED
    BY <1>1, <2>3, <2>5, SameCardinality DEF Service!Refuse, reports
<1>3. CASE TriggerAccepted(id)
  <2>1. /\ pc[id] = "unused" /\ pc'[id] = "queued"
        /\ \A d \in Ids \ {id} : pc'[d] = pc[d] /\ status'[d] = status[d]
    BY <1>3, OthersStay DEF TriggerAccepted
  <2>2. phase[id] = "new" /\ phase' = [phase EXCEPT ![id] = "waiting"]
    BY <1>0, <2>1, OnePhaseMoves DEF PhaseFits, Phase, Running
  <2>3. Cardinality(Service!InPhase("waiting") \cup Service!InPhase("running")) < MaxBackground
    BY <1>3, PhaseSets DEF TriggerAccepted
  <2>5. Service!Move(id, "new", "waiting")
    BY <2>2 DEF Service!Move, phase
  <2> QED
    BY <1>1, <2>3, <2>5, SameCardinality DEF Service!Accept, reports
<1>4. CASE StartRun(id)
  <2>1. /\ pc'[id] = "fetch"
        /\ \A d \in Ids \ {id} : pc'[d] = pc[d] /\ status'[d] = status[d]
    BY <1>4, OthersStay DEF StartRun
  <2>2. pc[id] = "queued"
    <3>1. waiting \in Seq(Ids) /\ waiting # <<>> /\ id = Head(waiting)
      BY <1>4 DEF StartRun, IInv, TypeOK
    <3>2. Len(waiting) \in Nat /\ Len(waiting) # 0 /\ Head(waiting) = waiting[1]
      BY <3>1, EmptySeq, LenProperties
    <3> QED
      BY <3>1, <3>2 DEF IInv, QueueOK
  <2>3. phase[id] = "waiting" /\ phase' = [phase EXCEPT ![id] = "running"]
    BY <1>0, <2>1, <2>2, OnePhaseMoves DEF PhaseFits, Phase, Running
  <2>4. Cardinality(Service!InPhase("running")) < MaxConcurrent
    <3>1. permits > 0 /\ permits \in 0..MaxConcurrent /\ MaxConcurrent \in Nat
      BY <1>4, LimitsAssumption DEF StartRun, IInv, TypeOK
    <3>2. Cardinality(Active) \in Nat /\ permits + Cardinality(Active) = MaxConcurrent
      BY FS_CardinalityType DEF IInv, AdmissionOK, PermitsConserved
    <3> QED
      BY <3>1, <3>2, PhaseSets
  <2>5. Service!Move(id, "waiting", "running")
    BY <2>3 DEF Service!Move, phase
  <2> QED
    BY <1>1, <2>4, <2>5, SameCardinality DEF Service!Start, reports
<1> QED
  BY <1>2, <1>3, <1>4

\* The steps before the report: the job is running before and after.
LEMMA StepSimulates ==
    ASSUME IInv, NEW id \in Ids,
           FetchDone(id) \/ TechnicalDone(id) \/ PatternsDone(id) \/ FundamentalDone(id)
    PROVE  phase' = phase /\ reports' = reports
<1>1. \E to \in {"technical", "patterns", "fundamental", "persist"} :
          (\E s : Publish(id, s)) /\ Goto(id, to) /\ UNCHANGED stores /\ pc[id] \in Running
  <2>1. CASE FetchDone(id)
    BY <2>1 DEF FetchDone, Advance, Running
  <2>2. CASE TechnicalDone(id)
    BY <2>2 DEF TechnicalDone, Advance, Running
  <2>3. CASE PatternsDone(id)
    BY <2>3 DEF PatternsDone, Advance, Running
  <2>4. CASE FundamentalDone(id)
    BY <2>4 DEF FundamentalDone, Running
  <2> QED
    BY <2>1, <2>2, <2>3, <2>4
<1>2. PICK to \in {"technical", "patterns", "fundamental", "persist"} :
          (\E s : Publish(id, s)) /\ Goto(id, to) /\ UNCHANGED stores /\ pc[id] \in Running
  BY <1>1
<1>3. PICK s : Publish(id, s)
  BY <1>2
<1>4. /\ pc'[id] = to
      /\ \A d \in Ids \ {id} : pc'[d] = pc[d] /\ status'[d] = status[d]
  BY <1>2, <1>3, OthersStay
<1>5. Phase(id)' = "running" /\ Phase(id) = "running"
  BY <1>2, <1>4 DEF Phase, Running
<1> QED
  BY <1>2, <1>4, <1>5, PhaseStays DEF reports, stores

\* A failure: there is no report yet.
LEMMA FailureSimulates ==
    ASSUME IInv, NEW id \in Ids, FetchEmpty(id) \/ StepRaises(id)
    PROVE  Service!FailJob(id)
<1>0. PhaseFits
  BY PhasesFit
<1>1. PICK s \in Status, cause \in Causes : EndFailed(id, s, cause)
  <2>1. CASE FetchEmpty(id)
    <3>1. CompleteStep(status[id], 1) \in Status
      BY StatusTypes DEF IInv, TypeOK, Steps
    <3> QED
      BY <2>1, <3>1 DEF FetchEmpty, Causes
  <2>2. CASE StepRaises(id)
    BY <2>2, RaisedStatus DEF StepRaises, Causes
  <2> QED
    BY <2>1, <2>2
<1>2. pc[id] \in Running \ {"persist", "cache"}
  BY RaisedStatus DEF FetchEmpty, StepRaises, RaisedAt, Running
<1>3. /\ pc'[id] = "finished" /\ status'[id] = Fail(Fail(s, cause), "no_report")
      /\ \A d \in Ids \ {id} : pc'[d] = pc[d] /\ status'[d] = status[d]
  BY <1>1, OthersStay DEF EndFailed, Finish
<1>4. status[id].status = "running"
  BY <1>2 DEF IInv, StatusesFit, StatusFits, InStep, Running
<1>5. id \notin reports
  BY <1>2, <1>4 DEF IInv, ReportsOK, reports, Running
<1>6. status'[id].status # "completed"
  <2>1. 1 \in Steps
    BY DEF Steps
  <2>2. Fail(s, cause) \in Status
    BY <2>1, StatusTypes
  <2> QED
    BY <1>3, <2>2 DEF Fail, Status
<1>7. phase[id] = "running" /\ phase' = [phase EXCEPT ![id] = "failed"]
  BY <1>0, <1>2, <1>3, <1>6, OnePhaseMoves DEF PhaseFits, Phase, Running
<1>8. reports' = reports
  BY <1>1 DEF EndFailed, stores, reports
<1> QED
  BY <1>5, <1>7, <1>8 DEF Service!FailJob, Service!Move, phase, reports

\* Saving: the report is written while the job runs, at the latest when it succeeds.
LEMMA SavingSimulates ==
    ASSUME IInv, IInv', NEW id \in Ids,
           PersistResult(id) \/ RedisStores(id) \/ CacheReport(id)
    PROVE  \/ phase' = phase /\ reports' = reports
           \/ Service!WriteReport(id) \/ Service!Succeed(id)
<1>0. PhaseFits /\ pc[id] \in Running
  BY PhasesFit DEF PersistResult, RedisStores, CacheReport, Running
<1>1. CASE PersistResult(id)
  <2>1. /\ pc'[id] = "cache" /\ status' = status
        /\ \A d \in Ids \ {id} : pc'[d] = pc[d] /\ status'[d] = status[d]
    BY <1>1 DEF PersistResult, Goto, IInv, TypeOK
  <2>2. Phase(id)' = "running" /\ Phase(id) = "running"
    BY <1>0, <2>1 DEF Phase, Running
  <2>3. phase' = phase /\ phase[id] = "running"
    BY <2>1, <2>2, PhaseStays DEF phase
  <2>4. reports' = reports \/ reports' = reports \cup {id}
    BY <1>1 DEF PersistResult, reports
  <2> QED
    BY <2>3, <2>4 DEF Service!WriteReport, phase, reports
<1>2. CASE RedisStores(id)
  <2>1. UNCHANGED <<pc, status>>
    BY <1>2 DEF RedisStores
  <2>2. phase' = phase /\ phase[id] = "running"
    BY <1>0, <2>1 DEF phase, Phase, PhaseFits, Running
  <2>3. reports' = reports \cup {id}
    BY <1>2 DEF RedisStores, reports
  <2> QED
    BY <2>2, <2>3 DEF Service!WriteReport, phase, reports
<1>3. CASE CacheReport(id)
  <2>1. /\ pc'[id] = "finished" /\ status'[id] = Complete(status[id])
        /\ \A d \in Ids \ {id} : pc'[d] = pc[d] /\ status'[d] = status[d]
    BY <1>3, OthersStay DEF CacheReport, Finish
  <2>2. status'[id].status = "completed"
    BY <2>1 DEF Complete, IInv, TypeOK, Status
  <2>3. phase[id] = "running" /\ phase' = [phase EXCEPT ![id] = "succeeded"]
    BY <1>0, <2>1, <2>2, OnePhaseMoves DEF PhaseFits, Phase, Running
  <2>4. reports' \in {reports, reports \cup {id}}
    BY <1>3 DEF CacheReport, reports
  <2>5. ReportSurvives => id \in reports'
    BY <2>2 DEF IInv, ReportKept, ReportSurvives, reports
  <2> QED
    BY <2>3, <2>4, <2>5 DEF Service!Succeed, Service!Move, phase, reports
<1> QED
  BY <1>1, <1>2, <1>3

\* A cached report that expires is lost only if there is no row.
LEMMA ExpirySimulates ==
    ASSUME RowsFirst, NEW id \in Ids, ExpireReport(id)
    PROVE  \/ phase' = phase /\ reports' = reports
           \/ Service!LoseReport(id)
<1>1. phase' = phase
  BY DEF ExpireReport, phase, Phase
<1>2. CASE "persist" \notin Faults
  BY <1>1, <1>2 DEF ExpireReport, RowsFirst, reports
<1>3. CASE "persist" \in Faults
  <2>1. ~ReportSurvives
    BY <1>3 DEF ReportSurvives, ExpireReport
  <2>2. reports' = reports \/ reports' = reports \ {id}
    BY DEF ExpireReport, reports
  <2> QED
    BY <1>1, <2>1, <2>2 DEF Service!LoseReport, phase, reports
<1> QED
  BY <1>2, <1>3

LEMMA RestartSimulates ==
    ASSUME IInv, Restart
    PROVE  Service!ForgetAll
<1>1. PhaseFits /\ pc \in [Ids -> PCs]
  BY PhasesFit DEF IInv, TypeOK
<1>2. \A id \in Ids : pc'[id] = IF pc[id] = "unused" THEN "unused" ELSE "lost"
  BY DEF Restart
<1>3. \A id \in Ids : Phase(id)' = IF phase[id] = "new" THEN "new" ELSE "forgotten"
  BY <1>1, <1>2 DEF Phase, PhaseFits, Running
<1>4. phase' = [id \in Ids |-> IF phase[id] = "new" THEN "new" ELSE "forgotten"]
  BY <1>3 DEF phase
<1>5. reports' \in SUBSET reports
  BY DEF Restart, reports
<1> QED
  BY <1>4, <1>5 DEF Service!ForgetAll, phase, reports

LEMMA NextSimulates ==
    IInv /\ IInv' /\ RowsFirst /\ [Next]_engineVars => [Service!Next]_Service!vars
<1> SUFFICES ASSUME IInv, IInv', RowsFirst, [Next]_engineVars
             PROVE  Service!Next \/ (phase' = phase /\ reports' = reports)
  BY DEF Service!vars, phase, reports
<1>1. ASSUME NEW id \in Ids, TriggerRejected(id) \/ TriggerAccepted(id) \/ StartRun(id)
      PROVE  Service!Next
  BY <1>1, AdmissionSimulates DEF Service!Next
<1>2. ASSUME NEW id \in Ids,
             FetchDone(id) \/ TechnicalDone(id) \/ PatternsDone(id) \/ FundamentalDone(id)
      PROVE  phase' = phase /\ reports' = reports
  BY <1>2, StepSimulates
<1>3. ASSUME NEW id \in Ids, FetchEmpty(id) \/ StepRaises(id)
      PROVE  Service!Next
  BY <1>3, FailureSimulates DEF Service!Next
<1>4. ASSUME NEW id \in Ids, PersistResult(id) \/ RedisStores(id) \/ CacheReport(id)
      PROVE  Service!Next \/ (phase' = phase /\ reports' = reports)
  BY <1>4, SavingSimulates DEF Service!Next
<1>5. ASSUME NEW id \in Ids, ReadStatus(id) \/ ExpireStatus(id)
      PROVE  phase' = phase /\ reports' = reports
  <2>1. UNCHANGED <<status, pc, redisResults, memResults, dbResults>>
    BY <1>5 DEF ReadStatus, ExpireStatus, stores
  <2> QED
    BY <2>1 DEF phase, Phase, reports
<1>6. ASSUME NEW id \in Ids, ExpireReport(id)
      PROVE  Service!Next \/ (phase' = phase /\ reports' = reports)
  BY <1>6, ExpirySimulates DEF Service!Next
<1>7. CASE Restart
  BY <1>7, RestartSimulates DEF Service!Next
<1>8. CASE UNCHANGED engineVars
  <2>1. UNCHANGED <<status, pc, redisResults, memResults, dbResults>>
    BY <1>8 DEF engineVars
  <2> QED
    BY <2>1 DEF phase, Phase, reports
<1> QED
  BY <1>1, <1>2, <1>3, <1>4, <1>5, <1>6, <1>7, <1>8 DEF Next, Work, Run, Quiescent

\* Rows are written before reports are cached, and never deleted.
LEMMA RowsFirstKeeps == IInv /\ RowsFirst /\ [Next]_engineVars => RowsFirst'
<1> SUFFICES ASSUME IInv, RowsFirst, [Next]_engineVars, "persist" \notin Faults
             PROVE  redisResults' \cup memResults' \subseteq dbResults'
  BY DEF RowsFirst
<1>0. redisResults \cup memResults \subseteq dbResults
  BY DEF RowsFirst
<1>1. ASSUME NEW id \in Ids, RedisStores(id) \/ CacheReport(id)
      PROVE  redisResults' \cup memResults' \subseteq dbResults'
  <2>1. id \in dbResults
    BY <1>1 DEF RedisStores, CacheReport, IInv, ReportKept
  <2> QED
    BY <1>0, <1>1, <2>1 DEF RedisStores, CacheReport
<1>2. ASSUME NEW id \in Ids, PersistResult(id) \/ ExpireReport(id)
      PROVE  redisResults' \cup memResults' \subseteq dbResults'
  BY <1>0, <1>2 DEF PersistResult, ExpireReport
<1>3. CASE UNCHANGED stores
  BY <1>0, <1>3 DEF stores
<1>4. CASE Restart
  BY <1>0, <1>4 DEF Restart
<1> QED
  BY <1>1, <1>2, <1>3, <1>4
  DEF Next, Work, Run, Quiescent, engineVars, stores, TriggerRejected, TriggerAccepted,
      StartRun, FetchDone, FetchEmpty, TechnicalDone, PatternsDone, FundamentalDone,
      Advance, StepRaises, EndFailed, ReadStatus, ExpireStatus

\* The analysis service is the JobService: whatever the number of analyses, the limits
\* and the faults, every step of the code is a step of the abstract service or none.
THEOREM ServiceImplemented == Spec => ImplementsJobService
<1>1. Init => Service!Init
  BY DEF Init, Service!Init, Phase, Running
<1>2. Init => RowsFirst
  BY DEF Init, RowsFirst
<1> QED
  BY <1>1, <1>2, InitIInv, StepKeepsIInv, RowsFirstKeeps, NextSimulates, PTL
  DEF Spec, ImplementsJobService, Service!Spec
=============================================================================
