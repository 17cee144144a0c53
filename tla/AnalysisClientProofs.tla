------------------------ MODULE AnalysisClientProofs ------------------------
(***************************************************************************)
(* Proofs about the clients of the analyses: AnalysisRead, for any number  *)
(* of requests in flight, and AnalysisWatch, for any number of connections *)
(* and of turns.                                                           *)
(***************************************************************************)
EXTENDS AnalysisRead, AnalysisWatch, AnalysisProofs, SequenceTheorems

(***************************************************************************)
(* What a step of the engine leaves a client                               *)
(***************************************************************************)
\* While the process lives, rows stay and what is completed stays completed.
LEMMA CompletedStays ==
    ASSUME IInv, Work
    PROVE  /\ dbResults \subseteq dbResults'
           /\ \A d \in Ids : status[d].status = "completed" => status'[d] = status[d]
<1>0. /\ status \in [Ids -> Status]
      /\ \A d \in Ids : status[d].status = "completed" => pc[d] = "finished"
  BY DEF IInv, TypeOK, StatusesFit, StatusFits, InStep, NoStatus, NewStatus, PCs, Running
<1>1. ASSUME NEW id \in Ids, NEW s, Publish(id, s), pc[id] # "finished"
      PROVE  \A d \in Ids : status[d].status = "completed" => status'[d] = status[d]
  BY <1>0, <1>1 DEF Publish
<1>2. ASSUME NEW id \in Ids, TriggerRejected(id) \/ TriggerAccepted(id) \/ CacheReport(id)
      PROVE  /\ \E s : Publish(id, s)
             /\ pc[id] # "finished" /\ dbResults' = dbResults
  BY <1>2 DEF TriggerRejected, TriggerAccepted, CacheReport, stores
<1>3. ASSUME NEW id \in Ids, StartRun(id)
      PROVE  (\E s : Publish(id, s)) /\ pc[id] # "finished" /\ dbResults' = dbResults
  <2>1. waiting \in Seq(Ids) /\ waiting # <<>> /\ id = Head(waiting)
    BY <1>3 DEF StartRun, IInv, TypeOK
  <2>2. Len(waiting) \in Nat /\ Len(waiting) # 0 /\ Head(waiting) = waiting[1]
    BY <2>1, EmptySeq, LenProperties
  <2>3. pc[id] = "queued"
    BY <2>1, <2>2 DEF IInv, QueueOK
  <2> QED
    BY <1>3, <2>3 DEF StartRun, stores
<1>4. ASSUME NEW id \in Ids,
             FetchDone(id) \/ TechnicalDone(id) \/ PatternsDone(id) \/ FundamentalDone(id)
      PROVE  (\E s : Publish(id, s)) /\ pc[id] # "finished" /\ dbResults' = dbResults
  BY <1>4 DEF FetchDone, TechnicalDone, PatternsDone, FundamentalDone, Advance, stores
<1>5. ASSUME NEW id \in Ids, FetchEmpty(id) \/ StepRaises(id)
      PROVE  (\E s : Publish(id, s)) /\ pc[id] # "finished" /\ dbResults' = dbResults
  BY <1>5, RaisedStatus DEF FetchEmpty, StepRaises, EndFailed, Running, stores
<1>6. ASSUME NEW id \in Ids,
             \/ PersistResult(id) \/ RedisStores(id) \/ ReadStatus(id)
             \/ ExpireStatus(id) \/ ExpireReport(id)
      PROVE  status' = status /\ dbResults \subseteq dbResults'
  BY <1>6 DEF PersistResult, RedisStores, ReadStatus, ExpireStatus, ExpireReport, stores
<1> QED
  BY <1>1, <1>2, <1>3, <1>4, <1>5, <1>6 DEF Work, Run

\* Nothing goes to the fallback while Redis answers.
FallbackUnused == "redis" \notin Faults => memResults = {}

LEMMA WorkKeepsFallback == FallbackUnused /\ (Work \/ Restart) => FallbackUnused'
<1> SUFFICES ASSUME FallbackUnused, Work \/ Restart, "redis" \notin Faults
             PROVE  memResults' = {}
  BY DEF FallbackUnused
<1>1. memResults = {}
  BY DEF FallbackUnused
<1>2. CASE Restart
  BY <1>2 DEF Restart
<1>3. ASSUME NEW id \in Ids, CacheReport(id) \/ ExpireReport(id)
      PROVE  memResults' = {}
  BY <1>1, <1>3 DEF CacheReport, ExpireReport
<1>4. CASE UNCHANGED memResults
  BY <1>1, <1>4
<1> QED
  BY <1>2, <1>3, <1>4
  DEF Work, Run, stores, TriggerRejected, TriggerAccepted,
      StartRun, FetchDone, FetchEmpty, TechnicalDone, PatternsDone, FundamentalDone,
      Advance, StepRaises, EndFailed, ReadStatus, ExpireStatus, PersistResult, RedisStores

(***************************************************************************)
(* GET /analysis/{id}                                                      *)
(***************************************************************************)
Requests == [pc : ReaderPCs, id : Ids, answer : Answers]

\* A request that is past its look at the status is about a completed analysis; how
\* it got where it is tells which fault must have happened.
RequestOK(c) ==
    /\ c.pc # "idle" => status[c.id].status = "completed"
    /\ c.pc = "invalidate" => "corrupt" \in Faults
    /\ c.pc = "refill" => c.id \in dbResults
    /\ {"redis", "cache", "expire", "corrupt"} \cap Faults = {} =>
          c.pc \notin {"invalidate", "db", "refill"}
    /\ ReadSurvives /\ c.pc = "answered" => c.answer = "report"

RequestsOK ==
    /\ reader \in [Readers -> Requests]
    /\ \A r \in Readers : RequestOK(reader[r])

ReadInv == IInv /\ FallbackUnused /\ RequestsOK

\* The handler leaves the engine's invariant alone: it moves a key of the registry, or
\* takes a corrupt report out of the cache, or puts one back that has a row.
LEMMA ReadersKeepIInv ==
    ASSUME ReadInv, NEW r \in Readers,
           (\E id \in Ids : GetStatus(r, id)) \/ Handle(r) \/ NextRequest(r)
    PROVE  IInv'
<1>1. ASSUME NEW id \in Ids, GetStatus(r, id) PROVE IInv'
  <2>1. /\ UNCHANGED <<status, pc, waiting, permits, background,
                        redisResults, memResults, dbResults>>
        /\ registry' = Touch(registry, id)
    BY <1>1 DEF GetStatus, admission, stores
  <2>2. IsCache(registry', Ids, MaxTracked)
    BY <2>1, TouchIsCache, LimitsAssumption DEF ReadInv, IInv, TypeOK
  <2> QED
    BY <2>1, <2>2
    DEF ReadInv, IInv, TypeOK, QueueOK, AdmissionOK, PermitsConserved, BackgroundIsLive,
        Active, Live, StatusesFit, ReportsOK, ReportKept
<1>2. CASE UNCHANGED engineVars
  BY <1>2, StepKeepsIInv DEF ReadInv
<1>3. ASSUME Invalidate(r) \/ Refill(r) PROVE IInv'
  <2>1. /\ reader[r] \in Requests /\ RequestOK(reader[r])
        /\ redisResults \subseteq Ids /\ memResults \subseteq Ids
    BY DEF ReadInv, RequestsOK, IInv, TypeOK
  <2>2. UNCHANGED <<status, registry, pc, waiting, permits, background, dbResults>>
    BY <1>3 DEF Invalidate, Refill, admission
  <2>3. reader[r].id \in Ids /\ status[reader[r].id].status = "completed"
    BY <1>3, <2>1 DEF Requests, RequestOK, Invalidate, Refill
  <2>4. /\ redisResults' \subseteq redisResults \cup {reader[r].id}
        /\ memResults' \subseteq memResults \cup {reader[r].id}
    BY <1>3 DEF Invalidate, Refill, SetResult
  <2>5. \/ "corrupt" \in Faults
        \/ redisResults \subseteq redisResults' /\ memResults \subseteq memResults'
    BY <1>3, <2>1 DEF Invalidate, Refill, SetResult, RequestOK
  <2>6. ReportsOK'
    BY <2>2, <2>3, <2>4 DEF ReadInv, IInv, ReportsOK
  <2>7. ReportKept'
    BY <2>2, <2>5 DEF ReadInv, IInv, ReportKept
  <2>8. TypeOK'
    BY <2>1, <2>2, <2>3, <2>4 DEF ReadInv, IInv, TypeOK
  <2>9. QueueOK' /\ AdmissionOK' /\ StatusesFit'
    BY <2>2 DEF ReadInv, IInv, QueueOK, AdmissionOK, PermitsConserved, BackgroundIsLive,
        Active, Live, StatusesFit
  <2> QED
    BY <2>6, <2>7, <2>8, <2>9 DEF IInv
<1> QED
  BY <1>1, <1>2, <1>3 DEF Handle, GetCached, LoadFromDb, NextRequest

\* A completed analysis is answered by its cached report if no fault touches the
\* cache, and by its row if none touches the database.
LEMMA ReportIsReachable ==
    ASSUME ReadInv, NEW id \in Ids, status[id].status = "completed"
    PROVE  /\ {"redis", "cache", "expire", "corrupt"} \cap Faults = {} =>
                \A hit \in CacheAnswers(id) : hit
           /\ "persist" \notin Faults => id \in dbResults
<1>1. ASSUME {"redis", "cache", "expire", "corrupt"} \cap Faults = {},
             NEW hit \in CacheAnswers(id)
      PROVE  hit
  <2>1. id \in redisResults \cup memResults /\ memResults = {}
    BY <1>1 DEF ReadInv, IInv, ReportKept, FallbackUnused
  <2>2. hit = (id \in redisResults)
    <3>1. "redis" \notin Faults
      BY <1>1
    <3> QED
      BY <1>1, <3>1, Zenon DEF CacheAnswers
  <2> QED
    BY <2>1, <2>2
<1>2. "persist" \notin Faults => id \in dbResults
  BY DEF ReadInv, IInv, ReportKept
<1> QED
  BY <1>1, <1>2

\* A step of the handler moves one request.
LEMMA RequestMoves ==
    ASSUME ReadInv, NEW r \in Readers, NEW c \in Requests,
           reader' = [reader EXCEPT ![r] = c], UNCHANGED <<status, dbResults>>,
           RequestOK(c)
    PROVE  RequestsOK'
<1>1. reader \in [Readers -> Requests] /\ \A q \in Readers : RequestOK(reader[q])
  BY DEF ReadInv, RequestsOK
<1>2. \A q \in Readers : reader'[q] \in {c, reader[q]} /\ RequestOK(reader'[q])
  BY <1>1
<1>3. \A q \in Readers : RequestOK(reader[q])'
  BY <1>2 DEF RequestOK
<1> QED
  BY <1>1, <1>3 DEF RequestsOK

LEMMA GetStatusKeeps ==
    ASSUME ReadInv, NEW r \in Readers, NEW id \in Ids, GetStatus(r, id)
    PROVE  RequestsOK' /\ FallbackUnused'
<1>1. /\ reader[r] \in Requests /\ reader \in [Readers -> Requests]
      /\ UNCHANGED <<status, redisResults, memResults, dbResults>>
  BY DEF ReadInv, RequestsOK, GetStatus, stores
<1> DEFINE c == IF id \notin ToSet(registry)
                THEN [pc |-> "idle", id |-> id, answer |-> "not_found"]
                ELSE IF status[id].status # "completed"
                THEN [pc |-> "idle", id |-> id, answer |-> "status"]
                ELSE [pc |-> "cache", id |-> id,
                      answer |-> IF reader[r].id = id THEN reader[r].answer ELSE "none"]
<1>2. /\ c \in Requests /\ reader' = [reader EXCEPT ![r] = c]
      /\ c.pc \in {"idle", "cache"}
      /\ c.pc = "cache" => status[c.id].status = "completed"
  <2>1. reader[r].answer \in Answers
    BY <1>1 DEF Requests
  <2>2. reader' = [reader EXCEPT ![r] = c]
    BY DEF GetStatus
  <2>3. CASE id \notin ToSet(registry)
    BY <2>2, <2>3 DEF Requests, ReaderPCs, Answers
  <2>4. CASE id \in ToSet(registry) /\ status[id].status # "completed"
    BY <2>2, <2>4 DEF Requests, ReaderPCs, Answers
  <2>5. CASE id \in ToSet(registry) /\ status[id].status = "completed"
    BY <2>1, <2>2, <2>5 DEF Requests, ReaderPCs, Answers
  <2> QED
    BY <2>3, <2>4, <2>5
<1> HIDE DEF c
<1>3. RequestOK(c)
  BY <1>2 DEF RequestOK
<1>4. RequestsOK'
  BY <1>1, <1>2, <1>3, RequestMoves
<1> QED
  BY <1>1, <1>4 DEF ReadInv, FallbackUnused

LEMMA GetCachedKeeps ==
    ASSUME ReadInv, NEW r \in Readers, GetCached(r)
    PROVE  RequestsOK'
<1>0. /\ reader[r] \in Requests /\ RequestOK(reader[r]) /\ reader[r].pc = "cache"
      /\ reader \in [Readers -> Requests] /\ UNCHANGED <<status, dbResults>>
  BY DEF ReadInv, RequestsOK, GetCached, engineVars
<1>1. reader[r].id \in Ids /\ status[reader[r].id].status = "completed"
  BY <1>0 DEF Requests, RequestOK
<1>2. PICK hit \in CacheAnswers(reader[r].id) :
        \/ hit /\ Answer(r, "report")
        \/ hit /\ "corrupt" \in Faults /\ ReaderGoto(r, "invalidate")
        \/ hit /\ "corrupt" \in Faults /\ ReaderGoto(r, "db")
        \/ ~hit /\ ReaderGoto(r, "db")
  BY DEF GetCached
<1>3. CASE Answer(r, "report")
  <2> DEFINE c == [reader[r] EXCEPT !.pc = "answered", !.answer = "report"]
  <2>1. c \in Requests /\ c.pc = "answered" /\ c.answer = "report" /\ c.id = reader[r].id
    BY <1>0 DEF Requests, ReaderPCs, Answers
  <2>2. reader' = [reader EXCEPT ![r] = c]
    BY <1>0, <1>3 DEF Answer
  <2>3. RequestOK(c)
    BY <1>1, <2>1 DEF RequestOK
  <2> HIDE DEF c
  <2> QED
    BY <1>0, <2>1, <2>2, <2>3, RequestMoves
<1>4. CASE "corrupt" \in Faults /\ ReaderGoto(r, "invalidate")
  <2> DEFINE c == [reader[r] EXCEPT !.pc = "invalidate"]
  <2>1. c \in Requests /\ c.pc = "invalidate" /\ c.id = reader[r].id
    BY <1>0 DEF Requests, ReaderPCs
  <2>2. reader' = [reader EXCEPT ![r] = c]
    BY <1>0, <1>4 DEF ReaderGoto
  <2>3. RequestOK(c)
    BY <1>1, <1>4, <2>1 DEF RequestOK
  <2> HIDE DEF c
  <2> QED
    BY <1>0, <2>1, <2>2, <2>3, RequestMoves
<1>5. CASE (~hit \/ "corrupt" \in Faults) /\ ReaderGoto(r, "db")
  <2> DEFINE c == [reader[r] EXCEPT !.pc = "db"]
  <2>1. c \in Requests /\ c.pc = "db" /\ c.id = reader[r].id
    BY <1>0 DEF Requests, ReaderPCs
  <2>2. reader' = [reader EXCEPT ![r] = c]
    BY <1>0, <1>5 DEF ReaderGoto
  <2>3. ~({"redis", "cache", "expire", "corrupt"} \cap Faults = {})
    BY <1>1, <1>5, ReportIsReachable
  <2>4. RequestOK(c)
    BY <1>1, <2>1, <2>3 DEF RequestOK
  <2> HIDE DEF c
  <2> QED
    BY <1>0, <2>1, <2>2, <2>4, RequestMoves
<1> QED
  BY <1>2, <1>3, <1>4, <1>5

LEMMA InvalidateKeeps ==
    ASSUME ReadInv, NEW r \in Readers, Invalidate(r)
    PROVE  RequestsOK'
<1>0. /\ reader[r] \in Requests /\ RequestOK(reader[r]) /\ reader[r].pc = "invalidate"
      /\ UNCHANGED <<status, dbResults>>
  BY DEF ReadInv, RequestsOK, Invalidate
<1> DEFINE c == [reader[r] EXCEPT !.pc = "db"]
<1>1. c \in Requests /\ c.pc = "db" /\ c.id = reader[r].id
  BY <1>0 DEF Requests, ReaderPCs
<1>2. reader' = [reader EXCEPT ![r] = c]
  BY DEF ReadInv, RequestsOK, Invalidate, ReaderGoto
<1>3. RequestOK(c)
  BY <1>0, <1>1 DEF RequestOK
<1> HIDE DEF c
<1> QED
  BY <1>0, <1>1, <1>2, <1>3, RequestMoves

LEMMA LoadFromDbKeeps ==
    ASSUME ReadInv, NEW r \in Readers, LoadFromDb(r)
    PROVE  RequestsOK'
<1>0. /\ reader[r] \in Requests /\ RequestOK(reader[r]) /\ reader[r].pc = "db"
      /\ reader \in [Readers -> Requests] /\ UNCHANGED <<status, dbResults>>
  BY DEF ReadInv, RequestsOK, LoadFromDb, engineVars
<1>1. reader[r].id \in Ids /\ status[reader[r].id].status = "completed"
  BY <1>0 DEF Requests, RequestOK
<1>2. ~({"redis", "cache", "expire", "corrupt"} \cap Faults = {})
  BY <1>0 DEF RequestOK
<1>3. CASE reader[r].id \in dbResults /\ ReaderGoto(r, "refill")
  <2> DEFINE c == [reader[r] EXCEPT !.pc = "refill"]
  <2>1. c \in Requests /\ c.pc = "refill" /\ c.id = reader[r].id
    BY <1>0 DEF Requests, ReaderPCs
  <2>2. reader' = [reader EXCEPT ![r] = c]
    BY <1>0, <1>3 DEF ReaderGoto
  <2>3. RequestOK(c)
    BY <1>1, <1>2, <1>3, <2>1 DEF RequestOK
  <2> HIDE DEF c
  <2> QED
    BY <1>0, <2>1, <2>2, <2>3, RequestMoves
<1>4. CASE (reader[r].id \notin dbResults \/ "dbread" \in Faults) /\ Answer(r, "status")
  <2> DEFINE c == [reader[r] EXCEPT !.pc = "answered", !.answer = "status"]
  <2>1. c \in Requests /\ c.pc = "answered" /\ c.id = reader[r].id
    BY <1>0 DEF Requests, ReaderPCs, Answers
  <2>2. reader' = [reader EXCEPT ![r] = c]
    BY <1>0, <1>4 DEF Answer
  <2>3. ~ReadSurvives
    <3>1. "persist" \notin Faults => reader[r].id \in dbResults
      BY <1>1, ReportIsReachable
    <3> QED
      BY <1>2, <1>4, <3>1 DEF ReadSurvives
  <2>4. RequestOK(c)
    BY <1>1, <2>1, <2>3 DEF RequestOK
  <2> HIDE DEF c
  <2> QED
    BY <1>0, <2>1, <2>2, <2>4, RequestMoves
<1> QED
  BY <1>3, <1>4 DEF LoadFromDb

LEMMA RefillKeeps ==
    ASSUME ReadInv, NEW r \in Readers, Refill(r)
    PROVE  RequestsOK' /\ FallbackUnused'
<1>0. /\ reader[r] \in Requests /\ RequestOK(reader[r]) /\ reader[r].pc = "refill"
      /\ reader \in [Readers -> Requests] /\ UNCHANGED <<status, dbResults>>
  BY DEF ReadInv, RequestsOK, Refill
<1>1. FallbackUnused'
  BY DEF Refill, SetResult, ReadInv, FallbackUnused
<1>2. PICK a \in {"report", "error"} : Answer(r, a) /\ (a = "error" => "cache" \in Faults)
  BY DEF Refill
<1> DEFINE c == [reader[r] EXCEPT !.pc = "answered", !.answer = a]
<1>3. c \in Requests /\ c.pc = "answered" /\ c.id = reader[r].id /\ c.answer = a
  BY <1>0, <1>2 DEF Requests, ReaderPCs, Answers
<1>4. reader' = [reader EXCEPT ![r] = c]
  BY <1>0, <1>2 DEF Answer
<1> HIDE DEF c
<1>5. RequestOK(c)
  BY <1>0, <1>2, <1>3 DEF RequestOK, ReadSurvives
<1> QED
  BY <1>0, <1>1, <1>3, <1>4, <1>5, RequestMoves

LEMMA NextRequestKeeps ==
    ASSUME ReadInv, NEW r \in Readers, NextRequest(r)
    PROVE  RequestsOK'
<1>0. /\ reader[r] \in Requests /\ RequestOK(reader[r])
      /\ reader \in [Readers -> Requests] /\ UNCHANGED <<status, dbResults>>
  BY DEF ReadInv, RequestsOK, NextRequest, engineVars
<1> DEFINE c == [reader[r] EXCEPT !.pc = "idle"]
<1>1. c \in Requests /\ c.pc = "idle"
  BY <1>0 DEF Requests, ReaderPCs
<1>2. reader' = [reader EXCEPT ![r] = c]
  BY <1>0 DEF NextRequest, ReaderGoto
<1> HIDE DEF c
<1>3. RequestOK(c)
  BY <1>1 DEF RequestOK
<1> QED
  BY <1>0, <1>1, <1>2, <1>3, RequestMoves

\* The engine works beside the requests, or takes them with it.
LEMMA EngineStepKeeps ==
    ASSUME ReadInv, EngineStep
    PROVE  ReadInv'
<1>0. reader \in [Readers -> Requests] /\ \A r \in Readers : RequestOK(reader[r])
  BY DEF ReadInv, RequestsOK
<1>1. IInv' /\ FallbackUnused'
  BY StepKeepsIInv, WorkKeepsFallback DEF ReadInv, EngineStep, Next
<1>2. CASE Work /\ UNCHANGED reader
  <2>1. /\ dbResults \subseteq dbResults'
        /\ \A d \in Ids : status[d].status = "completed" => status'[d] = status[d]
    BY <1>2, CompletedStays DEF ReadInv
  <2>2. \A r \in Readers : reader[r].id \in Ids
    BY <1>0 DEF Requests
  <2>3. \A r \in Readers : RequestOK(reader[r])'
    BY <1>0, <1>2, <2>1, <2>2 DEF RequestOK
  <2> QED
    BY <1>0, <1>1, <1>2, <2>3 DEF ReadInv, RequestsOK
<1>3. CASE Restart /\ reader' = [r \in Readers |-> [reader[r] EXCEPT !.pc = "idle"]]
  <2>1. \A r \in Readers : [reader[r] EXCEPT !.pc = "idle"] \in Requests
    BY <1>0 DEF Requests, ReaderPCs
  <2>2. reader' \in [Readers -> Requests] /\ \A r \in Readers : reader'[r].pc = "idle"
    BY <1>0, <1>3, <2>1 DEF Requests
  <2>3. \A r \in Readers : RequestOK(reader[r])'
    BY <2>2 DEF RequestOK
  <2> QED
    BY <1>1, <2>2, <2>3 DEF ReadInv, RequestsOK
<1> QED
  BY <1>2, <1>3 DEF EngineStep

LEMMA ReadNextKeeps == ReadInv /\ [ReadNext]_readVars => ReadInv'
<1> SUFFICES ASSUME ReadInv, [ReadNext]_readVars PROVE ReadInv'
  OBVIOUS
<1>1. ASSUME NEW r \in Readers,
             (\E id \in Ids : GetStatus(r, id)) \/ Handle(r) \/ NextRequest(r)
      PROVE  ReadInv'
  <2>1. IInv'
    BY <1>1, ReadersKeepIInv
  <2>2. RequestsOK'
    BY <1>1, GetStatusKeeps, GetCachedKeeps, InvalidateKeeps, LoadFromDbKeeps, RefillKeeps,
       NextRequestKeeps DEF Handle
  <2>3. FallbackUnused'
    <3>1. ASSUME GetCached(r) \/ LoadFromDb(r) \/ NextRequest(r) PROVE FallbackUnused'
      BY <3>1 DEF ReadInv, FallbackUnused, GetCached, LoadFromDb, NextRequest, engineVars
    <3>2. ASSUME Invalidate(r) PROVE FallbackUnused'
      BY <3>2 DEF ReadInv, FallbackUnused, Invalidate
    <3> QED
      BY <1>1, <3>1, <3>2, GetStatusKeeps, RefillKeeps DEF Handle
  <2> QED
    BY <2>1, <2>2, <2>3 DEF ReadInv
<1>2. CASE EngineStep
  BY <1>2, EngineStepKeeps
<1>3. CASE UNCHANGED readVars
  <2>1. UNCHANGED engineVars /\ UNCHANGED <<reader, status, dbResults, memResults>>
    BY <1>3 DEF readVars, engineVars
  <2> QED
    BY <2>1, StepKeepsIInv DEF ReadInv, RequestsOK, RequestOK, FallbackUnused
<1> QED
  BY <1>1, <1>2, <1>3 DEF ReadNext

LEMMA ReadInvariance == ReadSpec => []ReadInv
<1>1. ReadInit => ReadInv
  <2> SUFFICES ASSUME ReadInit PROVE ReadInv
    OBVIOUS
  <2>1. IInv /\ FallbackUnused
    BY InitIInv DEF ReadInit, Init, FallbackUnused
  <2>2. PICK id \in Ids : reader = [r \in Readers |-> NoRequest(id)]
    BY DEF ReadInit
  <2>3. NoRequest(id) \in Requests /\ NoRequest(id).pc = "idle"
    BY DEF NoRequest, Requests, ReaderPCs, Answers
  <2>4. RequestsOK
    BY <2>2, <2>3 DEF RequestsOK, RequestOK
  <2> QED
    BY <2>1, <2>4 DEF ReadInv
<1> QED
  BY <1>1, ReadNextKeeps, PTL DEF ReadSpec

\* For any number of requests at once and any faults: a refill never plants a report
\* for an analysis that is on its way or failed.
THEOREM ReportsCachedAreFinal == ReadSpec => []CachedReportsAreFinal
<1>1. ReadInv => CachedReportsAreFinal
  BY DEF ReadInv, IInv, ReportsOK, CachedReportsAreFinal
<1> QED
  BY <1>1, ReadInvariance, PTL

\* Whoever found an analysis completed is answered with its report, as long as the
\* faults leave the cache, or else the database, alone.
THEOREM CompletedIsAnswered == ReadSpec => []CompletedReadsReport
<1>1. ReadInv => CompletedReadsReport
  BY DEF ReadInv, RequestsOK, RequestOK, CompletedReadsReport
<1> QED
  BY <1>1, ReadInvariance, PTL

(***************************************************************************)
(* What a client was answered is not taken back                            *)
(***************************************************************************)
\* The registry knows no analysis of an earlier life of the process.
RegistryAlive == \A id \in Ids : pc[id] = "lost" => id \notin ToSet(registry)

\* An analysis whose report was given away is completed, or was forgotten by a restart.
ReportsGiven ==
    \A r \in Readers : reader[r].answer = "report" =>
        \/ status[reader[r].id].status = "completed"
        \/ pc[reader[r].id] = "lost"

AnswerInv == ReadInv /\ RegistryAlive /\ ReportsGiven

LEMMA PublishKeepsAlive ==
    ASSUME IInv, RegistryAlive, NEW id \in Ids, NEW s, NEW to,
           Publish(id, s), Goto(id, to), pc[id] # "lost", to # "lost"
    PROVE  RegistryAlive' /\ \A d \in Ids : pc[d] = "lost" => pc'[d] = "lost"
<1>0. /\ IsCache(registry, Ids, MaxTracked) /\ MaxTracked \in Nat \ {0}
      /\ registry' = SetItem(registry, id, MaxTracked)
      /\ \A d \in Ids : pc'[d] = IF d = id THEN to ELSE pc[d]
  BY LimitsAssumption DEF IInv, TypeOK, Publish, Goto
<1>1. ToSet(registry') \subseteq ToSet(registry) \cup {id}
  BY <1>0, SetItemIsCache
<1> QED
  BY <1>0, <1>1 DEF RegistryAlive

LEMMA NextKeepsAlive ==
    ASSUME IInv, RegistryAlive, Work \/ Restart
    PROVE  RegistryAlive' /\ \A d \in Ids : pc[d] = "lost" => pc'[d] = "lost"
<1>0. /\ pc \in [Ids -> PCs]
      /\ IsCache(registry, Ids, MaxTracked) /\ MaxTracked \in Nat \ {0}
  BY LimitsAssumption DEF IInv, TypeOK
<1>1. ASSUME NEW id \in Ids, TriggerRejected(id) \/ TriggerAccepted(id)
      PROVE  RegistryAlive' /\ \A d \in Ids : pc[d] = "lost" => pc'[d] = "lost"
  BY <1>1, PublishKeepsAlive DEF TriggerRejected, TriggerAccepted
<1>2. ASSUME NEW id \in Ids, StartRun(id)
      PROVE  RegistryAlive' /\ \A d \in Ids : pc[d] = "lost" => pc'[d] = "lost"
  <2>1. waiting \in Seq(Ids) /\ waiting # <<>> /\ id = Head(waiting)
    BY <1>2 DEF StartRun, IInv, TypeOK
  <2>2. Len(waiting) \in Nat /\ Len(waiting) # 0 /\ Head(waiting) = waiting[1]
    BY <2>1, EmptySeq, LenProperties
  <2>3. pc[id] = "queued"
    BY <2>1, <2>2 DEF IInv, QueueOK
  <2> QED
    BY <1>2, <2>3, PublishKeepsAlive DEF StartRun
<1>3. ASSUME NEW id \in Ids,
             FetchDone(id) \/ TechnicalDone(id) \/ PatternsDone(id) \/ FundamentalDone(id)
      PROVE  RegistryAlive' /\ \A d \in Ids : pc[d] = "lost" => pc'[d] = "lost"
  BY <1>3, PublishKeepsAlive
  DEF FetchDone, TechnicalDone, PatternsDone, FundamentalDone, Advance
<1>4. ASSUME NEW id \in Ids, FetchEmpty(id) \/ StepRaises(id) \/ CacheReport(id)
      PROVE  RegistryAlive' /\ \A d \in Ids : pc[d] = "lost" => pc'[d] = "lost"
  BY <1>4, PublishKeepsAlive, RaisedStatus
  DEF FetchEmpty, StepRaises, EndFailed, CacheReport, Finish, Running
<1>5. ASSUME NEW id \in Ids, PersistResult(id)
      PROVE  RegistryAlive' /\ \A d \in Ids : pc[d] = "lost" => pc'[d] = "lost"
  BY <1>0, <1>5 DEF PersistResult, Goto, RegistryAlive
<1>6. ASSUME NEW id \in Ids, ReadStatus(id) \/ ExpireStatus(id)
      PROVE  RegistryAlive' /\ \A d \in Ids : pc[d] = "lost" => pc'[d] = "lost"
  <2>1. /\ pc' = pc
        /\ registry' = Touch(registry, id) \/ registry' = DelItem(registry, id)
    BY <1>6 DEF ReadStatus, ExpireStatus
  <2>2. ToSet(Touch(registry, id)) = ToSet(registry)
    BY <1>0, TouchIsCache
  <2>3. ToSet(DelItem(registry, id)) = ToSet(registry) \ {id}
    BY <1>0, DelItemForgets
  <2> QED
    BY <2>1, <2>2, <2>3 DEF RegistryAlive
<1>7. CASE Restart
  <2>1. ToSet(registry') = {}
    BY <1>7 DEF Restart, ToSet
  <2> QED
    BY <1>7, <2>1 DEF Restart, RegistryAlive
<1>8. CASE UNCHANGED <<pc, registry>>
  BY <1>8 DEF RegistryAlive
<1> QED
  BY <1>1, <1>2, <1>3, <1>4, <1>5, <1>6, <1>7, <1>8
  DEF Work, Run, RedisStores, ExpireReport

LEMMA EngineKeepsAnswers == ASSUME AnswerInv, EngineStep PROVE AnswerInv'
<1>0. /\ IInv /\ reader \in [Readers -> Requests]
      /\ \A r \in Readers : reader[r].id \in Ids
  BY DEF AnswerInv, ReadInv, RequestsOK, Requests
<1>1. RegistryAlive' /\ \A d \in Ids : pc[d] = "lost" => pc'[d] = "lost"
  BY <1>0, NextKeepsAlive DEF AnswerInv, EngineStep
<1>2. ReadInv'
  BY EngineStepKeeps DEF AnswerInv
<1>3. CASE Work /\ UNCHANGED reader
  <2>1. \A d \in Ids : status[d].status = "completed" => status'[d] = status[d]
    BY <1>0, <1>3, CompletedStays
  <2>2. ReportsGiven'
    BY <1>0, <1>1, <1>3, <2>1 DEF AnswerInv, ReportsGiven
  <2> QED
    BY <1>1, <1>2, <2>2 DEF AnswerInv
<1>4. CASE Restart /\ reader' = [r \in Readers |-> [reader[r] EXCEPT !.pc = "idle"]]
  <2>1. \A r \in Readers : /\ reader'[r].id = reader[r].id
                           /\ reader'[r].answer = reader[r].answer
    BY <1>0, <1>4 DEF Requests
  <2>2. \A d \in Ids : status[d].status = "completed" => pc'[d] = "lost"
    BY <1>0, <1>4 DEF Restart, IInv, StatusesFit, StatusFits, NoStatus
  <2>3. ReportsGiven'
    BY <1>0, <1>1, <2>1, <2>2 DEF AnswerInv, ReportsGiven
  <2> QED
    BY <1>1, <1>2, <2>3 DEF AnswerInv
<1> QED
  BY <1>3, <1>4 DEF EngineStep

\* A request's own step, and what its client knows after it.
LEMMA RequestKeepsAnswers ==
    ASSUME AnswerInv, ReadInv', NEW r \in Readers,
           (\E id \in Ids : GetStatus(r, id)) \/ Handle(r) \/ NextRequest(r)
    PROVE  /\ AnswerInv'
           /\ \A q \in Readers \ {r} : reader'[q] = reader[q]
           /\ (ReadSurvives /\ reader[r].answer = "report" /\ reader'[r].id = reader[r].id)
                => reader'[r].answer \in {"report", "not_found"}
<1>0. /\ IInv /\ reader \in [Readers -> Requests]
      /\ \A q \in Readers : reader[q].id \in Ids
      /\ RequestOK(reader[r])
      /\ IsCache(registry, Ids, MaxTracked) /\ MaxTracked \in Nat
  BY LimitsAssumption DEF AnswerInv, ReadInv, RequestsOK, Requests, IInv, TypeOK
<1>1. status' = status /\ pc' = pc /\ ToSet(registry') = ToSet(registry)
  <2>1. CASE \E id \in Ids : GetStatus(r, id)
    BY <1>0, <2>1, TouchIsCache DEF GetStatus
  <2>2. CASE Handle(r) \/ NextRequest(r)
    BY <2>2 DEF Handle, GetCached, Invalidate, LoadFromDb, Refill, NextRequest, engineVars
  <2> QED
    BY <2>1, <2>2
<1>2. RegistryAlive'
  BY <1>1 DEF AnswerInv, RegistryAlive
<1>3. \A q \in Readers \ {r} : reader'[q] = reader[q]
  BY <1>0 DEF Handle, GetStatus, GetCached, Invalidate, LoadFromDb, Refill, NextRequest,
              Answer, ReaderGoto
<1>4. CASE \E id \in Ids : GetStatus(r, id)
  <2>1. PICK id \in Ids : GetStatus(r, id)
    BY <1>4
  <2> DEFINE old == IF reader[r].id = id THEN reader[r].answer ELSE "none"
  <2>2. /\ reader'[r].id = id
        /\ id \notin ToSet(registry) => reader'[r].answer = "not_found"
        /\ id \in ToSet(registry) /\ status[id].status # "completed" =>
              reader'[r].answer = "status"
        /\ id \in ToSet(registry) /\ status[id].status = "completed" =>
              reader'[r].answer = old
    BY <1>0, <2>1 DEF GetStatus
  <2>3. reader'[r].answer = "report" => status[reader'[r].id].status = "completed"
    BY <2>2
  <2>4. ReportsGiven'
    BY <1>1, <1>3, <2>3 DEF AnswerInv, ReportsGiven
  <2>5. (reader[r].answer = "report" /\ reader'[r].id = reader[r].id)
           => reader'[r].answer \in {"report", "not_found"}
    BY <2>2 DEF AnswerInv, ReportsGiven, RegistryAlive
  <2> QED
    BY <1>2, <1>3, <2>4, <2>5 DEF AnswerInv
<1>5. CASE Handle(r) \/ NextRequest(r)
  <2>1. /\ reader'[r].id = reader[r].id
        /\ \/ reader'[r].answer = reader[r].answer
           \/ reader'[r].pc = "answered"
        /\ reader'[r].answer = "report" /\ reader[r].answer # "report" =>
              status[reader[r].id].status = "completed"
    BY <1>0, <1>5
    DEF Handle, GetCached, Invalidate, LoadFromDb, Refill, NextRequest, Answer, ReaderGoto,
        Requests, RequestOK
  <2>2. ReportsGiven'
    BY <1>1, <1>3, <2>1 DEF AnswerInv, ReportsGiven
  <2>3. ReadSurvives /\ reader'[r].pc = "answered" => reader'[r].answer = "report"
    BY DEF ReadInv, RequestsOK, RequestOK
  <2> QED
    BY <1>2, <1>3, <2>1, <2>2, <2>3 DEF AnswerInv
<1> QED
  BY <1>4, <1>5

LEMMA AnswerInvariance == ReadSpec => []AnswerInv
<1>1. ReadInit /\ ReadInv => AnswerInv
  <2> SUFFICES ASSUME ReadInit, ReadInv PROVE AnswerInv
    OBVIOUS
  <2>1. \A r \in Readers : reader[r].answer = "none"
    BY DEF ReadInit, NoRequest
  <2>2. \A id \in Ids : pc[id] = "unused"
    BY DEF ReadInit, Init
  <2> QED
    BY <2>1, <2>2 DEF AnswerInv, RegistryAlive, ReportsGiven
<1>2. AnswerInv /\ ReadInv' /\ [ReadNext]_readVars => AnswerInv'
  <2> SUFFICES ASSUME AnswerInv, ReadInv', [ReadNext]_readVars PROVE AnswerInv'
    OBVIOUS
  <2>1. ASSUME UNCHANGED readVars PROVE AnswerInv'
    BY <2>1 DEF readVars, engineVars, AnswerInv, ReadInv, RegistryAlive, ReportsGiven
  <2> QED
    BY <2>1, EngineKeepsAnswers, RequestKeepsAnswers DEF ReadNext
<1> QED
  BY <1>1, <1>2, ReadInvariance, PTL DEF ReadSpec

\* A client that holds a report is never told that there is none yet.
THEOREM AnswersStand == ReadSpec => AnswersMoveForward
<1>1. AnswerInv /\ ReadInv' /\ [ReadNext]_readVars =>
        [ReadSurvives =>
            \A r \in Readers :
                (reader[r].answer = "report" /\ reader'[r].id = reader[r].id) =>
                    reader'[r].answer \in {"report", "not_found"}]_readVars
  <2> SUFFICES ASSUME AnswerInv, ReadInv', ReadNext, ReadSurvives, NEW r \in Readers,
                      reader[r].answer = "report", reader'[r].id = reader[r].id
               PROVE  reader'[r].answer \in {"report", "not_found"}
    OBVIOUS
  <2>1. CASE EngineStep
    BY <2>1 DEF EngineStep, AnswerInv, ReadInv, RequestsOK, Requests
  <2>2. ASSUME NEW q \in Readers,
               (\E id \in Ids : GetStatus(q, id)) \/ Handle(q) \/ NextRequest(q)
        PROVE  reader'[r].answer \in {"report", "not_found"}
    BY <2>2, RequestKeepsAnswers
  <2> QED
    BY <2>1, <2>2 DEF ReadNext
<1> QED
  BY <1>1, ReadInvariance, AnswerInvariance, PTL DEF ReadSpec, AnswersMoveForward

(***************************************************************************)
(* A status object only grows                                              *)
(***************************************************************************)
\* t was reached from s: no step was taken back and the progress bar did not shrink.
Grows(s, t) ==
    /\ Len(s.steps_completed) <= Len(t.steps_completed)
    /\ s.progress_pct <= t.progress_pct

\* The progress of a running analysis counts the steps before the current one.
InProportion(s) == s.status = "running" => s.progress_pct = s.current_step - 1

ProgressOK == \A id \in Ids : InProportion(status[id])

LEMMA GrowsTransitive ==
    ASSUME NEW s \in Status, NEW t \in Status, NEW u \in Status,
           Grows(s, t), Grows(t, u)
    PROVE  Grows(s, u)
<1>1. /\ s.steps_completed \in Seq(Steps) /\ s.progress_pct \in 0..6
      /\ t.steps_completed \in Seq(Steps) /\ t.progress_pct \in 0..6
      /\ u.steps_completed \in Seq(Steps) /\ u.progress_pct \in 0..6
  BY DEF Status
<1>2. /\ Len(s.steps_completed) \in Nat /\ Len(t.steps_completed) \in Nat
      /\ Len(u.steps_completed) \in Nat
  BY <1>1, LenProperties
<1>3. \A a, b, c \in Nat : a <= b /\ b <= c => a <= c
  OBVIOUS
<1> QED
  BY <1>1, <1>2, <1>3 DEF Grows

\* What each operation on a status object does to its length and its progress.
LEMMA OperationsGrow ==
    ASSUME NEW s \in Status, NEW k \in Steps
    PROVE  /\ Grows(s, s)
           /\ Grows(s, CompleteStep(s, k))
           /\ CompleteStep(s, k).progress_pct = s.progress_pct
           /\ s.progress_pct <= k - 1 => Grows(s, Update(s, k))
           /\ InProportion(Update(s, k)) /\ Update(s, k).progress_pct = k - 1
           /\ Grows(s, Complete(s))
           /\ \A e : Grows(s, Fail(s, e))
<1>1. s.steps_completed \in Seq(Steps) /\ s.progress_pct \in 0..6 /\ k \in 1..6
  BY DEF Status, Steps
<1>2. /\ Len(s.steps_completed) \in Nat
      /\ Len(Append(s.steps_completed, k)) = Len(s.steps_completed) + 1
  BY <1>1, LenProperties, AppendProperties DEF Steps
<1>3. Len(s.steps_completed) <= Len(s.steps_completed)
  BY <1>2
<1>4. Grows(s, s)
  BY <1>1, <1>3 DEF Grows
<1>5. /\ Grows(s, CompleteStep(s, k))
      /\ CompleteStep(s, k).progress_pct = s.progress_pct
  <2>1. /\ CompleteStep(s, k).steps_completed = Append(s.steps_completed, k)
        /\ CompleteStep(s, k).progress_pct = s.progress_pct
    BY DEF CompleteStep, Status
  <2>2. Len(s.steps_completed) <= Len(Append(s.steps_completed, k))
    BY <1>2
  <2> QED
    BY <1>1, <2>1, <2>2 DEF Grows
<1>6. /\ Update(s, k).steps_completed = s.steps_completed
      /\ Update(s, k).progress_pct = k - 1 /\ Update(s, k).current_step = k
      /\ Complete(s).steps_completed = s.steps_completed
      /\ Complete(s).progress_pct = 6
      /\ \A e : /\ Fail(s, e).steps_completed = s.steps_completed
                /\ Fail(s, e).progress_pct = s.progress_pct
  BY DEF Update, Complete, Fail, Status
<1> QED
  BY <1>1, <1>3, <1>4, <1>5, <1>6 DEF Grows, InProportion

\* Through k completed steps the object goes on to the next.
LEMMA AdvanceGrows ==
    ASSUME NEW s \in Status, NEW k \in 1..5, s.progress_pct = k - 1
    PROVE  LET t == Update(CompleteStep(s, k), k + 1) IN
           /\ t \in Status /\ Grows(s, t) /\ InProportion(t) /\ t.progress_pct = k
<1> DEFINE c == CompleteStep(s, k)
           t == Update(c, k + 1)
<1>1. k \in Steps /\ k + 1 \in Steps /\ (k + 1) - 1 = k
  BY DEF Steps
<1>2. c \in Status /\ Grows(s, c) /\ c.progress_pct = k - 1
  BY <1>1, StatusTypes, OperationsGrow
<1> HIDE DEF c
<1>3. t \in Status /\ Grows(c, t) /\ InProportion(t) /\ t.progress_pct = k
  <2>1. t \in Status
    BY <1>1, <1>2, StatusTypes
  <2>2. /\ c.progress_pct <= (k + 1) - 1 => Grows(c, t)
        /\ InProportion(t) /\ t.progress_pct = (k + 1) - 1
    BY <1>1, <1>2, OperationsGrow
  <2>3. k - 1 <= k
    OBVIOUS
  <2> QED
    BY <1>1, <1>2, <2>1, <2>2, <2>3
<1> HIDE DEF t
<1>4. Grows(s, t)
  BY <1>2, <1>3, GrowsTransitive
<1> QED
  BY <1>3, <1>4 DEF t, c

\* One step of the engine publishes one status object.
MovesOn(id) ==
    \E s \in Status :
        Publish(id, s) /\ Grows(status[id], s) /\ InProportion(s)

LEMMA TriggerMovesOn ==
    ASSUME IInv, NEW id \in Ids, TriggerRejected(id) \/ TriggerAccepted(id)
    PROVE  MovesOn(id)
<1>1. status[id] = NoStatus /\ NewStatus \in Status /\ Publish(id, NewStatus)
  BY InitialStatus
  DEF IInv, StatusesFit, StatusFits, TriggerRejected, TriggerAccepted
<1>2. /\ NewStatus.steps_completed = NoStatus.steps_completed
      /\ NewStatus.progress_pct = 0 /\ NoStatus.progress_pct = 0
      /\ NewStatus.status = "pending" /\ NoStatus.steps_completed = <<>>
  BY DEF NewStatus, NoStatus
<1>3. Len(<<>>) = 0 /\ 0 <= 0
  BY EmptySeq
<1> QED
  BY <1>1, <1>2, <1>3 DEF MovesOn, Grows, InProportion

LEMMA StartMovesOn ==
    ASSUME IInv, NEW id \in Ids, StartRun(id)
    PROVE  MovesOn(id)
<1>1. waiting \in Seq(Ids) /\ waiting # <<>> /\ id = Head(waiting)
  BY DEF StartRun, IInv, TypeOK
<1>2. Len(waiting) \in Nat /\ Len(waiting) # 0 /\ Head(waiting) = waiting[1]
  BY <1>1, EmptySeq, LenProperties
<1>3. pc[id] = "queued"
  BY <1>1, <1>2 DEF IInv, QueueOK
<1>4. status[id] = NewStatus /\ NewStatus \in Status /\ NewStatus.progress_pct = 0
  BY <1>3, InitialStatus DEF IInv, StatusesFit, StatusFits, NewStatus, NoStatus
<1>5. 1 \in Steps /\ 0 <= 1 - 1
  BY DEF Steps
<1> QED
  BY <1>4, <1>5, OperationsGrow, StatusTypes DEF StartRun, MovesOn

LEMMA AdvanceMovesOn ==
    ASSUME IInv, ProgressOK, NEW id \in Ids,
           FetchDone(id) \/ TechnicalDone(id) \/ PatternsDone(id)
    PROVE  MovesOn(id)
<1>0. status[id] \in Status /\ StatusFits(status[id], pc[id]) /\ InProportion(status[id])
  BY DEF IInv, TypeOK, StatusesFit, ProgressOK
<1>1. PICK k \in 1..3 : /\ InStep(status[id], k, k - 1)
                        /\ Publish(id, Update(CompleteStep(status[id], k), k + 1))
  <2>1. CASE FetchDone(id)
    BY <1>0, <2>1 DEF FetchDone, Advance, StatusFits
  <2>2. CASE TechnicalDone(id)
    BY <1>0, <2>2 DEF TechnicalDone, Advance, StatusFits
  <2>3. CASE PatternsDone(id)
    BY <1>0, <2>3 DEF PatternsDone, Advance, StatusFits
  <2> QED
    BY <2>1, <2>2, <2>3
<1>2. status[id].progress_pct = k - 1
  BY <1>0, <1>1 DEF InStep, InProportion
<1> QED
  BY <1>0, <1>1, <1>2, AdvanceGrows DEF MovesOn

\* How far the steps without an await take the object.
LEMMA AggregationGrows ==
    ASSUME NEW s \in Status, s.progress_pct = 3
    PROVE  LET a == AggregationReached(s)
               r == ReportReached(s) IN
           /\ a \in Status /\ Grows(s, a)
           /\ r \in Status /\ Grows(s, r) /\ InProportion(r) /\ r.progress_pct = 5
<1> DEFINE a == AggregationReached(s)
           r == ReportReached(s)
<1>1. a \in Status /\ Grows(s, a) /\ a.progress_pct = 4
  BY AdvanceGrows DEF AggregationReached
<1>2. r \in Status /\ Grows(a, r) /\ InProportion(r) /\ r.progress_pct = 5
  BY <1>1, AdvanceGrows DEF ReportReached
<1>3. Grows(s, r)
  BY <1>1, <1>2, GrowsTransitive
<1> QED
  BY <1>1, <1>2, <1>3

LEMMA FundamentalMovesOn ==
    ASSUME IInv, ProgressOK, NEW id \in Ids, FundamentalDone(id)
    PROVE  MovesOn(id)
<1> DEFINE r == ReportReached(status[id])
           c == CompleteStep(r, 6)
<1>0. status[id] \in Status /\ status[id].progress_pct = 3
  BY DEF IInv, TypeOK, StatusesFit, StatusFits, InStep, FundamentalDone, ProgressOK,
         InProportion
<1>1. r \in Status /\ Grows(status[id], r) /\ r.progress_pct = 5
  BY <1>0, AggregationGrows
<1>2. r.current_step = 6
  <2> DEFINE m == CompleteStep(AggregationReached(status[id]), 5)
  <2>1. AggregationReached(status[id]) \in Status
    BY <1>0, AggregationGrows
  <2>2. m \in Status
    BY <2>1, StatusTypes DEF Steps
  <2>3. r = [m EXCEPT !.status = "running", !.progress_pct = 5, !.current_step = 6]
    BY DEF ReportReached, Update
  <2> HIDE DEF m, r
  <2>4. QED
    BY <2>2, <2>3 DEF Status
<1> HIDE DEF r
<1>3. c \in Status /\ Grows(r, c) /\ c.progress_pct = 5 /\ c.current_step = 6
  <2>1. 6 \in Steps
    BY DEF Steps
  <2>2. c \in Status /\ Grows(r, c) /\ c.progress_pct = 5
    BY <1>1, <2>1, StatusTypes, OperationsGrow
  <2>3. c.current_step = 6
    BY <1>1, <1>2 DEF CompleteStep, Status
  <2> QED
    BY <2>2, <2>3
<1>4. Publish(id, c)
  BY DEF FundamentalDone, r
<1> HIDE DEF c
<1>5. Grows(status[id], c) /\ InProportion(c)
  BY <1>0, <1>1, <1>3, GrowsTransitive DEF InProportion
<1> QED
  BY <1>3, <1>4, <1>5 DEF MovesOn

LEMMA FailureMovesOn ==
    ASSUME IInv, ProgressOK, NEW id \in Ids, FetchEmpty(id) \/ StepRaises(id)
    PROVE  MovesOn(id)
<1>0. status[id] \in Status /\ StatusFits(status[id], pc[id]) /\ InProportion(status[id])
  BY DEF IInv, TypeOK, StatusesFit, ProgressOK
<1>1. PICK s \in Status, cause \in Causes :
        Grows(status[id], s) /\ Publish(id, Fail(Fail(s, cause), "no_report"))
  <2>1. CompleteStep(status[id], 1) \in Status
    BY <1>0, StatusTypes DEF Steps
  <2>2. Grows(status[id], CompleteStep(status[id], 1)) /\ Grows(status[id], status[id])
    BY <1>0, OperationsGrow DEF Steps
  <2>3. CASE FetchEmpty(id)
    BY <2>1, <2>2, <2>3 DEF FetchEmpty, EndFailed, Causes
  <2>4. CASE StepRaises(id)
    <3>1. PICK s \in RaisedAt(id) : EndFailed(id, s, "exception")
      BY <2>4 DEF StepRaises
    <3>2. s \in Status
      BY <3>1, RaisedStatus
    <3>3. Grows(status[id], s)
      <4>1. CASE pc[id] = "fetch"
        BY <3>1, <4>1, <2>2 DEF RaisedAt
      <4>2. CASE pc[id] \in {"technical", "patterns"}
        BY <3>1, <4>2, <2>2 DEF RaisedAt
      <4>3. CASE pc[id] = "fundamental"
        <5>1. status[id].progress_pct = 3
          BY <1>0, <4>3 DEF StatusFits, InStep, InProportion
        <5> QED
          BY <1>0, <3>1, <4>3, <5>1, AggregationGrows DEF RaisedAt
      <4>4. CASE pc[id] \notin {"fetch", "technical", "patterns", "fundamental"}
        BY <3>1, <4>4 DEF RaisedAt
      <4> QED
        BY <4>1, <4>2, <4>3, <4>4
    <3> QED
      BY <3>1, <3>2, <3>3 DEF EndFailed, Causes
  <2> QED
    BY <2>3, <2>4
<1> DEFINE f == Fail(s, cause)
           t == Fail(f, "no_report")
<1>2. f \in Status /\ Grows(s, f)
  <2>1. 1 \in Steps
    BY DEF Steps
  <2> QED
    BY <2>1, StatusTypes, OperationsGrow
<1> HIDE DEF f
<1>3. t \in Status /\ Grows(f, t) /\ t.status = "failed"
  <2>1. 1 \in Steps
    BY DEF Steps
  <2>2. t \in Status /\ Grows(f, t)
    BY <1>2, <2>1, StatusTypes, OperationsGrow
  <2>3. t.status = "failed"
    BY <1>2 DEF Fail, Status
  <2> QED
    BY <2>2, <2>3
<1>4. Publish(id, t)
  BY <1>1 DEF f
<1> HIDE DEF t
<1>5. Grows(status[id], t)
  BY <1>0, <1>1, <1>2, <1>3, GrowsTransitive
<1> QED
  BY <1>3, <1>4, <1>5 DEF MovesOn, InProportion

LEMMA CompletionMovesOn ==
    ASSUME IInv, NEW id \in Ids, CacheReport(id)
    PROVE  MovesOn(id)
<1>0. status[id] \in Status /\ Publish(id, Complete(status[id]))
  BY DEF IInv, TypeOK, CacheReport
<1>1. /\ Complete(status[id]) \in Status /\ Grows(status[id], Complete(status[id]))
  BY <1>0, StatusTypes, OperationsGrow DEF Steps
<1>2. Complete(status[id]).status = "completed"
  BY <1>0 DEF Complete, Status
<1> QED
  BY <1>0, <1>1, <1>2 DEF MovesOn, InProportion

\* What is completed or failed is final, what runs only grows.
LEMMA WorkMovesOn ==
    ASSUME IInv, ProgressOK, Work
    PROVE  /\ ProgressOK'
           /\ \A d \in Ids : Grows(status[d], status'[d])
           /\ \A d \in Ids : status[d].status \in Terminal => status'[d] = status[d]
<1>0. /\ status \in [Ids -> Status]
      /\ \A d \in Ids : status[d].status \in Terminal => pc[d] = "finished"
      /\ \A d \in Ids : Grows(status[d], status[d])
  <2>1. status \in [Ids -> Status]
    BY DEF IInv, TypeOK
  <2>2. 1 \in Steps
    BY DEF Steps
  <2> QED
    BY <2>1, <2>2, OperationsGrow
    DEF IInv, TypeOK, StatusesFit, StatusFits, InStep, NoStatus, NewStatus, PCs, Running,
        Terminal
<1>1. ASSUME NEW id \in Ids, MovesOn(id), pc[id] # "finished"
      PROVE  /\ ProgressOK'
             /\ \A d \in Ids : Grows(status[d], status'[d])
             /\ \A d \in Ids : status[d].status \in Terminal => status'[d] = status[d]
  <2>1. PICK s \in Status : Publish(id, s) /\ Grows(status[id], s) /\ InProportion(s)
    BY <1>1 DEF MovesOn
  <2>2. \A d \in Ids : status'[d] = IF d = id THEN s ELSE status[d]
    BY <1>0, <2>1 DEF Publish
  <2> QED
    BY <1>0, <1>1, <2>1, <2>2 DEF ProgressOK, InProportion
<1>2. ASSUME status' = status
      PROVE  /\ ProgressOK'
             /\ \A d \in Ids : Grows(status[d], status'[d])
             /\ \A d \in Ids : status[d].status \in Terminal => status'[d] = status[d]
  BY <1>0, <1>2 DEF ProgressOK, InProportion
<1>3. ASSUME NEW id \in Ids, TriggerRejected(id) \/ TriggerAccepted(id)
      PROVE  MovesOn(id) /\ pc[id] # "finished"
  BY <1>3, TriggerMovesOn DEF TriggerRejected, TriggerAccepted
<1>4. ASSUME NEW id \in Ids, StartRun(id)
      PROVE  MovesOn(id) /\ pc[id] # "finished"
  <2>1. waiting \in Seq(Ids) /\ waiting # <<>> /\ id = Head(waiting)
    BY <1>4 DEF StartRun, IInv, TypeOK
  <2>2. Len(waiting) \in Nat /\ Len(waiting) # 0 /\ Head(waiting) = waiting[1]
    BY <2>1, EmptySeq, LenProperties
  <2>3. pc[id] = "queued"
    BY <2>1, <2>2 DEF IInv, QueueOK
  <2> QED
    BY <1>4, <2>3, StartMovesOn
<1>5. ASSUME NEW id \in Ids,
             FetchDone(id) \/ TechnicalDone(id) \/ PatternsDone(id) \/ FundamentalDone(id)
      PROVE  MovesOn(id) /\ pc[id] # "finished"
  BY <1>5, AdvanceMovesOn, FundamentalMovesOn
  DEF FetchDone, TechnicalDone, PatternsDone, FundamentalDone, Advance
<1>6. ASSUME NEW id \in Ids, FetchEmpty(id) \/ StepRaises(id)
      PROVE  MovesOn(id) /\ pc[id] # "finished"
  BY <1>6, FailureMovesOn, RaisedStatus DEF FetchEmpty, StepRaises, Running
<1>7. ASSUME NEW id \in Ids, CacheReport(id)
      PROVE  MovesOn(id) /\ pc[id] # "finished"
  BY <1>7, CompletionMovesOn DEF CacheReport
<1>8. ASSUME NEW id \in Ids,
             \/ PersistResult(id) \/ RedisStores(id) \/ ReadStatus(id)
             \/ ExpireStatus(id) \/ ExpireReport(id)
      PROVE  status' = status
  BY <1>8 DEF PersistResult, RedisStores, ReadStatus, ExpireStatus, ExpireReport
<1> QED
  BY <1>1, <1>2, <1>3, <1>4, <1>5, <1>6, <1>7, <1>8 DEF Work, Run

(***************************************************************************)
(* WS /ws/analysis/{id}                                                    *)
(***************************************************************************)
\* s is a status that was once, or still is, t: its steps are in order, t went on
\* from it, and if it was terminal it is t.
Told(s, t) ==
    /\ \A k \in 1..Len(s.steps_completed) : s.steps_completed[k] = k
    /\ Grows(s, t)
    /\ s.status \in Terminal => s = t

ConnectionOK(c) == Told(c.snap, status[c.id]) /\ Told(c.last, status[c.id])

WatchInv ==
    /\ IInv /\ ProgressOK
    /\ watch \in [Watchers -> Connection]
    /\ \A w \in Watchers : ConnectionOK(watch[w])

\* What a connection is about to send, or has sent, is true of the status it was
\* read from.
LEMMA PresentIsTold == ASSUME IInv, NEW id \in Ids PROVE Told(status[id], status[id])
<1>1. status[id] \in Status /\ pc[id] \in PCs /\ StatusFits(status[id], pc[id])
  BY DEF IInv, TypeOK, StatusesFit
<1>2. Ordered(status[id], Len(status[id].steps_completed))
  BY <1>1, FitsAreOrdered
<1>3. Grows(status[id], status[id])
  <2>1. 1 \in Steps
    BY DEF Steps
  <2> QED
    BY <1>1, <2>1, OperationsGrow
<1> QED
  BY <1>2, <1>3 DEF Told, Ordered

LEMMA NothingIsTold ==
    ASSUME IInv, NEW id \in Ids PROVE Told(NoStatus, status[id])
<1>1. status[id].steps_completed \in Seq(Steps) /\ status[id].progress_pct \in 0..6
  BY DEF IInv, TypeOK, Status
<1>2. Len(status[id].steps_completed) \in Nat
  BY <1>1, LenProperties
<1>3. /\ NoStatus.steps_completed = <<>> /\ NoStatus.progress_pct = 0
      /\ NoStatus.status = "none"
  BY DEF NoStatus
<1>4. Len(<<>>) = 0 /\ \A n \in Nat : 0 <= n
  BY EmptySeq
<1>5. 0 <= status[id].progress_pct
  BY <1>1
<1>6. \A k \in 1..0 : NoStatus.steps_completed[k] = k
  OBVIOUS
<1>7. Grows(NoStatus, status[id])
  BY <1>2, <1>3, <1>4, <1>5 DEF Grows
<1> QED
  BY <1>3, <1>4, <1>6, <1>7 DEF Told, Terminal

\* What was told stays true while the process lives.
LEMMA ToldStays ==
    ASSUME IInv, IInv', ProgressOK, Work, NEW id \in Ids, NEW s \in Status, Told(s, status[id])
    PROVE  Told(s, status'[id])
<1>1. /\ Grows(status[id], status'[id])
      /\ status[id].status \in Terminal => status'[id] = status[id]
  BY WorkMovesOn
<1>2. status[id] \in Status /\ status'[id] \in Status
  BY DEF IInv, TypeOK
<1>3. Grows(s, status'[id])
  BY <1>1, <1>2, GrowsTransitive DEF Told
<1> QED
  BY <1>1, <1>3 DEF Told

LEMMA OpenTypes ==
    ASSUME NEW id \in Ids
    PROVE  /\ Open(id) \in Connection /\ Off(id) \in Connection
           /\ \A c \in {Open(id), Off(id)} :
                c.snap = NoStatus /\ c.last = NoStatus /\ c.id = id
BY InitialStatus, MaxTurnsAssumption
DEF Open, Off, Connection, WatchPCs, Reasons

\* A step of a connection.
LEMMA TurnKeeps ==
    ASSUME WatchInv, NEW w \in Watchers, Turn(w) \/ \E id \in Ids : Connect(w, id)
    PROVE  WatchInv'
<1> DEFINE c == watch[w]
<1>0. /\ watch \in [Watchers -> Connection] /\ c \in Connection
      /\ c.id \in Ids /\ c.snap \in Status /\ c.last \in Status
      /\ Told(c.snap, status[c.id]) /\ Told(c.last, status[c.id])
  BY DEF WatchInv, Connection, ConnectionOK
<1>1. IInv' /\ status' = status
  <2>1. CASE PollFound(w)
    <3>1. UNCHANGED <<status, pc, waiting, permits, background,
                      redisResults, memResults, dbResults>>
      BY <2>1 DEF PollFound, admission, stores
    <3>2. IsCache(registry', Ids, MaxTracked)
      BY <1>0, <2>1, TouchIsCache, LimitsAssumption DEF PollFound, WatchInv, IInv, TypeOK
    <3> QED
      BY <3>1, <3>2
      DEF WatchInv, IInv, TypeOK, QueueOK, AdmissionOK, PermitsConserved, BackgroundIsLive,
          Active, Live, StatusesFit, ReportsOK, ReportKept
  <2>2. CASE UNCHANGED engineVars
    BY <2>2, StepKeepsIInv DEF WatchInv, engineVars
  <2> QED
    BY <2>1, <2>2 DEF Turn, Connect, PollDuration, PollMissing, Sent, Disconnected, Sleep
<1>2. ASSUME NEW d \in Connection, watch' = [watch EXCEPT ![w] = d],
             Told(d.snap, status[d.id]), Told(d.last, status[d.id])
      PROVE  WatchInv'
  <2>1. watch' \in [Watchers -> Connection]
    BY <1>0, <1>2
  <2>2. \A v \in Watchers : watch'[v] = IF v = w THEN d ELSE watch[v]
    BY <1>0, <1>2
  <2>3. \A v \in Watchers : ConnectionOK(watch'[v])
    BY <1>2, <2>2 DEF WatchInv, ConnectionOK
  <2>4. \A v \in Watchers : ConnectionOK(watch[v])'
    BY <1>1, <2>3 DEF ConnectionOK
  <2>5. ProgressOK'
    BY <1>1 DEF WatchInv, ProgressOK, InProportion
  <2> QED
    BY <1>1, <2>1, <2>4, <2>5 DEF WatchInv
<1>3. ASSUME NEW d \in Connection
      PROVE  /\ EndOfTurn(d) \in Connection
             /\ EndOfTurn(d).id = d.id /\ EndOfTurn(d).snap = d.snap
             /\ EndOfTurn(d).last = d.last
  <2>1. "closed" \in WatchPCs /\ "sleep" \in WatchPCs /\ "done" \in Reasons
    BY DEF WatchPCs, Reasons
  <2> QED
    BY <2>1 DEF EndOfTurn, Connection
<1>4. ASSUME NEW id \in Ids, Connect(w, id) PROVE WatchInv'
  <2>1. watch' = [watch EXCEPT ![w] = Open(id)]
    BY <1>4 DEF Connect
  <2>2. Told(NoStatus, status[id])
    BY NothingIsTold DEF WatchInv
  <2> QED
    BY <1>2, <2>1, <2>2, OpenTypes
<1>5. ASSUME NEW r \in Reasons, CloseWith(w, r) PROVE WatchInv'
  <2> DEFINE d == [c EXCEPT !.pc = "closed", !.reason = r]
  <2>1. d \in Connection /\ d.id = c.id /\ d.snap = c.snap /\ d.last = c.last
    BY <1>0 DEF Connection, WatchPCs
  <2>2. watch' = [watch EXCEPT ![w] = d]
    BY <1>0, <1>5 DEF CloseWith
  <2> HIDE DEF d
  <2> QED
    BY <1>0, <1>2, <2>1, <2>2
<1>6. CASE PollFound(w)
  <2> DEFINE s == status[c.id]
             d == [c EXCEPT !.pc = "send", !.snap = s]
  <2>1. s \in Status /\ Told(s, s)
    BY <1>0, PresentIsTold DEF WatchInv, IInv, TypeOK
  <2>2. d \in Connection /\ d.id = c.id /\ d.snap = s /\ d.last = c.last
    BY <1>0, <2>1 DEF Connection, WatchPCs
  <2>3. watch' = [watch EXCEPT ![w] = d] \/ watch' = [watch EXCEPT ![w] = EndOfTurn(c)]
    BY <1>6 DEF PollFound
  <2>4. Told(d.snap, status[d.id]) /\ Told(d.last, status[d.id])
    BY <1>0, <2>1, <2>2
  <2> HIDE DEF d, s
  <2> QED
    BY <1>0, <1>2, <1>3, <2>2, <2>3, <2>4
<1>7. CASE Sent(w)
  <2>1. PICK t \in c.turns..MaxTurns :
          watch' = [watch EXCEPT ![w] = EndOfTurn([@ EXCEPT !.last = watch[w].snap, !.turns = t])]
    BY <1>7 DEF Sent
  <2> DEFINE d == [c EXCEPT !.last = c.snap, !.turns = t]
  <2>2. t \in 0..MaxTurns
    <3>1. c.turns \in 0..MaxTurns /\ MaxTurns \in Nat
      BY <1>0, MaxTurnsAssumption DEF Connection
    <3>2. t \in c.turns..MaxTurns
      OBVIOUS
    <3> HIDE DEF c
    <3> QED
      BY <3>1, <3>2
  <2>3. d \in Connection /\ d.id = c.id /\ d.snap = c.snap /\ d.last = c.snap
    BY <1>0, <2>2 DEF Connection
  <2>4. watch' = [watch EXCEPT ![w] = EndOfTurn(d)]
    BY <1>0, <2>1
  <2> HIDE DEF d
  <2> QED
    BY <1>0, <1>2, <1>3, <2>3, <2>4
<1>8. CASE Sleep(w)
  <2> DEFINE n == IF c.turns < MaxTurns THEN c.turns + 1 ELSE c.turns
             d == [c EXCEPT !.pc = "poll", !.turns = n]
  <2>1. n \in 0..MaxTurns
    <3>1. c.turns \in 0..MaxTurns /\ MaxTurns \in Nat
      BY <1>0, MaxTurnsAssumption DEF Connection
    <3> HIDE DEF c
    <3> QED
      BY <3>1
  <2>2. watch' = [watch EXCEPT ![w] = d]
    BY <1>0, <1>8 DEF Sleep
  <2> HIDE DEF n
  <2>3. d \in Connection /\ d.id = c.id /\ d.snap = c.snap /\ d.last = c.last
    BY <1>0, <2>1 DEF Connection, WatchPCs
  <2> HIDE DEF d
  <2> QED
    BY <1>0, <1>2, <2>2, <2>3
<1>9. /\ "duration" \in Reasons /\ "not_found" \in Reasons /\ "dead" \in Reasons
  BY DEF Reasons
<1> QED
  BY <1>4, <1>5, <1>6, <1>7, <1>8, <1>9 DEF Turn, PollDuration, PollMissing, Disconnected

LEMMA WatchedStepKeeps == ASSUME WatchInv, WatchedStep PROVE WatchInv'
<1>0. /\ IInv' /\ watch \in [Watchers -> Connection]
      /\ \A w \in Watchers : ConnectionOK(watch[w])
      /\ \A w \in Watchers : /\ watch[w].id \in Ids
                             /\ watch[w].snap \in Status /\ watch[w].last \in Status
  <2>1. IInv'
    BY StepKeepsIInv DEF WatchInv, WatchedStep, Next
  <2> QED
    BY <2>1 DEF WatchInv, Connection
<1>1. CASE Work /\ UNCHANGED watch
  <2>1. \A w \in Watchers :
          Told(watch[w].snap, status'[watch[w].id]) /\ Told(watch[w].last, status'[watch[w].id])
    BY <1>0, <1>1, ToldStays DEF WatchInv, ConnectionOK
  <2>2. \A w \in Watchers : ConnectionOK(watch[w])'
    BY <1>1, <2>1 DEF ConnectionOK
  <2> QED
    BY <1>0, <1>1, <2>2, WorkMovesOn DEF WatchInv
<1>2. CASE Restart /\ watch' = [w \in Watchers |-> Off(watch[w].id)]
  <2>1. \A w \in Watchers : /\ watch'[w] \in Connection
                            /\ watch'[w].snap = NoStatus /\ watch'[w].last = NoStatus
                            /\ watch'[w].id \in Ids
    BY <1>0, <1>2, OpenTypes
  <2>2. \A id \in Ids : status'[id] = NoStatus
    BY <1>2 DEF Restart
  <2>3. \A id \in Ids : IInv' => Told(NoStatus, status'[id])
    <3>1. \A id \in Ids : IInv => Told(NoStatus, status[id])
      BY NothingIsTold
    <3>2. Told(NoStatus, NoStatus)
      <4>1. NoStatus \in Status /\ 1 \in Steps
        BY InitialStatus DEF Steps
      <4>2. Grows(NoStatus, NoStatus)
        BY <4>1, OperationsGrow
      <4>3. NoStatus.steps_completed = <<>> /\ Len(<<>>) = 0
        BY EmptySeq DEF NoStatus
      <4>4. \A k \in 1..0 : NoStatus.steps_completed[k] = k
        OBVIOUS
      <4> QED
        BY <4>2, <4>3, <4>4 DEF Told
    <3> QED
      BY <2>2, <3>2
  <2>4. \A w \in Watchers : ConnectionOK(watch[w])'
    BY <1>0, <2>1, <2>3 DEF ConnectionOK
  <2>5. ProgressOK'
    BY <2>2 DEF ProgressOK, InProportion, NoStatus
  <2>6. watch' \in [Watchers -> Connection]
    BY <1>2, <2>1
  <2> QED
    BY <1>0, <2>4, <2>5, <2>6 DEF WatchInv
<1> QED
  BY <1>1, <1>2 DEF WatchedStep

LEMMA WatchInvariance == WatchSpec => []WatchInv
<1>1. WatchInit => WatchInv
  <2> SUFFICES ASSUME WatchInit PROVE WatchInv
    OBVIOUS
  <2>1. IInv /\ ProgressOK
    BY InitIInv DEF WatchInit, Init, ProgressOK, InProportion, NoStatus
  <2>2. PICK id \in Ids : watch = [w \in Watchers |-> Off(id)]
    BY DEF WatchInit
  <2>3. Told(NoStatus, status[id])
    BY <2>1, NothingIsTold
  <2> QED
    BY <2>1, <2>2, <2>3, OpenTypes DEF WatchInv, ConnectionOK
<1>2. WatchInv /\ [WatchNext]_watchVars => WatchInv'
  <2> SUFFICES ASSUME WatchInv, [WatchNext]_watchVars PROVE WatchInv'
    OBVIOUS
  <2>1. ASSUME UNCHANGED watchVars PROVE WatchInv'
    <3>1. UNCHANGED engineVars /\ UNCHANGED <<watch, status>>
      BY <2>1 DEF watchVars, engineVars
    <3> QED
      BY <3>1, StepKeepsIInv DEF WatchInv, ConnectionOK, ProgressOK, InProportion
  <2>2. WatchQuiescent => UNCHANGED watchVars
    BY DEF WatchQuiescent, Quiescent, watchVars
  <2> QED
    BY <2>1, <2>2, TurnKeeps, WatchedStepKeeps DEF WatchNext
<1> QED
  BY <1>1, <1>2, PTL DEF WatchSpec

\* A sequence counting from 1 is a prefix of any such sequence that is not shorter.
LEMMA CountingIsPrefix ==
    ASSUME NEW s \in Seq(Steps), NEW t \in Seq(Steps), Len(s) <= Len(t),
           \A k \in 1..Len(s) : s[k] = k, \A k \in 1..Len(t) : t[k] = k
    PROVE  IsPrefix(s, t)
<1> DEFINE n == Len(s)
<1>0. n \in Nat /\ Len(t) \in Nat /\ n <= Len(t)
  BY LenProperties
<1>1. \A k \in 1..n : s[k] \in Steps /\ t[k] \in Steps /\ s[k] = t[k]
  <2>1. \A k \in 1..n : k \in 1..Len(t)
    BY <1>0
  <2>2. \A k \in 1..n : s[k] \in Steps
    BY LenProperties
  <2> QED
    BY <2>1, <2>2
<1>2. SubSeq(s, 1, n) = s
  BY SubSeqFull
<1>3. /\ SubSeq(t, 1, n) \in Seq(Steps)
      /\ Len(SubSeq(t, 1, n)) = IF 1 <= n THEN n - 1 + 1 ELSE 0
      /\ \A i \in 1..n - 1 + 1 : SubSeq(t, 1, n)[i] = t[1 + i - 1]
  BY <1>0, <1>1, SubSeqProperties
<1>4. /\ \A m \in Nat : (IF 1 <= m THEN m - 1 + 1 ELSE 0) = m
      /\ \A m \in Nat : m - 1 + 1 = m
      /\ \A m \in Int : 1 + m - 1 = m
  OBVIOUS
<1>5. Len(SubSeq(t, 1, n)) = n /\ \A i \in 1..n : SubSeq(t, 1, n)[i] = s[i]
  BY <1>0, <1>1, <1>3, <1>4
<1>6. SubSeq(t, 1, n) = s
  BY <1>3, <1>5, SeqEqual
<1> QED
  BY <1>0, <1>2, <1>6 DEF IsPrefix

\* Nothing a client was told is ever taken back: for any number of connections, of
\* turns and of analyses, and over restarts, which end the connections.
THEOREM ToldStaysTrue == WatchSpec => []ToldIsTrue
<1>1. WatchInv => ToldIsTrue
  <2> SUFFICES ASSUME WatchInv, NEW w \in Watchers
               PROVE  LET told == watch[w].last
                          now == status[watch[w].id] IN
                      /\ IsPrefix(told.steps_completed, now.steps_completed)
                      /\ told.progress_pct <= now.progress_pct
                      /\ told.status \in Terminal => told = now
    BY DEF ToldIsTrue
  <2> DEFINE told == watch[w].last
             now == status[watch[w].id]
  <2>1. told \in Status /\ now \in Status /\ Told(told, now) /\ watch[w].id \in Ids
    BY DEF WatchInv, Connection, ConnectionOK, IInv, TypeOK
  <2>2. \A k \in 1..Len(now.steps_completed) : now.steps_completed[k] = k
    BY <2>1, PresentIsTold DEF WatchInv, Told
  <2>3. told.steps_completed \in Seq(Steps) /\ now.steps_completed \in Seq(Steps)
    BY <2>1 DEF Status
  <2> QED
    BY <2>1, <2>2, <2>3, CountingIsPrefix DEF Told, Grows
<1> QED
  BY <1>1, WatchInvariance, PTL

\* When COMPLETED is on its way to a client, the report can be read.
THEOREM CompletedMessageIsBacked == WatchSpec => []CompletedMessageHasReport
<1>1. WatchInv => CompletedMessageHasReport
  <2> SUFFICES ASSUME WatchInv, ReportSurvives, NEW w \in Watchers,
                      watch[w].snap.status = "completed"
               PROVE  watch[w].id \in redisResults \cup memResults \cup dbResults
    BY DEF CompletedMessageHasReport
  <2>1. watch[w].id \in Ids /\ Told(watch[w].snap, status[watch[w].id])
    BY DEF WatchInv, Connection, ConnectionOK
  <2>2. status[watch[w].id].status = "completed"
    BY <2>1 DEF Told, Terminal
  <2> QED
    BY <2>1, <2>2 DEF WatchInv, IInv, ReportKept, ReportSurvives
<1> QED
  BY <1>1, WatchInvariance, PTL
=============================================================================
