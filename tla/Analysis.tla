------------------------------ MODULE Analysis ------------------------------
(***************************************************************************)
(* The life of an analysis: POST /analysis (api/v1/analysis.py), the       *)
(* background task it starts, the six pipeline steps of                    *)
(* orchestration/pipeline.py, and the places a report is kept.             *)
(*                                                                         *)
(* Everything runs on one asyncio event loop.  An action is the code       *)
(* between two awaits: what happens there is atomic, and what happens at   *)
(* an await may interleave with every other task.                          *)
(***************************************************************************)
EXTENDS Integers, FiniteSets, Sequences, TTLCache

CONSTANTS
    Ids,            \* the uuid4 ids of the analyses ever requested
    MaxConcurrent,  \* _MAX_CONCURRENT_ANALYSES, the semaphore's value
    MaxBackground,  \* _MAX_BACKGROUND_TASKS
    MaxTracked,     \* maxsize of analysis_tasks
    Faults          \* what may go wrong around the pipeline

\* persist: saving to the database fails        redis: Redis may not answer
\* cache:   _analysis_results.set raises        expire: cached reports expire
\* corrupt: a cached report is unreadable        dbread: reading the database fails
\* restart: the process dies and starts again
FaultKinds ==
    {"persist", "redis", "cache", "expire", "corrupt", "dbread", "restart"}

ASSUME LimitsAssumption ==
    /\ MaxConcurrent \in Nat \ {0}
    /\ MaxBackground \in Nat \ {0}
    /\ MaxTracked \in Nat \ {0}

ASSUME FaultsAssumption == Faults \subseteq FaultKinds

VARIABLES
    status,        \* the AnalysisStatus object of each analysis
    registry,      \* analysis_tasks: a TTLCache of those objects
    pc,            \* where each analysis is
    waiting,       \* tasks queued on _analysis_semaphore, which is FIFO
    permits,       \* the value of _analysis_semaphore
    background,    \* keys of _background_tasks
    redisResults,  \* reports in Redis
    memResults,    \* reports in the in-memory fallback of _analysis_results
    dbResults      \* rows of analysis_results

stores == <<redisResults, memResults, dbResults>>
admission == <<waiting, permits, background>>
engineVars == <<status, registry, pc, waiting, permits, background,
                redisResults, memResults, dbResults>>

(***************************************************************************)
(* Status objects                                                          *)
(***************************************************************************)
Steps == 1..6   \* PIPELINE_STEPS; 0 stands for the empty step name

Terminal == {"completed", "failed"}
Causes == {"no_data", "exception"}

\* progress_pct counts sixths; the cap of 99 never bites below the last step.
Status ==
    [status : {"none", "pending", "running"} \cup Terminal,
     progress_pct : 0..6,
     current_step : {0} \cup Steps,
     steps_completed : Seq(Steps),
     error_message : {"none", "no_report"} \cup Causes]

NoStatus == [status |-> "none", progress_pct |-> 0, current_step |-> 0,
             steps_completed |-> <<>>, error_message |-> "none"]
NewStatus == [NoStatus EXCEPT !.status = "pending"]

Update(s, k) ==
    [s EXCEPT !.status = "running", !.progress_pct = k - 1, !.current_step = k]

CompleteStep(s, k) == [s EXCEPT !.steps_completed = Append(@, k)]

\* Mutant: a failure starts the progress bar over.
FailResets(s, error) ==
    [s EXCEPT !.status = "failed", !.progress_pct = 0, !.error_message = error]

Fail(s, error) == [s EXCEPT !.status = "failed", !.error_message = error]

Complete(s) ==
    [s EXCEPT !.status = "completed", !.progress_pct = 6, !.current_step = 0]

(***************************************************************************)
(* Where an analysis is                                                    *)
(***************************************************************************)
Running == {"fetch", "technical", "patterns", "fundamental", "persist", "cache"}
PCs == Running \cup {"unused", "rejected", "queued", "finished", "lost"}

Active == {id \in Ids : pc[id] \in Running}             \* hold a permit
Live == {id \in Ids : pc[id] \in Running \cup {"queued"}}

Goto(id, label) == pc' = [pc EXCEPT ![id] = label]

\* Mutant: every assignment adds an entry.
PublishAppends(id, s) ==
    /\ status' = [status EXCEPT ![id] = s]
    /\ registry' = Append(registry, id)

\* Every assignment to analysis_tasks stores the one shared status object.
Publish(id, s) ==
    /\ status' = [status EXCEPT ![id] = s]
    /\ registry' = SetItem(registry, id, MaxTracked)

\* Mutant: the finally block does not pop the task.
FinishKeepsTask(id) ==
    /\ Goto(id, "finished")
    /\ permits' = permits + 1
    /\ UNCHANGED <<waiting, background>>

\* Leaving _run_pipeline: its finally block and the end of `async with`.
Finish(id) ==
    /\ Goto(id, "finished")
    /\ background' = background \ {id}
    /\ permits' = permits + 1
    /\ UNCHANGED waiting

Init ==
    /\ status = [id \in Ids |-> NoStatus]
    /\ registry = <<>>
    /\ pc = [id \in Ids |-> "unused"]
    /\ waiting = <<>>
    /\ permits = MaxConcurrent
    /\ background = {}
    /\ redisResults = {} /\ memResults = {} /\ dbResults = {}

(***************************************************************************)
(* POST /analysis.  The pipeline's constructor registers a PENDING status  *)
(* before the guard decides, so a rejected request leaves its entry behind.*)
(***************************************************************************)
TriggerRejected(id) ==
    /\ pc[id] = "unused"
    /\ Cardinality(background) >= MaxBackground
    /\ Publish(id, NewStatus)
    /\ Goto(id, "rejected")
    /\ UNCHANGED <<admission, stores>>

\* Mutant: the guard lets one request too many in.
TriggerAcceptedOneMore(id) ==
    /\ pc[id] = "unused"
    /\ Cardinality(background) <= MaxBackground
    /\ Publish(id, NewStatus)
    /\ Goto(id, "queued")
    /\ background' = background \cup {id}
    /\ waiting' = Append(waiting, id)
    /\ UNCHANGED <<permits, stores>>

TriggerAccepted(id) ==
    /\ pc[id] = "unused"
    /\ Cardinality(background) < MaxBackground
    /\ Publish(id, NewStatus)
    /\ Goto(id, "queued")
    /\ background' = background \cup {id}
    /\ waiting' = Append(waiting, id)
    /\ UNCHANGED <<permits, stores>>

(***************************************************************************)
(* The background task                                                     *)
(***************************************************************************)
\* Mutant: the first update changes the object and does not register it again.
StartRunUnregistered(id) ==
    /\ waiting # <<>> /\ id = Head(waiting)
    /\ permits > 0
    /\ waiting' = Tail(waiting)
    /\ permits' = permits - 1
    /\ status' = [status EXCEPT ![id] = Update(@, 1)]
    /\ Goto(id, "fetch")
    /\ UNCHANGED <<registry, background, stores>>

StartRun(id) ==
    /\ waiting # <<>> /\ id = Head(waiting)
    /\ permits > 0
    /\ waiting' = Tail(waiting)
    /\ permits' = permits - 1
    /\ Publish(id, Update(status[id], 1))
    /\ Goto(id, "fetch")
    /\ UNCHANGED <<background, stores>>

\* Mutant: the early return forgets to release the semaphore.
EndFailedLeaks(id, s, cause) ==
    /\ Publish(id, Fail(Fail(s, cause), "no_report"))
    /\ Goto(id, "finished")
    /\ background' = background \ {id}
    /\ UNCHANGED <<waiting, permits, stores>>

\* run() returned None: its own fail(cause) is followed at once by the
\* fail("Pipeline returned no report") of _run_pipeline.
EndFailed(id, s, cause) ==
    /\ Publish(id, Fail(Fail(s, cause), "no_report"))
    /\ Finish(id)
    /\ UNCHANGED stores

FetchEmpty(id) ==
    /\ pc[id] = "fetch"
    /\ EndFailed(id, CompleteStep(status[id], 1), "no_data")

Advance(id, from, k, to) ==
    /\ pc[id] = from
    /\ Publish(id, Update(CompleteStep(status[id], k), k + 1))
    /\ Goto(id, to)
    /\ UNCHANGED <<admission, stores>>

FetchDone(id) == Advance(id, "fetch", 1, "technical")
TechnicalDone(id) == Advance(id, "technical", 2, "patterns")
PatternsDone(id) == Advance(id, "patterns", 3, "fundamental")

\* Steps 5 and 6 contain no await before the report is saved.
AggregationReached(s) == Update(CompleteStep(s, 4), 5)
ReportReached(s) == Update(CompleteStep(AggregationReached(s), 5), 6)

\* Mutant: the report step is never marked as completed.
FundamentalDoneUnmarked(id) ==
    /\ pc[id] = "fundamental"
    /\ Publish(id, ReportReached(status[id]))
    /\ Goto(id, "persist")
    /\ UNCHANGED <<admission, stores>>

\* Mutant: run() publishes COMPLETED itself, before anything is saved.
FundamentalDoneCompletes(id) ==
    /\ pc[id] = "fundamental"
    /\ Publish(id, Complete(CompleteStep(ReportReached(status[id]), 6)))
    /\ Goto(id, "persist")
    /\ UNCHANGED <<admission, stores>>

FundamentalDone(id) ==
    /\ pc[id] = "fundamental"
    /\ Publish(id, CompleteStep(ReportReached(status[id]), 6))
    /\ Goto(id, "persist")
    /\ UNCHANGED <<admission, stores>>

\* How far the status object got when an exception leaves the block that
\* follows the await.  _step_fetch_data, _step_fundamental_analysis and
\* _persist_result raise nothing; the code after the first two may.
RaisedAt(id) ==
    CASE pc[id] = "fetch" -> {CompleteStep(status[id], 1)}
      [] pc[id] \in {"technical", "patterns"} -> {status[id]}
      [] pc[id] = "fundamental" ->
            {AggregationReached(status[id]), ReportReached(status[id])}
      [] OTHER -> {}

StepRaises(id) ==
    \E s \in RaisedAt(id) : EndFailed(id, s, "exception")

PersistResult(id) ==
    /\ pc[id] = "persist"
    /\ \/ dbResults' = dbResults \cup {id}
       \/ "persist" \in Faults /\ UNCHANGED dbResults
    /\ Goto(id, "cache")
    /\ UNCHANGED <<status, registry, admission, redisResults, memResults>>

\* Mutant: the cache is written before the database has answered.
RedisStoresEarly(id) ==
    /\ pc[id] \in {"persist", "cache"}
    /\ id \notin redisResults
    /\ redisResults' = redisResults \cup {id}
    /\ UNCHANGED <<status, registry, pc, admission, memResults, dbResults>>

\* Redis executes the SETEX of _analysis_results.set; the reply is on its way,
\* or is lost.
RedisStores(id) ==
    /\ pc[id] = "cache"
    /\ id \notin redisResults
    /\ redisResults' = redisResults \cup {id}
    /\ UNCHANGED <<status, registry, pc, admission, memResults, dbResults>>

\* Mutant: an exception of the cache makes the analysis fail.
CacheReportFails(id) ==
    /\ pc[id] = "cache"
    /\ \/ /\ id \in redisResults
          /\ Publish(id, Complete(status[id]))
       \/ /\ "cache" \in Faults
          /\ Publish(id, Fail(status[id], "exception"))
    /\ Finish(id)
    /\ UNCHANGED stores

\* `set` returns: Redis answered; or the call failed and the report went to the
\* in-memory fallback; or it raised, which _run_pipeline logs and forgets.
CacheReport(id) ==
    /\ pc[id] = "cache"
    /\ \/ id \in redisResults /\ UNCHANGED memResults
       \/ "redis" \in Faults /\ memResults' = memResults \cup {id}
       \/ "cache" \in Faults /\ UNCHANGED memResults
    /\ Publish(id, Complete(status[id]))
    /\ Finish(id)
    /\ UNCHANGED <<redisResults, dbResults>>

Run(id) ==
    \/ StartRun(id)
    \/ FetchDone(id) \/ FetchEmpty(id)
    \/ TechnicalDone(id) \/ PatternsDone(id) \/ FundamentalDone(id)
    \/ StepRaises(id)
    \/ PersistResult(id)
    \/ RedisStores(id) \/ CacheReport(id)

(***************************************************************************)
(* Clients, time and failures                                              *)
(***************************************************************************)
\* A client looks the status up: GET /analysis/{id}/status, or the first lines
\* of the other two handlers.  The entry becomes the one used last.
ReadStatus(id) ==
    /\ id \in ToSet(registry)
    /\ registry' = Touch(registry, id)
    /\ UNCHANGED <<status, pc, admission, stores>>

\* The TTL of one hour ends for a status.  A running pipeline sets its status
\* again at every step, and a step is shorter than that.
ExpireStatus(id) ==
    /\ id \in ToSet(registry)
    /\ id \notin Active
    /\ registry' = DelItem(registry, id)
    /\ UNCHANGED <<status, pc, admission, stores>>

\* A cached report outlives its TTL, or the 256 entries of the fallback; the
\* reply to the SETEX that stored it takes less time.
ExpireReport(id) ==
    /\ "expire" \in Faults
    /\ pc[id] # "cache"
    /\ \/ /\ id \in redisResults
          /\ redisResults' = redisResults \ {id}
          /\ UNCHANGED memResults
       \/ /\ id \in memResults
          /\ memResults' = memResults \ {id}
          /\ UNCHANGED redisResults
    /\ UNCHANGED <<status, registry, pc, admission, dbResults>>

\* The process restarts: everything but Redis and the database is gone.
Restart ==
    /\ "restart" \in Faults
    /\ \E id \in Ids : pc[id] \notin {"unused", "lost"}
    /\ status' = [id \in Ids |-> NoStatus]
    /\ registry' = <<>>
    /\ pc' = [id \in Ids |-> IF pc[id] = "unused" THEN "unused" ELSE "lost"]
    /\ waiting' = <<>>
    /\ permits' = MaxConcurrent
    /\ background' = {}
    /\ memResults' = {}
    /\ UNCHANGED <<redisResults, dbResults>>

\* Every request was served and forgotten: the server idles.
Quiescent ==
    /\ \A id \in Ids : pc[id] \in {"rejected", "finished", "lost"}
    /\ registry = <<>>
    /\ UNCHANGED engineVars

\* What happens while the process lives.
Work ==
    \E id \in Ids :
        \/ TriggerRejected(id) \/ TriggerAccepted(id)
        \/ Run(id)
        \/ ReadStatus(id)
        \/ ExpireStatus(id) \/ ExpireReport(id)

Next == Work \/ Restart \/ Quiescent

Spec == Init /\ [][Next]_engineVars

\* The event loop resumes a task whose await has ended, and every await of
\* the pipeline ends: network calls have timeouts, threads terminate.
Fairness == \A id \in Ids : WF_engineVars(Run(id))
FairSpec == Spec /\ Fairness

(***************************************************************************)
(* What must hold                                                          *)
(***************************************************************************)
\* Types of the variables; the registry is a TTLCache of at most MaxTracked ids.
TypeOK ==
    /\ status \in [Ids -> Status]
    /\ IsCache(registry, Ids, MaxTracked)
    /\ pc \in [Ids -> PCs]
    /\ waiting \in Seq(Ids)
    /\ permits \in 0..MaxConcurrent
    /\ background \subseteq Ids
    /\ redisResults \subseteq Ids
    /\ memResults \subseteq Ids
    /\ dbResults \subseteq Ids

\* The semaphore neither loses nor invents permits: on every way out of
\* _run_pipeline (report, no data, exception) exactly one comes back, so the
\* pipelines inside it and the free permits always add up to the limit.
PermitsConserved == permits + Cardinality(Active) = MaxConcurrent

\* _background_tasks holds a strong reference to every accepted task that has
\* not ended and to no other, and never more of them than its limit: a task is
\* neither collected half-way nor counted against later requests for ever.
BackgroundIsLive ==
    /\ background = Live
    /\ Cardinality(background) <= MaxBackground

\* The faults that leave one of the places a report is kept untouched: the
\* database, or else the cache behind _analysis_results.
ReportSurvives ==
    \/ "persist" \notin Faults
    \/ {"cache", "expire", "corrupt"} \cap Faults = {}

\* Whenever an analysis shows COMPLETED its report is in the database, in Redis
\* or in the fallback: the cache is written before complete() publishes, and the
\* database makes up for a cache that lost the report.
CompletedHasReport ==
    ReportSurvives =>
        \A id \in Ids : status[id].status = "completed" =>
            id \in redisResults \cup memResults \cup dbResults

\* An analysis reported as FAILED left no report behind that a later reader, or
\* the history kept in the database, could show as a success.
FailedHasNoReport ==
    \A id \in Ids : status[id].status = "failed" =>
        id \notin redisResults \cup memResults \cup dbResults

\* steps_completed is always the list of the steps before current_step, in order
\* and without gaps; all six are there when COMPLETED, never when FAILED.
StepsInOrder ==
    \A id \in Ids :
        LET s == status[id]
            n == Len(s.steps_completed) IN
        /\ \A k \in 1..n : s.steps_completed[k] = k
        /\ s.status \in {"none", "pending"} => n = 0
        /\ s.status = "running" =>
              n = s.current_step - 1 \/ (n = 6 /\ s.current_step = 6)
        /\ s.status = "completed" => n = 6
        /\ s.status = "failed" => n < 6

\* As long as no more analyses were requested than the registry has room for, a
\* running one can always be found in it: neither its TTL nor the entries that
\* rejected and waiting requests leave behind hide it from its client.
RunningVisible ==
    Cardinality({id \in Ids : pc[id] # "unused"}) <= MaxTracked =>
        Active \subseteq ToSet(registry)

\* Every accepted analysis reaches COMPLETED or FAILED, whatever its steps do and
\* however many are ahead of it, unless the process restarts.
AcceptedTerminates ==
    \A id \in Ids :
        pc[id] = "queued" ~> (status[id].status \in Terminal \/ pc[id] = "lost")

\* A failed analysis tells its client why: the message given to the first fail()
\* survives (test_analysis_api.py expects the exception's text in the status).
FailureKeepsCause ==
    \A id \in Ids : status[id].status = "failed" =>
        status[id].error_message \in Causes
=============================================================================
