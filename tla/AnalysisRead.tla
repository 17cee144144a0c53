---------------------------- MODULE AnalysisRead ----------------------------
(***************************************************************************)
(* GET /analysis/{id} beside the running pipelines.  The handler looks at  *)
(* the status once and then awaits the cache and the database, while       *)
(* pipelines, other readers, expiry and Redis outages move underneath it.  *)
(***************************************************************************)
EXTENDS Analysis

CONSTANT Readers    \* requests in flight at a time

VARIABLE reader     \* each request, and what its client was last told of id

readVars == <<engineVars, reader>>

ReaderPCs == {"idle", "cache", "invalidate", "db", "refill", "answered"}
Answers == {"none", "not_found", "status", "report", "error"}

NoRequest(id) == [pc |-> "idle", id |-> id, answer |-> "none"]

ReadInit == Init /\ \E id \in Ids : reader = [r \in Readers |-> NoRequest(id)]

ReaderGoto(r, label) == reader' = [reader EXCEPT ![r].pc = label]

Answer(r, kind) ==
    reader' = [reader EXCEPT ![r].pc = "answered", ![r].answer = kind]

\* The status decides without an await: unknown, not completed, or completed.
GetStatus(r, id) ==
    /\ reader[r].pc = "idle"
    /\ reader' = [reader EXCEPT ![r] =
            IF id \notin ToSet(registry)
            THEN [pc |-> "idle", id |-> id, answer |-> "not_found"]
            ELSE IF status[id].status # "completed"
            THEN [pc |-> "idle", id |-> id, answer |-> "status"]
            ELSE [pc |-> "cache", id |-> id,
                  answer |-> IF reader[r].id = id THEN reader[r].answer ELSE "none"]]
    /\ registry' = Touch(registry, id)
    /\ UNCHANGED <<status, pc, admission, stores>>

\* RedisCache.get: Redis decides when it answers, and only when it does not is
\* the fallback asked, which need not know what Redis knows.
CacheAnswers(id) ==
    {id \in redisResults} \cup
        IF "redis" \in Faults THEN {id \in memResults} ELSE {}

\* Mutant: a miss is answered without asking the database.
GetCachedOnly(r) ==
    /\ reader[r].pc = "cache"
    /\ \E hit \in CacheAnswers(reader[r].id) :
        \/ hit /\ Answer(r, "report")
        \/ ~hit /\ Answer(r, "status")
    /\ UNCHANGED engineVars

\* A corrupt entry that is no report is invalidated; one that is no JSON at all,
\* as only Redis can hold it, is a miss.
GetCached(r) ==
    /\ reader[r].pc = "cache"
    /\ \E hit \in CacheAnswers(reader[r].id) :
        \/ hit /\ Answer(r, "report")
        \/ hit /\ "corrupt" \in Faults /\ ReaderGoto(r, "invalidate")
        \/ hit /\ "corrupt" \in Faults /\ reader[r].id \in redisResults /\ ReaderGoto(r, "db")
        \/ ~hit /\ ReaderGoto(r, "db")
    /\ UNCHANGED engineVars

\* Mutant: the handler gives up after a corrupt entry.
InvalidateAnswers(r) ==
    /\ reader[r].pc = "invalidate"
    /\ redisResults' = redisResults \ {reader[r].id}
    /\ memResults' = memResults \ {reader[r].id}
    /\ Answer(r, "status")
    /\ UNCHANGED <<status, registry, pc, admission, dbResults>>

\* RedisCache.invalidate: a failed DEL is skipped, the fallback is always cleared.
Invalidate(r) ==
    /\ reader[r].pc = "invalidate"
    /\ \/ redisResults' = redisResults \ {reader[r].id}
       \/ "redis" \in Faults /\ UNCHANGED redisResults
    /\ memResults' = memResults \ {reader[r].id}
    /\ ReaderGoto(r, "db")
    /\ UNCHANGED <<status, registry, pc, admission, dbResults>>

\* _load_report_from_db: a missing row and an error both yield None, and then
\* the answer is the COMPLETED status without a report.
LoadFromDb(r) ==
    /\ reader[r].pc = "db"
    /\ \/ reader[r].id \in dbResults /\ ReaderGoto(r, "refill")
       \/ /\ reader[r].id \notin dbResults \/ "dbread" \in Faults
          /\ Answer(r, "status")
    /\ UNCHANGED engineVars

\* RedisCache.set, first to last: Redis takes the report; or the call fails and
\* the fallback takes it, although Redis may have executed the command too.
SetResult(id) ==
    \/ redisResults' = redisResults \cup {id} /\ UNCHANGED memResults
    \/ /\ "redis" \in Faults
       /\ redisResults' \in {redisResults, redisResults \cup {id}}
       /\ memResults' = memResults \cup {id}

\* The report is cached again before it is returned; an exception of that
\* write, unlike the one in _run_pipeline, reaches the client.
Refill(r) ==
    /\ reader[r].pc = "refill"
    /\ \/ SetResult(reader[r].id) /\ Answer(r, "report")
       \/ /\ "cache" \in Faults
          /\ Answer(r, "error")
          /\ UNCHANGED <<redisResults, memResults>>
    /\ UNCHANGED <<status, registry, pc, admission, dbResults>>

\* The client is done with the answer; the slot stands for its next request.
NextRequest(r) ==
    /\ reader[r].pc = "answered"
    /\ ReaderGoto(r, "idle")
    /\ UNCHANGED engineVars

\* A step of the engine; requests in flight do not survive a restart.
EngineStep ==
    \/ Work /\ UNCHANGED reader
    \/ /\ Restart
       /\ reader' = [r \in Readers |-> [reader[r] EXCEPT !.pc = "idle"]]

Handle(r) ==
    \/ GetCached(r) \/ Invalidate(r) \/ LoadFromDb(r) \/ Refill(r)

ReadNext ==
    \/ EngineStep
    \/ \E r \in Readers :
        \/ \E id \in Ids : GetStatus(r, id)
        \/ Handle(r)
        \/ NextRequest(r)

ReadSpec == ReadInit /\ [][ReadNext]_readVars

(***************************************************************************)
(* What must hold                                                          *)
(***************************************************************************)
\* One of the two ways to the report is out of reach of the faults: the cache,
\* or the database behind it.
ReadSurvives ==
    \/ {"redis", "cache", "expire", "corrupt"} \cap Faults = {}
    \/ {"persist", "cache", "dbread"} \cap Faults = {}

\* A request that found its analysis COMPLETED is answered with the report, never
\* with a bare status: not when the cache expires, is corrupt or moves between
\* Redis and the fallback while the handler awaits, nor when saving failed.
CompletedReadsReport ==
    ReadSurvives =>
        \A r \in Readers : reader[r].pc = "answered" =>
            reader[r].answer = "report"

\* Refilling after a cache miss never plants a report for an analysis that is
\* still on its way or failed, whatever happens between the miss and the write:
\* a cached report is that of a completed analysis, or of one that is saving it.
CachedReportsAreFinal ==
    \A id \in redisResults \cup memResults :
        status[id].status = "completed" \/ pc[id] \in {"cache", "lost"}

\* A client that was given the report of an analysis is afterwards given the
\* report again or told that the analysis is unknown: it never sees it undone.
AnswersMoveForward ==
    [][ReadSurvives =>
        \A r \in Readers :
            (reader[r].answer = "report" /\ reader'[r].id = reader[r].id) =>
                reader'[r].answer \in {"report", "not_found"}]_readVars
=============================================================================
