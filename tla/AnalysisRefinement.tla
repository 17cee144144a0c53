------------------------- MODULE AnalysisRefinement -------------------------
(***************************************************************************)
(* The pipeline and its admission control implement JobService: the six    *)
(* steps, the registry and the queue are how, the job's phase and its      *)
(* report are what.                                                        *)
(***************************************************************************)
EXTENDS Analysis

Phase(id) ==
    CASE pc[id] = "unused" -> "new"
      [] pc[id] = "rejected" -> "refused"
      [] pc[id] = "queued" -> "waiting"
      [] pc[id] \in Running -> "running"
      [] pc[id] = "lost" -> "forgotten"
      [] pc[id] = "finished" ->
            IF status[id].status = "completed" THEN "succeeded" ELSE "failed"

Service == INSTANCE JobService WITH
    Jobs <- Ids,
    Workers <- MaxConcurrent,
    Capacity <- MaxBackground,
    Durable <- ReportSurvives,
    phase <- [id \in Ids |-> Phase(id)],
    reports <- redisResults \cup memResults \cup dbResults

\* The service the code provides is the one JobService describes: it refuses only
\* when full, never runs more than its limit, succeeds only with a report that
\* then stays, and fails only without one.
ImplementsJobService == Service!Spec
=============================================================================
