----------------------------- MODULE JobService -----------------------------
(***************************************************************************)
(* What the analysis service promises, without saying how: jobs are        *)
(* refused or accepted, a bounded number of accepted jobs run at a time,   *)
(* and a job ends either in success, with a report to show for it, or in   *)
(* failure, with none.                                                     *)
(***************************************************************************)
EXTENDS Integers, FiniteSets

CONSTANTS
    Jobs,       \* the jobs ever requested
    Workers,    \* jobs that may run at a time
    Capacity,   \* accepted jobs that may be unfinished at a time
    Durable     \* whether reports survive until the service forgets the job

VARIABLES
    phase,      \* what the service says of each job
    reports     \* jobs whose report exists

vars == <<phase, reports>>

InPhase(p) == {j \in Jobs : phase[j] = p}

Init ==
    /\ phase = [j \in Jobs |-> "new"]
    /\ reports = {}

Move(j, from, to) ==
    /\ phase[j] = from
    /\ phase' = [phase EXCEPT ![j] = to]

\* A job is refused only when the service is full.
Refuse(j) ==
    /\ Cardinality(InPhase("waiting") \cup InPhase("running")) >= Capacity
    /\ Move(j, "new", "refused")
    /\ UNCHANGED reports

Accept(j) ==
    /\ Cardinality(InPhase("waiting") \cup InPhase("running")) < Capacity
    /\ Move(j, "new", "waiting")
    /\ UNCHANGED reports

Start(j) ==
    /\ Cardinality(InPhase("running")) < Workers
    /\ Move(j, "waiting", "running")
    /\ UNCHANGED reports

\* The report of a running job comes into being before the job succeeds.
WriteReport(j) ==
    /\ phase[j] = "running"
    /\ reports' = reports \cup {j}
    /\ UNCHANGED phase

\* Success needs a report; it may be written in the same step.
Succeed(j) ==
    /\ Move(j, "running", "succeeded")
    /\ reports' \in {reports, reports \cup {j}}
    /\ Durable => j \in reports'

FailJob(j) ==
    /\ j \notin reports
    /\ Move(j, "running", "failed")
    /\ UNCHANGED reports

\* Without durability a report may vanish.
LoseReport(j) ==
    /\ ~Durable
    /\ reports' = reports \ {j}
    /\ UNCHANGED phase

\* The service restarts and forgets its jobs, and the reports it kept itself.
ForgetAll ==
    /\ phase' = [j \in Jobs |-> IF phase[j] = "new" THEN "new" ELSE "forgotten"]
    /\ reports' \in SUBSET reports

Next ==
    \/ \E j \in Jobs :
        \/ Refuse(j) \/ Accept(j) \/ Start(j)
        \/ WriteReport(j) \/ Succeed(j) \/ FailJob(j) \/ LoseReport(j)
    \/ ForgetAll

Spec == Init /\ [][Next]_vars
=============================================================================
