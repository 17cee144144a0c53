--------------------------- MODULE AnalysisWatch ---------------------------
(***************************************************************************)
(* WS /ws/analysis/{id} beside the running pipelines.  Each turn of the    *)
(* handler's loop looks the status up, sends it when its text changed, and *)
(* then decides from the status object, which the pipeline shares and may  *)
(* have changed during the send, whether to stop.                          *)
(***************************************************************************)
EXTENDS Analysis

CONSTANTS
    Watchers,   \* connections open at a time
    MaxTurns    \* turns of the loop within WS_MAX_CONNECTION_DURATION_SECONDS

ASSUME MaxTurnsAssumption == MaxTurns \in Nat

VARIABLE watch      \* the state of each connection

watchVars == <<engineVars, watch>>

WatchPCs == {"off", "poll", "send", "sleep", "closed"}
Reasons == {"none", "done", "not_found", "duration", "dead"}

\* snap: the status being sent; last: last_sent; turns: stands for `elapsed`.
Connection ==
    [pc : WatchPCs, id : Ids, snap : Status, last : Status,
     turns : 0..MaxTurns, reason : Reasons]

Open(id) == [pc |-> "poll", id |-> id, snap |-> NoStatus, last |-> NoStatus,
             turns |-> 0, reason |-> "none"]
Off(id) == [Open(id) EXCEPT !.pc = "off"]

WatchInit == Init /\ \E id \in Ids : watch = [w \in Watchers |-> Off(id)]

CloseWith(w, reason) ==
    watch' = [watch EXCEPT ![w].pc = "closed", ![w].reason = reason]

\* The id need not be known to the server, only well-formed.
Connect(w, id) ==
    /\ watch[w].pc = "off"
    /\ watch' = [watch EXCEPT ![w] = Open(id)]
    /\ UNCHANGED engineVars

PollDuration(w) ==
    /\ watch[w].pc = "poll"
    /\ watch[w].turns = MaxTurns
    /\ CloseWith(w, "duration")
    /\ UNCHANGED engineVars

PollMissing(w) ==
    /\ watch[w].pc = "poll"
    /\ watch[w].turns < MaxTurns
    /\ watch[w].id \notin ToSet(registry)
    /\ CloseWith(w, "not_found")
    /\ UNCHANGED engineVars

\* The end of a turn looks at the live status object, not at the text sent.
EndOfTurn(c) ==
    IF status[c.id].status \in Terminal
    THEN [c EXCEPT !.pc = "closed", !.reason = "done"]
    ELSE [c EXCEPT !.pc = "sleep"]

PollFound(w) ==
    /\ watch[w].pc = "poll"
    /\ watch[w].turns < MaxTurns
    /\ watch[w].id \in ToSet(registry)
    /\ LET c == watch[w]
           s == status[c.id] IN
        watch' = [watch EXCEPT ![w] =
            IF s # c.last THEN [c EXCEPT !.pc = "send", !.snap = s]
            ELSE EndOfTurn(c)]
    /\ registry' = Touch(registry, watch[w].id)
    /\ UNCHANGED <<status, pc, admission, stores>>

\* The await of send_text returns; a slow send eats up the window.
Sent(w) ==
    /\ watch[w].pc = "send"
    /\ \E t \in watch[w].turns..MaxTurns :
        watch' = [watch EXCEPT ![w] =
            EndOfTurn([@ EXCEPT !.last = watch[w].snap, !.turns = t])]
    /\ UNCHANGED engineVars

\* A send or a heartbeat meets a dead client.
Disconnected(w) ==
    /\ watch[w].pc \in {"send", "sleep"}
    /\ CloseWith(w, "dead")
    /\ UNCHANGED engineVars

\* Mutant: the elapsed time is not counted.
SleepUncounted(w) ==
    /\ watch[w].pc = "sleep"
    /\ watch' = [watch EXCEPT ![w].pc = "poll"]
    /\ UNCHANGED engineVars

\* Heartbeat when due, then sleep(0.5).
Sleep(w) ==
    /\ watch[w].pc = "sleep"
    /\ watch' = [watch EXCEPT
            ![w].pc = "poll",
            ![w].turns = IF @ < MaxTurns THEN @ + 1 ELSE @]
    /\ UNCHANGED engineVars

Turn(w) ==
    \/ PollDuration(w) \/ PollMissing(w) \/ PollFound(w)
    \/ Sent(w) \/ Disconnected(w) \/ Sleep(w)

\* A step of the engine; a restart takes the connections with it.
WatchedStep ==
    \/ Work /\ UNCHANGED watch
    \/ Restart /\ watch' = [w \in Watchers |-> Off(watch[w].id)]

\* Nothing left to do for the server or its clients.
WatchQuiescent == Quiescent /\ UNCHANGED watch

WatchNext ==
    \/ WatchedStep
    \/ \E w \in Watchers : Turn(w) \/ \E id \in Ids : Connect(w, id)
    \/ WatchQuiescent

WatchSpec == WatchInit /\ [][WatchNext]_watchVars

\* Sends end, by success or by uvicorn's own keep-alive, and sleeps do too.
WatchFairSpec == WatchSpec /\ \A w \in Watchers : WF_watchVars(Turn(w))

(***************************************************************************)
(* What must hold                                                          *)
(***************************************************************************)
\* What a client was told stays true: a sent status is one the analysis had, so
\* its steps are a prefix of the present ones, its progress is no larger, and a
\* terminal one is the present one in every detail.
ToldIsTrue ==
    \A w \in Watchers :
        LET told == watch[w].last
            now == status[watch[w].id] IN
        /\ IsPrefix(told.steps_completed, now.steps_completed)
        /\ told.progress_pct <= now.progress_pct
        /\ told.status \in Terminal => told = now

\* The race complete() exists for: by the time COMPLETED is on its way to a
\* client, a GET can find the report.
CompletedMessageHasReport ==
    ReportSurvives =>
        \A w \in Watchers : watch[w].snap.status = "completed" =>
            watch[w].id \in redisResults \cup memResults \cup dbResults

\* Every connection is closed: by the end of its analysis, by the duration limit,
\* by a missing status or by its death, so its slot in the limiter comes back.
ConnectionEnds ==
    \A w \in Watchers : watch[w].pc = "poll" ~> watch[w].pc \in {"closed", "off"}

\* "WebSocket endpoint pushing AnalysisStatus updates until completion"
\* (analysis.py:156): a connection closed because the analysis ended has sent the
\* status it ended with.
EndIsPushed ==
    \A w \in Watchers :
        watch[w].reason = "done" => watch[w].last.status \in Terminal
=============================================================================
