--------------------------- MODULE StreamHistory ---------------------------
(***************************************************************************)
(* TelemetryStream together with what an observer of it remembers: history *)
(* variables that every step extends and no step reads.  They let the      *)
(* properties below relate a step to earlier ones: what has been delivered *)
(* so far, how many frames a stale connection has yielded, how the right   *)
(* to another attempt was earned, how many failures the backoff follows.   *)
(***************************************************************************)
EXTENDS TelemetryStream

VARIABLES
    shown,          \* time of the last block delivered per vehicle and metric
    staleFrames,    \* frames read since the live connection became stale
    mayFetch,       \* a token fetch since the last one is due: see Earned
    failures        \* backoff sleeps since the last frame (or start)

historyVars == <<shown, staleFrames, mayFetch, failures>>
hvars == <<vars, historyVars>>

HInit ==
    /\ Init
    /\ shown = lastTimes
    /\ staleFrames = 0
    /\ mayFetch = FALSE
    /\ failures = 0

-----------------------------------------------------------------------------
(* What a step is, read off its transition.                                *)

Slept == pc = "sleep" /\ pc' = "loop"
Fetch == pc = "loop" /\ pc' = "token"
ChangeSeen == vehicleIds' # vehicleIds
Started == pc' = "created" /\ pc # "created"

\* The consumer's view: what it was shown, without the vehicles it removed.
ShownNext ==
    [v \in Vehicles |->
        IF v \in vehicleIds \ vehicleIds' THEN OpenGate
        ELSE IF Delivery /\ callback'.vehicle = v
             THEN [m \in Metrics |-> IF m \in DOMAIN callback'.telemetry
                                     THEN callback'.telemetry[m] ELSE shown[v][m]]
             ELSE shown[v]]

StaleNext ==
    IF pc' \notin {"read", "frame", "next"} THEN 0
    ELSE IF FrameRead /\ requested # vehicleIds THEN staleFrames + 1
    ELSE staleFrames

\* Another fetch is earned by start(), by a completed backoff sleep, or by a
\* change of the vehicles; a fetch uses it up.
Earned == Started \/ Slept \/ ChangeSeen

MayFetchNext == Earned \/ (mayFetch /\ ~Fetch)

\* Counted up to the length of the ladder, beyond which the delay is constant.
FailuresNext ==
    IF Started \/ FrameRead THEN 0
    ELSE IF Slept /\ failures < BackoffLen THEN failures + 1
    ELSE failures

HNext ==
    /\ Next
    /\ shown' = ShownNext
    /\ staleFrames' = StaleNext
    /\ mayFetch' = MayFetchNext
    /\ failures' = FailuresNext

HSpec == HInit /\ [][HNext]_hvars

-----------------------------------------------------------------------------
(* Properties.                                                             *)

\* Types of the history variables.
HTypeOK ==
    /\ TypeOK
    /\ shown \in [Vehicles -> Gates]
    /\ staleFrames \in Nat
    /\ mayFetch \in BOOLEAN
    /\ failures \in 0..BackoffLen

\* The gate stores exactly what the consumer has been shown: no block ever
\* raises a high-water mark without reaching the consumer, so the gate never
\* drops a later block because of one the consumer has not seen.
\* (_gate_metrics stores before the dispatch, which may be suppressed.)
GateMatchesShown == lastTimes = shown

\* The consumer never sees a metric of a vehicle go back in time, across
\* reconnects, restarts of the stream and changes of the other vehicles.
NoRegression ==
    [][Delivery =>
        LET v == callback'.vehicle IN
        \A m \in DOMAIN callback'.telemetry :
            \/ callback'.telemetry[m] = NoTime
            \/ shown[v][m] = NoTime
            \/ callback'.telemetry[m] >= shown[v][m]]_hvars

\* Nothing that is not a regression is withheld: of a handled frame every
\* block that is time-less, equally old or newer than what the consumer was
\* last shown is delivered.  (The backfill of reconnect snapshots.)
NothingWithheld ==
    [][pc = "frame" /\ pc' = "next" /\ frame.vehicle \in vehicleIds =>
        \A m \in DOMAIN frame.blocks :
            \/ /\ frame.blocks[m] # NoTime
               /\ shown[frame.vehicle][m] # NoTime
               /\ frame.blocks[m] < shown[frame.vehicle][m]
            \/ Delivery /\ m \in DOMAIN callback'.telemetry]_hvars

\* After a change of the vehicles at most one more frame is read from the
\* connection opened for the old ones: the one that was already on its way.
OneFrameAfterChange == staleFrames <= 1

\* The server is never asked again for free: every token fetch after the first
\* was preceded by a backoff sleep of its own or by a change of the vehicles.
\* In particular a change already served, or a stale flag, skips no backoff.
NoFreeRetries == [][Fetch => mayFetch]_hvars

\* The backoff follows the failures: the delay slept is that of the number of
\* sleeps since the last frame, capped at the end of the ladder.
LadderFollows ==
    pc = "sleep" => delayIdx = IF failures < BackoffLen THEN failures ELSE BackoffLen - 1
=============================================================================
