---------------------------- MODULE HistoryProofs ----------------------------
(***************************************************************************)
(* What the consumer can rely on, for any vehicles, metrics, times, ladder  *)
(* and callers.  What the gate has stored is what the consumer has been     *)
(* shown; that nothing regresses and nothing is withheld follows from the   *)
(* rule of the gate for one block.                                          *)
(***************************************************************************)
EXTENDS StreamRefinement, StopProofs

\* A history step is a step of the stream or leaves its variables alone.
LEMMA HistoryStep ==
    ASSUME [HNext]_hvars
    PROVE  [Next]_vars
  BY DEF HNext, hvars

LEMMA HistoryImplements == HSpec => Spec
  <1>1. HInit => Init
    BY DEF HInit
  <1>2. [HNext]_hvars => [Next]_vars
    BY HistoryStep
  <1> QED
    BY <1>1, <1>2, PTL DEF HSpec, Spec

\* What the observer's step adds to the gate's: the same blocks.
LEMMA ShownStep ==
    ASSUME TypeInv, CancelInv, GateMatchesShown, [HNext]_hvars
    PROVE  GateMatchesShown'
  <1>1. lastTimes = shown /\ lastTimes \in [Vehicles -> Gates] /\ [Next]_vars
    BY HistoryStep DEF GateMatchesShown, TypeInv, TypeOK
  <1>2. CASE UNCHANGED hvars
    BY <1>1, <1>2 DEF hvars, historyVars, vars, sharedVars, GateMatchesShown
  <1>3. CASE HNext
    <2>1. shown' = ShownNext
      BY <1>3 DEF HNext
    <2>2. CASE HandleFrame
      <3> DEFINE v == frame.vehicle
                 b == ClampFutureTimes(frame.blocks, now)
                 t == Adopted(lastTimes[v], b)
                 Merged == [m \in Metrics |-> IF m \in DOMAIN t THEN t[m] ELSE shown[v][m]]
      <3>1. /\ v \in Vehicles /\ b \in Blocks /\ lastTimes[v] \in Gates
            /\ vehicleIds' = vehicleIds
            /\ v \notin vehicleIds => lastTimes' = lastTimes /\ ~Delivery
            /\ v \in vehicleIds =>
                  /\ lastTimes' = [lastTimes EXCEPT ![v] = GateAfter(lastTimes[v], b)]
                  /\ DOMAIN t = {} => ~Delivery
                  /\ DOMAIN t # {} => /\ Delivery /\ callback'.vehicle = v
                                      /\ callback'.telemetry = t
        BY <2>2, HandleFrameFacts
      <3>2. /\ DOMAIN t = {m \in DOMAIN b : Adopts(lastTimes[v][m], b[m])}
            /\ \A m \in DOMAIN t : t[m] = b[m]
        BY <3>1, AdoptedType
      <3>3. GateAfter(lastTimes[v], b) = Merged
        <4>1. GateAfter(lastTimes[v], b) \in [Metrics -> Stamps]
          BY <3>1, GateAfterType DEF Gates
        <4>2. \A m \in Metrics : GateAfter(lastTimes[v], b)[m] = Merged[m]
          BY <1>1, <3>1, <3>2, GateAfterType
        <4> QED
          BY <4>1, <4>2
      <3>4. DOMAIN t = {} => Merged = shown[v]
        BY <1>1, <3>1 DEF Gates
      <3>5. shown' = [w \in Vehicles |->
                IF Delivery /\ callback'.vehicle = w
                THEN [m \in Metrics |-> IF m \in DOMAIN callback'.telemetry
                                        THEN callback'.telemetry[m] ELSE shown[w][m]]
                ELSE shown[w]]
        BY <2>1, <3>1 DEF ShownNext
      <3>6. CASE v \notin vehicleIds \/ DOMAIN t = {}
        <4>1. lastTimes' = lastTimes /\ ~Delivery
          BY <1>1, <3>1, <3>3, <3>4, <3>6
        <4> QED
          BY <1>1, <3>5, <4>1 DEF GateMatchesShown
      <3>7. CASE v \in vehicleIds /\ DOMAIN t # {}
        <4>1. Delivery /\ callback'.vehicle = v /\ callback'.telemetry = t
          BY <3>1, <3>7
        <4>2. \A w \in Vehicles : shown'[w] = IF w = v THEN Merged ELSE shown[w]
          BY <3>5, <4>1
        <4>3. lastTimes' = [lastTimes EXCEPT ![v] = Merged]
          BY <3>1, <3>3, <3>7
        <4>4. \A w \in Vehicles : lastTimes'[w] = shown'[w]
          BY <1>1, <4>2, <4>3
        <4> HIDE DEF Merged
        <4>5. DOMAIN shown' = Vehicles /\ shown' = [w \in DOMAIN shown' |-> shown'[w]]
          BY <3>5
        <4>6. lastTimes' = [w \in Vehicles |-> lastTimes'[w]]
          BY <1>1, <4>3
        <4> QED
          BY <4>4, <4>5, <4>6 DEF GateMatchesShown
      <3> QED
        BY <3>6, <3>7
    <2>3. CASE ~HandleFrame
      <3>1. ~Delivery
        BY <1>1, <2>3, OnlyHandleFrameDelivers
      <3>2. shown' = [v \in Vehicles |-> IF v \in vehicleIds \ vehicleIds' THEN OpenGate
                                         ELSE shown[v]]
        BY <2>1, <3>1 DEF ShownNext
      <3>3. CASE UNCHANGED <<lastTimes, vehicleIds>>
        BY <1>1, <3>2, <3>3 DEF GateMatchesShown
      <3>4. CASE \E ids \in SUBSET Vehicles : SetVehicleIds(ids)
        <4>1. lastTimes' = WithoutGates(lastTimes, vehicleIds \ vehicleIds')
          BY <3>4 DEF SetVehicleIds
        <4> QED
          BY <1>1, <3>2, <4>1 DEF WithoutGates, GateMatchesShown
      <3> QED
        BY <1>1, <2>3, <3>3, <3>4, GateUntouched
    <2> QED
      BY <2>2, <2>3
  <1> QED
    BY <1>2, <1>3

\* The gate stores exactly what the consumer has been shown.
THEOREM GateIsWhatWasShown == HSpec => []GateMatchesShown
  <1>1. HInit => GateMatchesShown
    BY DEF HInit, GateMatchesShown
  <1> QED
    BY <1>1, TypeInvariant, ShownStep, CancelInvariant, HistoryImplements, PTL DEF HSpec

-----------------------------------------------------------------------------
\* The consumer never sees a metric of a vehicle go back in time.
THEOREM NeverRegresses == HSpec => NoRegression
  <1> DEFINE Forward ==
        LET v == callback'.vehicle IN
        \A m \in DOMAIN callback'.telemetry :
            \/ callback'.telemetry[m] = NoTime
            \/ shown[v][m] = NoTime
            \/ callback'.telemetry[m] >= shown[v][m]
  <1>1. ASSUME TypeInv, CancelInv, GateMatchesShown, [HNext]_hvars, Delivery
        PROVE  Forward
    <2> DEFINE v == frame.vehicle
               b == ClampFutureTimes(frame.blocks, now)
               t == Adopted(lastTimes[v], b)
    <2>1. HandleFrame
      BY <1>1, HistoryStep, OnlyHandleFrameDelivers
    <2>2. /\ b \in Blocks /\ lastTimes[v] \in Gates
          /\ callback'.vehicle = v /\ callback'.telemetry = t
      BY <1>1, <2>1, HandleFrameFacts
    <2>3. \A m \in DOMAIN t : t[m] = b[m] /\ Adopts(lastTimes[v][m], b[m])
      BY <2>2, AdoptedType
    <2> QED
      BY <1>1, <2>2, <2>3 DEF Adopts, GateMatchesShown
  <1> HIDE DEF Forward
  <1>2. TypeInv /\ CancelInv /\ GateMatchesShown /\ [HNext]_hvars => [Delivery => Forward]_hvars
    BY <1>1
  <1>4. HSpec => [][Delivery => Forward]_hvars
    BY <1>2, TypeInvariant, GateIsWhatWasShown, CancelInvariant, HistoryImplements, PTL DEF HSpec
  <1> QED
    BY <1>4 DEF Forward, NoRegression

\* Nothing that is not a regression is withheld: clamping could push a block
\* below a stored time only if that time lay in the future.
THEOREM NeverWithholds == HSpec => NothingWithheld
  <1> DEFINE Handled == pc = "frame" /\ pc' = "next" /\ frame.vehicle \in vehicleIds
             Kept == \A m \in DOMAIN frame.blocks :
                        \/ /\ frame.blocks[m] # NoTime
                           /\ shown[frame.vehicle][m] # NoTime
                           /\ frame.blocks[m] < shown[frame.vehicle][m]
                        \/ Delivery /\ m \in DOMAIN callback'.telemetry
  <1>1. ASSUME TypeInv, CancelInv, GateMatchesShown, HighWaterReachable, [HNext]_hvars, Handled
        PROVE  Kept
    <2> DEFINE v == frame.vehicle
               b == ClampFutureTimes(frame.blocks, now)
               t == Adopted(lastTimes[v], b)
    <2>1. HandleFrame
      BY <1>1, HistoryStep, OnlyHandleFrameHandles
    <2>2. /\ v \in Vehicles /\ frame.blocks \in Blocks /\ b \in Blocks /\ lastTimes[v] \in Gates
          /\ DOMAIN t # {} => Delivery /\ callback'.telemetry = t
      BY <1>1, <2>1, HandleFrameFacts
    <2>3. now \in Times
      BY <1>1 DEF TypeInv, TypeOK
    <2>4. SUFFICES ASSUME NEW m \in DOMAIN frame.blocks,
                          ~(Delivery /\ m \in DOMAIN callback'.telemetry)
                   PROVE  /\ frame.blocks[m] # NoTime
                          /\ lastTimes[v][m] # NoTime
                          /\ frame.blocks[m] < lastTimes[v][m]
      BY <1>1 DEF GateMatchesShown
    <2>5. /\ m \in DOMAIN b /\ b[m] = ClampTime(frame.blocks[m], now)
          /\ m \in Metrics /\ frame.blocks[m] \in Stamps /\ lastTimes[v][m] \in Stamps
      BY <2>2, <2>3, <2>4, ClampFutureTimesType, BlocksElim DEF Gates
    <2>6. ~Adopts(lastTimes[v][m], b[m])
      BY <2>2, <2>4, <2>5, AdoptedType, ZenonT(60)
    <2>7. lastTimes[v][m] # NoTime => lastTimes[v][m] <= now
      BY <1>1, <2>2, <2>5 DEF HighWaterReachable
    <2> QED
      BY <2>3, <2>5, <2>6, <2>7, MaxTimeAssumption DEF Adopts, ClampTime, Stamps, Times
  <1> HIDE DEF Handled, Kept
  <1>2. TypeInv /\ CancelInv /\ GateMatchesShown /\ HighWaterReachable /\ [HNext]_hvars
            => [Handled => Kept]_hvars
    BY <1>1
  <1>4. HSpec => [][Handled => Kept]_hvars
    BY <1>2, TypeInvariant, GateIsWhatWasShown, HighWater, CancelInvariant, HistoryImplements, PTL DEF HSpec
  <1> QED
    BY <1>4 DEF Handled, Kept, NothingWithheld

-----------------------------------------------------------------------------
(* Attempts, fetches and the ladder.                                       *)

\* What has been seen of an attempt: frames, only while it lasts.
FrameSeen ==
    /\ sawFrame => pc \in {"read", "frame", "next", "close", "ended"}
    /\ pc \in {"frame", "next"} => sawFrame

\* A flagged change, a new task and, with vehicles, the top of the loop have
\* earned a fetch.
FetchEarned ==
    /\ idsChanged => mayFetch
    /\ pc = "created" => mayFetch
    /\ pc = "loop" => mayFetch \/ vehicleIds = {}

\* The ladder stands at the failures so far, or is about to be reset.
DelayAfter(n) == IF n < BackoffLen THEN n ELSE BackoffLen - 1

LadderKept ==
    /\ pc \notin Live => delayIdx = 0
    /\ pc \in Live => IF sawFrame THEN failures = 0 ELSE delayIdx = DelayAfter(failures)

\* A stale frame has been read under a flagged change, which ends the attempt
\* before the next read.
StaleOnce ==
    /\ staleFrames = 0 \/ staleFrames = 1
    /\ staleFrames = 1 => pc \in {"frame", "next"} /\ idsChanged

HistoryInv ==
    /\ staleFrames \in Nat /\ mayFetch \in BOOLEAN /\ failures \in 0..BackoffLen
    /\ FrameSeen /\ FetchEarned /\ LadderKept /\ StaleOnce

\* What the ladder does, it does to the delay of the failures.
LEMMA LadderFacts ==
    ASSUME NEW n \in 0..BackoffLen
    PROVE  /\ DelayAfter(0) = 0
           /\ n < BackoffLen => n + 1 \in 0..BackoffLen /\ NextDelay(DelayAfter(n)) = DelayAfter(n + 1)
           /\ ~(n < BackoffLen) => NextDelay(DelayAfter(n)) = DelayAfter(n)
  BY BackoffAssumption DEF DelayAfter, NextDelay

\* A step that no fetch, no frame, no sleep and no start is part of.
LEMMA PlainStep ==
    ASSUME HistoryInv, HNext,
           ~Slept, ~Fetch, ~Started, ~FrameRead
    PROVE  /\ failures' = failures
           /\ staleFrames' = IF pc' \in {"read", "frame", "next"} THEN staleFrames ELSE 0
           /\ mayFetch' = (mayFetch \/ ChangeSeen)
  BY DEF HNext, FailuresNext, StaleNext, MayFetchNext, Earned, HistoryInv

LEMMA HistoryInvStep ==
    ASSUME TypeInv, SubscriptionInv, HistoryInv, HNext
    PROVE  HistoryInv'
  <1> USE DEF HistoryInv, FrameSeen, FetchEarned, LadderKept, StaleOnce, TypeInv, TypeOK, At,
              Resumes, LoopFree, Live, Suspended, Running, Slept, Fetch, Started, FrameRead,
              ChangeSeen
  <1>1. /\ Next /\ shown' = ShownNext
        /\ staleFrames' = StaleNext /\ mayFetch' = MayFetchNext /\ failures' = FailuresNext
        /\ DelayAfter(0) = 0 /\ 0 \in 0..BackoffLen
    BY BackoffAssumption DEF HNext, DelayAfter
  <1>2. CASE UNCHANGED <<pc, delayIdx, sawFrame, idsChanged, vehicleIds>>
    BY <1>2, PlainStep
  <1>3. ASSUME NEW ids \in SUBSET Vehicles, SetVehicleIds(ids)
        PROVE  HistoryInv'
    BY <1>1, <1>3, PlainStep DEF SetVehicleIds, FlagAfterChange, taskVars, MayFetchNext, Earned
  <1>4. CASE Start
    BY <1>1, <1>4 DEF Start, attemptVars, sharedVars, MayFetchNext, Earned, StaleNext, FailuresNext
  <1>5. CASE TaskStarts \/ IdleWakes \/ TokenWithoutVehicles
    BY <1>5, PlainStep DEF TaskStarts, IdleWakes, TokenWithoutVehicles, attemptVars, sharedVars
  <1>6. CASE LoopTop
    BY <1>1, <1>6 DEF LoopTop, attemptVars, MayFetchNext, Earned, StaleNext, FailuresNext
  <1>7. CASE ConnectOnce
    BY <1>7, PlainStep DEF ConnectOnce
  <1>8. CASE TokenRejected \/ TokenFails \/ StreamRejected
    BY <1>8, PlainStep DEF TokenRejected, TokenFails, GetterRaises, StreamRejected, attemptVars, sharedVars
  <1>9. CASE Disconnected
    BY <1>1, <1>9, PlainStep DEF Disconnected, LadderAfter, sharedVars
  <1>10. CASE SleepElapses
    <2>1. /\ staleFrames' = 0 /\ mayFetch' = TRUE
          /\ failures' = IF failures < BackoffLen THEN failures + 1 ELSE failures
      BY <1>1, <1>10 DEF SleepElapses, MayFetchNext, Earned, StaleNext, FailuresNext
    <2>2. ~sawFrame /\ delayIdx = DelayAfter(failures) /\ delayIdx' = NextDelay(delayIdx)
      BY <1>10 DEF SleepElapses
    <2> HIDE DEF HistoryInv
    <2>3. failures' \in 0..BackoffLen /\ delayIdx' = DelayAfter(failures')
      BY <2>1, <2>2, LadderFacts DEF HistoryInv
    <2> QED
      BY <1>10, <2>1, <2>2, <2>3 DEF SleepElapses, HistoryInv
  <1>11. ASSUME NEW f \in Frames, FrameArrives(f)
         PROVE  HistoryInv'
    <2>1. /\ failures' = 0 /\ mayFetch' = mayFetch
          /\ staleFrames' = IF requested # vehicleIds THEN 1 ELSE 0
      BY <1>1, <1>11 DEF FrameArrives, sharedVars, MayFetchNext, Earned, StaleNext, FailuresNext
    <2>2. requested # vehicleIds => idsChanged
      BY <1>11 DEF FrameArrives, SubscriptionInv, SubscriptionFresh
    <2> QED
      BY <1>1, <1>11, <2>1, <2>2 DEF FrameArrives, sharedVars
  <1>12. CASE HandleFrame \/ FrameRaises \/ NextAnext
    BY <1>12, PlainStep DEF HandleFrame, FrameRaises, NextAnext, ChangeSeenHere, sharedVars
  <1>13. CASE \/ StreamEnds("stream_closed") \/ StreamEnds("error") \/ ReadTimesOut
              \/ ReadMasked("iterator", "stream_closed") \/ ReadMasked("teardown", "error")
    BY <1>13, PlainStep DEF StreamEnds, ReadTimesOut, ReadMasked, EndAttempt, sharedVars
  <1>14. ASSUME NEW how, Finish(how), UNCHANGED sharedVars, pc # "done"
         PROVE  HistoryInv'
    BY <1>14, PlainStep DEF Finish, sharedVars
  <1>15. CASE TaskCancelled \/ TokenCancelled \/ TaskReturns \/ StreamBug
    BY <1>14, <1>15 DEF TaskCancelled, TokenCancelled, TaskReturns, StreamBug
  <1>16. CASE Pause
    <2>1. CASE CancelMasked
      BY <1>14, <1>16, <2>1 DEF Pause
    <2>2. CASE ~CancelMasked
      BY <1>16, <2>2, PlainStep DEF Pause, attemptVars, sharedVars
    <2> QED
      BY <2>1, <2>2
  <1>17. CASE CloseReturns
    <2>1. CASE outcome = "bug"
      BY <1>14, <1>17, <2>1 DEF CloseReturns
    <2>2. CASE outcome # "bug"
      BY <1>17, <2>2, PlainStep DEF CloseReturns, attemptVars, sharedVars
    <2> QED
      BY <2>1, <2>2
  <1>18. CASE \/ StartIgnored \/ Tick \/ CallbackReturns \/ Tripwire
              \/ WatchdogExpires("armed") \/ WatchdogExpires("soon")
              \/ \E c \in Callers, mode \in CallerModes : Stop(c, mode)
              \/ \E c \in Callers : CallerCancelled(c) \/ StopReturns(c)
    <2>1. UNCHANGED <<pc, delayIdx, sawFrame, idsChanged, vehicleIds>>
      BY <1>18 DEF StartIgnored, Tick, CallbackReturns, Tripwire, WatchdogExpires, Stop,
            CallerCancelled, StopReturns, taskVars, attemptVars, sharedVars
    <2> QED
      BY <1>2, <2>1
  <1>19. CASE Consumer
    BY <1>19, <1>3, <1>4, <1>18 DEF Consumer
  <1>20. CASE World
    BY <1>20, <1>5, <1>7, <1>8, <1>11, <1>12, <1>13, <1>15, <1>18 DEF World
  <1>21. CASE TaskStep
    BY <1>21, <1>5, <1>6, <1>9, <1>12, <1>13, <1>15, <1>16 DEF TaskStep
  <1> QED
    BY <1>1, <1>10, <1>17, <1>18, <1>19, <1>20, <1>21 DEF Next

LEMMA HistoryInvariant == HSpec => []HistoryInv
  <1>1. HInit => HistoryInv
    <2> SUFFICES ASSUME HInit PROVE HistoryInv
      OBVIOUS
    <2>1. /\ pc = "none" /\ sawFrame = FALSE /\ idsChanged = FALSE /\ delayIdx = 0
          /\ staleFrames = 0 /\ mayFetch = FALSE /\ failures = 0
      BY DEF HInit, Init
    <2>2. 0 \in 0..BackoffLen /\ pc \notin Live
      BY <2>1, BackoffAssumption DEF Live
    <2>3. FrameSeen
      BY <2>1 DEF FrameSeen
    <2>4. FetchEarned
      BY <2>1 DEF FetchEarned
    <2>5. LadderKept
      BY <2>1, <2>2 DEF LadderKept
    <2>6. StaleOnce
      BY <2>1 DEF StaleOnce
    <2> QED
      BY <2>1, <2>2, <2>3, <2>4, <2>5, <2>6 DEF HistoryInv
  <1>2. TypeInv /\ SubscriptionInv /\ HistoryInv /\ [HNext]_hvars => HistoryInv'
    <2>1. CASE UNCHANGED hvars
      BY <2>1 DEF hvars, historyVars, vars, taskVars, attemptVars, sharedVars, HistoryInv,
                  FrameSeen, FetchEarned, LadderKept, StaleOnce
    <2> QED
      BY <2>1, HistoryInvStep
  <1> QED
    BY <1>1, <1>2, HistoryImplements, TypeInvariant, SubscriptionInvariant, PTL DEF HSpec

\* The types of what the observer remembers.
THEOREM HistoryTypeCorrect == HSpec => []HTypeOK
  <1>1. TypeInv /\ GateMatchesShown /\ HistoryInv => HTypeOK
    BY DEF TypeInv, TypeOK, GateMatchesShown, HistoryInv, HTypeOK
  <1> QED
    BY <1>1, HistoryImplements, TypeInvariant, GateIsWhatWasShown, HistoryInvariant, PTL

\* At most one more frame is read from a connection for the old vehicles.
THEOREM OneStaleFrame == HSpec => []OneFrameAfterChange
  <1>1. HistoryInv => OneFrameAfterChange
    BY DEF HistoryInv, StaleOnce, OneFrameAfterChange
  <1> QED
    BY <1>1, HistoryInvariant, PTL

LEMMA FetchIsLoopTop ==
    ASSUME Next, Fetch
    PROVE  LoopTop
  <1> USE DEF Fetch, taskVars, At, Resumes, LoopFree, Suspended, Running, Live
  <1>1. CASE Consumer
    BY <1>1 DEF Consumer, Start, StartIgnored, Stop, CallerCancelled, SetVehicleIds
  <1>2. CASE World
    BY <1>2 DEF World, TokenWithoutVehicles, ConnectOnce, TokenRejected, TokenFails, GetterRaises,
         TokenCancelled, FrameArrives, FrameRaises, StreamEnds, StreamRejected, StreamBug, Tick
  <1>3. CASE TaskStep
    BY <1>3 DEF TaskStep, TaskStarts, IdleWakes, TaskCancelled, HandleFrame, NextAnext,
         ReadTimesOut, ReadMasked, Disconnected, Pause, TaskReturns
  <1>4. CASE \/ CallbackReturns \/ Tripwire \/ CloseReturns \/ SleepElapses
             \/ WatchdogExpires("armed") \/ WatchdogExpires("soon")
             \/ \E c \in Callers : StopReturns(c)
    BY <1>4 DEF CallbackReturns, Tripwire, CloseReturns, SleepElapses, WatchdogExpires, StopReturns
  <1> QED
    BY <1>1, <1>2, <1>3, <1>4 DEF Next

\* No token is fetched that start(), a backoff or a change has not earned.
THEOREM RetriesAreEarned == HSpec => NoFreeRetries
  <1>1. ASSUME HistoryInv, [HNext]_hvars, Fetch PROVE mayFetch
    <2>1. vehicleIds # {}
      <3>1. Next
        BY <1>1 DEF HNext, hvars, vars, taskVars, Fetch
      <3>2. LoopTop
        BY <1>1, <3>1, FetchIsLoopTop
      <3> QED
        BY <1>1, <3>2 DEF LoopTop, Fetch
    <2> QED
      BY <1>1, <2>1 DEF HistoryInv, FetchEarned, Fetch
  <1>2. HistoryInv /\ [HNext]_hvars => [Fetch => mayFetch]_hvars
    BY <1>1
  <1> QED
    BY <1>2, HistoryInvariant, PTL DEF HSpec, NoFreeRetries

\* The delay slept is the one the failures since the last frame call for.
THEOREM LadderIsFollowed == HSpec => []LadderFollows
  <1>1. HistoryInv => LadderFollows
    BY DEF HistoryInv, FrameSeen, LadderKept, DelayAfter, LadderFollows, Live, Suspended, Running
  <1> QED
    BY <1>1, HistoryInvariant, PTL

-----------------------------------------------------------------------------
(* The stream implements its contract, for a getter that does not raise     *)
(* CancelledError.                                                          *)

\* What the consumer heard last, as long as the stream has not been stopped,
\* tells whether its connection is up; refused credentials end the task.
HeardInv ==
    /\ ~stopped /\ pc \in Live =>
            /\ heard = "CONNECTED" <=> sawFrame
            /\ heard = "AUTH_FAILED" => pc = "return"
    /\ ~stopped /\ tripwire => heard # "AUTH_FAILED"

\* On a stopped stream nothing is emitted, on another one it is.
LEMMA EmitFacts ==
    ASSUME NEW s, NEW r, Emit(s, r)
    PROVE  /\ stopped => UNCHANGED <<callback, heard>>
           /\ ~stopped => callback' = Event(s, r) /\ heard' = s
  BY DEF Emit, Dispatch

LEMMA HeardInvStep ==
    ASSUME TypeInv, CancelInv, DeathInv, HistoryInv, HeardInv, Next
    PROVE  HeardInv'
  <1> USE DEF HeardInv, TypeInv, TypeOK, At, Resumes, LoopFree, Live, Suspended, Running,
              HistoryInv, FrameSeen, DeathInv, TripwireSoon
  <1>1. CASE Start
    BY <1>1 DEF Start, attemptVars
  <1>2. CASE \/ StartIgnored \/ Tick \/ CallbackReturns
             \/ \E ids \in SUBSET Vehicles : SetVehicleIds(ids)
             \/ WatchdogExpires("armed") \/ WatchdogExpires("soon")
             \/ \E c \in Callers : CallerCancelled(c) \/ StopReturns(c)
    <2>1. UNCHANGED <<pc, sawFrame, heard, stopped, tripwire>>
      BY <1>2 DEF StartIgnored, Tick, CallbackReturns, SetVehicleIds, WatchdogExpires,
            CallerCancelled, StopReturns, taskVars, attemptVars, consumerVars, callerVars
    <2> QED
      BY <2>1
  <1>3. CASE \E c \in Callers, mode \in CallerModes : Stop(c, mode)
    BY <1>3 DEF Stop
  <1>4. CASE Tripwire
    BY <1>4, EmitFacts DEF Tripwire, attemptVars, callerVars
  <1>5. CASE \/ TaskStarts \/ LoopTop \/ IdleWakes \/ TokenWithoutVehicles \/ ConnectOnce
             \/ TokenFails \/ SleepElapses
    BY <1>5 DEF TaskStarts, LoopTop, IdleWakes, TokenWithoutVehicles, ConnectOnce, TokenFails, GetterRaises,
                SleepElapses, attemptVars, consumerVars, callerVars
  <1>6. CASE TokenRejected \/ StreamRejected
    BY <1>6, EmitFacts DEF TokenRejected, GetterRaises, StreamRejected, attemptVars, callerVars
  <1>7. CASE Disconnected
    BY <1>7, EmitFacts DEF Disconnected, callerVars
  <1>8. ASSUME NEW f \in Frames, FrameArrives(f)
        PROVE  HeardInv'
    BY <1>8, EmitFacts DEF FrameArrives, consumerVars, callerVars
  <1>9. CASE \/ HandleFrame \/ FrameRaises \/ NextAnext
             \/ StreamEnds("stream_closed") \/ StreamEnds("error") \/ ReadTimesOut
             \/ ReadMasked("iterator", "stream_closed") \/ ReadMasked("teardown", "error")
    <2>1. /\ pc \in {"read", "frame", "next"} /\ pc' \in Live
          /\ UNCHANGED <<sawFrame, heard, stopped, tripwire>>
      BY <1>9 DEF HandleFrame, FrameRaises, NextAnext, StreamEnds, ReadTimesOut, ReadMasked,
            EndAttempt, consumerVars, callerVars
    <2> QED
      BY <2>1
  <1>10. ASSUME NEW how, Finish(how), pc \in Live, UNCHANGED <<consumerVars, stopped>>,
                pc # "return" \/ how # "failed"
         PROVE  HeardInv'
    BY <1>10 DEF Finish, TripwireDue, consumerVars
  <1>11. CASE TaskCancelled \/ TokenCancelled \/ TaskReturns \/ StreamBug
    BY <1>10, <1>11 DEF TaskCancelled, TokenCancelled, TaskReturns, StreamBug
  <1>12. CASE Pause
    <2>1. CASE CancelMasked
      BY <1>10, <1>12, <2>1 DEF Pause
    <2>2. CASE ~CancelMasked
      BY <1>12, <2>2 DEF Pause, attemptVars, consumerVars
    <2> QED
      BY <2>1, <2>2
  <1>13. CASE CloseReturns
    <2>1. CASE outcome = "bug"
      BY <1>10, <1>13, <2>1 DEF CloseReturns
    <2>2. CASE outcome # "bug"
      BY <1>13, <2>2 DEF CloseReturns, attemptVars, consumerVars
    <2> QED
      BY <2>1, <2>2
  <1>14. CASE Consumer
    BY <1>14, <1>1, <1>2, <1>3 DEF Consumer
  <1>15. CASE World
    BY <1>15, <1>2, <1>5, <1>6, <1>8, <1>9, <1>11 DEF World
  <1>16. CASE TaskStep
    BY <1>16, <1>5, <1>7, <1>9, <1>11, <1>12 DEF TaskStep
  <1> QED
    BY <1>2, <1>4, <1>5, <1>13, <1>14, <1>15, <1>16 DEF Next

\* Filtering what the gate has let through lets it through again.
LEMMA AdoptedTwice ==
    ASSUME NEW g \in Gates, NEW b \in Blocks
    PROVE  LET t == Adopted(g, b)
           IN Adopted(g, t) = t /\ GateAfter(g, t) = GateAfter(g, b)
  <1> DEFINE t == Adopted(g, b)
  <1>1. /\ t \in Blocks /\ DOMAIN t = {m \in DOMAIN b : Adopts(g[m], b[m])}
        /\ \A m \in DOMAIN t : t[m] = b[m]
        /\ t = [m \in DOMAIN t |-> t[m]]
    BY AdoptedType DEF Adopted
  <1> HIDE DEF t
  <1>2. \A m \in DOMAIN t : Adopts(g[m], t[m])
    BY <1>1
  <1>3. Adopted(g, t) = t
    <2>1. {m \in DOMAIN t : Adopts(g[m], t[m])} = DOMAIN t
      BY <1>2
    <2>2. Adopted(g, t) = [m \in DOMAIN t |-> t[m]]
      BY <2>1 DEF Adopted
    <2> QED
      BY <1>1, <2>2
  <1>4. GateAfter(g, t) = GateAfter(g, b)
    <2>1. GateAfter(g, t) \in [Metrics -> Stamps] /\ GateAfter(g, b) \in [Metrics -> Stamps]
      BY <1>1, GateAfterType DEF Gates
    <2>2. \A m \in Metrics : GateAfter(g, t)[m] = GateAfter(g, b)[m]
      BY <1>1, <1>2, GateAfterType
    <2> QED
      BY <2>1, <2>2
  <1> QED
    BY <1>3, <1>4 DEF t

RefinementInv ==
    TypeInv /\ StopInv /\ CancelInv /\ DeathInv /\ HistoryInv /\ HeardInv /\ GateMatchesShown

\* Where the phase comes from.
LEMMA PhaseFacts ==
    ASSUME RefinementInv
    PROVE  /\ stopped => Phase = "off"
           /\ ~stopped /\ pc \in Live \ {"return"} => Phase = IF sawFrame THEN "up" ELSE "down"
           /\ pc = "return" => Phase = "off"
           /\ ~stopped /\ tripwire => Phase \in {"up", "down"}
  BY DEF RefinementInv, HeardInv, DeathInv, TripwireSoon, ReturnReported, Over, Phase, Live,
         Suspended, Running, TypeInv, TypeOK, HistoryInv, FrameSeen

LEMMA Stutters ==
    ASSUME GateMatchesShown, GateMatchesShown', Phase' = Phase,
           UNCHANGED <<lastCall, callback, vehicleIds, lastTimes>>
    PROVE  UNCHANGED Contract!vars
  BY DEF Contract!vars, GateMatchesShown

LEMMA RefinementStep ==
    ASSUME RefinementInv, RefinementInv', Next, GetterCancels = FALSE
    PROVE  Contract!Next \/ UNCHANGED Contract!vars
  <1> USE DEF At, Resumes, LoopFree
  <1> DEFINE Good == Contract!Next \/ UNCHANGED Contract!vars
  <1> SUFFICES Good
    OBVIOUS
  <1>1. /\ TypeInv /\ StopInv /\ CancelInv /\ DeathInv /\ HistoryInv /\ HeardInv
        /\ GateMatchesShown /\ GateMatchesShown' /\ lastTimes = shown /\ lastTimes' = shown'
    BY DEF RefinementInv, GateMatchesShown
  <1>2. Contract!Silent = NoCallback /\ \A s, r : Contract!Event(s, r) = Event(s, r)
    BY DEF Contract!Silent, NoCallback, Contract!Event, Event
  \* A step of the task that the consumer does not notice.
  <1>3. ASSUME UNCHANGED <<callback, heard, stopped, lastCall, vehicleIds, lastTimes>>,
               \/ UNCHANGED <<pc, tripwire>>
               \/ pc \in Live /\ pc' \in Live
        PROVE  Good
    <2>1. Phase' = Phase
      BY <1>3 DEF Phase, Over, Live
    <2> QED
      BY <1>1, <1>3, <2>1, Stutters
  \* The end of a task.
  <1>4. ASSUME NEW how, Finish(how), pc \in Live, pc # "return" \/ how # "failed",
               UNCHANGED <<sharedVars, consumerVars, stopped, lastCall>>,
               stopped \/ pc = "return" \/ how = "failed"
        PROVE  Good
    <2>1. Phase' = Phase
      <3>1. CASE stopped
        BY <1>4, <3>1 DEF Phase, Over
      <3>2. CASE ~stopped /\ pc = "return"
        BY <1>1, <1>4, <3>2 DEF DeathInv, ReturnReported, Phase, Over, consumerVars
      <3>3. CASE ~stopped /\ how = "failed" /\ pc # "return"
        <4>1. heard # "AUTH_FAILED" /\ heard' = heard /\ stopped' = stopped
          BY <1>1, <1>4, <3>3 DEF HeardInv, consumerVars
        <4>2. pc' = "done" /\ tripwire' = TRUE /\ pc # "none" /\ pc # "done"
          BY <1>4, <3>3 DEF Finish, TripwireDue, Live
        <4> QED
          BY <3>3, <4>1, <4>2 DEF Phase, Over
      <3> QED
        BY <1>4, <3>1, <3>2, <3>3
    <2> QED
      BY <1>1, <1>4, <2>1, Stutters DEF sharedVars, consumerVars
  <1>5. CASE Start \/ StartIgnored
    <2>1. Phase' \in {Phase, "down"}
      BY <1>5 DEF Start, StartIgnored, Phase, Over, taskVars, consumerVars
    <2>2. Contract!Start
      BY <1>1, <1>2, <1>5, <2>1 DEF Start, StartIgnored, Contract!Start, sharedVars, consumerVars
    <2> QED
      BY <2>2 DEF Contract!Next
  <1>6. CASE \E c \in Callers, mode \in CallerModes : Stop(c, mode)
    <2>1. Contract!Stop
      BY <1>1, <1>2, <1>6 DEF Stop, Contract!Stop, Phase, Over, sharedVars, consumerVars
    <2> QED
      BY <2>1 DEF Contract!Next
  <1>7. ASSUME NEW ids \in SUBSET Vehicles, SetVehicleIds(ids)
        PROVE  Good
    <2>1. Phase' = Phase
      BY <1>7 DEF SetVehicleIds, Phase, Over, taskVars, consumerVars, callerVars
    <2>2. Contract!Subscribe(ids)
      <3>1. Contract!WithoutGates(shown, vehicleIds \ ids) = WithoutGates(shown, vehicleIds \ ids)
        BY DEF Contract!WithoutGates, WithoutGates, Contract!OpenGate, OpenGate
      <3> QED
        BY <1>1, <1>7, <2>1, <3>1 DEF SetVehicleIds, Contract!Subscribe, consumerVars, callerVars
    <2> QED
      BY <2>2 DEF Contract!Next
  <1>8. CASE CallbackReturns
    <2>1. Contract!Return
      BY <1>1, <1>2, <1>8 DEF CallbackReturns, Contract!Return, Phase, Over, taskVars, sharedVars,
            callerVars
    <2> QED
      BY <2>1 DEF Contract!Next
  <1>9. CASE Tripwire
    <2>1. CASE stopped
      <3>1. Phase' = Phase
        BY <1>9, <2>1 DEF Tripwire, Phase, Over, callerVars
      <3> QED
        BY <1>1, <1>9, <2>1, <3>1, EmitFacts, Stutters DEF Tripwire, sharedVars, callerVars
    <2>2. CASE ~stopped
      <3>1. callback' = Event("DISCONNECTED", "internal_error") /\ heard' = "DISCONNECTED"
        BY <1>9, <2>2, EmitFacts DEF Tripwire
      <3>2. Phase \in {"down", "up"}
        BY <1>9, <2>2, PhaseFacts DEF Tripwire
      <3>3. Phase' \in {"off", "down"}
        BY <3>1 DEF Phase
      <3>4. Contract!InternalError
        BY <1>1, <1>2, <1>9, <3>1, <3>2, <3>3 DEF Tripwire, Contract!InternalError, sharedVars,
              callerVars
      <3> QED
        BY <3>4 DEF Contract!Next
    <2> QED
      BY <2>1, <2>2
  <1>10. CASE TokenRejected \/ StreamRejected
    <2>1. /\ pc \in {"token", "read"} /\ ~sawFrame /\ callback = NoCallback
          /\ Emit("AUTH_FAILED", "auth") /\ pc' = "return"
          /\ UNCHANGED <<stopped, lastCall, vehicleIds, lastTimes>>
      BY <1>1, <1>10 DEF TokenRejected, GetterRaises, StreamRejected, sharedVars, callerVars, HistoryInv,
            FrameSeen
    <2>2. CASE stopped
      BY <1>1, <2>1, <2>2, EmitFacts, Stutters DEF Phase, Over
    <2>3. CASE ~stopped
      <3>1. Phase = "down" /\ Phase' = "off"
        BY <2>1, <2>3, PhaseFacts, EmitFacts DEF Live, Suspended, Running, Phase, Over
      <3>2. Contract!AuthFailed
        BY <1>1, <1>2, <2>1, <2>3, <3>1, EmitFacts DEF Contract!AuthFailed
      <3> QED
        BY <3>2 DEF Contract!Next
    <2> QED
      BY <2>2, <2>3
  <1>11. CASE Disconnected
    <2>1. /\ pc = "ended" /\ callback = NoCallback /\ outcome \in Contract!DropReasons
          /\ Emit("DISCONNECTED", outcome) /\ pc' = "pause"
          /\ UNCHANGED <<stopped, lastCall, vehicleIds, lastTimes>>
      BY <1>1, <1>11 DEF Disconnected, sharedVars, callerVars, TypeInv, EndExplained, Outcomes,
            Contract!DropReasons
    <2>2. CASE stopped
      BY <1>1, <2>1, <2>2, EmitFacts, Stutters DEF Phase, Over
    <2>3. CASE ~stopped
      <3>1. Phase \in {"down", "up"}
        BY <2>1, <2>3, PhaseFacts DEF Live, Suspended, Running
      <3>2. Phase' = "down"
        BY <2>1, <2>3, EmitFacts DEF Phase, Over
      <3>3. Contract!Disconnected(outcome)
        BY <1>1, <1>2, <2>1, <2>3, <3>1, <3>2, EmitFacts DEF Contract!Disconnected
      <3> QED
        BY <2>1, <3>3 DEF Contract!Next
    <2> QED
      BY <2>2, <2>3
  <1>12. ASSUME NEW f \in Frames, FrameArrives(f)
         PROVE  Good
    <2>1. /\ pc = "read" /\ pc' = "frame" /\ callback = NoCallback /\ ~stopped
          /\ UNCHANGED <<stopped, lastCall, vehicleIds, lastTimes>>
      BY <1>1, <1>12 DEF FrameArrives, sharedVars, callerVars, CancelInv, StoppedIsCancelled,
            Live, Suspended
    <2>2. CASE sawFrame
      <3>1. UNCHANGED <<callback, heard>>
        BY <1>12, <2>2 DEF FrameArrives, consumerVars
      <3> QED
        BY <1>3, <2>1, <3>1 DEF Live, Suspended, Running
    <2>3. CASE ~sawFrame
      <3>1. callback' = Event("CONNECTED", "none") /\ heard' = "CONNECTED"
        BY <1>12, <2>1, <2>3, EmitFacts DEF FrameArrives
      <3>2. Phase = "down" /\ Phase' = "up"
        BY <2>1, <2>3, <3>1, PhaseFacts DEF Live, Suspended, Running, Phase, Over
      <3>3. Contract!Connected
        BY <1>1, <1>2, <2>1, <3>1, <3>2 DEF Contract!Connected
      <3> QED
        BY <3>3 DEF Contract!Next
    <2> QED
      BY <2>2, <2>3
  <1>13. CASE HandleFrame
    <2> DEFINE v == frame.vehicle
               b == ClampFutureTimes(frame.blocks, now)
               t == Adopted(lastTimes[v], b)
    <2>1. /\ pc = "frame" /\ pc' = "next" /\ callback = NoCallback
          /\ UNCHANGED <<stopped, heard, lastCall, vehicleIds>>
      BY <1>13 DEF HandleFrame, callerVars
    <2>2. ~stopped /\ sawFrame
      BY <1>1, <2>1 DEF CancelInv, StoppedIsCancelled, Live, Suspended, Running, HistoryInv,
            FrameSeen
    <2>3. Phase = "up" /\ Phase' = "up"
      <3>1. Phase = "up" /\ heard = "CONNECTED"
        BY <1>1, <2>1, <2>2, PhaseFacts DEF Live, Suspended, Running, HeardInv
      <3> QED
        BY <2>1, <2>2, <3>1 DEF Phase, Over
    <2>4. v \in Vehicles /\ b \in Blocks /\ lastTimes[v] \in Gates /\ lastTimes \in [Vehicles -> Gates]
      BY <1>1, <1>13, HandleFrameFacts DEF TypeInv, TypeOK
    <2>5. CASE v \notin vehicleIds
      BY <1>1, <1>13, <2>1, <2>3, <2>5, Stutters DEF HandleFrame, Wanted
    <2>6. CASE v \in vehicleIds /\ DOMAIN t = {}
      <3>1. lastTimes' = lastTimes
        <4>1. GateAfter(lastTimes[v], b) = lastTimes[v]
          <5>1. GateAfter(lastTimes[v], b) \in [Metrics -> Stamps] /\ lastTimes[v] \in [Metrics -> Stamps]
            BY <2>4, GateAfterType DEF Gates
          <5>2. \A m \in DOMAIN b : ~Adopts(lastTimes[v][m], b[m])
            BY <2>4, <2>6, AdoptedType
          <5>3. \A m \in Metrics : GateAfter(lastTimes[v], b)[m] = lastTimes[v][m]
            BY <2>4, <5>2, GateAfterType
          <5> QED
            BY <5>1, <5>3
        <4> QED
          BY <1>13, <2>4, <2>6, <4>1 DEF HandleFrame, Wanted
      <3>2. callback' = callback
        BY <1>13, <2>6 DEF HandleFrame, Wanted
      <3> QED
        BY <1>1, <2>1, <2>3, <3>1, <3>2, Stutters
    <2>7. CASE v \in vehicleIds /\ DOMAIN t # {}
      <3>1. callback' = Contract!Update(v, t)
        BY <1>13, <2>2, <2>7 DEF HandleFrame, Wanted, Dispatch, Contract!Update
      <3>2. t \in Blocks /\ Adopted(lastTimes[v], t) = t
        BY <2>4, AdoptedType, AdoptedTwice
      <3>3. lastTimes' = [lastTimes EXCEPT ![v] = GateAfter(lastTimes[v], t)]
        BY <1>13, <2>4, <2>7, AdoptedTwice DEF HandleFrame, Wanted
      <3>4. /\ \A g, c : Contract!Adopted(g, c) = Adopted(g, c)
            /\ \A g, c : Contract!GateAfter(g, c) = GateAfter(g, c)
        BY DEF Contract!Adopted, Adopted, Contract!Adopts, Adopts, Contract!GateAfter, GateAfter,
               Contract!StoredAfter, StoredAfter
      <3>5. t \in Contract!Blocks
        BY <3>2 DEF Contract!Blocks, Blocks, Contract!Stamps, Stamps, Contract!Times, Times
      <3> HIDE DEF t
      <3>6. Contract!Telemetry(v, t)
        BY <1>1, <1>2, <2>1, <2>3, <2>7, <3>1, <3>2, <3>3, <3>4 DEF Contract!Telemetry
      <3> QED
        BY <2>4, <3>5, <3>6 DEF Contract!Next
    <2> QED
      BY <2>5, <2>6, <2>7
  <1>14. CASE \/ FrameRaises \/ NextAnext
              \/ StreamEnds("stream_closed") \/ StreamEnds("error") \/ ReadTimesOut
              \/ ReadMasked("iterator", "stream_closed") \/ ReadMasked("teardown", "error")
    BY <1>3, <1>14 DEF FrameRaises, NextAnext, StreamEnds, ReadTimesOut, ReadMasked, EndAttempt,
          sharedVars, consumerVars, callerVars, Live, Suspended, Running
  <1>15. CASE \/ TaskStarts \/ LoopTop \/ IdleWakes \/ TokenWithoutVehicles \/ ConnectOnce
              \/ TokenFails \/ SleepElapses
    BY <1>3, <1>15 DEF TaskStarts, LoopTop, IdleWakes, TokenWithoutVehicles, ConnectOnce,
          TokenFails, GetterRaises, SleepElapses, sharedVars, consumerVars, callerVars, Live, Suspended, Running
  <1>16. CASE \/ Tick \/ WatchdogExpires("armed") \/ WatchdogExpires("soon")
              \/ \E c \in Callers : CallerCancelled(c) \/ StopReturns(c)
    BY <1>3, <1>16 DEF Tick, WatchdogExpires, CallerCancelled, StopReturns, taskVars, sharedVars,
          consumerVars, callerVars
  <1>17. CASE TaskCancelled
    <2>1. stopped
      BY <1>1, <1>17 DEF TaskCancelled, CancelInv, RunningIsNot, Own, Live, Suspended, Running,
                   OwnTimeout, TypeInv, TypeOK
    <2> QED
      BY <1>4, <1>17, <2>1 DEF TaskCancelled, Live, Suspended
  <1>18. CASE TaskReturns \/ StreamBug
    BY <1>4, <1>18 DEF TaskReturns, StreamBug, Live, Suspended, Running
  <1>19. CASE Pause
    <2>1. CASE CancelMasked
      <3>1. stopped
        BY <1>1, <1>19, <2>1 DEF Pause, CancelMasked, CancelInv, RunningIsNot, Own, Live,
              Suspended, Running, TypeInv, TypeOK
      <3> QED
        BY <1>4, <1>19, <2>1, <3>1 DEF Pause, Live, Suspended, Running
    <2>2. CASE ~CancelMasked
      BY <1>3, <1>19, <2>2 DEF Pause, sharedVars, consumerVars, Live, Suspended, Running
    <2> QED
      BY <2>1, <2>2
  <1>20. CASE CloseReturns
    <2>1. CASE outcome = "bug"
      BY <1>4, <1>20, <2>1 DEF CloseReturns, Live, Suspended
    <2>2. CASE outcome # "bug"
      BY <1>3, <1>20, <2>2 DEF CloseReturns, sharedVars, consumerVars, Live, Suspended, Running
    <2> QED
      BY <2>1, <2>2
  <1>21. ~TokenCancelled
    BY DEF TokenCancelled
  <1> HIDE DEF Good
  <1>22. CASE Consumer
    BY <1>22, <1>5, <1>6, <1>7, <1>16 DEF Consumer
  <1>23. CASE World
    BY <1>23, <1>10, <1>12, <1>14, <1>15, <1>16, <1>18, <1>21 DEF World
  <1>24. CASE TaskStep
    BY <1>24, <1>11, <1>13, <1>14, <1>15, <1>17, <1>18, <1>19 DEF TaskStep
  <1> QED
    BY <1>8, <1>9, <1>15, <1>16, <1>20, <1>22, <1>23, <1>24 DEF Next

LEMMA HeardInvariant ==
    ASSUME GetterCancels = FALSE
    PROVE  HSpec => []HeardInv
  <1>1. HInit => HeardInv
    BY DEF HInit, Init, HeardInv, Live, Suspended, Running
  <1>2. TypeInv /\ CancelInv /\ DeathInv /\ HistoryInv /\ HeardInv /\ [HNext]_hvars => HeardInv'
    <2>1. CASE UNCHANGED hvars
      BY <2>1 DEF hvars, vars, taskVars, attemptVars, consumerVars, callerVars, HeardInv
    <2> QED
      BY <2>1, HeardInvStep DEF HNext
  <1> QED
    BY <1>1, <1>2, HistoryImplements, TypeInvariant, CancelInvariant, DeathInvariant,
       HistoryInvariant, PTL DEF HSpec

LEMMA RefinementInit ==
    ASSUME HInit
    PROVE  Contract!Init
  <1>1. Phase = "off" /\ lastCall = "none" /\ callback = Contract!Silent
    BY DEF HInit, Init, Phase, Over, Contract!Silent, NoCallback
  <1>2. Contract!Gates = Gates
    BY DEF Contract!Gates, Gates, Contract!Stamps, Stamps, Contract!Times, Times
  <1>3. vehicleIds \in SUBSET Vehicles /\ shown \in [Vehicles -> Gates]
    BY InitTypeInv DEF HInit, TypeInv, TypeOK
  <1> QED
    BY <1>1, <1>2, <1>3 DEF Contract!Init

\* Every behaviour of the stream is one its contract allows.
THEOREM ContractImplemented ==
    ASSUME GetterCancels = FALSE
    PROVE  HSpec => ImplementsContract
  <1>1. HInit => Contract!Init
    BY RefinementInit
  <1>2. RefinementInv /\ RefinementInv' /\ [HNext]_hvars => [Contract!Next]_(Contract!vars)
    <2>1. CASE UNCHANGED hvars
      <3>1. Phase' = Phase
        BY <2>1 DEF hvars, vars, taskVars, consumerVars, callerVars, Phase, Over
      <3> QED
        BY <2>1, <3>1 DEF hvars, historyVars, vars, taskVars, sharedVars, consumerVars, callerVars,
                     Contract!vars
    <2>2. CASE HNext
      BY <2>2, RefinementStep DEF HNext
    <2> QED
      BY <2>1, <2>2
  <1>3. HSpec => []RefinementInv
    BY HistoryImplements, TypeInvariant, StopInvariant, CancelInvariant, DeathInvariant,
       HistoryInvariant, HeardInvariant, GateIsWhatWasShown, PTL DEF RefinementInv
  <1> QED
    BY <1>1, <1>2, <1>3, PTL DEF HSpec, ImplementsContract, Contract!Spec
=============================================================================
