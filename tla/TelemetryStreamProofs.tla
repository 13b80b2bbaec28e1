----------------------- MODULE TelemetryStreamProofs -----------------------
(***************************************************************************)
(* TelemetryStream, for any vehicles, metrics, times, callers, ladder and   *)
(* masking: type correctness, and the invariants that keep a connection in *)
(* step with the subscription.                                             *)
(***************************************************************************)
EXTENDS TelemetryStream, TLAPS

-----------------------------------------------------------------------------
(* What the clamp and the gate do, for any vehicles, metrics and times.    *)

USE MaxTimeAssumption, NoTimeAssumption

\* A function on some metrics with stamps for values is a set of blocks, and
\* the other way round.
LEMMA BlocksIntro ==
    ASSUME NEW M \in SUBSET Metrics, NEW f \in [M -> Stamps]
    PROVE  f \in Blocks
  BY DEF Blocks

LEMMA BlocksElim ==
    ASSUME NEW b \in Blocks
    PROVE  /\ DOMAIN b \subseteq Metrics
           /\ \A m \in DOMAIN b : b[m] \in Stamps
  BY DEF Blocks

\* Clamping keeps a stamp a stamp and never leaves it in the future.
LEMMA ClampTimeBounded ==
    ASSUME NEW t \in Stamps, NEW n \in Times
    PROVE  /\ ClampTime(t, n) \in Stamps
           /\ ClampTime(t, n) = NoTime <=> t = NoTime
           /\ ClampTime(t, n) # NoTime => ClampTime(t, n) <= n
  BY DEF ClampTime, Stamps, Times

LEMMA ClampFutureTimesType ==
    ASSUME NEW b \in Blocks, NEW n \in Times
    PROVE  /\ ClampFutureTimes(b, n) \in Blocks
           /\ DOMAIN ClampFutureTimes(b, n) = DOMAIN b
           /\ \A m \in DOMAIN b : ClampFutureTimes(b, n)[m] = ClampTime(b[m], n)
  <1> DEFINE c == ClampFutureTimes(b, n)
  <1>1. /\ DOMAIN c = DOMAIN b
        /\ \A m \in DOMAIN b : c[m] = ClampTime(b[m], n)
    BY DEF ClampFutureTimes
  <1>2. c \in [DOMAIN b -> Stamps]
    <2>1. \A m \in DOMAIN b : ClampTime(b[m], n) \in Stamps
      BY BlocksElim, ClampTimeBounded
    <2> QED
      BY <2>1 DEF ClampFutureTimes
  <1> QED
    BY <1>1, <1>2, BlocksIntro, BlocksElim

LEMMA AdoptedType ==
    ASSUME NEW g \in Gates, NEW b \in Blocks
    PROVE  /\ Adopted(g, b) \in Blocks
           /\ DOMAIN Adopted(g, b) = {m \in DOMAIN b : Adopts(g[m], b[m])}
           /\ \A m \in DOMAIN Adopted(g, b) : Adopted(g, b)[m] = b[m]
  <1> DEFINE A == {m \in DOMAIN b : Adopts(g[m], b[m])}
  <1>1. Adopted(g, b) = [m \in A |-> b[m]]
    BY DEF Adopted
  <1>2. A \in SUBSET Metrics
    BY BlocksElim
  <1>3. [m \in A |-> b[m]] \in [A -> Stamps]
    BY BlocksElim
  <1> QED
    BY <1>1, <1>2, <1>3, BlocksIntro

LEMMA GateAfterType ==
    ASSUME NEW g \in Gates, NEW b \in Blocks
    PROVE  /\ GateAfter(g, b) \in Gates
           /\ \A m \in Metrics :
                GateAfter(g, b)[m] = IF m \in DOMAIN b /\ Adopts(g[m], b[m])
                                     THEN b[m] ELSE g[m]
  <1>1. DOMAIN g = Metrics
    BY DEF Gates
  <1>2. \A m \in Metrics :
            GateAfter(g, b)[m] = IF m \in DOMAIN b /\ Adopts(g[m], b[m]) THEN b[m] ELSE g[m]
    BY <1>1, AdoptedType DEF GateAfter, StoredAfter
  <1>3. \A m \in Metrics : GateAfter(g, b)[m] \in Stamps
    BY <1>2, BlocksElim DEF Gates
  <1>4. GateAfter(g, b) = [m \in Metrics |-> GateAfter(g, b)[m]]
    BY <1>1 DEF GateAfter
  <1> QED
    BY <1>2, <1>3, <1>4 DEF Gates

LEMMA WithoutGatesType ==
    ASSUME NEW lt \in [Vehicles -> Gates], NEW removed
    PROVE  /\ WithoutGates(lt, removed) \in [Vehicles -> Gates]
           /\ \A v \in Vehicles :
                WithoutGates(lt, removed)[v] = IF v \in removed THEN OpenGate ELSE lt[v]
  <1>1. OpenGate \in Gates
    BY DEF OpenGate, Gates, Stamps
  <1> QED
    BY <1>1 DEF WithoutGates

LEMMA WarmGateType ==
    ASSUME NEW seed \in [Vehicles -> Gates], NEW n \in Times
    PROVE  /\ WarmGate(seed, n) \in [Vehicles -> Gates]
           /\ \A v \in Vehicles, m \in Metrics : WarmGate(seed, n)[v][m] = ClampTime(seed[v][m], n)
  <1>1. ASSUME NEW v \in Vehicles
        PROVE  /\ ClampFutureTimes(seed[v], n) \in Gates
               /\ \A m \in Metrics : ClampFutureTimes(seed[v], n)[m] = ClampTime(seed[v][m], n)
    <2>1. seed[v] \in [Metrics -> Stamps]
      BY DEF Gates
    <2> QED
      BY <2>1, BlocksIntro, ClampFutureTimesType, ClampTimeBounded DEF Gates, ClampFutureTimes
  <1> QED
    BY <1>1 DEF WarmGate

-----------------------------------------------------------------------------
(* The stream.                                                             *)

\* An expired timeout has cancelled the task once and not taken it back.
ExpiryCounted == watch = "expiring" => cancels > 0

\* An attempt that has ended, or is being closed, knows why.
EndExplained ==
    /\ pc = "close" => outcome \in {"vehicles_changed", "bug"}
    /\ pc = "ended" => outcome \in Outcomes \ {"none", "bug"}

TypeInv == TypeOK /\ ExpiryCounted /\ EndExplained

LEMMA InitTypeInv == Init => TypeInv
  <1> SUFFICES ASSUME Init PROVE TypeInv
    OBVIOUS
  <1>1. lastTimes \in [Vehicles -> Gates]
    BY WarmGateType DEF Init
  <1>2. callers \in [Callers -> CallerStates]
    BY DEF Init, CallerStates
  <1>3. delayIdx \in 0..(BackoffLen - 1) /\ cancels \in Nat
    BY BackoffAssumption DEF Init
  <1> QED
    BY <1>1, <1>2, <1>3 DEF Init, TypeInv, TypeOK, ExpiryCounted, EndExplained, Suspended, Running, Outcomes

\* The callers after the end of a task.
LEMMA FinishType ==
    ASSUME TypeInv, NEW how \in {"returned", "cancelled", "failed"}, Finish(how),
           UNCHANGED <<vehicleIds, idsChanged, lastTimes, callback, heard, stopped, lastCall, now>>
    PROVE  TypeInv'
  <1>1. callers' \in [Callers -> CallerStates]
    BY DEF Finish, TypeInv, TypeOK, CallerStates, Parked, Woken
  <1>2. delayIdx' \in 0..(BackoffLen - 1)
    BY BackoffAssumption DEF Finish
  <1> QED
    BY <1>1, <1>2 DEF Finish, TripwireDue, TypeInv, TypeOK, ExpiryCounted, EndExplained, Suspended, Running, Outcomes

LEMMA EmitType ==
    ASSUME TypeInv, NEW s \in States, NEW r \in Reasons, Emit(s, r)
    PROVE  /\ callback' \in {NoCallback} \cup Updates \cup Events
           /\ heard' \in {"none"} \cup States
  BY DEF Emit, Dispatch, Event, Events, TypeInv, TypeOK

\* What the consumer calls, and the clock.
LEMMA ConsumerType ==
    ASSUME TypeInv, Consumer \/ Tick
    PROVE  TypeInv'
  <1> USE DEF TypeInv, TypeOK, ExpiryCounted, EndExplained, taskVars, attemptVars, sharedVars,
              consumerVars, callerVars, Suspended, Running, LoopFree
  <1>1. CASE Start
    BY <1>1 DEF Start
  <1>2. CASE StartIgnored
    BY <1>2 DEF StartIgnored
  <1>3. ASSUME NEW c \in Callers, NEW mode \in CallerModes, Stop(c, mode)
        PROVE  TypeInv'
    <2>1. callers' \in [Callers -> CallerStates]
      BY <1>3 DEF Stop, ParkOnTask, ExitOf, CallerStates, Parked, Woken
    <2>2. cancels' \in Nat /\ cancels' >= cancels
      <3>1. cancels' = cancels + 1 \/ cancels' = cancels
        BY <1>3 DEF Stop, CancelTask
      <3> QED
        BY <3>1
    <2>3. cancelPending' \in BOOLEAN
      BY <1>3 DEF Stop, CancelTask
    <2>4. UNCHANGED <<pc, result, tripwire, attemptVars, sharedVars, consumerVars, now>>
      BY <1>3 DEF Stop
    <2>5. stopped' \in BOOLEAN /\ lastCall' \in {"none", "start", "stop"}
      BY <1>3 DEF Stop
    <2> QED
      BY <2>1, <2>2, <2>3, <2>4, <2>5
  <1>4. ASSUME NEW c \in Callers, CallerCancelled(c)
        PROVE  TypeInv'
    <2>1. callers' \in [Callers -> CallerStates]
      BY <1>4 DEF CallerCancelled, CallerStates, Parked, Woken
    <2>2. cancels' \in Nat /\ cancels' >= cancels
      <3>1. cancels' = cancels + 1 \/ cancels' = cancels
        BY <1>4 DEF CallerCancelled, CancelTask
      <3> QED
        BY <3>1
    <2>3. cancelPending' \in BOOLEAN
      BY <1>4 DEF CallerCancelled, CancelTask
    <2>4. UNCHANGED <<pc, result, tripwire, attemptVars, sharedVars, consumerVars,
                      stopped, lastCall, now>>
      BY <1>4 DEF CallerCancelled
    <2> QED
      BY <2>1, <2>2, <2>3, <2>4
  <1>5. ASSUME NEW ids \in SUBSET Vehicles, SetVehicleIds(ids)
        PROVE  TypeInv'
    <2>1. lastTimes' \in [Vehicles -> Gates]
      BY <1>5, WithoutGatesType DEF SetVehicleIds
    <2>2. /\ idsChanged' \in BOOLEAN
          /\ watch' \in {"none", "armed", "soon", "expiring"}
          /\ (watch' # "none" <=> pc = "read") /\ (watch' = "expiring" => cancels > 0)
      BY <1>5 DEF SetVehicleIds, FlagAfterChange, WatchAfterChange
    <2>3. vehicleIds' \subseteq Vehicles
      BY <1>5 DEF SetVehicleIds
    <2>4. UNCHANGED <<taskVars, delayIdx, requested, sawFrame, outcome, frame,
                      consumerVars, callerVars, now>>
      BY <1>5 DEF SetVehicleIds
    <2> QED
      BY <2>1, <2>2, <2>3, <2>4
  <1>6. CASE Tick
    BY <1>6, MaxTimeAssumption DEF Tick, Times
  <1> QED
    BY <1>1, <1>2, <1>3, <1>4, <1>5, <1>6 DEF Consumer

\* The callers of stop(), the callbacks and the loop's scheduled calls.
LEMMA LoopType ==
    ASSUME TypeInv,
           \/ CallbackReturns \/ Tripwire \/ SleepElapses
           \/ WatchdogExpires("armed") \/ WatchdogExpires("soon")
           \/ \E c \in Callers : StopReturns(c)
    PROVE  TypeInv'
  <1> USE DEF TypeInv, TypeOK, ExpiryCounted, EndExplained, taskVars, attemptVars, sharedVars,
              consumerVars, callerVars, Suspended, Running, LoopFree, At, Resumes
  <1>1. CASE CallbackReturns
    BY <1>1 DEF CallbackReturns
  <1>2. CASE Tripwire
    <2>1. /\ callback' \in {NoCallback} \cup Updates \cup Events
          /\ heard' \in {"none"} \cup States
      BY <1>2 DEF Tripwire, Emit, Dispatch, Event, Events, States, Reasons
    <2>2. tripwire' \in BOOLEAN
      BY <1>2 DEF Tripwire
    <2>3. UNCHANGED <<pc, cancels, cancelPending, result, attemptVars, sharedVars,
                      callerVars, now>>
      BY <1>2 DEF Tripwire
    <2> QED
      BY <2>1, <2>2, <2>3
  <1>3. CASE SleepElapses
    <2>1. delayIdx' \in 0..(BackoffLen - 1)
      BY <1>3, BackoffAssumption DEF SleepElapses, NextDelay
    <2> QED
      BY <1>3, <2>1 DEF SleepElapses
  <1>4. ASSUME NEW from \in {"armed", "soon"}, WatchdogExpires(from)
        PROVE  TypeInv'
    <2>1. cancels' \in Nat /\ cancels' > 0
      BY <1>4 DEF WatchdogExpires, CancelTask
    <2> QED
      BY <1>4, <2>1 DEF WatchdogExpires, CancelTask
  <1>5. ASSUME NEW c \in Callers, StopReturns(c)
        PROVE  TypeInv'
    <2>1. callers' \in [Callers -> CallerStates]
      BY <1>5 DEF StopReturns, ExitOf, CallerStates, Woken
    <2> QED
      BY <1>5, <2>1 DEF StopReturns
  <1> QED
    BY <1>1, <1>2, <1>3, <1>4, <1>5

\* The reconnect loop.
LEMMA RunType ==
    ASSUME TypeInv,
           \/ TaskStarts \/ TaskCancelled \/ LoopTop \/ IdleWakes \/ TokenWithoutVehicles
           \/ ConnectOnce \/ TokenRejected \/ TokenFails \/ TokenCancelled
           \/ Disconnected \/ Pause \/ TaskReturns
    PROVE  TypeInv'
  <1> USE DEF TypeInv, TypeOK, ExpiryCounted, EndExplained, taskVars, attemptVars, sharedVars,
              consumerVars, callerVars, Suspended, Running, At, Resumes
  <1>1. CASE TaskStarts
    BY <1>1 DEF TaskStarts
  <1>2. CASE TaskCancelled
    BY <1>2, FinishType DEF TaskCancelled
  <1>3. CASE LoopTop
    BY <1>3, ZenonT(60) DEF LoopTop
  <1>4. CASE IdleWakes
    BY <1>4 DEF IdleWakes
  <1>5. CASE TokenWithoutVehicles
    BY <1>5 DEF TokenWithoutVehicles
  <1>6. CASE ConnectOnce
    BY <1>6 DEF ConnectOnce
  <1>7. CASE TokenRejected
    BY <1>7, EmitType DEF TokenRejected, GetterRaises, States, Reasons
  <1>8. CASE TokenFails
    BY <1>8 DEF TokenFails, GetterRaises
  <1>9. CASE TokenCancelled
    BY <1>9, FinishType DEF TokenCancelled
  <1>10. CASE Disconnected
    <2>1. /\ callback' \in {NoCallback} \cup Updates \cup Events
          /\ heard' \in {"none"} \cup States
      BY <1>10 DEF Disconnected, Emit, Dispatch, Event, Events, States, Reasons, Outcomes
    <2>2. delayIdx' \in 0..(BackoffLen - 1)
      BY <1>10, BackoffAssumption DEF Disconnected, LadderAfter
    <2> QED
      BY <1>10, <2>1, <2>2 DEF Disconnected, Outcomes
  <1>11. CASE Pause
    <2>1. CASE CancelMasked
      BY <1>11, <2>1, FinishType DEF Pause
    <2>2. CASE ~CancelMasked
      BY <1>11, <2>2 DEF Pause
    <2> QED
      BY <2>1, <2>2
  <1>12. CASE TaskReturns
    BY <1>12, FinishType DEF TaskReturns
  <1> QED
    BY <1>1, <1>2, <1>3, <1>4, <1>5, <1>6, <1>7, <1>8, <1>9, <1>10, <1>11, <1>12

\* One connection attempt.
LEMMA AttemptType ==
    ASSUME TypeInv,
           \/ \E f \in Frames : FrameArrives(f)
           \/ HandleFrame \/ FrameRaises \/ NextAnext
           \/ StreamEnds("stream_closed") \/ StreamEnds("error")
           \/ StreamRejected \/ StreamBug \/ ReadTimesOut
           \/ ReadMasked("iterator", "stream_closed") \/ ReadMasked("teardown", "error")
           \/ CloseReturns
    PROVE  TypeInv'
  <1> USE DEF TypeInv, TypeOK, ExpiryCounted, EndExplained, taskVars, attemptVars, sharedVars,
              consumerVars, callerVars, Suspended, Running, Outcomes, At, Resumes
  <1>1. ASSUME NEW f \in Frames, FrameArrives(f)
        PROVE  TypeInv'
    <2>1. /\ callback' \in {NoCallback} \cup Updates \cup Events
          /\ heard' \in {"none"} \cup States
      BY <1>1 DEF FrameArrives, Emit, Dispatch, Event, Events, States, Reasons
    <2>2. pc' = "frame" /\ watch' = "none" /\ frame' \in Frames /\ sawFrame' \in BOOLEAN
      BY <1>1 DEF FrameArrives
    <2>3. UNCHANGED <<cancels, cancelPending, result, tripwire, delayIdx, requested, outcome,
                      sharedVars, callerVars, now>>
      BY <1>1 DEF FrameArrives
    <2> QED
      BY <2>1, <2>2, <2>3
  <1>2. CASE HandleFrame
    <2> DEFINE v == frame.vehicle
               blocks == ClampFutureTimes(frame.blocks, now)
               telemetry == Adopted(lastTimes[v], blocks)
    <2>1. /\ v \in Vehicles /\ lastTimes[v] \in Gates
          /\ blocks \in Blocks /\ telemetry \in Blocks
      <3>1. v \in Vehicles /\ frame.blocks \in Blocks
        BY <1>2 DEF HandleFrame, Frames
      <3>2. blocks \in Blocks
        BY <3>1, ClampFutureTimesType
      <3> QED
        BY <3>1, <3>2, AdoptedType
    <2>2. lastTimes' \in [Vehicles -> Gates]
      BY <1>2, <2>1, GateAfterType DEF HandleFrame
    <2>3. callback' \in {NoCallback} \cup Updates \cup Events
      <3>1. callback' = callback \/ callback' = [kind |-> "update", vehicle |-> v, telemetry |-> telemetry]
        BY <1>2 DEF HandleFrame, Dispatch
      <3> QED
        BY <2>1, <3>1 DEF Updates
    <2>4. pc' = "next" /\ frame' = NoFrame
      BY <1>2 DEF HandleFrame
    <2>5. UNCHANGED <<cancels, cancelPending, result, tripwire, delayIdx, requested, sawFrame,
                      outcome, watch, vehicleIds, idsChanged, heard, callerVars, now>>
      BY <1>2 DEF HandleFrame
    <2>6. watch = "none"
      BY <1>2 DEF HandleFrame
    <2> QED
      BY <2>2, <2>3, <2>4, <2>5, <2>6
  <1>3. CASE FrameRaises
    BY <1>3 DEF FrameRaises
  <1>4. CASE NextAnext
    BY <1>4 DEF NextAnext
  <1>5. ASSUME NEW reason \in {"stream_closed", "error"}, StreamEnds(reason)
        PROVE  TypeInv'
    BY <1>5 DEF StreamEnds, EndAttempt
  <1>6. CASE StreamRejected
    <2>1. /\ callback' \in {NoCallback} \cup Updates \cup Events
          /\ heard' \in {"none"} \cup States
      BY <1>6 DEF StreamRejected, Emit, Dispatch, Event, Events, States, Reasons
    <2> QED
      BY <1>6, <2>1 DEF StreamRejected
  <1>7. CASE StreamBug
    BY <1>7, FinishType DEF StreamBug
  <1>8. CASE ReadTimesOut
    <2>1. cancels' = 0
      BY <1>8 DEF ReadTimesOut, LeaveTimeout, OwnTimeout
    <2>2. pc' = "ended" /\ watch' = "none" /\ cancelPending' \in BOOLEAN
      BY <1>8 DEF ReadTimesOut, EndAttempt, LeaveTimeout
    <2>3. outcome' \in {"vehicles_changed", "watchdog_stall"}
      BY <1>8 DEF ReadTimesOut, EndAttempt, TimeoutReason
    <2>4. UNCHANGED <<result, tripwire, delayIdx, requested, sawFrame, frame, sharedVars,
                      consumerVars, callerVars, now>>
      BY <1>8 DEF ReadTimesOut
    <2> QED
      BY <2>1, <2>2, <2>3, <2>4
  <1>9. ASSUME NEW by \in {"iterator", "teardown"}, NEW reason \in {"stream_closed", "error"},
               ReadMasked(by, reason)
        PROVE  TypeInv'
    <2>1. cancels' \in Nat
      BY <1>9 DEF ReadMasked, LeaveTimeout
    <2> QED
      BY <1>9, <2>1, ZenonT(60) DEF ReadMasked, EndAttempt, LeaveTimeout
  <1>10. CASE CloseReturns
    <2>1. CASE outcome = "bug"
      BY <1>10, <2>1, FinishType DEF CloseReturns
    <2>2. CASE outcome # "bug"
      BY <1>10, <2>2 DEF CloseReturns
    <2> QED
      BY <2>1, <2>2
  <1> QED
    BY <1>1, <1>2, <1>3, <1>4, <1>5, <1>6, <1>7, <1>8, <1>9, <1>10

LEMMA NextTypeInv == TypeInv /\ [Next]_vars => TypeInv'
  <1> SUFFICES ASSUME TypeInv, [Next]_vars PROVE TypeInv'
    OBVIOUS
  <1>1. CASE Next
    BY <1>1, ConsumerType, LoopType, RunType, AttemptType DEF Next, World, TaskStep
  <1>2. CASE UNCHANGED vars
    BY <1>2 DEF vars, taskVars, attemptVars, sharedVars, consumerVars, callerVars,
                TypeInv, TypeOK, ExpiryCounted, EndExplained
  <1> QED
    BY <1>1, <1>2

LEMMA TypeInvariant == Spec => []TypeInv
  BY InitTypeInv, NextTypeInv, PTL DEF Spec

\* Every variable of the stream always has its type.
THEOREM TypeCorrect == Spec => []TypeOK
  <1>1. TypeInv => TypeOK
    BY DEF TypeInv
  <1> QED
    BY <1>1, TypeInvariant, PTL
-----------------------------------------------------------------------------
(* The invariants that keep the live connection in step with the           *)
(* subscription.  They are inductive together: the flag _ids_changed is    *)
(* cleared only where the ids are read again, a change made during a read  *)
(* reschedules the timeout of that read, and no read starts under a flag.  *)

SubscriptionInv ==
    /\ SubscriptionFresh
    /\ ChangeWakesReader
    /\ IdleNotStranded
    /\ ForcedTimeoutIsChange

\* What every step must respect: the flag, the timeout and the two id sets
\* change only as set_vehicle_ids, LoopTop and ConnectOnce change them.
LEMMA SubscriptionStep ==
    ASSUME TypeInv, SubscriptionInv, Next
    PROVE  SubscriptionInv'
  <1> USE DEF SubscriptionInv, SubscriptionFresh, ChangeWakesReader, IdleNotStranded,
              ForcedTimeoutIsChange, TypeInv, TypeOK, At, Resumes, LoopFree
  <1>1. ASSUME NEW ids \in SUBSET Vehicles, SetVehicleIds(ids)
        PROVE  SubscriptionInv'
    BY <1>1 DEF SetVehicleIds, FlagAfterChange, WatchAfterChange, taskVars
  <1>2. CASE LoopTop
    BY <1>2 DEF LoopTop, attemptVars
  <1>3. CASE ConnectOnce
    BY <1>3 DEF ConnectOnce
  <1>4. CASE NextAnext
    BY <1>4 DEF NextAnext, ChangeSeenHere, sharedVars
  <1>5. ASSUME NEW f \in Frames, FrameArrives(f)
        PROVE  SubscriptionInv'
    BY <1>5 DEF FrameArrives, sharedVars
  <1>6. ASSUME NEW from \in {"armed", "soon"}, WatchdogExpires(from)
        PROVE  SubscriptionInv'
    BY <1>6 DEF WatchdogExpires, sharedVars
  <1>7. CASE HandleFrame
    BY <1>7 DEF HandleFrame
  <1>8. CASE FrameRaises
    BY <1>8 DEF FrameRaises, sharedVars
  <1>9. ASSUME pc' \in {"loop", "token", "ended", "pause", "return", "sleep", "done"},
               watch' = "none", Next
        PROVE  SubscriptionInv'
    BY <1>9
  <1>10. CASE TaskStarts \/ IdleWakes \/ TokenWithoutVehicles \/ TokenFails \/ TokenRejected
              \/ SleepElapses
    BY <1>9, <1>10 DEF TaskStarts, IdleWakes, TokenWithoutVehicles, TokenFails, GetterRaises, TokenRejected,
                 SleepElapses, attemptVars
  <1>11. CASE TaskCancelled \/ TokenCancelled \/ TaskReturns \/ StreamBug
    BY <1>9, <1>11 DEF TaskCancelled, TokenCancelled, TaskReturns, StreamBug, Finish
  <1>12. CASE Disconnected \/ Pause \/ CloseReturns
    BY <1>9, <1>12 DEF Disconnected, Pause, CloseReturns, Finish, attemptVars
  <1>13. ASSUME NEW reason \in {"stream_closed", "error"}, StreamEnds(reason)
         PROVE  SubscriptionInv'
    BY <1>9, <1>13 DEF StreamEnds, EndAttempt
  <1>14. ASSUME NEW reason \in {"stream_closed", "error"}, NEW by \in {"iterator", "teardown"},
                ReadMasked(by, reason)
         PROVE  SubscriptionInv'
    BY <1>9, <1>14 DEF ReadMasked, EndAttempt, LeaveTimeout
  <1>15. CASE StreamRejected \/ ReadTimesOut
    BY <1>9, <1>15 DEF StreamRejected, ReadTimesOut, EndAttempt, LeaveTimeout
  <1>16. ASSUME NEW c \in Callers, CallerCancelled(c) \/ StopReturns(c)
         PROVE  SubscriptionInv'
    BY <1>16 DEF CallerCancelled, StopReturns, taskVars, attemptVars, sharedVars
  <1>17. ASSUME NEW c \in Callers, NEW mode \in CallerModes, Stop(c, mode)
         PROVE  SubscriptionInv'
    BY <1>17 DEF Stop, attemptVars, sharedVars
  <1>18. CASE Start \/ StartIgnored \/ Tick \/ CallbackReturns \/ Tripwire
    BY <1>18 DEF Start, StartIgnored, Tick, CallbackReturns, Tripwire, taskVars,
                 attemptVars, sharedVars
  <1>19. CASE Consumer
    BY <1>19, <1>1, <1>16, <1>17, <1>18 DEF Consumer
  <1>20. CASE World
    BY <1>20, <1>3, <1>5, <1>8, <1>10, <1>11, <1>13, <1>15, <1>18 DEF World
  <1>21. CASE TaskStep
    BY <1>21, <1>2, <1>4, <1>7, <1>10, <1>11, <1>12, <1>14, <1>15 DEF TaskStep
  <1> QED
    BY <1>6, <1>10, <1>12, <1>16, <1>18, <1>19, <1>20, <1>21 DEF Next

LEMMA InitSubscriptionInv == Init => SubscriptionInv
  BY DEF Init, SubscriptionInv, SubscriptionFresh, ChangeWakesReader, IdleNotStranded,
         ForcedTimeoutIsChange

LEMMA NextSubscriptionInv == TypeInv /\ SubscriptionInv /\ [Next]_vars => SubscriptionInv'
  <1>1. CASE UNCHANGED vars
    BY <1>1 DEF vars, taskVars, attemptVars, sharedVars, SubscriptionInv, SubscriptionFresh,
                ChangeWakesReader, IdleNotStranded, ForcedTimeoutIsChange
  <1> QED
    BY <1>1, SubscriptionStep

LEMMA SubscriptionInvariant == Spec => []SubscriptionInv
  BY InitSubscriptionInv, NextSubscriptionInv, TypeInvariant, PTL DEF Spec

\* A live connection is never silently out of step with the subscription: the
\* vehicles it was opened for are those of now, or the change is still flagged.
THEOREM SubscriptionCorrect == Spec => []SubscriptionFresh
  <1>1. SubscriptionInv => SubscriptionFresh
    BY DEF SubscriptionInv
  <1> QED
    BY <1>1, SubscriptionInvariant, PTL

\* A reader parked in anext is always about to notice a change of the vehicle
\* set: set_vehicle_ids has forced its timeout.
THEOREM ParkedReaderWoken == Spec => []ChangeWakesReader
  <1>1. SubscriptionInv => ChangeWakesReader
    BY DEF SubscriptionInv
  <1> QED
    BY <1>1, SubscriptionInvariant, PTL

\* The idle loop never sleeps on while there are vehicles to stream: clearing
\* the event between two waits loses no change.
THEOREM IdleTaskWoken == Spec => []IdleNotStranded
  <1>1. SubscriptionInv => IdleNotStranded
    BY DEF SubscriptionInv
  <1> QED
    BY <1>1, SubscriptionInvariant, PTL

\* A timeout forced by set_vehicle_ids is never taken for a silent server: the
\* flag that tells them apart is still set when it fires.
THEOREM ForcedTimeoutExplained == Spec => []ForcedTimeoutIsChange
  <1>1. SubscriptionInv => ForcedTimeoutIsChange
    BY DEF SubscriptionInv
  <1> QED
    BY <1>1, SubscriptionInvariant, PTL
=============================================================================
