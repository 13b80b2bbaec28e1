----------------------------- MODULE StopProofs -----------------------------
(***************************************************************************)
(* What stop() guarantees, for any number of callers, any masking and any   *)
(* getter: it is silent from its first statement on, and when its callers   *)
(* have left it no task is running.                                         *)
(***************************************************************************)
EXTENDS TelemetryStreamProofs

\* A stop() that no start() has followed holds; a parked caller waits for a
\* live task of a stopped stream; a task that outlives the call of stop() has
\* a caller waiting for it.
StopHeld == lastCall = "stop" => stopped
ParkedWhileStopped ==
    \A c \in Callers : callers[c].at = Parked => stopped /\ pc \in Live
StopJoined ==
    lastCall = "stop" /\ pc \in Live => \E c \in Callers : callers[c].at = Parked

StopInv == StopHeld /\ ParkedWhileStopped /\ StopJoined

\* A step between two points of a running task, which no caller notices.
LEMMA StepWithinTask ==
    ASSUME StopInv, UNCHANGED callerVars, pc \in Live, pc' \in Live
    PROVE  StopInv'
  BY DEF StopInv, StopHeld, ParkedWhileStopped, StopJoined, callerVars

LEMMA StepOutsideTask ==
    ASSUME StopInv, UNCHANGED <<pc, callerVars>>
    PROVE  StopInv'
  BY DEF StopInv, StopHeld, ParkedWhileStopped, StopJoined, callerVars

LEMMA StepToEnd ==
    ASSUME TypeInv, StopInv, NEW how, Finish(how), UNCHANGED <<stopped, lastCall>>
    PROVE  StopInv'
  <1>1. pc' \notin Live
    BY DEF Finish, Live, Suspended, Running
  <1>2. \A c \in Callers : callers'[c].at # Parked
    BY DEF Finish, TypeInv, TypeOK, CallerStates, Parked
  <1> QED
    BY <1>1, <1>2 DEF StopInv, StopHeld, ParkedWhileStopped, StopJoined

LEMMA StopInvStep ==
    ASSUME TypeInv, StopInv, Next
    PROVE  StopInv'
  <1> USE DEF callerVars
  <1>1. CASE Start
    BY <1>1 DEF Start, StopInv, StopHeld, ParkedWhileStopped, StopJoined, Live, Suspended, Running
  <1>2. CASE StartIgnored
    BY <1>2 DEF StartIgnored, taskVars, StopInv, StopHeld, ParkedWhileStopped, StopJoined
  <1>3. ASSUME NEW c \in Callers, NEW mode \in CallerModes, Stop(c, mode)
        PROVE  StopInv'
    <2>1. callers \in [Callers -> CallerStates] /\ stopped' = TRUE /\ pc' = pc
      BY <1>3 DEF Stop, TypeInv, TypeOK
    <2>2. CASE pc \in Live
      <3>1. callers'[c].at = Parked /\ \A d \in Callers : d # c => callers'[d] = callers[d]
        BY <1>3, <2>1, <2>2 DEF Stop, ParkOnTask
      <3> QED
        BY <2>1, <2>2, <3>1 DEF StopInv, StopHeld, ParkedWhileStopped, StopJoined
    <2>3. CASE pc \notin Live
      <3>1. \A d \in Callers : callers'[d].at = Parked => callers[d].at = Parked
        BY <1>3, <2>1, <2>3 DEF Stop, Parked
      <3> QED
        BY <2>1, <2>3, <3>1 DEF StopInv, StopHeld, ParkedWhileStopped, StopJoined
    <2> QED
      BY <2>2, <2>3
  <1>4. ASSUME NEW c \in Callers, CallerCancelled(c) \/ StopReturns(c)
        PROVE  StopInv'
    <2>1. pc' = pc /\ stopped' = stopped /\ lastCall' = lastCall
      BY <1>4 DEF CallerCancelled, StopReturns, taskVars
    <2>2. \A d \in Callers : callers'[d].at = Parked <=> callers[d].at = Parked
      BY <1>4 DEF CallerCancelled, StopReturns, TypeInv, TypeOK, CallerStates, Woken, Parked
    <2> QED
      BY <2>1, <2>2 DEF StopInv, StopHeld, ParkedWhileStopped, StopJoined
  <1>5. CASE \/ \E ids \in SUBSET Vehicles : SetVehicleIds(ids)
             \/ Tick \/ CallbackReturns \/ Tripwire
             \/ WatchdogExpires("armed") \/ WatchdogExpires("soon")
    BY <1>5, StepOutsideTask DEF SetVehicleIds, Tick, CallbackReturns, Tripwire, WatchdogExpires,
                                 taskVars
  <1>6. CASE \/ TaskStarts \/ LoopTop \/ IdleWakes \/ TokenWithoutVehicles \/ ConnectOnce
             \/ TokenRejected \/ TokenFails \/ Disconnected \/ SleepElapses
    BY <1>6, StepWithinTask DEF TaskStarts, LoopTop, IdleWakes, TokenWithoutVehicles, ConnectOnce,
          TokenRejected, TokenFails, GetterRaises, Disconnected, SleepElapses, At, Resumes,
          Live, Suspended, Running
  <1>7. CASE \/ \E f \in Frames : FrameArrives(f)
             \/ HandleFrame \/ FrameRaises \/ NextAnext
             \/ StreamEnds("stream_closed") \/ StreamEnds("error") \/ StreamRejected
             \/ ReadTimesOut
             \/ ReadMasked("iterator", "stream_closed") \/ ReadMasked("teardown", "error")
    BY <1>7, StepWithinTask DEF FrameArrives, HandleFrame, FrameRaises, NextAnext, StreamEnds,
          StreamRejected, ReadTimesOut, ReadMasked, EndAttempt, At, Resumes, Live, Suspended, Running
  <1>8. CASE TaskCancelled \/ TokenCancelled \/ TaskReturns \/ StreamBug
    BY <1>8, StepToEnd DEF TaskCancelled, TokenCancelled, TaskReturns, StreamBug
  <1>9. CASE Pause
    <2>1. CASE CancelMasked
      BY <1>9, <2>1, StepToEnd DEF Pause
    <2>2. CASE ~CancelMasked
      BY <1>9, <2>2, StepWithinTask DEF Pause, At, Live, Suspended, Running
    <2> QED
      BY <2>1, <2>2
  <1>10. CASE CloseReturns
    <2>1. CASE outcome = "bug"
      BY <1>10, <2>1, StepToEnd DEF CloseReturns
    <2>2. CASE outcome # "bug"
      BY <1>10, <2>2, StepWithinTask DEF CloseReturns, At, Live, Suspended, Running
    <2> QED
      BY <2>1, <2>2
  <1> QED
    BY <1>1, <1>2, <1>3, <1>4, <1>5, <1>6, <1>7, <1>8, <1>9, <1>10
       DEF Next, Consumer, World, TaskStep

LEMMA InitStopInv == Init => StopInv
  BY DEF Init, StopInv, StopHeld, ParkedWhileStopped, StopJoined, Parked

LEMMA NextStopInv == TypeInv /\ StopInv /\ [Next]_vars => StopInv'
  <1>1. CASE UNCHANGED vars
    BY <1>1, StepOutsideTask DEF vars, taskVars, callerVars
  <1> QED
    BY <1>1, StopInvStep

LEMMA StopInvariant == Spec => []StopInv
  BY InitStopInv, NextStopInv, TypeInvariant, PTL DEF Spec

\* When the callers of stop() have left it, however they left, no task runs.
THEOREM StopStops == Spec => []StopLeavesNothingRunning
  <1>1. TypeInv /\ StopInv => StopLeavesNothingRunning
    BY DEF StopInv, StopJoined, StopLeavesNothingRunning, TypeInv, TypeOK, Parked, Live
  <1> QED
    BY <1>1, TypeInvariant, StopInvariant, PTL

\* No callback begins between stop() and the next start().
THEOREM StopSilences == Spec => SilentOnceStopping
  <1> DEFINE Begins == callback = NoCallback /\ callback' # NoCallback
  <1>1. ASSUME StopInv, [Next]_vars, Begins PROVE lastCall # "stop"
    <2> SUFFICES ASSUME stopped PROVE FALSE
      BY <1>1 DEF StopInv, StopHeld
    <2>1. callback' = callback
      <3>1. CASE Consumer
        BY <3>1 DEF Consumer, Start, StartIgnored, Stop, CallerCancelled, SetVehicleIds,
                    consumerVars
      <3>2. CASE World
        BY <3>2 DEF World, TokenWithoutVehicles, ConnectOnce, TokenRejected, TokenFails, GetterRaises,
             TokenCancelled, FrameArrives, FrameRaises, StreamEnds, StreamRejected, StreamBug,
             Tick, consumerVars, Emit, Dispatch
      <3>3. CASE TaskStep
        BY <3>3 DEF TaskStep, TaskStarts, LoopTop, IdleWakes, TaskCancelled, HandleFrame,
             NextAnext, ReadTimesOut, ReadMasked, Disconnected, Pause, TaskReturns,
             consumerVars, Emit, Dispatch
      <3>4. CASE \/ Tripwire \/ CloseReturns \/ SleepElapses
                 \/ WatchdogExpires("armed") \/ WatchdogExpires("soon")
                 \/ \E c \in Callers : StopReturns(c)
        BY <3>4 DEF Tripwire, CloseReturns, SleepElapses, WatchdogExpires, StopReturns,
             consumerVars, Emit, Dispatch
      <3>5. CASE UNCHANGED vars
        BY <3>5 DEF vars, consumerVars
      <3>6. ~CallbackReturns
        BY <1>1 DEF CallbackReturns
      <3> QED
        BY <1>1, <3>1, <3>2, <3>3, <3>4, <3>5, <3>6 DEF Next
    <2> QED
      BY <1>1, <2>1
  <1>2. StopInv /\ [Next]_vars => [Begins => lastCall # "stop"]_vars
    BY <1>1
  <1> QED
    BY <1>2, StopInvariant, PTL DEF Spec, SilentOnceStopping

-----------------------------------------------------------------------------
(* Where a cancellation can be.  A stopped stream has one outstanding that *)
(* is not the watchdog's, still to be thrown at an await or masked on the  *)
(* way to the pause or to the return; a stream that is not stopped has     *)
(* none but the watchdog's.                                                *)

Own == IF watch = "expiring" THEN 1 ELSE 0

StoppedIsCancelled ==
    stopped /\ pc \in Live =>
        /\ cancels > Own
        /\ pc \in Suspended \cup {"ended", "pause", "return"}
        /\ pc \in Suspended => cancelPending

RunningIsNot ==
    (~stopped /\ pc \in Live) \/ pc \notin Live =>
        /\ cancels = Own
        /\ cancelPending <=> watch = "expiring"

CancelInv == StoppedIsCancelled /\ RunningIsNot

LEMMA CancelAfterFinish ==
    ASSUME NEW how, Finish(how)
    PROVE  CancelInv'
  BY DEF Finish, CancelInv, StoppedIsCancelled, RunningIsNot, Own, Live, Suspended, Running

LEMMA CancelInvStep ==
    ASSUME TypeInv, StopInv, CancelInv, Next
    PROVE  CancelInv'
  <1> USE DEF CancelInv, StoppedIsCancelled, RunningIsNot, Own, TypeInv, TypeOK, Live, Suspended,
              Running, At, Resumes, LoopFree
  <1>1. CASE Start \/ StartIgnored
    BY <1>1 DEF Start, StartIgnored, taskVars, attemptVars
  <1>2. ASSUME NEW c \in Callers, NEW mode \in CallerModes, Stop(c, mode)
        PROVE  CancelInv'
    <2>1. CASE pc \in Live
      BY <1>2, <2>1 DEF Stop, CancelTask, attemptVars
    <2>2. CASE pc \notin Live
      BY <1>2, <2>2 DEF Stop, attemptVars
    <2> QED
      BY <2>1, <2>2
  <1>3. ASSUME NEW c \in Callers, CallerCancelled(c)
        PROVE  CancelInv'
    <2>1. CASE callers[c].at = Parked
      BY <1>3, <2>1 DEF CallerCancelled, CancelTask, attemptVars, StopInv, ParkedWhileStopped,
                        Parked, Woken
    <2>2. CASE callers[c].at # Parked
      BY <1>3, <2>2 DEF CallerCancelled, attemptVars
    <2> QED
      BY <2>1, <2>2
  <1>4. ASSUME NEW c \in Callers, StopReturns(c)
        PROVE  CancelInv'
    BY <1>4 DEF StopReturns, taskVars, attemptVars
  <1>5. ASSUME NEW ids \in SUBSET Vehicles, SetVehicleIds(ids)
        PROVE  CancelInv'
    BY <1>5 DEF SetVehicleIds, WatchAfterChange, taskVars, callerVars
  <1>6. CASE Tick \/ CallbackReturns \/ Tripwire
    BY <1>6 DEF Tick, CallbackReturns, Tripwire, taskVars, attemptVars, callerVars
  <1>7. ASSUME NEW from \in {"armed", "soon"}, WatchdogExpires(from)
        PROVE  CancelInv'
    BY <1>7 DEF WatchdogExpires, CancelTask, callerVars
  <1>8. CASE \/ TaskStarts \/ LoopTop \/ IdleWakes \/ TokenWithoutVehicles \/ ConnectOnce
             \/ SleepElapses
    BY <1>8 DEF TaskStarts, LoopTop, IdleWakes, TokenWithoutVehicles, ConnectOnce,
          SleepElapses, attemptVars, callerVars
  <1>9. CASE TokenRejected \/ TokenFails \/ Disconnected
    BY <1>9 DEF TokenRejected, TokenFails, GetterRaises, Disconnected, attemptVars, callerVars
  <1>10. CASE \/ \E f \in Frames : FrameArrives(f)
              \/ HandleFrame \/ FrameRaises \/ NextAnext
              \/ StreamEnds("stream_closed") \/ StreamEnds("error") \/ StreamRejected
    <2>1. /\ pc \in {"read", "frame", "next"} /\ ~cancelPending
          /\ pc' \in {"read", "frame", "next", "close", "ended", "return"}
          /\ watch' \in {"none", "armed"}
          /\ UNCHANGED <<cancels, cancelPending, stopped>>
      <3>1. pc \in {"frame", "next"} => ~cancelPending
        OBVIOUS
      <3>2. CASE \E f \in Frames : FrameArrives(f)
        BY <3>2 DEF FrameArrives, callerVars
      <3>3. CASE HandleFrame
        BY <3>1, <3>3 DEF HandleFrame, callerVars
      <3>4. CASE FrameRaises \/ NextAnext
        BY <3>1, <3>4 DEF FrameRaises, NextAnext, callerVars
      <3>5. CASE StreamEnds("stream_closed") \/ StreamEnds("error") \/ StreamRejected
        BY <3>5 DEF StreamEnds, StreamRejected, EndAttempt, callerVars
      <3> QED
        BY <1>10, <3>2, <3>3, <3>4, <3>5
    <2>2. ~stopped /\ cancels = 0 /\ ~cancelPending
      BY <2>1
    <2> QED
      BY <2>1, <2>2
  <1>11. CASE ReadTimesOut
    BY <1>11 DEF ReadTimesOut, EndAttempt, LeaveTimeout, OwnTimeout, callerVars
  <1>12. ASSUME NEW by, NEW reason, ReadMasked(by, reason)
         PROVE  CancelInv'
    BY <1>12 DEF ReadMasked, EndAttempt, LeaveTimeout, callerVars
  <1>13. CASE TaskCancelled \/ TokenCancelled \/ TaskReturns \/ StreamBug
    BY <1>13, CancelAfterFinish DEF TaskCancelled, TokenCancelled, TaskReturns, StreamBug
  <1>14. CASE Pause
    <2>1. CASE CancelMasked
      BY <1>14, <2>1, CancelAfterFinish DEF Pause
    <2>2. CASE ~CancelMasked
      BY <1>14, <2>2 DEF Pause, CancelMasked, attemptVars
    <2> QED
      BY <2>1, <2>2
  <1>15. CASE CloseReturns
    <2>1. CASE outcome = "bug"
      BY <1>15, <2>1, CancelAfterFinish DEF CloseReturns
    <2>2. CASE outcome # "bug"
      BY <1>15, <2>2 DEF CloseReturns, attemptVars
    <2> QED
      BY <2>1, <2>2
  <1>16. CASE Consumer
    BY <1>16, <1>1, <1>2, <1>3, <1>5 DEF Consumer
  <1>17. CASE World
    BY <1>17, <1>6, <1>8, <1>9, <1>10, <1>13 DEF World
  <1>18. CASE TaskStep
    BY <1>18, <1>8, <1>9, <1>10, <1>11, <1>12, <1>13, <1>14 DEF TaskStep
  <1> QED
    BY <1>4, <1>6, <1>7, <1>8, <1>15, <1>16, <1>17, <1>18 DEF Next

LEMMA InitCancelInv == Init => CancelInv
  BY DEF Init, CancelInv, StoppedIsCancelled, RunningIsNot, Own, Live

LEMMA NextCancelInv == TypeInv /\ StopInv /\ CancelInv /\ [Next]_vars => CancelInv'
  <1>1. CASE UNCHANGED vars
    BY <1>1 DEF vars, taskVars, attemptVars, callerVars, CancelInv, StoppedIsCancelled,
                RunningIsNot, Own
  <1> QED
    BY <1>1, CancelInvStep

LEMMA CancelInvariant == Spec => []CancelInv
  BY InitCancelInv, NextCancelInv, TypeInvariant, StopInvariant, PTL DEF Spec

-----------------------------------------------------------------------------
(* No silent death, for a getter that does not raise CancelledError.       *)

TripwireSoon == tripwire => pc \in {"done", "created"}
ReturnReported == ~stopped /\ pc = "return" => heard = "AUTH_FAILED"
DeathReported ==
    ~stopped /\ pc = "done" =>
        \/ heard = "AUTH_FAILED" /\ ~tripwire
        \/ result = "failed" /\ (tripwire \/ heard = "DISCONNECTED")

DeathInv == TripwireSoon /\ ReturnReported /\ DeathReported

LEMMA DeathInvStep ==
    ASSUME TypeInv, StopInv, CancelInv, DeathInv, Next, GetterCancels = FALSE
    PROVE  DeathInv'
  <1> USE DEF DeathInv, TripwireSoon, ReturnReported, DeathReported, At, Resumes, LoopFree
  <1>1. CASE Start \/ StartIgnored \/ Tick \/ CallbackReturns
    BY <1>1 DEF Start, StartIgnored, Tick, CallbackReturns, taskVars, consumerVars, callerVars
  <1>2. ASSUME NEW c \in Callers, NEW mode \in CallerModes, Stop(c, mode)
        PROVE  DeathInv'
    BY <1>2 DEF Stop
  <1>3. ASSUME NEW c \in Callers, CallerCancelled(c) \/ StopReturns(c)
        PROVE  DeathInv'
    BY <1>3 DEF CallerCancelled, StopReturns, taskVars, consumerVars
  <1>4. ASSUME NEW ids \in SUBSET Vehicles, SetVehicleIds(ids)
        PROVE  DeathInv'
    BY <1>4 DEF SetVehicleIds, taskVars, consumerVars, callerVars
  <1>5. ASSUME NEW from \in {"armed", "soon"}, WatchdogExpires(from)
        PROVE  DeathInv'
    BY <1>5 DEF WatchdogExpires, consumerVars, callerVars
  <1>6. CASE Tripwire
    BY <1>6 DEF Tripwire, Emit, callerVars
  <1>7. CASE TaskStarts
    BY <1>7 DEF TaskStarts, PreviousSettled
  <1>8. CASE \/ LoopTop \/ IdleWakes \/ TokenWithoutVehicles \/ ConnectOnce \/ TokenFails
             \/ Disconnected \/ SleepElapses
    BY <1>8 DEF LoopTop, IdleWakes, TokenWithoutVehicles, ConnectOnce, TokenFails, GetterRaises,
                Disconnected, SleepElapses
  <1>9. CASE TokenRejected \/ StreamRejected
    BY <1>9 DEF TokenRejected, GetterRaises, StreamRejected, Emit, callerVars
  <1>10. CASE \/ \E f \in Frames : FrameArrives(f)
              \/ HandleFrame \/ FrameRaises \/ NextAnext
              \/ StreamEnds("stream_closed") \/ StreamEnds("error") \/ ReadTimesOut
              \/ ReadMasked("iterator", "stream_closed") \/ ReadMasked("teardown", "error")
    <2>1. /\ pc \in {"read", "frame", "next"} /\ tripwire' = tripwire
          /\ pc' \in {"read", "frame", "next", "close", "ended"}
      BY <1>10 DEF FrameArrives, HandleFrame, FrameRaises, NextAnext, StreamEnds, ReadTimesOut,
            ReadMasked, EndAttempt
    <2> QED
      BY <2>1
  <1>11. CASE TaskCancelled
    <2>1. stopped
      BY <1>11 DEF TaskCancelled, CancelInv, RunningIsNot, Own, Live, Suspended, Running,
                   OwnTimeout, TypeInv, TypeOK
    <2> QED
      BY <1>11, <2>1 DEF TaskCancelled, Finish, TripwireDue
  <1>12. CASE TaskReturns
    BY <1>12 DEF TaskReturns, Finish, TripwireDue, consumerVars
  <1>13. CASE StreamBug
    BY <1>13 DEF StreamBug, Finish, TripwireDue, consumerVars
  <1>14. CASE Pause
    <2>1. CASE CancelMasked
      <3>1. stopped
        BY <1>14, <2>1 DEF Pause, CancelMasked, CancelInv, RunningIsNot, Own, Live, Suspended,
                           Running, TypeInv, TypeOK
      <3> QED
        BY <1>14, <2>1, <3>1 DEF Pause, Finish, TripwireDue
    <2>2. CASE ~CancelMasked
      BY <1>14, <2>2 DEF Pause
    <2> QED
      BY <2>1, <2>2
  <1>15. CASE CloseReturns
    <2>1. CASE outcome = "bug"
      BY <1>15, <2>1 DEF CloseReturns, Finish, TripwireDue, consumerVars
    <2>2. CASE outcome # "bug"
      BY <1>15, <2>2 DEF CloseReturns
    <2> QED
      BY <2>1, <2>2
  <1>16. ~TokenCancelled
    BY DEF TokenCancelled
  <1>17. CASE Consumer
    BY <1>17, <1>1, <1>2, <1>3, <1>4 DEF Consumer
  <1>18. CASE World
    BY <1>18, <1>1, <1>8, <1>9, <1>10, <1>13, <1>16 DEF World
  <1>19. CASE TaskStep
    BY <1>19, <1>7, <1>8, <1>10, <1>11, <1>12, <1>14 DEF TaskStep
  <1> QED
    BY <1>1, <1>3, <1>5, <1>6, <1>8, <1>15, <1>17, <1>18, <1>19 DEF Next

LEMMA DeathInvariant ==
    ASSUME GetterCancels = FALSE
    PROVE  Spec => []DeathInv
  <1>1. Init => DeathInv
    BY DEF Init, DeathInv, TripwireSoon, ReturnReported, DeathReported
  <1>2. TypeInv /\ StopInv /\ CancelInv /\ DeathInv /\ [Next]_vars => DeathInv'
    <2>1. CASE UNCHANGED vars
      BY <2>1 DEF vars, taskVars, consumerVars, callerVars, DeathInv, TripwireSoon,
                  ReturnReported, DeathReported
    <2> QED
      BY <2>1, DeathInvStep
  <1> QED
    BY <1>1, <1>2, TypeInvariant, StopInvariant, CancelInvariant, PTL DEF Spec

\* Unless it was stopped, a stream that is over has said so.
THEOREM DeathIsReported ==
    ASSUME GetterCancels = FALSE
    PROVE  Spec => []NoSilentDeath
  <1>1. DeathInv => NoSilentDeath
    BY DEF DeathInv, DeathReported, NoSilentDeath
  <1> QED
    BY <1>1, DeathInvariant, PTL

-----------------------------------------------------------------------------
(* How a stop() ends for its caller.                                       *)

\* Only callers in the cleanup of an earlier cancellation carry it into stop().
NoneBefore ==
    "cleanup" \notin CallerModes =>
        \A c \in Callers : callers[c].cancel # "before"

\* Without masking a stopped task stays at the await where its CancelledError
\* will be thrown.
StoppedWaits == Masking = {} => (stopped /\ pc \in Live => pc \in Suspended)

\* While it is inside, a call has no exit; a caller cancelled while parked is
\* woken by the cancellation of the task, and raises.
InsideNoExit == \A c \in Callers : callers[c].at # "out" => callers[c].exit = "none"
WokenByCancel ==
    Masking = {} =>
        \A c \in Callers : callers[c].cancel = "parked" => callers[c].at # "woken_done"

RaisesWhenInterrupted == "cleanup" \notin CallerModes => StopRaisesOnlyWhenInterrupted
OwnPropagates == Masking = {} => OwnCancelPropagates

CallerInv ==
    NoneBefore /\ StoppedWaits /\ InsideNoExit /\ WokenByCancel
        /\ RaisesWhenInterrupted /\ OwnPropagates

\* A step the callers do not notice.
LEMMA CallersUntouched ==
    ASSUME CallerInv, UNCHANGED <<stopped, callers>>,
           pc' = pc \/ pc' \notin Live \/ pc' \in Suspended \/ ~stopped
    PROVE  CallerInv'
  BY DEF CallerInv, NoneBefore, StoppedWaits, InsideNoExit, WokenByCancel,
         RaisesWhenInterrupted, OwnPropagates, StopRaisesOnlyWhenInterrupted, OwnCancelPropagates

\* The end of the task wakes the parked callers; unless something masks, only a
\* cancellation ends a task that a caller waits for.
LEMMA CallersWoken ==
    ASSUME TypeInv, CallerInv, NEW how, Finish(how), stopped' = stopped,
           Masking = {} /\ how # "cancelled" => \A c \in Callers : callers[c].at # Parked
    PROVE  CallerInv'
  <1>1. callers \in [Callers -> CallerStates] /\ pc' \notin Live
    BY DEF TypeInv, TypeOK, Finish, Live, Suspended, Running
  <1>2. \A c \in Callers :
            /\ callers'[c].cancel = callers[c].cancel /\ callers'[c].exit = callers[c].exit
            /\ callers[c].at # Parked => callers'[c].at = callers[c].at
            /\ callers[c].at = Parked =>
                    callers'[c].at = IF how = "cancelled" THEN "woken_cancelled" ELSE "woken_done"
    BY <1>1 DEF Finish, CallerStates
  <1> QED
    BY <1>1, <1>2 DEF CallerInv, NoneBefore, StoppedWaits, InsideNoExit, WokenByCancel, Parked,
       RaisesWhenInterrupted, OwnPropagates, StopRaisesOnlyWhenInterrupted, OwnCancelPropagates

LEMMA CallerInvStep ==
    ASSUME TypeInv, StopInv, CancelInv, CallerInv, Next
    PROVE  CallerInv'
  <1> USE DEF At, Resumes, LoopFree, callerVars
  <1>1. callers \in [Callers -> CallerStates]
    BY DEF TypeInv, TypeOK
  <1>2. CASE Start
    BY <1>2 DEF Start, CallerInv, NoneBefore, StoppedWaits, InsideNoExit, WokenByCancel,
       RaisesWhenInterrupted, OwnPropagates, StopRaisesOnlyWhenInterrupted, OwnCancelPropagates
  <1>3. CASE \/ StartIgnored \/ Tick \/ CallbackReturns \/ Tripwire
             \/ \E ids \in SUBSET Vehicles : SetVehicleIds(ids)
             \/ WatchdogExpires("armed") \/ WatchdogExpires("soon")
    BY <1>3, CallersUntouched DEF StartIgnored, Tick, CallbackReturns, Tripwire, SetVehicleIds,
          WatchdogExpires, taskVars
  <1>4. ASSUME NEW c \in Callers, NEW mode \in CallerModes, Stop(c, mode)
        PROVE  CallerInv'
    <2> DEFINE cancel == IF mode = "cleanup" THEN "before" ELSE "no"
    <2>1. /\ pc' = pc /\ pc \in Suspended /\ \A d \in Callers \ {c} : callers'[d] = callers[d]
          /\ callers'[c].cancel = cancel
          /\ callers'[c].at # "woken_done"
          /\ callers'[c].at # "out" => callers'[c].exit = "none"
          /\ callers'[c].exit = "raised" => cancel # "no"
      <3>1. CASE pc \in Live
        BY <1>1, <1>4, <3>1 DEF Stop, ParkOnTask, Parked
      <3>2. CASE pc \notin Live
        BY <1>1, <1>4, <3>2 DEF Stop, ExitOf
      <3> QED
        BY <3>1, <3>2
    <2> QED
      BY <2>1 DEF CallerInv, NoneBefore, StoppedWaits, InsideNoExit, WokenByCancel,
       RaisesWhenInterrupted, OwnPropagates, StopRaisesOnlyWhenInterrupted, OwnCancelPropagates
  <1>5. ASSUME NEW c \in Callers, CallerCancelled(c)
        PROVE  CallerInv'
    <2>1. /\ pc' = pc /\ stopped' = stopped
          /\ \A d \in Callers \ {c} : callers'[d] = callers[d]
          /\ callers'[c].at = callers[c].at /\ callers'[c].exit = callers[c].exit
          /\ callers'[c].cancel \in {"parked", "woken"}
          /\ callers'[c].cancel = "parked" => callers[c].at = Parked
          /\ callers[c].at # "out"
      BY <1>1, <1>5 DEF CallerCancelled, CallerStates, Parked, Woken
    <2> QED
      BY <2>1 DEF CallerInv, NoneBefore, StoppedWaits, InsideNoExit, WokenByCancel, Parked,
       RaisesWhenInterrupted, OwnPropagates, StopRaisesOnlyWhenInterrupted, OwnCancelPropagates
  <1>6. ASSUME NEW c \in Callers, StopReturns(c)
        PROVE  CallerInv'
    <2>1. /\ pc' = pc /\ stopped' = stopped
          /\ \A d \in Callers \ {c} : callers'[d] = callers[d]
          /\ callers'[c].at = "out" /\ callers'[c].cancel = callers[c].cancel
          /\ callers[c].at \in Woken
          /\ callers'[c].exit = ExitOf(callers[c].cancel, callers[c].at = "woken_cancelled")
      BY <1>1, <1>6 DEF StopReturns, CallerStates, taskVars
    <2>2. callers[c].cancel \in {"no", "before", "parked", "woken"}
      BY <1>1 DEF CallerStates
    <2> QED
      BY <2>1, <2>2 DEF CallerInv, NoneBefore, StoppedWaits, InsideNoExit, WokenByCancel, ExitOf,
         Woken, RaisesWhenInterrupted, OwnPropagates, StopRaisesOnlyWhenInterrupted,
         OwnCancelPropagates
  <1>7. pc \in Live /\ stopped => pc \in Suspended \cup {"ended", "pause", "return"}
    BY DEF CancelInv, StoppedIsCancelled
  <1>8. CASE \/ TaskStarts \/ LoopTop \/ IdleWakes \/ TokenWithoutVehicles \/ ConnectOnce
             \/ SleepElapses
             \/ (\E f \in Frames : FrameArrives(f)) \/ HandleFrame \/ FrameRaises \/ NextAnext
             \/ StreamEnds("stream_closed") \/ StreamEnds("error") \/ StreamRejected
    <2>1. /\ pc \in Running \/ (pc \in Suspended \ {"none", "done"} /\ ~cancelPending)
          /\ pc \notin {"ended", "pause", "return"} /\ UNCHANGED <<stopped, callers>>
      BY <1>8 DEF TaskStarts, LoopTop, IdleWakes, TokenWithoutVehicles, ConnectOnce,
         SleepElapses, FrameArrives, HandleFrame, FrameRaises, NextAnext,
         StreamEnds, StreamRejected, Running, Suspended
    <2>2. ~stopped
      BY <1>7, <2>1 DEF CancelInv, StoppedIsCancelled, Live, Suspended, Running
    <2> QED
      BY <2>1, <2>2, CallersUntouched
  <1>9. CASE TokenRejected \/ TokenFails
    <2>1. CASE Masking = {}
      <3>1. ~stopped
        BY <1>9, <2>1 DEF TokenRejected, TokenFails, GetterRaises, CancelInv,
                            StoppedIsCancelled, Live, Suspended
      <3> QED
        BY <1>9, <3>1, CallersUntouched DEF TokenRejected, TokenFails, GetterRaises
    <2>2. CASE Masking # {}
      BY <1>9, <2>2 DEF TokenRejected, TokenFails, GetterRaises, CallerInv, NoneBefore,
         StoppedWaits, InsideNoExit, WokenByCancel, RaisesWhenInterrupted, OwnPropagates, StopRaisesOnlyWhenInterrupted
    <2> QED
      BY <2>1, <2>2
  <1>10. CASE Disconnected
    <2>1. Masking = {} => ~stopped
      BY <1>10 DEF Disconnected, CallerInv, StoppedWaits, Live, Suspended, Running
    <2>2. UNCHANGED <<stopped, callers>>
      BY <1>10 DEF Disconnected
    <2> QED
      BY <2>1, <2>2 DEF CallerInv, NoneBefore, StoppedWaits, InsideNoExit, WokenByCancel,
         RaisesWhenInterrupted, OwnPropagates, StopRaisesOnlyWhenInterrupted, OwnCancelPropagates
  <1>11. CASE ReadTimesOut
    <2>1. ~stopped
      BY <1>11 DEF ReadTimesOut, OwnTimeout, CancelInv, StoppedIsCancelled, Own, Live, Suspended
    <2> QED
      BY <1>11, <2>1, CallersUntouched DEF ReadTimesOut
  <1>12. CASE ReadMasked("iterator", "stream_closed") \/ ReadMasked("teardown", "error")
    BY <1>12 DEF ReadMasked, CallerInv, NoneBefore, StoppedWaits, InsideNoExit, WokenByCancel,
       RaisesWhenInterrupted, OwnPropagates, StopRaisesOnlyWhenInterrupted
  <1>13. CASE TaskCancelled \/ TokenCancelled
    BY <1>13, CallersWoken DEF TaskCancelled, TokenCancelled
  <1>14. CASE TaskReturns
    <2>1. Masking = {} => ~stopped
      BY <1>14 DEF TaskReturns, CallerInv, StoppedWaits, Live, Suspended, Running
    <2> QED
      BY <1>14, <2>1, CallersWoken DEF TaskReturns, StopInv, ParkedWhileStopped
  <1>15. CASE StreamBug
    <2>1. ~stopped
      BY <1>15 DEF StreamBug, CancelInv, StoppedIsCancelled, Live, Suspended
    <2> QED
      BY <1>15, <2>1, CallersWoken DEF StreamBug, StopInv, ParkedWhileStopped
  <1>16. CASE Pause
    <2>1. pc = "pause"
      BY <1>16 DEF Pause
    <2>2. Masking = {} => ~stopped
      BY <2>1 DEF CallerInv, StoppedWaits, Live, Suspended, Running
    <2>3. CASE CancelMasked
      BY <1>16, <2>2, <2>3, CallersWoken DEF Pause, StopInv, ParkedWhileStopped
    <2>4. CASE ~CancelMasked
      <3>1. ~stopped
        BY <2>1, <2>4 DEF CancelMasked, CancelInv, StoppedIsCancelled, Own, Live, Running,
                          TypeInv, TypeOK
      <3> QED
        BY <1>16, <2>4, <3>1, CallersUntouched DEF Pause
    <2> QED
      BY <2>3, <2>4
  <1>17. CASE CloseReturns
    <2>1. Masking = {} => ~stopped
      BY <1>17 DEF CloseReturns, CancelInv, StoppedIsCancelled, Live, Suspended
    <2>2. CASE outcome = "bug"
      BY <1>17, <2>1, <2>2, CallersWoken DEF CloseReturns, StopInv, ParkedWhileStopped
    <2>3. CASE outcome # "bug"
      BY <1>17, <2>1, <2>3 DEF CloseReturns, CallerInv, NoneBefore, StoppedWaits, InsideNoExit,
         WokenByCancel, RaisesWhenInterrupted, OwnPropagates, StopRaisesOnlyWhenInterrupted,
         OwnCancelPropagates
    <2> QED
      BY <2>2, <2>3
  <1>18. CASE Consumer
    BY <1>18, <1>2, <1>3, <1>4, <1>5 DEF Consumer
  <1>19. CASE World
    BY <1>19, <1>3, <1>8, <1>9, <1>13, <1>15 DEF World
  <1>20. CASE TaskStep
    BY <1>20, <1>8, <1>10, <1>11, <1>12, <1>13, <1>14, <1>16 DEF TaskStep
  <1> QED
    BY <1>3, <1>6, <1>8, <1>17, <1>18, <1>19, <1>20 DEF Next

LEMMA CallerInvariant == Spec => []CallerInv
  <1>1. Init => CallerInv
    BY DEF Init, CallerInv, NoneBefore, StoppedWaits, InsideNoExit, WokenByCancel,
       RaisesWhenInterrupted, OwnPropagates, StopRaisesOnlyWhenInterrupted, OwnCancelPropagates
  <1>2. TypeInv /\ StopInv /\ CancelInv /\ CallerInv /\ [Next]_vars => CallerInv'
    <2>1. CASE UNCHANGED vars
      BY <2>1, CallersUntouched DEF vars, taskVars, callerVars
    <2> QED
      BY <2>1, CallerInvStep
  <1> QED
    BY <1>1, <1>2, TypeInvariant, StopInvariant, CancelInvariant, PTL DEF Spec

\* Called by tasks that have not been cancelled before, stop() raises only into
\* one that is cancelled while inside it.
THEOREM StopRaisesRightly ==
    ASSUME "cleanup" \notin CallerModes
    PROVE  Spec => []StopRaisesOnlyWhenInterrupted
  <1>1. CallerInv => StopRaisesOnlyWhenInterrupted
    BY DEF CallerInv, RaisesWhenInterrupted
  <1> QED
    BY <1>1, CallerInvariant, PTL

\* When nothing masks a cancellation, a caller cancelled while parked in stop()
\* sees its own CancelledError.
THEOREM OwnCancelRaises ==
    ASSUME Masking = {}
    PROVE  Spec => []OwnCancelPropagates
  <1>1. CallerInv => OwnCancelPropagates
    BY DEF CallerInv, OwnPropagates
  <1> QED
    BY <1>1, CallerInvariant, PTL

-----------------------------------------------------------------------------
(***************************************************************************)
(* The gate within the stream: only HandleFrame delivers telemetry and only *)
(* it and set_vehicle_ids touch the gate; it never runs on a stopped        *)
(* stream; no stored time lies in the future, and nothing is delivered for  *)
(* a vehicle that is not subscribed.                                        *)
(***************************************************************************)

\* Every step but HandleFrame leaves the telemetry callback alone.
LEMMA OnlyHandleFrameDelivers ==
    ASSUME [Next]_vars, Delivery
    PROVE  HandleFrame
  <1> SUFFICES ASSUME ~HandleFrame PROVE FALSE
    OBVIOUS
  <1>1. callback = NoCallback /\ callback' # callback
    BY DEF Delivery, NoCallback
  <1>2. ASSUME NEW s, NEW r PROVE callback' # Event(s, r)
    BY DEF Delivery, Event
  <1>3. ASSUME NEW s, NEW r PROVE ~Emit(s, r)
    BY <1>1, <1>2 DEF Emit, Dispatch
  <1>4. CASE Consumer
    BY <1>1, <1>4 DEF Consumer, Start, StartIgnored, Stop, CallerCancelled, SetVehicleIds,
         consumerVars
  <1>5. CASE World
    BY <1>1, <1>3, <1>5 DEF World, TokenWithoutVehicles, ConnectOnce, TokenRejected, TokenFails, GetterRaises,
         TokenCancelled, FrameArrives, FrameRaises, StreamEnds, StreamRejected, StreamBug, Tick,
         consumerVars
  <1>6. CASE TaskStep
    BY <1>1, <1>3, <1>6 DEF TaskStep, TaskStarts, LoopTop, IdleWakes, TaskCancelled, NextAnext,
         ReadTimesOut, ReadMasked, Disconnected, Pause, TaskReturns, consumerVars
  <1>7. CASE \/ CallbackReturns \/ Tripwire \/ CloseReturns \/ SleepElapses
             \/ WatchdogExpires("armed") \/ WatchdogExpires("soon")
             \/ \E c \in Callers : StopReturns(c)
    BY <1>1, <1>3, <1>7 DEF CallbackReturns, Tripwire, CloseReturns, SleepElapses, WatchdogExpires,
         StopReturns, consumerVars
  <1>8. CASE UNCHANGED vars
    BY <1>1, <1>8 DEF vars, consumerVars
  <1> QED
    BY <1>4, <1>5, <1>6, <1>7, <1>8 DEF Next

\* Every step but these two leaves the gate and the vehicle set alone.
LEMMA GateUntouched ==
    ASSUME [Next]_vars, ~HandleFrame, \A ids \in SUBSET Vehicles : ~SetVehicleIds(ids)
    PROVE  UNCHANGED <<lastTimes, vehicleIds>>
  <1> USE DEF sharedVars
  <1>1. CASE Consumer
    BY <1>1 DEF Consumer, Start, StartIgnored, Stop, CallerCancelled
  <1>2. CASE World
    BY <1>2 DEF World, TokenWithoutVehicles, ConnectOnce, TokenRejected, TokenFails, GetterRaises,
         TokenCancelled, FrameArrives, FrameRaises, StreamEnds, StreamRejected, StreamBug, Tick
  <1>3. CASE TaskStep
    BY <1>3 DEF TaskStep, TaskStarts, LoopTop, IdleWakes, TaskCancelled, NextAnext, ReadTimesOut,
         ReadMasked, Disconnected, Pause, TaskReturns
  <1>4. CASE \/ CallbackReturns \/ Tripwire \/ CloseReturns \/ SleepElapses
             \/ WatchdogExpires("armed") \/ WatchdogExpires("soon")
             \/ \E c \in Callers : StopReturns(c)
    BY <1>4 DEF CallbackReturns, Tripwire, CloseReturns, SleepElapses, WatchdogExpires, StopReturns
  <1>5. CASE UNCHANGED vars
    BY <1>5 DEF vars
  <1> QED
    BY <1>1, <1>2, <1>3, <1>4, <1>5 DEF Next

\* What HandleFrame does to a wanted frame.
LEMMA HandleFrameFacts ==
    ASSUME TypeInv, CancelInv, HandleFrame
    PROVE  LET v == frame.vehicle
               b == ClampFutureTimes(frame.blocks, now)
               t == Adopted(lastTimes[v], b)
           IN /\ v \in Vehicles /\ frame.blocks \in Blocks /\ b \in Blocks
              /\ lastTimes[v] \in Gates
              /\ vehicleIds' = vehicleIds
              /\ v \notin vehicleIds => lastTimes' = lastTimes /\ ~Delivery
              /\ v \in vehicleIds =>
                    /\ lastTimes' = [lastTimes EXCEPT ![v] = GateAfter(lastTimes[v], b)]
                    /\ DOMAIN t = {} => ~Delivery
                    /\ DOMAIN t # {} => /\ Delivery /\ callback'.vehicle = v
                                        /\ callback'.telemetry = t
  <1> DEFINE v == frame.vehicle
             b == ClampFutureTimes(frame.blocks, now)
             t == Adopted(lastTimes[v], b)
  <1>1. pc = "frame" /\ callback = NoCallback
    BY DEF HandleFrame, At
  <1>2. v \in Vehicles /\ frame.blocks \in Blocks
    BY <1>1 DEF TypeInv, TypeOK, Frames
  <1>3. b \in Blocks /\ lastTimes[v] \in Gates
    BY <1>2, ClampFutureTimesType DEF TypeInv, TypeOK
  <1>4. ~stopped
    BY <1>1 DEF CancelInv, StoppedIsCancelled, Live, Suspended, Running
  <1>5. vehicleIds' = vehicleIds
    BY DEF HandleFrame
  <1>6. ASSUME callback' = callback PROVE ~Delivery
    BY <1>1, <1>6 DEF Delivery, NoCallback
  <1>7. v \notin vehicleIds => lastTimes' = lastTimes /\ ~Delivery
    BY <1>6 DEF HandleFrame, Wanted
  <1>8. ASSUME v \in vehicleIds
        PROVE  /\ lastTimes' = [lastTimes EXCEPT ![v] = GateAfter(lastTimes[v], b)]
               /\ DOMAIN t = {} => ~Delivery
               /\ DOMAIN t # {} => /\ Delivery /\ callback'.vehicle = v
                                   /\ callback'.telemetry = t
    <2>1. lastTimes' = [lastTimes EXCEPT ![v] = GateAfter(lastTimes[v], b)]
      BY <1>8 DEF HandleFrame, Wanted
    <2>2. DOMAIN t = {} => callback' = callback
      BY <1>8 DEF HandleFrame, Wanted
    <2>3. DOMAIN t # {} => callback' = [kind |-> "update", vehicle |-> v, telemetry |-> t]
      BY <1>4, <1>8 DEF HandleFrame, Wanted, Dispatch
    <2> QED
      BY <1>1, <1>6, <2>1, <2>2, <2>3 DEF Delivery
  <1> QED
    BY <1>2, <1>3, <1>5, <1>7, <1>8

\* A frame leaves the task's hands by HandleFrame, or it kills the task.
LEMMA OnlyHandleFrameHandles ==
    ASSUME [Next]_vars, pc = "frame", pc' = "next"
    PROVE  HandleFrame
  <1> SUFFICES ASSUME ~HandleFrame PROVE FALSE
    OBVIOUS
  <1> USE DEF taskVars, At, Resumes, LoopFree, Suspended, Running, Live
  <1>1. CASE Consumer
    BY <1>1 DEF Consumer, Start, StartIgnored, Stop, CallerCancelled, SetVehicleIds
  <1>2. CASE World
    BY <1>2 DEF World, TokenWithoutVehicles, ConnectOnce, TokenRejected, TokenFails, GetterRaises,
         TokenCancelled, FrameArrives, FrameRaises, StreamEnds, StreamRejected, StreamBug, Tick
  <1>3. CASE TaskStep
    BY <1>3 DEF TaskStep, TaskStarts, LoopTop, IdleWakes, TaskCancelled, NextAnext, ReadTimesOut,
         ReadMasked, Disconnected, Pause, TaskReturns
  <1>4. CASE \/ CallbackReturns \/ Tripwire \/ CloseReturns \/ SleepElapses
             \/ WatchdogExpires("armed") \/ WatchdogExpires("soon")
             \/ \E c \in Callers : StopReturns(c)
    BY <1>4 DEF CallbackReturns, Tripwire, CloseReturns, SleepElapses, WatchdogExpires, StopReturns
  <1>5. CASE UNCHANGED vars
    BY <1>5 DEF vars
  <1> QED
    BY <1>1, <1>2, <1>3, <1>4, <1>5 DEF Next

\* The clock moves by itself.
LEMMA ClockStep ==
    ASSUME [Next]_vars
    PROVE  now' = now \/ Tick
  <1>1. CASE Consumer
    BY <1>1 DEF Consumer, Start, StartIgnored, Stop, CallerCancelled, SetVehicleIds
  <1>2. CASE World
    BY <1>2 DEF World, TokenWithoutVehicles, ConnectOnce, TokenRejected, TokenFails, GetterRaises,
         TokenCancelled, FrameArrives, FrameRaises, StreamEnds, StreamRejected, StreamBug
  <1>3. CASE TaskStep
    BY <1>3 DEF TaskStep, TaskStarts, LoopTop, IdleWakes, TaskCancelled, HandleFrame, NextAnext,
         ReadTimesOut, ReadMasked, Disconnected, Pause, TaskReturns
  <1>4. CASE \/ CallbackReturns \/ Tripwire \/ CloseReturns \/ SleepElapses
             \/ WatchdogExpires("armed") \/ WatchdogExpires("soon")
             \/ \E c \in Callers : StopReturns(c)
    BY <1>4 DEF CallbackReturns, Tripwire, CloseReturns, SleepElapses, WatchdogExpires, StopReturns
  <1>5. CASE UNCHANGED vars
    BY <1>5 DEF vars
  <1> QED
    BY <1>1, <1>2, <1>3, <1>4, <1>5 DEF Next

\* A stored time never lies in the future.
LEMMA HighWaterStep ==
    ASSUME TypeInv, CancelInv, HighWaterReachable, [Next]_vars
    PROVE  HighWaterReachable'
  <1>1. now \in Times /\ lastTimes \in [Vehicles -> Gates] /\ (now' = now \/ now' = now + 1)
    BY ClockStep, MaxTimeAssumption DEF Tick, TypeInv, TypeOK, Times
  <1>2. \A v \in Vehicles, m \in Metrics : lastTimes[v][m] \in Stamps
    BY <1>1 DEF Gates
  <1>3. ASSUME NEW v \in Vehicles, NEW m \in Metrics, lastTimes'[v][m] # NoTime,
               lastTimes'[v][m] = lastTimes[v][m]
        PROVE  lastTimes'[v][m] <= now'
    BY <1>1, <1>2, <1>3, MaxTimeAssumption DEF HighWaterReachable, Times, Stamps
  <1>4. CASE UNCHANGED lastTimes
    BY <1>3, <1>4 DEF HighWaterReachable
  <1>5. ASSUME NEW ids \in SUBSET Vehicles, SetVehicleIds(ids)
        PROVE  HighWaterReachable'
    <2>1. \A v \in Vehicles : lastTimes'[v] = OpenGate \/ lastTimes'[v] = lastTimes[v]
      BY <1>1, <1>5, WithoutGatesType DEF SetVehicleIds
    <2>2. \A m \in Metrics : OpenGate[m] = NoTime
      BY DEF OpenGate
    <2> QED
      BY <1>3, <2>1, <2>2 DEF HighWaterReachable
  <1>6. CASE HandleFrame
    <2> DEFINE v == frame.vehicle
               b == ClampFutureTimes(frame.blocks, now)
    <2>1. /\ v \in Vehicles /\ frame.blocks \in Blocks /\ b \in Blocks /\ lastTimes[v] \in Gates
          /\ \/ lastTimes' = lastTimes
             \/ lastTimes' = [lastTimes EXCEPT ![v] = GateAfter(lastTimes[v], b)]
      BY <1>6, HandleFrameFacts
    <2>2. ASSUME NEW m \in DOMAIN b, b[m] # NoTime PROVE b[m] <= now
      BY <1>1, <2>1, <2>2, BlocksElim, ClampFutureTimesType, ClampTimeBounded
    <2>3. ASSUME NEW w \in Vehicles, NEW m \in Metrics, lastTimes'[w][m] # NoTime,
                 lastTimes'[w][m] # lastTimes[w][m]
          PROVE  lastTimes'[w][m] <= now'
      <3>1. w = v /\ lastTimes'[w] = GateAfter(lastTimes[v], b)
        BY <1>1, <2>1, <2>3
      <3>2. m \in DOMAIN b /\ lastTimes'[w][m] = b[m]
        BY <2>1, <2>3, <3>1, GateAfterType
      <3>3. b[m] \in Stamps
        BY <2>1, <3>2, BlocksElim
      <3> QED
        BY <1>1, <2>2, <2>3, <3>2, <3>3, MaxTimeAssumption DEF Times, Stamps
    <2> QED
      BY <1>3, <2>3 DEF HighWaterReachable
  <1> QED
    BY <1>4, <1>5, <1>6, GateUntouched

LEMMA InitHighWater == Init => HighWaterReachable
  <1> SUFFICES ASSUME Init, NEW v \in Vehicles, NEW m \in Metrics, lastTimes[v][m] # NoTime
               PROVE  lastTimes[v][m] <= now
    BY DEF HighWaterReachable
  <1>1. PICK seed \in [Vehicles -> Gates] : lastTimes = WarmGate(seed, now)
    BY DEF Init
  <1>2. seed[v][m] \in Stamps /\ now \in Times
    BY <1>1 DEF Gates, Init
  <1> QED
    BY <1>1, <1>2, WarmGateType, ClampTimeBounded

\* No stored time lies in the future, so the gate can always be passed.
THEOREM HighWater == Spec => []HighWaterReachable
  <1> QED
    BY TypeInvariant, InitHighWater, HighWaterStep, CancelInvariant, PTL DEF Spec

-----------------------------------------------------------------------------
\* on_update is called for subscribed vehicles only.
THEOREM OnlySubscribed == Spec => UpdatesOnlySubscribed
  <1>1. ASSUME TypeInv, CancelInv, [Next]_vars, Delivery
        PROVE  callback'.vehicle \in vehicleIds
    BY <1>1, OnlyHandleFrameDelivers, HandleFrameFacts
  <1>2. TypeInv /\ CancelInv /\ [Next]_vars => [Delivery => callback'.vehicle \in vehicleIds]_vars
    BY <1>1
  <1> QED
    BY <1>2, TypeInvariant, CancelInvariant, PTL DEF Spec, UpdatesOnlySubscribed
=============================================================================
