-------------------------- MODULE TelemetryStream --------------------------
(***************************************************************************)
(* TelemetryStream of src/src/aioabrp/stream.py: the background task that  *)
(* keeps one SSE connection open for the subscribed vehicles, the consumer *)
(* that steers it with start(), stop() and set_vehicle_ids(), and the      *)
(* asyncio event loop that runs them.                                      *)
(*                                                                         *)
(* asyncio is cooperative: a coroutine runs without interruption from one  *)
(* suspending await to the next.  pc is "running" (Running) between two    *)
(* awaits, and then only the task itself, or the consumer callback it is   *)
(* in, may act.  At an await (pc is suspended) everything else may.  What  *)
(* asyncio itself does (cancellation requests and their count, Timeout,    *)
(* the order of done-callbacks and of woken waiters) is modelled from how  *)
(* stream.py uses it.                                                      *)
(***************************************************************************)
EXTENDS MonotonicityGate

CONSTANTS
    Callers,        \* the consumer's tasks that call stop()
    CallerModes,    \* how they call it: "fresh", or in the "cleanup" of a
                    \* task that has been cancelled before
    BackoffLen,     \* number of delays on the backoff ladder
    Masking,        \* who turns a CancelledError into something else: the
                    \* "iterator", the response "teardown", the token "getter"
    GetterCancels   \* the token getter itself may raise CancelledError

ASSUME BackoffAssumption == BackoffLen \in Nat \ {0}
ASSUME ModesAssumption ==
    /\ CallerModes \subseteq {"fresh", "cleanup"}
    /\ Masking \subseteq {"iterator", "teardown", "getter"}
    /\ GetterCancels \in BOOLEAN

VARIABLES
    pc,             \* where the background task is (the awaits are Suspended)
    cancels,        \* Task.cancelling() of the background task
    cancelPending,  \* a CancelledError will be thrown at its next resumption
    result,         \* how the last finished task ended
    tripwire,       \* _on_task_done is scheduled for a failed task
    delayIdx,       \* position on the backoff ladder (delay_idx)
    requested,      \* vehicleIds of the live connection
    sawFrame,       \* saw_frame of the connection attempt
    outcome,        \* disconnect_reason of the connection attempt
    frame,          \* the frame the task holds
    watch,          \* the live Timeout (_watch): none, armed, soon, expiring
    vehicleIds,     \* _vehicle_ids
    idsChanged,     \* the event _ids_changed
    lastTimes,      \* _last_times
    stopped,        \* _stopped
    callback,       \* the consumer callback being run
    heard,          \* state of the last ConnectionEvent since start()
    lastCall,       \* the consumer's last call among start() and stop()
    callers,        \* where each caller of stop() is
    now             \* the wall clock

taskVars == <<pc, cancels, cancelPending, result, tripwire>>
attemptVars == <<delayIdx, requested, sawFrame, outcome, frame, watch>>
sharedVars == <<vehicleIds, idsChanged, lastTimes>>
consumerVars == <<callback, heard>>
callerVars == <<stopped, lastCall, callers>>
vars == <<taskVars, attemptVars, sharedVars, consumerVars, callerVars, now>>

-----------------------------------------------------------------------------
(* Values.                                                                 *)

Suspended == {"none", "created", "idle", "token", "read", "close", "sleep", "done"}
Running == {"loop", "next", "frame", "ended", "pause", "return"}
Live == (Suspended \cup Running) \ {"none", "done"}

Outcomes == {"none", "stream_closed", "vehicles_changed", "watchdog_stall", "error", "bug"}
Reasons == (Outcomes \ {"none", "bug"}) \cup {"none", "auth", "internal_error"}
States == {"CONNECTED", "DISCONNECTED", "AUTH_FAILED"}

Frames == [vehicle : Vehicles, blocks : Blocks]
NoFrame == [vehicle |-> "none"]

NoCallback == [kind |-> "none"]
Updates == [kind : {"update"}, vehicle : Vehicles, telemetry : Blocks]
Events == [kind : {"event"}, state : States, reason : Reasons]
Event(s, r) == [kind |-> "event", state |-> s, reason |-> r]

\* A caller is outside stop(), parked on `await task', or woken from it by the
\* end of a task that was cancelled or not.  cancel: when the caller itself was
\* cancelled, if it was.  exit: how its last stop() ended.
Parked == "parked"
Woken == {"woken_done", "woken_cancelled"}
CallerStates == [at : {"out", Parked} \cup Woken,
                 cancel : {"no", "before", "parked", "woken"},
                 exit : {"none", "returned", "raised"}]

LoopFree == pc \in Suspended /\ callback = NoCallback
At(p) == pc = p /\ callback = NoCallback
Resumes(p) == At(p) /\ ~cancelPending

-----------------------------------------------------------------------------
(* Steps shared by several actions.                                        *)

DispatchAlways(cb) == callback' = cb    \* slip: _stopped not tested

\* _dispatch: no callback is run once stop() has begun.
Dispatch(cb) ==
    IF stopped THEN UNCHANGED callback ELSE callback' = cb

\* _connection_event.
Emit(s, r) ==
    /\ Dispatch(Event(s, r))
    /\ heard' = IF stopped THEN heard ELSE s

\* Task.cancel() on the unfinished background task.
CancelTask ==
    /\ cancels' = cancels + 1
    /\ cancelPending' = TRUE

\* The pending cancellation is the watchdog's own, so Timeout.__aexit__ turns
\* it into TimeoutError.
OwnTimeout == watch = "expiring" /\ cancels = 1

\* Timeout.__aexit__, then `finally: self._watch = None': an expired timeout
\* takes its own cancellation back, whatever exception is passing.
LeaveTimeout ==
    /\ watch' = "none"
    /\ cancels' = IF watch = "expiring" THEN cancels - 1 ELSE cancels
    /\ cancelPending' = FALSE

\* The attempt ends and its generator is exhausted: aclose() returns at once.
EndAttempt(reason) ==
    /\ outcome' = reason
    /\ pc' = "ended"

TripwireNever(how) == FALSE              \* slip: every death is taken as a return

\* _on_task_done ignores a cancelled task and one that returned.
TripwireDue(how) == how = "failed"

\* The task finishes: its done-callbacks are scheduled, _on_task_done (which
\* acts on a failure only) ahead of the wakeups of the callers of stop().
Finish(how) ==
    /\ pc' = "done"
    /\ result' = how
    /\ tripwire' = TripwireDue(how)
    /\ cancels' = 0
    /\ cancelPending' = FALSE
    /\ delayIdx' = 0 /\ requested' = {} /\ sawFrame' = FALSE
    /\ outcome' = "none" /\ frame' = NoFrame /\ watch' = "none"
    /\ callers' = [c \in Callers |->
            IF callers[c].at # Parked THEN callers[c]
            ELSE [callers[c] EXCEPT !.at = IF how = "cancelled"
                                           THEN "woken_cancelled" ELSE "woken_done"]]

-----------------------------------------------------------------------------
(* The constructor.  A seed may name vehicles that are not subscribed.     *)

Init ==
    /\ pc = "none" /\ cancels = 0 /\ cancelPending = FALSE
    /\ result = "none" /\ tripwire = FALSE
    /\ delayIdx = 0 /\ requested = {} /\ sawFrame = FALSE
    /\ outcome = "none" /\ frame = NoFrame /\ watch = "none"
    /\ vehicleIds \in SUBSET Vehicles
    /\ idsChanged = FALSE
    /\ now \in Times
    /\ \E seed \in [Vehicles -> Gates] : lastTimes = WarmGate(seed, now)
    /\ stopped = FALSE /\ lastCall = "none"
    /\ callers = [c \in Callers |-> [at |-> "out", cancel |-> "no", exit |-> "none"]]
    /\ callback = NoCallback /\ heard = "none"

-----------------------------------------------------------------------------
(* The consumer.  start() and stop() are called from its own tasks, so     *)
(* while the loop is free; set_vehicle_ids() is a plain call and may also   *)
(* be made from inside a callback.                                         *)

\* start() on a stream that is not running.
Start ==
    /\ LoopFree /\ pc \in {"none", "done"}
    /\ pc' = "created" /\ result' = "none"
    /\ stopped' = FALSE /\ lastCall' = "start" /\ heard' = "none"
    /\ UNCHANGED <<cancels, cancelPending, tripwire, attemptVars, sharedVars,
                   callback, callers, now>>

\* start() while the task is not done, even one that is being cancelled.
StartIgnored ==
    /\ LoopFree /\ pc \in Live
    /\ lastCall' = "start"
    /\ UNCHANGED <<taskVars, attemptVars, sharedVars, consumerVars, stopped, callers, now>>

ExitOfAlways(cancel, cancelled) ==       \* slip: the task's cancellation escapes
    IF cancelled THEN "raised" ELSE "returned"
ExitOfNever(cancel, cancelled) ==        \* slip: every CancelledError swallowed
    "returned"
ParkUnjoined(cancel) ==                  \* slip: cancel() without `await task'
    [at |-> "out", cancel |-> cancel, exit |-> "returned"]

\* How a caller of stop() leaves the `await task': a CancelledError, the task's
\* or its own, is re-raised if the caller has ever been cancelled.
ExitOf(cancel, cancelled) ==
    IF cancel = "woken" \/ (cancelled /\ cancel # "no") THEN "raised" ELSE "returned"

ParkOnTask(cancel) == [at |-> Parked, cancel |-> cancel, exit |-> "none"]

\* stop(): without a live task it is over at once, else the caller parks.
Stop(c, mode) ==
    /\ LoopFree /\ callers[c].at = "out"
    /\ stopped' = TRUE /\ lastCall' = "stop"
    /\ LET cancel == IF mode = "cleanup" THEN "before" ELSE "no" IN
       IF pc \in Live
       THEN /\ CancelTask
            /\ callers' = [callers EXCEPT ![c] = ParkOnTask(cancel)]
       ELSE /\ callers' = [callers EXCEPT ![c] =
                    [at |-> "out", cancel |-> cancel,
                     exit |-> ExitOf(cancel, result = "cancelled")]]
            /\ UNCHANGED <<cancels, cancelPending>>
    /\ UNCHANGED <<pc, result, tripwire, attemptVars, sharedVars, consumerVars, now>>

\* A caller inside stop() is cancelled (a timed-out wait_for).  While it is
\* parked asyncio hands the request on to the task it awaits.
CallerCancelled(c) ==
    /\ LoopFree /\ callers[c].cancel \in {"no", "before"}
    /\ \/ /\ callers[c].at = Parked
          /\ CancelTask
          /\ callers' = [callers EXCEPT ![c].cancel = "parked"]
       \/ /\ callers[c].at \in Woken
          /\ callers' = [callers EXCEPT ![c].cancel = "woken"]
          /\ UNCHANGED <<cancels, cancelPending>>
    /\ UNCHANGED <<pc, result, tripwire, attemptVars, sharedVars, consumerVars,
                   stopped, lastCall, now>>

\* The woken caller leaves stop(), after the tripwire.
StopReturns(c) ==
    /\ LoopFree /\ ~tripwire /\ callers[c].at \in Woken
    /\ callers' = [callers EXCEPT ![c].at = "out",
            ![c].exit = ExitOf(callers[c].cancel, callers[c].at = "woken_cancelled")]
    /\ UNCHANGED <<taskVars, attemptVars, sharedVars, consumerVars, stopped, lastCall, now>>

FlagOnlyWhenIdle == pc = "idle"          \* slip: the event set only for an idle task
FlagOnlyWhenReading == pc = "read"       \* slip: the event set only for a reader
WatchUntouched == watch                  \* slip: the timeout is not rescheduled

FlagAfterChange == TRUE
WatchAfterChange == IF watch = "armed" THEN "soon" ELSE watch

\* set_vehicle_ids with a set that differs: an equal one changes nothing.
SetVehicleIds(ids) ==
    /\ LoopFree \/ callback # NoCallback
    /\ ids # vehicleIds
    /\ vehicleIds' = ids
    /\ lastTimes' = WithoutGates(lastTimes, vehicleIds \ ids)
    /\ idsChanged' = FlagAfterChange
    /\ watch' = WatchAfterChange
    /\ UNCHANGED <<taskVars, delayIdx, requested, sawFrame, outcome, frame,
                   consumerVars, callerVars, now>>

\* The callback returns, or raises: _dispatch swallows what it raises.
CallbackReturns ==
    /\ callback # NoCallback
    /\ callback' = NoCallback
    /\ UNCHANGED <<taskVars, attemptVars, sharedVars, heard, callerVars, now>>

\* _on_task_done of a task that failed.
Tripwire ==
    /\ LoopFree /\ tripwire
    /\ tripwire' = FALSE
    /\ Emit("DISCONNECTED", "internal_error")
    /\ UNCHANGED <<pc, cancels, cancelPending, result, attemptVars, sharedVars,
                   callerVars, now>>

Tick ==
    /\ now < MaxTime
    /\ now' = now + 1
    /\ UNCHANGED <<taskVars, attemptVars, sharedVars, consumerVars, callerVars>>
-----------------------------------------------------------------------------
(* The reconnect loop, _run.                                               *)

\* The loop runs what is scheduled in order: what the end of the previous task
\* scheduled comes before the first step of the next one.
PreviousSettled == ~tripwire /\ \A c \in Callers : callers[c].at \notin Woken

TaskStarts ==
    /\ Resumes("created") /\ PreviousSettled
    /\ pc' = "loop"
    /\ UNCHANGED <<cancels, cancelPending, result, tripwire, attemptVars, sharedVars,
                   consumerVars, callerVars, now>>

\* The CancelledError reaches the task at an await and nothing masks it.
TaskCancelled ==
    /\ At(pc) /\ cancelPending
    /\ \/ pc = "created" /\ PreviousSettled
       \/ pc \in {"idle", "token", "close", "sleep"}
       \/ pc = "read" /\ ~OwnTimeout
    /\ Finish("cancelled")
    /\ UNCHANGED <<sharedVars, consumerVars, stopped, lastCall, now>>

LoopTopKeepsFlag ==                      \* slip: the flag is not cleared
    /\ At("loop")
    /\ pc' = IF vehicleIds = {} THEN "idle" ELSE "token"
    /\ UNCHANGED <<cancels, cancelPending, result, tripwire, attemptVars, sharedVars,
                   consumerVars, callerVars, now>>

\* Top of the loop: without vehicles the task idles; either way the flag of
\* changes seen so far is cleared.
LoopTop ==
    /\ At("loop")
    /\ idsChanged' = FALSE
    /\ pc' = IF vehicleIds = {} THEN "idle" ELSE "token"
    /\ UNCHANGED <<cancels, cancelPending, result, tripwire, attemptVars, vehicleIds,
                   lastTimes, consumerVars, callerVars, now>>

IdleWakes ==
    /\ Resumes("idle") /\ idsChanged
    /\ pc' = "loop"
    /\ UNCHANGED <<cancels, cancelPending, result, tripwire, attemptVars, sharedVars,
                   consumerVars, callerVars, now>>

\* A token, but every vehicle was removed while it was being fetched.
TokenWithoutVehicles ==
    /\ Resumes("token") /\ vehicleIds = {}
    /\ pc' = "loop"
    /\ UNCHANGED <<cancels, cancelPending, result, tripwire, attemptVars, sharedVars,
                   consumerVars, callerVars, now>>

\* A token: _connect_once clears the flag, and the first anext sends the ids
\* as they are now, before the task can be suspended again.
ConnectOnce ==
    /\ Resumes("token") /\ vehicleIds # {}
    /\ idsChanged' = FALSE
    /\ requested' = vehicleIds
    /\ watch' = "armed"
    /\ pc' = "read"
    /\ UNCHANGED <<cancels, cancelPending, result, tripwire, delayIdx, sawFrame, outcome,
                   frame, vehicleIds, lastTimes, consumerVars, callerVars, now>>

\* The getter raises: on its own, or instead of the CancelledError it was sent.
GetterRaises ==
    /\ At("token") /\ (cancelPending => "getter" \in Masking)
    /\ cancelPending' = FALSE

\* It raises AbrpAuthError.
TokenRejected ==
    /\ GetterRaises
    /\ Emit("AUTH_FAILED", "auth")
    /\ pc' = "return"
    /\ UNCHANGED <<cancels, result, tripwire, attemptVars, sharedVars, callerVars, now>>

\* It raises another Exception: no event, straight to the backoff.
TokenFails ==
    /\ GetterRaises
    /\ pc' = "pause"
    /\ UNCHANGED <<cancels, result, tripwire, attemptVars, sharedVars, consumerVars,
                   callerVars, now>>

\* The getter raises CancelledError of its own accord (a refresh it shares with
\* other callers was cancelled): `except Exception' does not see it.
TokenCancelled ==
    /\ Resumes("token") /\ GetterCancels
    /\ Finish("cancelled")
    /\ UNCHANGED <<sharedVars, consumerVars, stopped, lastCall, now>>

LadderAfterAny(i, saw) == 0              \* slip: every attempt resets the ladder
DisconnectedKeepsSawFrame ==             \* slip: saw_frame outlives its attempt
    /\ At("ended")
    /\ Emit("DISCONNECTED", outcome)
    /\ requested' = {} /\ outcome' = "none"
    /\ pc' = "pause"
    /\ UNCHANGED <<cancels, cancelPending, result, tripwire, delayIdx, sawFrame, frame,
                   watch, sharedVars, callerVars, now>>

\* After _connect_once: a frame resets the ladder, the end is reported.
LadderAfter(i, saw) == IF saw THEN 0 ELSE i

Disconnected ==
    /\ At("ended")
    /\ delayIdx' = LadderAfter(delayIdx, sawFrame)
    /\ Emit("DISCONNECTED", outcome)
    /\ requested' = {} /\ sawFrame' = FALSE /\ outcome' = "none"
    /\ pc' = "pause"
    /\ UNCHANGED <<cancels, cancelPending, result, tripwire, frame, watch, sharedVars,
                   callerVars, now>>

CancelForgotten == FALSE                 \* slip: Task.cancelling() is not consulted

CancelMasked == cancels > 0

\* A cancellation masked on the way here still ends the task; a change of the
\* vehicles skips the backoff.
Pause ==
    /\ At("pause")
    /\ IF CancelMasked
       THEN Finish("returned")
       ELSE /\ pc' = IF idsChanged THEN "loop" ELSE "sleep"
            /\ UNCHANGED <<cancels, cancelPending, result, tripwire, attemptVars, callers>>
    /\ UNCHANGED <<sharedVars, consumerVars, stopped, lastCall, now>>

NextDelayUncapped(i) == i + 1            \* slip: past the end of the ladder
SleepElapsesOnChange ==                  \* slip: the sleep waits for the event alone
    /\ Resumes("sleep") /\ idsChanged
    /\ pc' = "loop"
    /\ UNCHANGED <<cancels, cancelPending, result, tripwire, attemptVars, sharedVars,
                   consumerVars, callerVars, now>>

NextDelay(i) == IF i + 1 < BackoffLen THEN i + 1 ELSE BackoffLen - 1

SleepElapses ==
    /\ Resumes("sleep")
    /\ delayIdx' = NextDelay(delayIdx)
    /\ pc' = "loop"
    /\ UNCHANGED <<cancels, cancelPending, result, tripwire, requested, sawFrame, outcome,
                   frame, watch, sharedVars, consumerVars, callerVars, now>>

\* The task returns once AUTH_FAILED has been reported.
TaskReturns ==
    /\ At("return")
    /\ Finish("returned")
    /\ UNCHANGED <<sharedVars, consumerVars, stopped, lastCall, now>>
-----------------------------------------------------------------------------
(* One connection attempt, _connect_once, from its first anext on.         *)

\* anext yields a frame: CONNECTED on the first one.
FrameArrives(f) ==
    /\ Resumes("read")
    /\ frame' = f
    /\ watch' = "none"
    /\ sawFrame' = TRUE
    /\ IF sawFrame THEN UNCHANGED consumerVars ELSE Emit("CONNECTED", "none")
    /\ pc' = "frame"
    /\ UNCHANGED <<cancels, cancelPending, result, tripwire, delayIdx, requested, outcome,
                   sharedVars, callerVars, now>>

WantedAtConnect(v) == v \in requested     \* slip: tested against the ids requested

Wanted(v) == v \in vehicleIds

\* _handle_frame: membership test, clamp, gate, one on_update for what the gate
\* lets through.
HandleFrame ==
    /\ At("frame")
    /\ LET v == frame.vehicle
           blocks == ClampFutureTimes(frame.blocks, now)
           telemetry == Adopted(lastTimes[v], blocks)
       IN IF ~Wanted(v)
          THEN UNCHANGED <<lastTimes, callback>>
          ELSE /\ lastTimes' = [lastTimes EXCEPT ![v] = GateAfter(@, blocks)]
               /\ IF DOMAIN telemetry = {}
                  THEN UNCHANGED callback
                  ELSE Dispatch([kind |-> "update", vehicle |-> v, telemetry |-> telemetry])
    /\ frame' = NoFrame
    /\ pc' = "next"
    /\ UNCHANGED <<cancels, cancelPending, result, tripwire, delayIdx, requested, sawFrame,
                   outcome, watch, vehicleIds, idsChanged, heard, callerVars, now>>

\* Extraction raises (see Extract): not a band the loop catches, so the
\* exception leaves through aclose() and kills the task.
FrameRaises ==
    /\ At("frame") /\ Wanted(frame.vehicle)
    /\ outcome' = "bug"
    /\ frame' = NoFrame
    /\ pc' = "close"
    /\ UNCHANGED <<cancels, cancelPending, result, tripwire, delayIdx, requested, sawFrame,
                   watch, sharedVars, consumerVars, callerVars, now>>

ChangeUnseen == FALSE                    \* slip: the flag is not tested here
NextAnextUnwatched ==                    \* slip: only the first anext is timed
    /\ At("next") /\ ~idsChanged
    /\ pc' = "read"
    /\ UNCHANGED <<cancels, cancelPending, result, tripwire, attemptVars, sharedVars,
                   consumerVars, callerVars, now>>

ChangeSeenHere == idsChanged

\* Top of the frame loop: a changed vehicle set ends the attempt with the
\* generator still open, else the next anext starts under a new timeout.
NextAnext ==
    /\ At("next")
    /\ IF ChangeSeenHere
       THEN outcome' = "vehicles_changed" /\ pc' = "close" /\ UNCHANGED watch
       ELSE watch' = "armed" /\ pc' = "read" /\ UNCHANGED outcome
    /\ UNCHANGED <<cancels, cancelPending, result, tripwire, delayIdx, requested, sawFrame,
                   frame, sharedVars, consumerVars, callerVars, now>>

\* anext ends without a frame: the response is over, or it or the request failed.
StreamEnds(reason) ==
    /\ Resumes("read")
    /\ EndAttempt(reason)
    /\ watch' = "none"
    /\ UNCHANGED <<cancels, cancelPending, result, tripwire, delayIdx, requested, sawFrame,
                   frame, sharedVars, consumerVars, callerVars, now>>

\* HTTP 401 or 403: the attempt ends with AUTH_FAILED, not DISCONNECTED.
StreamRejected ==
    /\ Resumes("read") /\ ~sawFrame
    /\ Emit("AUTH_FAILED", "auth")
    /\ pc' = "return"
    /\ watch' = "none"
    /\ UNCHANGED <<cancels, cancelPending, result, tripwire, delayIdx, requested, sawFrame,
                   outcome, frame, sharedVars, callerVars, now>>

\* anext raises something the loop has no band for.
StreamBug ==
    /\ Resumes("read")
    /\ Finish("failed")
    /\ UNCHANGED <<sharedVars, consumerVars, stopped, lastCall, now>>

\* The timeout expires: by its timer, or at once because set_vehicle_ids
\* rescheduled it.  Either way it cancels the task.
WatchdogExpires(from) ==
    /\ LoopFree /\ watch = from
    /\ watch' = "expiring"
    /\ CancelTask
    /\ UNCHANGED <<pc, result, tripwire, delayIdx, requested, sawFrame, outcome, frame,
                   sharedVars, consumerVars, callerVars, now>>

\* The TimeoutError: a stall, unless a change of the vehicles asked for it.
TimeoutReason == IF idsChanged THEN "vehicles_changed" ELSE "watchdog_stall"

ReadTimesOut ==
    /\ At("read") /\ cancelPending /\ OwnTimeout
    /\ EndAttempt(TimeoutReason)
    /\ LeaveTimeout
    /\ UNCHANGED <<result, tripwire, delayIdx, requested, sawFrame, frame, sharedVars,
                   consumerVars, callerVars, now>>

\* The CancelledError is masked: the iterator ends as if the stream were over,
\* or the teardown of the response raises a ClientError over it.
ReadMasked(by, reason) ==
    /\ At("read") /\ cancelPending /\ by \in Masking
    /\ EndAttempt(reason)
    /\ LeaveTimeout
    /\ UNCHANGED <<result, tripwire, delayIdx, requested, sawFrame, frame, sharedVars,
                   consumerVars, callerVars, now>>

\* aclose() of an open generator is over; an Exception of it is swallowed, a
\* CancelledError is not unless the teardown masks it.
CloseReturns ==
    /\ At("close") /\ (cancelPending => "teardown" \in Masking)
    /\ IF outcome = "bug"
       THEN Finish("failed")
       ELSE /\ cancelPending' = FALSE
            /\ pc' = "ended"
            /\ UNCHANGED <<cancels, result, tripwire, attemptVars, callers>>
    /\ UNCHANGED <<sharedVars, consumerVars, stopped, lastCall, now>>

-----------------------------------------------------------------------------
(* What the consumer does, what the world does, what the task does.        *)

Consumer ==
    \/ Start \/ StartIgnored
    \/ \E c \in Callers, mode \in CallerModes : Stop(c, mode)
    \/ \E c \in Callers : CallerCancelled(c)
    \/ \E ids \in SUBSET Vehicles : SetVehicleIds(ids)

World ==
    \/ TokenWithoutVehicles \/ ConnectOnce \/ TokenRejected \/ TokenFails \/ TokenCancelled
    \/ \E f \in Frames : FrameArrives(f)
    \/ FrameRaises
    \/ StreamEnds("stream_closed") \/ StreamEnds("error")
    \/ StreamRejected \/ StreamBug
    \/ Tick

TaskStep ==
    \/ TaskStarts \/ LoopTop \/ IdleWakes \/ TaskCancelled
    \/ HandleFrame \/ NextAnext \/ ReadTimesOut
    \/ ReadMasked("iterator", "stream_closed") \/ ReadMasked("teardown", "error")
    \/ Disconnected \/ Pause \/ TaskReturns

Next ==
    \/ Consumer \/ World \/ TaskStep
    \/ CallbackReturns \/ Tripwire \/ CloseReturns \/ SleepElapses
    \/ WatchdogExpires("armed") \/ WatchdogExpires("soon")
    \/ \E c \in Callers : StopReturns(c)

Spec == Init /\ [][Next]_vars

\* What asyncio guarantees: a runnable task runs, scheduled calls are made, a
\* sleep ends; and, as the documentation demands, callbacks do not block.
\* Nothing is promised about the server, the token getter, the consumer's
\* calls, or the watchdog's own timer.
LoopFairness ==
    /\ WF_vars(TaskStep)
    /\ WF_vars(CallbackReturns)
    /\ WF_vars(Tripwire)
    /\ WF_vars(SleepElapses)
    /\ WF_vars(WatchdogExpires("soon"))
    /\ \A c \in Callers : WF_vars(StopReturns(c))

\* Closing a response the server has stopped talking on ends too.
CloseFairness == WF_vars(CloseReturns)

FairSpec == Spec /\ LoopFairness /\ CloseFairness
-----------------------------------------------------------------------------
(* What a step is, read off its transition.                                *)

Delivery == callback = NoCallback /\ callback'.kind = "update"
FrameRead == pc = "read" /\ pc' = "frame"

-----------------------------------------------------------------------------
(* Safety.                                                                 *)

\* Every variable has its type; a Timeout is live exactly during a read, and a
\* CancelledError can be pending only at an await of a live task.
TypeOK ==
    /\ pc \in Suspended \cup Running
    /\ cancels \in Nat /\ cancelPending \in BOOLEAN
    /\ result \in {"none", "returned", "cancelled", "failed"}
    /\ tripwire \in BOOLEAN
    /\ delayIdx \in 0..(BackoffLen - 1)
    /\ requested \subseteq Vehicles
    /\ sawFrame \in BOOLEAN
    /\ outcome \in Outcomes
    /\ frame \in Frames \cup {NoFrame} /\ (pc = "frame" => frame \in Frames)
    /\ watch \in {"none", "armed", "soon", "expiring"} /\ (watch # "none" <=> pc = "read")
    /\ vehicleIds \subseteq Vehicles /\ idsChanged \in BOOLEAN
    /\ lastTimes \in [Vehicles -> Gates]
    /\ stopped \in BOOLEAN
    /\ callback \in {NoCallback} \cup Updates \cup Events
    /\ heard \in {"none"} \cup States
    /\ lastCall \in {"none", "start", "stop"}
    /\ callers \in [Callers -> CallerStates]
    /\ now \in Times

\* A connection never goes on streaming for a vehicle set that is not the
\* subscribed one without the change being flagged: the flag is cleared twice
\* (before the token, before the request), and neither may swallow a change
\* the request does not carry.  (set_vehicle_ids, the clear in _connect_once.)
SubscriptionFresh ==
    pc \in {"read", "frame", "next"} /\ requested # vehicleIds => idsChanged

\* A reader parked in anext under a flagged change is about to be woken: its
\* timeout is rescheduled or has fired, it does not wait for the watchdog.
\* (The reschedule in set_vehicle_ids, the flag test before each anext.)
ChangeWakesReader ==
    pc = "read" /\ idsChanged => watch \in {"soon", "expiring"}

\* An idle task is never stranded: vehicles to serve mean that its event is set.
\* (The clear and wait of the idle loop against the set in set_vehicle_ids.)
IdleNotStranded == pc = "idle" /\ vehicleIds # {} => idsChanged

\* A timeout fired early is fired for a change that is still flagged, so its
\* TimeoutError is never taken for a stall.
ForcedTimeoutIsChange == watch = "soon" => idsChanged

\* No callback begins between a call of stop() and the next start(), whatever
\* path the cancellation takes through the task.  (_stopped is set before the
\* cancel; _dispatch tests it.)
SilentOnceStopping ==
    [][callback = NoCallback /\ callback' # NoCallback => lastCall # "stop"]_vars

\* When every caller has left stop(), normally or by its own CancelledError, and
\* nobody has called start() since, no task is left running.  README.md and the
\* comment in stop() say of an interrupted caller, a wait_for(stop()) that timed
\* out, that the stream "may still be running".  The code does better: asyncio
\* hands the caller's cancellation on to the task that it awaits, and throws it
\* into the caller only when that task is done.
StopLeavesNothingRunning ==
    lastCall = "stop" /\ (\A c \in Callers : callers[c].at = "out")
        => pc \in {"none", "done"}

\* A task that ends without stop() having been called says so: AUTH_FAILED was
\* reported, or it failed and the tripwire reported that.
NoSilentDeath ==
    pc = "done" /\ ~stopped /\ ~tripwire
        => heard = "AUTH_FAILED" \/ (result = "failed" /\ heard = "DISCONNECTED")

\* The gate's high-water marks can be reached: none lies in the future, so a
\* block stamped with the present time is always adopted.  (The clamps of the
\* seed and of each frame.)
HighWaterReachable ==
    \A v \in Vehicles, m \in Metrics : lastTimes[v][m] # NoTime => lastTimes[v][m] <= now

\* on_update is called for subscribed vehicles only: a frame in flight when its
\* vehicle was removed, even by the CONNECTED callback it caused, is dropped.
UpdatesOnlySubscribed ==
    [][Delivery => callback'.vehicle \in vehicleIds]_vars

\* The doc of stop() reserves a CancelledError out of it to a caller cancelled
\* while parked there.
StopRaisesOnlyWhenInterrupted ==
    \A c \in Callers :
        callers[c].exit = "raised" => callers[c].cancel \in {"parked", "woken"}

\* A caller cancelled while parked in stop() "must see its own CancelledError".
OwnCancelPropagates ==
    \A c \in Callers :
        callers[c].exit # "none" /\ callers[c].cancel = "parked" => callers[c].exit = "raised"

\* The "internal error" event is the last one of its stream: nothing runs after
\* it until the next start().
InternalErrorIsFinal ==
    callback.kind = "event" /\ callback.reason = "internal_error" => pc = "done"

-----------------------------------------------------------------------------
(* Liveness.                                                               *)

\* Whoever parks in stop() leaves it, whatever the task was doing.
StopCompletes ==
    \A c \in Callers : callers[c].at = Parked ~> callers[c].at = "out"

\* A change of the vehicles ends the read it finds, without help from the
\* server or from the watchdog's timer.
ChangedReadEnds == pc = "read" /\ idsChanged ~> pc # "read"

\* No read lasts for ever if the watchdog's timer does run: one that no frame
\* and no error ends is ended as a stall.  (asyncio.timeout around each anext.)
EveryReadEnds ==
    WF_vars(WatchdogExpires("armed")) => (pc = "read" ~> pc # "read")

\* An attempt that has ended is followed by another one (or by idling, or by
\* the end of the task): the loop is never stuck between two attempts.
AlwaysRetries ==
    pc \in {"close", "ended", "pause", "sleep"} ~> pc \in {"token", "idle", "done"}
=============================================================================
