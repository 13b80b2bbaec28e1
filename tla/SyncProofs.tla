----------------------------- MODULE SyncProofs -----------------------------
(***************************************************************************)
(* The consumer's copy against the server, for any vehicles, metrics,      *)
(* times, clock skew and number of frames in flight, and through crashes.  *)
(***************************************************************************)
EXTENDS ServerSync, StopProofs

\* The server never goes back: what it has stamped lies neither beyond its
\* clock nor beyond its newest block.
NotAhead(v, m, t) ==
    t # NoTime =>
        /\ t <= now + Skew
        /\ m \in DOMAIN server[v] /\ server[v][m] # NoTime => t <= server[v][m]

FrameNotAhead(f) == \A m \in DOMAIN f.blocks : NotAhead(f.vehicle, m, f.blocks[m])

\* Nor does what a consumer has taken from it, which is clamped besides.
CopyNotAhead(copy) ==
    \A v \in Vehicles : \A m \in DOMAIN copy[v] :
        /\ NotAhead(v, m, copy[v][m].time)
        /\ copy[v][m].time # NoTime => copy[v][m].time <= now

NothingAhead ==
    /\ \A v \in Vehicles : \A m \in DOMAIN server[v] : NotAhead(v, m, server[v][m])
    /\ pc = "frame" => FrameNotAhead(frame)
    /\ \A i \in DOMAIN wire : FrameNotAhead(wire[i])
    /\ CopyNotAhead(view) /\ CopyNotAhead(saved)
    /\ \A v \in Vehicles, m \in Metrics : NotAhead(v, m, lastTimes[v][m])

\* The gate stores the times of the copy, but for what a callback has lost.
GateMirrorsCopy ==
    \A v \in Vehicles : \A m \in DOMAIN view[v] :
        gap[v][m] = "no" => view[v][m].time = lastTimes[v][m]

\* An old block in flight is a rollup, if it is not followed by the newest.
Comes(v, m, i) == \E j \in DOMAIN wire : j > i /\ Carries(wire[j], v, m)

Rollup(v, m, t) == server[v][m] # NoTime /\ t # NoTime /\ t + Skew < server[v][m]

Ordered(f, v, m, i) ==
    f.vehicle = v /\ m \in DOMAIN f.blocks =>
        Carries(f, v, m) \/ Comes(v, m, i) \/ Rollup(v, m, f.blocks[m])

InFlightOrdered(v, m) ==
    /\ pc = "frame" => Ordered(frame, v, m, 0)
    /\ \A i \in DOMAIN wire : Ordered(wire[i], v, m, i)

\* The newest block has been taken, and the gate bars every rollup.
Taken(v, m) ==
    /\ Has(v, m) \/ gap[v][m] = "here"
    /\ server[v][m] # NoTime =>
            lastTimes[v][m] # NoTime /\ server[v][m] <= lastTimes[v][m] + Skew

Current(v, m) ==
    /\ InFlightOrdered(v, m)
    /\ Taken(v, m) \/ (pc = "frame" /\ Carries(frame, v, m)) \/ Comes(v, m, 0)

ConnectionCurrent ==
    Reading /\ ~idsChanged =>
        \A v \in requested \ owed : \A m \in DOMAIN server[v] : Current(v, m)

SyncInv == SyncTypeOK /\ NothingAhead /\ GateMirrorsCopy /\ ConnectionCurrent

-----------------------------------------------------------------------------
(* Data of the composition.                                                *)

LEMMA ViewsIntro ==
    ASSUME NEW M \in SUBSET Metrics, NEW f \in [M -> Known]
    PROVE  f \in Views
  BY DEF Views

LEMMA ViewsElim ==
    ASSUME NEW known \in Views
    PROVE  /\ DOMAIN known \subseteq Metrics
           /\ \A m \in DOMAIN known : known[m] \in Known
  BY DEF Views

\* What merging yields, and of which type.
LEMMA MergeFacts ==
    ASSUME NEW known, NEW delta
    PROVE  /\ DOMAIN Merge(known, delta) = DOMAIN known \cup DOMAIN delta
           /\ \A m \in DOMAIN delta : Merge(known, delta)[m] = delta[m]
           /\ \A m \in DOMAIN known \ DOMAIN delta : Merge(known, delta)[m] = known[m]
  BY DEF Merge

LEMMA MergeBlocks ==
    ASSUME NEW known \in Blocks, NEW delta \in Blocks
    PROVE  Merge(known, delta) \in Blocks
  <1>1. DOMAIN known \cup DOMAIN delta \in SUBSET Metrics
    BY BlocksElim
  <1>2. Merge(known, delta) \in [DOMAIN known \cup DOMAIN delta -> Stamps]
    BY BlocksElim DEF Merge
  <1> QED
    BY <1>1, <1>2, BlocksIntro

LEMMA MergeViews ==
    ASSUME NEW known \in Views, NEW delta \in Views
    PROVE  Merge(known, delta) \in Views
  <1>1. DOMAIN known \cup DOMAIN delta \in SUBSET Metrics
    BY ViewsElim
  <1>2. Merge(known, delta) \in [DOMAIN known \cup DOMAIN delta -> Known]
    BY ViewsElim DEF Merge
  <1> QED
    BY <1>1, <1>2, ViewsIntro

LEMMA NothingFacts == Nothing \in Views /\ DOMAIN Nothing = {}
  <1>1. Nothing \in [{} -> Known] /\ DOMAIN Nothing = {}
    BY DEF Nothing
  <1> QED
    BY <1>1, ViewsIntro

LEMMA OneBlock ==
    ASSUME NEW m \in Metrics, NEW t \in Stamps
    PROVE  /\ [k \in {m} |-> t] \in Blocks
           /\ DOMAIN [k \in {m} |-> t] = {m}
           /\ [k \in {m} |-> t][m] = t
  BY BlocksIntro, {m} \in SUBSET Metrics

LEMMA SnapshotFacts ==
    ASSUME NEW v \in Vehicles, server[v] \in Blocks, now \in Times
    PROVE  /\ Snapshot(v) \in Views
           /\ DOMAIN Snapshot(v) = DOMAIN server[v]
           /\ \A m \in DOMAIN server[v] :
                Snapshot(v)[m].time = ClampTime(server[v][m], now)
  <1>1. \A m \in DOMAIN server[v] :
            /\ ClampFutureTimes(server[v], now)[m] = ClampTime(server[v][m], now)
            /\ server[v][m] \in Stamps /\ ClampTime(server[v][m], now) \in Stamps
    BY BlocksElim, ClampFutureTimesType, ClampTimeBounded
  <1>2. Snapshot(v) \in [DOMAIN server[v] -> Known]
    BY <1>1 DEF Snapshot, Known
  <1>3. DOMAIN server[v] \in SUBSET Metrics
    BY BlocksElim
  <1> QED
    BY <1>1, <1>2, <1>3, ViewsIntro DEF Snapshot

LEMMA TimesOfFacts ==
    ASSUME NEW known \in [Vehicles -> Views]
    PROVE  /\ TimesOf(known) \in [Vehicles -> Gates]
           /\ \A v \in Vehicles, m \in Metrics :
                TimesOf(known)[v][m] = IF m \in DOMAIN known[v] THEN known[v][m].time ELSE NoTime
  <1>1. ASSUME NEW v \in Vehicles, NEW m \in Metrics
        PROVE  (IF m \in DOMAIN known[v] THEN known[v][m].time ELSE NoTime) \in Stamps
    <2>1. m \in DOMAIN known[v] => known[v][m] \in Known
      BY ViewsElim
    <2> QED
      BY <2>1 DEF Known, Stamps
  <1> QED
    BY <1>1 DEF TimesOf, Gates

-----------------------------------------------------------------------------
(* The stream within the composition.                                      *)

\* What a step of the stream can do to a connection and to what it holds.
LEMMA ReadingStep ==
    ASSUME TypeInv, Next
    PROVE  /\ Reading' => Opens \/ (Reading /\ requested' = requested)
           /\ Opens => ~Reading
           /\ Reading' /\ ~Opens /\ idsChanged => idsChanged'
           /\ vehicleIds' # vehicleIds => idsChanged'
           /\ pc' = "frame" => FrameRead \/ (pc = "frame" /\ frame' = frame)
           /\ pc = "frame" /\ pc' # "frame" /\ Reading' => HandleFrame
  <1> USE DEF Reading, Opens, FrameRead, taskVars, attemptVars, sharedVars, At, Resumes, LoopFree
  <1>1. CASE Start \/ StartIgnored \/ Tick \/ CallbackReturns \/ Tripwire
    BY <1>1 DEF Start, StartIgnored, Tick, CallbackReturns, Tripwire
  <1>2. CASE \/ \E c \in Callers, mode \in CallerModes : Stop(c, mode)
             \/ \E c \in Callers : CallerCancelled(c)
             \/ \E c \in Callers : StopReturns(c)
    <2>1. UNCHANGED <<pc, attemptVars, sharedVars>>
      BY <1>2 DEF Stop, CallerCancelled, StopReturns
    <2> QED
      BY <2>1
  <1>3. CASE \E ids \in SUBSET Vehicles : SetVehicleIds(ids)
    BY <1>3 DEF SetVehicleIds, FlagAfterChange
  <1>4. CASE WatchdogExpires("armed") \/ WatchdogExpires("soon")
    BY <1>4 DEF WatchdogExpires
  <1>5. CASE \/ TaskStarts \/ LoopTop \/ IdleWakes \/ TokenWithoutVehicles \/ ConnectOnce
             \/ TokenRejected \/ TokenFails \/ Disconnected \/ SleepElapses
    BY <1>5 DEF TaskStarts, LoopTop, IdleWakes, TokenWithoutVehicles, ConnectOnce, TokenRejected,
                TokenFails, Disconnected, SleepElapses
  <1>6. CASE \/ \E f \in Frames : FrameArrives(f)
             \/ HandleFrame \/ FrameRaises \/ NextAnext
    BY <1>6 DEF FrameArrives, HandleFrame, FrameRaises, NextAnext
  <1>7. CASE \/ StreamEnds("stream_closed") \/ StreamEnds("error") \/ StreamRejected
             \/ ReadTimesOut
             \/ ReadMasked("iterator", "stream_closed") \/ ReadMasked("teardown", "error")
    BY <1>7 DEF StreamEnds, StreamRejected, ReadTimesOut, ReadMasked, EndAttempt
  <1>8. CASE TaskCancelled \/ TokenCancelled \/ TaskReturns \/ StreamBug \/ Pause \/ CloseReturns
    BY <1>8 DEF TaskCancelled, TokenCancelled, TaskReturns, StreamBug, Pause, CloseReturns, Finish
  <1>9. CASE Consumer
    BY <1>9, <1>1, <1>2, <1>3 DEF Consumer
  <1>10. CASE World
    BY <1>10, <1>1, <1>5, <1>6, <1>7, <1>8 DEF World
  <1>11. CASE TaskStep
    BY <1>11, <1>5, <1>6, <1>7, <1>8 DEF TaskStep
  <1> QED
    BY <1>1, <1>2, <1>4, <1>5, <1>8, <1>9, <1>10, <1>11 DEF Next

\* A restarted process is in a state the constructor leaves it in.
LEMMA RecoveredType ==
    ASSUME SyncTypeOK, NEW polled \in SUBSET Vehicles
    PROVE  Recovered(polled) \in [Vehicles -> Views]
  <1>1. \A v \in Vehicles : saved[v] \in Views /\ server[v] \in Blocks /\ now \in Times
    BY DEF SyncTypeOK, TypeOK
  <1>2. \A v \in Vehicles : Merge(saved[v], Snapshot(v)) \in Views
    BY <1>1, SnapshotFacts, MergeViews
  <1> QED
    BY <1>1, <1>2 DEF Recovered

LEMMA RestartInitialises ==
    ASSUME SyncTypeOK, ProcessRestarts
    PROVE  Init'
  <1>1. PICK ids \in SUBSET Vehicles, polled \in SUBSET Vehicles :
            /\ lastTimes' = WarmGate(TimesOf(Recovered(polled)), now)
            /\ vehicleIds' = ids
    BY DEF ProcessRestarts
  <1>2. TimesOf(Recovered(polled)) \in [Vehicles -> Gates]
    BY RecoveredType, TimesOfFacts
  <1>3. now' = now /\ now \in Times
    BY DEF ProcessRestarts, SyncTypeOK, TypeOK
  <1> QED
    BY <1>1, <1>2, <1>3 DEF ProcessRestarts, Init

\* What becomes of one metric of one vehicle when a frame is handled: the gate
\* lets a block of it through, to be taken or lost, or nothing happens to it.
Passes(v, m) ==
    /\ frame.vehicle = v /\ v \in vehicleIds /\ m \in DOMAIN frame.blocks
    /\ Adopts(lastTimes[v][m], ClampTime(frame.blocks[m], now))

LEMMA FrameHandled ==
    ASSUME SyncTypeOK, TypeInv, CancelInv, HandleFrame, Alongside,
           NEW v \in Vehicles, NEW m \in Metrics
    PROVE  /\ Passes(v, m) =>
                /\ lastTimes'[v][m] = ClampTime(frame.blocks[m], now)
                /\ \/ /\ m \in DOMAIN view'[v] /\ gap'[v][m] = "no"
                      /\ view'[v][m] = [stamp |-> frame.blocks[m],
                                        time |-> ClampTime(frame.blocks[m], now)]
                   \/ view' = view /\ gap'[v][m] = "here"
           /\ ~Passes(v, m) =>
                /\ lastTimes'[v][m] = lastTimes[v][m]
                /\ m \in DOMAIN view'[v] <=> m \in DOMAIN view[v]
                /\ m \in DOMAIN view[v] => view'[v][m] = view[v][m]
                /\ gap'[v][m] = gap[v][m]
  <1> DEFINE w == frame.vehicle
             b == ClampFutureTimes(frame.blocks, now)
             t == Adopted(lastTimes[w], b)
  <1>1. /\ w \in Vehicles /\ frame.blocks \in Blocks /\ b \in Blocks /\ lastTimes[w] \in Gates
        /\ vehicleIds' = vehicleIds
        /\ w \notin vehicleIds => lastTimes' = lastTimes /\ ~Delivery
        /\ w \in vehicleIds =>
              /\ lastTimes' = [lastTimes EXCEPT ![w] = GateAfter(lastTimes[w], b)]
              /\ DOMAIN t = {} => ~Delivery
              /\ DOMAIN t # {} => /\ Delivery /\ callback'.vehicle = w
                                  /\ callback'.telemetry = t
    BY HandleFrameFacts
  <1>2. /\ DOMAIN b = DOMAIN frame.blocks
        /\ \A k \in DOMAIN b : b[k] = ClampTime(frame.blocks[k], now)
    BY <1>1, ClampFutureTimesType DEF TypeInv, TypeOK
  <1>3. /\ DOMAIN t = {k \in DOMAIN b : Adopts(lastTimes[w][k], b[k])}
        /\ \A k \in DOMAIN t : t[k] = b[k]
    BY <1>1, AdoptedType
  <1>4. Passes(v, m) <=> v = w /\ w \in vehicleIds /\ m \in DOMAIN t
    BY <1>2, <1>3 DEF Passes
  <1>5. /\ lastTimes \in [Vehicles -> Gates] /\ view \in [Vehicles -> Views]
        /\ gap \in [Vehicles -> [Metrics -> {"no", "here", "before"}]]
    BY DEF SyncTypeOK, TypeOK
  <1>6. lastTimes'[v][m] = IF Passes(v, m) THEN ClampTime(frame.blocks[m], now)
                           ELSE lastTimes[v][m]
    <2>1. CASE w \notin vehicleIds
      BY <1>1, <1>4, <2>1
    <2>2. CASE w \in vehicleIds /\ v # w
      BY <1>1, <1>4, <1>5, <2>2
    <2>3. CASE w \in vehicleIds /\ v = w
      <3>1. lastTimes'[v][m] = GateAfter(lastTimes[w], b)[m]
        BY <1>1, <1>5, <2>3
      <3> QED
        BY <1>1, <1>2, <1>3, <1>4, <2>3, <3>1, GateAfterType
    <2> QED
      BY <2>1, <2>2, <2>3
  <1>7. CASE ~Delivery
    <2>1. ~Passes(v, m)
      BY <1>1, <1>4, <1>7
    <2>2. ~Opens
      BY DEF Opens, HandleFrame, At
    <2>3. view'[v] = view[v] /\ gap'[v][m] = gap[v][m]
      BY <1>1, <1>5, <1>7, <2>2 DEF Alongside, CopyKept
    <2> QED
      BY <1>6, <2>1, <2>3
  <1>8. CASE Delivery
    <2>1. /\ w \in vehicleIds /\ callback'.vehicle = w /\ callback'.telemetry = t
          /\ UpdateTaken
      BY <1>1, <1>8 DEF Alongside
    <2>2. /\ DOMAIN Delivered = DOMAIN t
          /\ \A k \in DOMAIN t : Delivered[k] = [stamp |-> frame.blocks[k],
                                                  time |-> ClampTime(frame.blocks[k], now)]
      BY <1>2, <1>3, <2>1 DEF Delivered
    <2> HIDE DEF t
    <2>3. CASE v # w
      <3>1. view'[v] = view[v] /\ gap'[v] = gap[v]
        BY <1>5, <2>1, <2>3 DEF UpdateTaken
      <3> QED
        BY <1>4, <1>6, <2>3, <3>1
    <2>4. CASE v = w
      <3>1. CASE view' = [view EXCEPT ![w] = Merge(@, Delivered)]
                 /\ gap' = [gap EXCEPT ![w] =
                        [k \in Metrics |-> IF k \in DOMAIN Delivered THEN "no" ELSE @[k]]]
        <4>1. view'[v] = Merge(view[v], Delivered)
          BY <1>1, <1>5, <2>4, <3>1
        <4>2. gap'[v][m] = IF m \in DOMAIN t THEN "no" ELSE gap[v][m]
          BY <1>1, <1>5, <2>2, <2>4, <3>1
        <4>3. /\ m \in DOMAIN t => m \in DOMAIN view'[v] /\ view'[v][m] = Delivered[m]
              /\ m \notin DOMAIN t => /\ m \in DOMAIN view'[v] <=> m \in DOMAIN view[v]
                                      /\ m \in DOMAIN view[v] => view'[v][m] = view[v][m]
          <5>1. /\ DOMAIN view'[v] = DOMAIN view[v] \cup DOMAIN Delivered
                /\ \A k \in DOMAIN Delivered : view'[v][k] = Delivered[k]
                /\ \A k \in DOMAIN view[v] \ DOMAIN Delivered : view'[v][k] = view[v][k]
            BY <4>1 DEF Merge
          <5> QED
            BY <2>2, <5>1
        <4> QED
          BY <1>4, <1>6, <2>1, <2>2, <2>4, <4>2, <4>3
      <3>2. CASE view' = view
                 /\ gap' = [gap EXCEPT ![w] =
                        [k \in Metrics |-> IF k \in DOMAIN Delivered THEN "here" ELSE @[k]]]
        <4>1. gap'[v][m] = IF m \in DOMAIN t THEN "here" ELSE gap[v][m]
          BY <1>1, <1>5, <2>2, <2>4, <3>2
        <4> QED
          BY <1>4, <1>6, <2>1, <2>4, <3>2, <4>1
      <3> QED
        BY <2>1, <3>1, <3>2 DEF UpdateTaken
    <2> QED
      BY <2>3, <2>4
  <1> QED
    BY <1>7, <1>8

\* Any other step of the stream takes nothing; it may give up vehicles, and it
\* may open a connection.
LEMMA NothingHandled ==
    ASSUME StreamStep, ~HandleFrame, NEW v \in Vehicles
    PROVE  /\ v \in vehicleIds \ vehicleIds' => view'[v] = Nothing /\ gap'[v] = NoGap
           /\ v \notin vehicleIds \ vehicleIds' =>
                /\ view'[v] = view[v]
                /\ gap'[v] = [m \in Metrics |-> IF Opens /\ gap[v][m] = "here" THEN "before"
                                                ELSE gap[v][m]]
  <1>1. ~Delivery
    BY OnlyHandleFrameDelivers DEF StreamStep
  <1>2. CopyKept
    BY <1>1 DEF StreamStep, Alongside
  <1> QED
    BY <1>2 DEF CopyKept

LEMMA CopyType ==
    ASSUME TypeInv, CancelInv, SyncTypeOK, StreamStep
    PROVE  /\ view' \in [Vehicles -> Views]
           /\ gap' \in [Vehicles -> [Metrics -> {"no", "here", "before"}]]
  <1>1. /\ view \in [Vehicles -> Views]
        /\ gap \in [Vehicles -> [Metrics -> {"no", "here", "before"}]]
    BY DEF SyncTypeOK
  <1>2. CASE ~Delivery
    BY <1>1, <1>2, NothingFacts DEF StreamStep, Alongside, CopyKept, NoGap
  <1>3. CASE Delivery
    <2> DEFINE w == frame.vehicle
               t == Adopted(lastTimes[w], ClampFutureTimes(frame.blocks, now))
    <2>1. HandleFrame
      BY <1>3, OnlyHandleFrameDelivers DEF StreamStep
    <2>2. /\ w \in Vehicles /\ frame.blocks \in Blocks /\ lastTimes[w] \in Gates
          /\ ClampFutureTimes(frame.blocks, now) \in Blocks
          /\ callback'.vehicle = w /\ callback'.telemetry = t
      BY <1>3, <2>1, HandleFrameFacts
    <2>3. t \in Blocks /\ DOMAIN t \subseteq DOMAIN frame.blocks
      <3>1. now \in Times
        BY DEF TypeInv, TypeOK
      <3>2. DOMAIN ClampFutureTimes(frame.blocks, now) = DOMAIN frame.blocks
        BY <2>2, <3>1, ClampFutureTimesType
      <3> QED
        BY <2>2, <3>2, AdoptedType
    <2>4. Delivered \in [DOMAIN t -> Known]
      BY <2>2, <2>3, BlocksElim DEF Delivered, Known
    <2>5. Delivered \in Views
      BY <2>3, <2>4, BlocksElim, ViewsIntro
    <2>6. Merge(view[w], Delivered) \in Views
      BY <1>1, <2>2, <2>5, MergeViews
    <2>7. CASE view' = [view EXCEPT ![w] = Merge(@, Delivered)]
               /\ gap' = [gap EXCEPT ![w] =
                    [m \in Metrics |-> IF m \in DOMAIN Delivered THEN "no" ELSE @[m]]]
      BY <1>1, <2>2, <2>6, <2>7
    <2>8. CASE view' = view
               /\ gap' = [gap EXCEPT ![w] =
                    [m \in Metrics |-> IF m \in DOMAIN Delivered THEN "here" ELSE @[m]]]
      BY <1>1, <2>2, <2>8
    <2>9. UpdateTaken /\ callback'.vehicle = w
      BY <1>3, <2>2 DEF StreamStep, Alongside
    <2> HIDE DEF w
    <2> QED
      BY <2>7, <2>8, <2>9 DEF UpdateTaken
  <1> QED
    BY <1>2, <1>3

LEMMA WireType ==
    ASSUME TypeInv, SyncTypeOK, StreamStep
    PROVE  /\ wire' \in Seq(Frames) /\ Len(wire') <= MaxInFlight
           /\ ~Reading' => owed' = {} /\ wire' = <<>>
           /\ owed' \subseteq requested'
  <1>1. /\ wire \in Seq(Frames) /\ Len(wire) <= MaxInFlight /\ owed \subseteq requested
        /\ ~Reading => owed = {} /\ wire = <<>>
    BY DEF SyncTypeOK
  <1>2. /\ wire' = WireLeft
        /\ FrameRead => wire # <<>>
        /\ owed' = IF Opens THEN requested' ELSE IF Reading' THEN owed ELSE {}
    BY DEF StreamStep, Alongside
  <1>3. wire # <<>> => Tail(wire) \in Seq(Frames) /\ Len(Tail(wire)) <= MaxInFlight
    BY <1>1, SyncAssumption
  <1>4. <<>> \in Seq(Frames) /\ Len(<<>>) <= MaxInFlight
    BY SyncAssumption
  <1>5. /\ ~Reading' => wire' = <<>>
        /\ wire' \in {<<>>, wire} \/ (wire # <<>> /\ wire' = Tail(wire))
    BY <1>2 DEF WireLeft
  <1>6. wire' \in Seq(Frames) /\ Len(wire') <= MaxInFlight
    BY <1>1, <1>3, <1>4, <1>5
  <1>7. Opens => Reading'
    BY DEF Opens, Reading
  <1>8. Reading' => Opens \/ requested' = requested
    BY ReadingStep DEF StreamStep
  <1>9. ~Reading' => owed' = {}
    BY <1>2, <1>7
  <1>10. owed' \subseteq requested'
    BY <1>1, <1>2, <1>8
  <1> QED
    BY <1>5, <1>6, <1>9, <1>10

\* What the server does leaves the stream and the consumer alone.
LEMMA SendType ==
    ASSUME SyncTypeOK, NEW v \in Vehicles, NEW b \in Blocks, Send(v, b)
    PROVE  /\ wire' \in Seq(Frames) /\ Len(wire') <= MaxInFlight
           /\ Len(wire') = Len(wire) + 1
           /\ wire'[Len(wire) + 1] = [vehicle |-> v, blocks |-> b]
           /\ \A i \in DOMAIN wire : i <= Len(wire) /\ wire'[i] = wire[i]
           /\ DOMAIN wire' = 1..(Len(wire) + 1) /\ DOMAIN wire = 1..Len(wire)
           /\ Len(wire) \in Nat
           /\ \A i \in DOMAIN wire' :
                /\ wire'[i] \in Frames
                /\ \/ i \in DOMAIN wire /\ wire'[i] = wire[i]
                   \/ i = Len(wire) + 1 /\ wire'[i] = [vehicle |-> v, blocks |-> b]
  <1>1. wire \in Seq(Frames) /\ [vehicle |-> v, blocks |-> b] \in Frames
    BY DEF SyncTypeOK, Frames
  <1>2. /\ wire' \in Seq(Frames) /\ Len(wire') <= MaxInFlight
        /\ Len(wire') = Len(wire) + 1 /\ Len(wire) \in Nat
        /\ wire'[Len(wire) + 1] = [vehicle |-> v, blocks |-> b]
        /\ \A i \in DOMAIN wire : i <= Len(wire) /\ wire'[i] = wire[i]
        /\ DOMAIN wire' = 1..(Len(wire) + 1) /\ DOMAIN wire = 1..Len(wire)
    BY <1>1, SyncAssumption DEF Send
  <1>3. ASSUME NEW i \in 1..(Len(wire) + 1)
        PROVE  i \in 1..Len(wire) \/ i = Len(wire) + 1
    BY <1>2
  <1>4. \A i \in DOMAIN wire' : wire'[i] \in Frames
    BY <1>2
  <1> QED
    BY <1>2, <1>3, <1>4

LEMMA ServerType ==
    ASSUME TypeInv, TypeInv', SyncTypeOK, ServerStep
    PROVE  SyncTypeOK'
  <1>1. /\ server \in [Vehicles -> Blocks] /\ owed \subseteq requested
        /\ wire \in Seq(Frames) /\ Len(wire) <= MaxInFlight
        /\ ~Reading => owed = {} /\ wire = <<>>
        /\ view \in [Vehicles -> Views] /\ saved \in [Vehicles -> Views]
        /\ gap \in [Vehicles -> [Metrics -> {"no", "here", "before"}]]
    BY DEF SyncTypeOK
  <1>2. ASSUME NEW v \in Vehicles, ServerSendsState(v)
        PROVE  SyncTypeOK'
    <2>1. wire' \in Seq(Frames) /\ Len(wire') <= MaxInFlight
      BY <1>1, <1>2, SendType DEF ServerSendsState
    <2> QED
      BY <1>1, <1>2, <2>1 DEF ServerSendsState, SyncTypeOK, TypeInv, copyVars, vars, taskVars,
                              attemptVars, Reading
  <1>3. ASSUME NEW v \in Vehicles, NEW m \in Metrics, NEW t, ServerChanges(v, m, t)
        PROVE  SyncTypeOK'
    <2>1. [k \in {m} |-> t] \in Blocks
      BY <1>3, OneBlock DEF ServerChanges
    <2>2. server' \in [Vehicles -> Blocks]
      BY <1>1, <1>3, <2>1, MergeBlocks DEF ServerChanges
    <2>3. /\ wire' \in Seq(Frames) /\ Len(wire') <= MaxInFlight
          /\ ~Reading => wire' = <<>>
      BY <1>1, <1>3, <2>1, SendType DEF ServerChanges
    <2> QED
      BY <1>1, <1>3, <2>2, <2>3 DEF ServerChanges, SyncTypeOK, TypeInv, copyVars, vars, taskVars,
                                    attemptVars, Reading
  <1>4. ASSUME NEW v \in Vehicles, NEW m \in Metrics, NEW t \in Times, ServerRollsUp(v, m, t)
        PROVE  SyncTypeOK'
    <2>1. [k \in {m} |-> t] \in Blocks
      BY OneBlock DEF Stamps
    <2>2. wire' \in Seq(Frames) /\ Len(wire') <= MaxInFlight
      BY <1>1, <1>4, <2>1, SendType DEF ServerRollsUp
    <2> QED
      BY <1>1, <1>4, <2>2 DEF ServerRollsUp, SyncTypeOK, TypeInv, copyVars, vars, taskVars,
                              attemptVars, Reading
  <1> QED
    BY <1>2, <1>3, <1>4 DEF ServerStep

LEMMA SyncTypeStep ==
    ASSUME TypeInv, TypeInv', CancelInv, SyncTypeOK, [SyncNext]_svars
    PROVE  SyncTypeOK'
  <1>1. CASE StreamStep
    <2>1. server' = server /\ saved' = saved
      BY <1>1 DEF StreamStep, Alongside
    <2> QED
      BY <1>1, <2>1, CopyType, WireType DEF SyncTypeOK, TypeInv
  <1>2. CASE ServerStep
    BY <1>2, ServerType
  <1>3. CASE Persists
    BY <1>3 DEF Persists, SyncTypeOK, TypeInv, serverVars, vars, taskVars, attemptVars, Reading
  <1>4. CASE ProcessRestarts
    <2>1. PICK ids \in SUBSET Vehicles, polled \in SUBSET Vehicles :
            view' = [v \in Vehicles |-> IF v \in ids THEN Recovered(polled)[v] ELSE Nothing]
      BY <1>4 DEF ProcessRestarts
    <2>2. view' \in [Vehicles -> Views]
      BY <2>1, RecoveredType, NothingFacts
    <2>3. gap' \in [Vehicles -> [Metrics -> {"no", "here", "before"}]]
      BY <1>4 DEF ProcessRestarts, NoGap
    <2>4. wire' \in Seq(Frames) /\ Len(wire') <= MaxInFlight
      BY <1>4, SyncAssumption DEF ProcessRestarts
    <2> QED
      BY <1>4, <2>2, <2>3, <2>4 DEF ProcessRestarts, SyncTypeOK, TypeInv
  <1>5. CASE UNCHANGED svars
    BY <1>5 DEF svars, vars, taskVars, attemptVars, serverVars, copyVars, SyncTypeOK, TypeInv,
                Reading
  <1> QED
    BY <1>1, <1>2, <1>3, <1>4, <1>5 DEF SyncNext
-----------------------------------------------------------------------------
(* What a step of the stream does to one metric of one vehicle: it is kept, *)
(* given up with its vehicle, or taken, or lost in the callback.            *)

Kept(v, m) ==
    /\ lastTimes'[v][m] = lastTimes[v][m]
    /\ m \in DOMAIN view'[v] <=> m \in DOMAIN view[v]
    /\ m \in DOMAIN view[v] => view'[v][m] = view[v][m]
    /\ gap'[v][m] = IF Opens /\ gap[v][m] = "here" THEN "before" ELSE gap[v][m]

GivenUp(v, m) ==
    /\ v \in vehicleIds \ vehicleIds'
    /\ view'[v] = Nothing /\ gap'[v][m] = "no" /\ lastTimes'[v][m] = NoTime

Received(v, m) ==
    /\ HandleFrame /\ Passes(v, m)
    /\ lastTimes'[v][m] = ClampTime(frame.blocks[m], now)
    /\ \/ /\ m \in DOMAIN view'[v] /\ gap'[v][m] = "no"
          /\ view'[v][m] = [stamp |-> frame.blocks[m], time |-> ClampTime(frame.blocks[m], now)]
       \/ view' = view /\ gap'[v][m] = "here"

LEMMA MetricStep ==
    ASSUME SyncTypeOK, TypeInv, CancelInv, StreamStep, NEW v \in Vehicles, NEW m \in Metrics
    PROVE  \/ Kept(v, m) /\ (HandleFrame => ~Passes(v, m))
           \/ GivenUp(v, m)
           \/ Received(v, m)
  <1>1. CASE HandleFrame
    <2>1. Alongside /\ ~Opens
      BY <1>1 DEF StreamStep, Opens, HandleFrame, At
    <2> QED
      BY <1>1, <2>1, FrameHandled DEF Kept, Received
  <1>2. CASE ~HandleFrame
    <2>1. lastTimes \in [Vehicles -> Gates]
      BY DEF TypeInv, TypeOK
    <2>2. CASE v \in vehicleIds \ vehicleIds'
      <3>1. PICK ids \in SUBSET Vehicles : SetVehicleIds(ids)
        BY <1>2, <2>2, GateUntouched DEF StreamStep
      <3>2. lastTimes'[v] = OpenGate
        BY <2>1, <2>2, <3>1, WithoutGatesType DEF SetVehicleIds
      <3>3. view'[v] = Nothing /\ gap'[v] = NoGap
        BY <1>2, <2>2, NothingHandled
      <3> QED
        BY <2>2, <3>2, <3>3 DEF GivenUp, OpenGate, NoGap
    <2>3. CASE v \notin vehicleIds \ vehicleIds'
      <3>1. lastTimes'[v] = lastTimes[v]
        <4>1. CASE \E ids \in SUBSET Vehicles : SetVehicleIds(ids)
          BY <2>1, <2>3, <4>1, WithoutGatesType DEF SetVehicleIds
        <4>2. CASE \A ids \in SUBSET Vehicles : ~SetVehicleIds(ids)
          BY <1>2, <4>2, GateUntouched DEF StreamStep
        <4> QED
          BY <4>1, <4>2
      <3>2. view'[v] = view[v] /\ gap'[v][m] = IF Opens /\ gap[v][m] = "here" THEN "before"
                                               ELSE gap[v][m]
        BY <1>2, <2>3, NothingHandled
      <3> QED
        BY <1>2, <3>1, <3>2 DEF Kept
    <2> QED
      BY <2>2, <2>3
  <1> QED
    BY <1>1, <1>2

\* The frames in flight move up, or are lost with the connection.
LEMMA WireStep ==
    ASSUME SyncTypeOK, StreamStep
    PROVE  /\ FrameRead => 1 \in DOMAIN wire /\ frame' = wire[1]
           /\ Reading' /\ ~FrameRead => wire' = wire
           /\ FrameRead => /\ \A i \in DOMAIN wire' : i + 1 \in DOMAIN wire /\ wire'[i] = wire[i + 1]
                           /\ \A i \in DOMAIN wire : i > 1 => i - 1 \in DOMAIN wire'
           /\ ~Reading' => wire' = <<>>
           /\ FrameRead => Reading'
           /\ DOMAIN wire \subseteq Nat \ {0} /\ DOMAIN wire' \subseteq Nat \ {0}
  <1>1. wire \in Seq(Frames)
    BY DEF SyncTypeOK
  <1>2. /\ FrameRead => wire # <<>> /\ frame' = Head(wire)
        /\ wire' = WireLeft
    BY DEF StreamStep, Alongside
  <1>3. FrameRead => Reading'
    BY DEF FrameRead, Reading
  <1>4. Len(wire) \in Nat /\ DOMAIN wire = 1..Len(wire)
    BY <1>1
  <1>5. CASE FrameRead
    <2>1. wire # <<>> /\ frame' = Head(wire) /\ wire' = Tail(wire)
      BY <1>2, <1>3, <1>5 DEF WireLeft
    <2>2. Len(wire) > 0 /\ frame' = wire[1]
      BY <1>1, <2>1
    <2>3. DOMAIN wire' = 1..(Len(wire) - 1) /\ \A i \in 1..(Len(wire) - 1) : wire'[i] = wire[i + 1]
      BY <1>1, <2>1, <2>2
    <2> QED
      BY <1>3, <1>4, <1>5, <2>2, <2>3
  <1>6. CASE ~FrameRead
    BY <1>2, <1>4, <1>6 DEF WireLeft
  <1> QED
    BY <1>5, <1>6

-----------------------------------------------------------------------------
(* Nothing is ahead of the server.                                         *)

\* The clamp only ever takes a stamp back.
LEMMA ClampedNotAhead ==
    ASSUME NEW v, NEW m, NEW t \in Stamps, now \in Times, NotAhead(v, m, t),
           server[v] \in Blocks
    PROVE  /\ NotAhead(v, m, ClampTime(t, now))
           /\ ClampTime(t, now) # NoTime => ClampTime(t, now) <= now
  <1>1. m \in DOMAIN server[v] => server[v][m] \in Stamps
    BY BlocksElim
  <1> QED
    BY <1>1, SyncAssumption DEF NotAhead, ClampTime, Stamps, Times

LEMMA StreamNotAhead ==
    ASSUME SyncTypeOK, TypeInv, CancelInv, NothingAhead, StreamStep
    PROVE  NothingAhead'
  <1>1. server' = server /\ saved' = saved
    BY DEF StreamStep, Alongside
  <1>2. now \in Times /\ now' \in Times /\ now <= now'
    BY ClockStep, MaxTimeAssumption DEF StreamStep, Tick, SyncTypeOK, TypeOK, Times
  <1>3. \A v \in Vehicles : \A m \in DOMAIN server[v] : server[v][m] \in Stamps
    BY BlocksElim DEF SyncTypeOK
  <1>4. ASSUME NEW v, NEW m, NEW t, t \in Stamps, NotAhead(v, m, t)
        PROVE  /\ t # NoTime => t <= now' + Skew
               /\ m \in DOMAIN server'[v] /\ server'[v][m] # NoTime /\ t # NoTime
                    => t <= server'[v][m]
    <2>1. t # NoTime => /\ t \in Nat /\ t <= now + Skew
                        /\ m \in DOMAIN server[v] /\ server[v][m] # NoTime => t <= server[v][m]
      BY <1>4, MaxTimeAssumption DEF NotAhead, Stamps, Times
    <2>2. now \in Nat /\ now' \in Nat /\ Skew \in Nat
      BY <1>2, SyncAssumption, MaxTimeAssumption DEF Times
    <2>3. t # NoTime => t <= now' + Skew
      BY <1>2, <2>1, <2>2
    <2> QED
      BY <1>1, <2>1, <2>3
  <1>5. \A v \in Vehicles : \A m \in DOMAIN server'[v] : NotAhead(v, m, server[v][m])'
    BY <1>1, <1>3, <1>4 DEF NothingAhead, NotAhead
  <1>6. ASSUME NEW f \in Frames, FrameNotAhead(f)
        PROVE  \A m \in DOMAIN f.blocks : NotAhead(f.vehicle, m, f.blocks[m])'
    <2>1. \A m \in DOMAIN f.blocks : f.blocks[m] \in Stamps
      BY BlocksElim DEF Frames
    <2> QED
      BY <1>4, <1>6, <2>1 DEF FrameNotAhead, NotAhead
  <1>7. \A i \in DOMAIN wire : wire[i] \in Frames
    BY DEF SyncTypeOK
  <1>8. (pc = "frame" => FrameNotAhead(frame))'
    <2> SUFFICES ASSUME pc' = "frame"
                 PROVE  \A m \in DOMAIN frame'.blocks : NotAhead(frame.vehicle, m, frame.blocks[m])'
      BY DEF FrameNotAhead, NotAhead
    <2>1. frame' \in Frames /\ FrameNotAhead(frame')
      <3>1. CASE FrameRead
        BY <1>7, <3>1, WireStep DEF NothingAhead
      <3>2. CASE pc = "frame" /\ frame' = frame
        BY <3>2 DEF NothingAhead, TypeInv, TypeOK
      <3> QED
        BY <3>1, <3>2, ReadingStep DEF StreamStep
    <2> QED
      BY <1>6, <2>1 DEF NotAhead
  <1>9. (\A i \in DOMAIN wire : FrameNotAhead(wire[i]))'
    <2> SUFFICES ASSUME NEW i \in DOMAIN wire'
                 PROVE  \A m \in DOMAIN wire'[i].blocks :
                            NotAhead(wire[i].vehicle, m, wire[i].blocks[m])'
      BY DEF FrameNotAhead, NotAhead
    <2>1. \E j \in DOMAIN wire : wire'[i] = wire[j]
      BY WireStep
    <2>2. wire'[i] \in Frames /\ FrameNotAhead(wire'[i])
      BY <1>7, <2>1 DEF NothingAhead
    <2> QED
      BY <1>6, <2>2 DEF NotAhead
  <1>10. ASSUME NEW v \in Vehicles, NEW m \in Metrics, NEW t \in Stamps,
                NotAhead(v, m, t), t # NoTime => t <= now
         PROVE  /\ t # NoTime => t <= now' + Skew /\ t <= now'
                /\ m \in DOMAIN server'[v] /\ server'[v][m] # NoTime /\ t # NoTime
                     => t <= server'[v][m]
    BY <1>2, <1>4, <1>10 DEF Stamps, Times
  <1>11. ASSUME HandleFrame, NEW v \in Vehicles, NEW m \in Metrics, Passes(v, m)
         PROVE  /\ ClampTime(frame.blocks[m], now) \in Stamps
                /\ NotAhead(v, m, ClampTime(frame.blocks[m], now))
                /\ ClampTime(frame.blocks[m], now) # NoTime
                     => ClampTime(frame.blocks[m], now) <= now
    <2>1. frame \in Frames /\ NotAhead(v, m, frame.blocks[m])
      BY <1>11 DEF NothingAhead, FrameNotAhead, Passes, HandleFrame, At, TypeInv, TypeOK
    <2>2. frame.blocks[m] \in Stamps
      BY <1>11, <2>1, BlocksElim DEF Passes, Frames
    <2>3. server[v] \in Blocks
      BY DEF SyncTypeOK
    <2> QED
      BY <1>2, <2>1, <2>2, <2>3, ClampedNotAhead, ClampTimeBounded
  <1>12. CopyNotAhead(view)'
    <2> SUFFICES ASSUME NEW v \in Vehicles, NEW m \in DOMAIN view'[v]
                 PROVE  /\ NotAhead(v, m, view[v][m].time)'
                        /\ view'[v][m].time # NoTime => view'[v][m].time <= now'
      BY DEF CopyNotAhead, NotAhead
    <2>1. m \in Metrics
      BY CopyType, ViewsElim
    <2>2. /\ view'[v][m].time \in Stamps /\ NotAhead(v, m, view'[v][m].time)
          /\ view'[v][m].time # NoTime => view'[v][m].time <= now
      <3>1. CASE m \in DOMAIN view[v] /\ view'[v][m] = view[v][m]
        BY <3>1, ViewsElim DEF NothingAhead, CopyNotAhead, SyncTypeOK, Known
      <3>2. CASE /\ HandleFrame /\ Passes(v, m)
                 /\ view'[v][m] = [stamp |-> frame.blocks[m],
                                   time |-> ClampTime(frame.blocks[m], now)]
        BY <1>11, <2>1, <3>2
      <3> QED
        BY <2>1, <3>1, <3>2, MetricStep, NothingFacts DEF Kept, GivenUp, Received
    <2> QED
      BY <1>10, <2>1, <2>2 DEF NotAhead
  <1>13. CopyNotAhead(saved)'
    <2> SUFFICES ASSUME NEW v \in Vehicles, NEW m \in DOMAIN saved'[v]
                 PROVE  /\ NotAhead(v, m, saved[v][m].time)'
                        /\ saved'[v][m].time # NoTime => saved'[v][m].time <= now'
      BY DEF CopyNotAhead, NotAhead
    <2>1. m \in Metrics /\ saved[v][m].time \in Stamps
      BY <1>1, ViewsElim DEF SyncTypeOK, Known
    <2> QED
      BY <1>1, <1>10, <2>1 DEF NothingAhead, CopyNotAhead, NotAhead
  <1>14. (\A v \in Vehicles, m \in Metrics : NotAhead(v, m, lastTimes[v][m]))'
    <2> SUFFICES ASSUME NEW v \in Vehicles, NEW m \in Metrics
                 PROVE  NotAhead(v, m, lastTimes[v][m])'
      BY DEF NotAhead
    <2>1. lastTimes'[v][m] \in Stamps /\ NotAhead(v, m, lastTimes'[v][m])
      <3>1. lastTimes[v][m] \in Stamps
        BY DEF TypeInv, TypeOK, Gates
      <3>2. NotAhead(v, m, NoTime) /\ NoTime \in Stamps
        BY DEF NotAhead, Stamps
      <3> QED
        BY <1>11, <3>1, <3>2, MetricStep DEF Kept, GivenUp, Received, NothingAhead
    <2> QED
      BY <1>4, <2>1 DEF NotAhead
  <1> QED
    BY <1>5, <1>8, <1>9, <1>12, <1>13, <1>14 DEF NothingAhead

\* What the server does: its clock bounds every stamp, a rollup is older still.
LEMMA ServerNotAhead ==
    ASSUME TypeInv, SyncTypeOK, NothingAhead, ServerStep
    PROVE  NothingAhead'
  <1>1. /\ UNCHANGED <<view, saved, lastTimes, frame, pc, now>>
        /\ server \in [Vehicles -> Blocks] /\ now \in Times
        /\ \A i \in DOMAIN wire : wire[i] \in Frames
    <2>1. UNCHANGED <<vars, copyVars>>
      BY DEF ServerStep, ServerSendsState, ServerChanges, ServerRollsUp
    <2>2. \A i \in DOMAIN wire : wire[i] \in Frames
      BY DEF SyncTypeOK
    <2>3. server \in [Vehicles -> Blocks] /\ now \in Times
      BY DEF SyncTypeOK, TypeOK
    <2> QED
      BY <2>1, <2>2, <2>3 DEF vars, copyVars, taskVars, attemptVars, sharedVars
  <1>2. \A v \in Vehicles :
            /\ DOMAIN server[v] \subseteq Metrics
            /\ \A m \in DOMAIN server[v] : server[v][m] \in Stamps
    BY <1>1, BlocksElim
  <1>3. \A f \in Frames : f.vehicle \in Vehicles
            /\ DOMAIN f.blocks \subseteq Metrics /\ \A m \in DOMAIN f.blocks : f.blocks[m] \in Stamps
    BY BlocksElim DEF Frames
  \* It suffices that the bounds still hold, and hold of what has been sent.
  <1>4. ASSUME \A v \in Vehicles, m \in Metrics : \A t \in Stamps :
                    NotAhead(v, m, t) => NotAhead(v, m, t)',
               \A v \in Vehicles : \A m \in DOMAIN server'[v] : NotAhead(v, m, server[v][m])',
               \A i \in DOMAIN wire' :
                    /\ wire'[i] \in Frames
                    /\ (i \in DOMAIN wire /\ wire'[i] = wire[i]) \/ FrameNotAhead(wire[i])'
        PROVE  NothingAhead'
    <2>1. ASSUME NEW f \in Frames, FrameNotAhead(f)
          PROVE  \A m \in DOMAIN f.blocks : NotAhead(f.vehicle, m, f.blocks[m])'
      BY <1>3, <1>4, <2>1 DEF FrameNotAhead
    <2>2. (pc = "frame" => FrameNotAhead(frame))'
      BY <1>1, <2>1 DEF NothingAhead, TypeInv, TypeOK, FrameNotAhead
    <2>3. (\A i \in DOMAIN wire : FrameNotAhead(wire[i]))'
      BY <1>1, <1>4, <2>1 DEF NothingAhead, FrameNotAhead
    <2>4. CopyNotAhead(view)' /\ CopyNotAhead(saved)'
      <3>1. \A v \in Vehicles :
                /\ \A m \in DOMAIN view[v] : m \in Metrics /\ view[v][m].time \in Stamps
                /\ \A m \in DOMAIN saved[v] : m \in Metrics /\ saved[v][m].time \in Stamps
        BY ViewsElim DEF SyncTypeOK, Known
      <3> QED
        BY <1>1, <1>4, <3>1 DEF NothingAhead, CopyNotAhead
    <2>5. (\A v \in Vehicles, m \in Metrics : NotAhead(v, m, lastTimes[v][m]))'
      <3>1. \A v \in Vehicles, m \in Metrics : lastTimes[v][m] \in Stamps
        BY DEF TypeInv, TypeOK, Gates
      <3> QED
        BY <1>1, <1>4, <3>1 DEF NothingAhead
    <2> QED
      BY <1>4, <2>2, <2>3, <2>4, <2>5 DEF NothingAhead
  <1>5. ASSUME NEW w \in Vehicles, ServerSendsState(w)
        PROVE  NothingAhead'
    <2>1. server' = server /\ server[w] \in Blocks /\ Send(w, server[w])
      BY <1>1, <1>5 DEF ServerSendsState
    <2>2. \A v \in Vehicles, m \in Metrics : \A t \in Stamps : NotAhead(v, m, t) => NotAhead(v, m, t)'
      BY <1>1, <2>1 DEF NotAhead
    <2>3. \A v \in Vehicles : \A m \in DOMAIN server'[v] : NotAhead(v, m, server[v][m])'
      BY <1>2, <2>1, <2>2 DEF NothingAhead, NotAhead
    <2>4. FrameNotAhead([vehicle |-> w, blocks |-> server[w]])'
      BY <2>1, <2>3 DEF FrameNotAhead, NotAhead
    <2>5. \A i \in DOMAIN wire' :
              /\ wire'[i] \in Frames
              /\ (i \in DOMAIN wire /\ wire'[i] = wire[i]) \/ FrameNotAhead(wire[i])'
      BY <2>1, <2>4, SendType, ZenonT(60) DEF FrameNotAhead, NotAhead
    <2> QED
      BY <1>4, <2>2, <2>3, <2>5
  <1>6. ASSUME NEW w \in Vehicles, NEW k \in Metrics, NEW s \in {now + Skew, NoTime},
               ServerChanges(w, k, s)
        PROVE  NothingAhead'
    <2> DEFINE d == [j \in {k} |-> s]
    <2>1. /\ s \in Stamps
          /\ s # NoTime => s = now + Skew
          /\ server' = [server EXCEPT ![w] = Merge(server[w], d)]
      BY <1>6 DEF ServerChanges
    <2>2. d \in Blocks /\ DOMAIN d = {k} /\ d[k] = s
      <3>1. d \in Blocks
        BY <2>1, OneBlock
      <3> QED
        BY <3>1
    <2>3. /\ k \in DOMAIN server'[w] /\ server'[w][k] = s
          /\ \A v \in Vehicles : \A m \in DOMAIN server'[v] :
                ~(v = w /\ m = k) => m \in DOMAIN server[v] /\ server'[v][m] = server[v][m]
      <3>1. server'[w] = Merge(server[w], d) /\ \A v \in Vehicles \ {w} : server'[v] = server[v]
        BY <1>1, <2>1
      <3>2. /\ DOMAIN server'[w] = DOMAIN server[w] \cup {k} /\ server'[w][k] = s
            /\ \A m \in DOMAIN server[w] \ {k} : server'[w][m] = server[w][m]
        BY <2>2, <3>1 DEF Merge
      <3> QED
        BY <3>1, <3>2
    <2>4. \A v \in Vehicles, m \in Metrics : \A t \in Stamps : NotAhead(v, m, t) => NotAhead(v, m, t)'
      <3> SUFFICES ASSUME NEW v \in Vehicles, NEW m \in Metrics, NEW t \in Stamps,
                          NotAhead(v, m, t), t # NoTime
                   PROVE  /\ t <= now' + Skew
                          /\ m \in DOMAIN server'[v] /\ server'[v][m] # NoTime
                                => t <= server'[v][m]
        BY DEF NotAhead
      <3>1. t <= now + Skew /\ now' = now
        BY <1>1 DEF NotAhead
      <3>2. m \in DOMAIN server[v] /\ server[v][m] # NoTime => t <= server[v][m]
        BY DEF NotAhead
      <3> QED
        BY <2>1, <2>3, <3>1, <3>2
    <2>5. \A v \in Vehicles : \A m \in DOMAIN server'[v] : NotAhead(v, m, server[v][m])'
      <3> SUFFICES ASSUME NEW v \in Vehicles, NEW m \in DOMAIN server'[v]
                   PROVE  NotAhead(v, m, server[v][m])'
        BY DEF NotAhead
      <3>1. CASE v = w /\ m = k
        <4>1. server'[v][m] = s /\ now' = now
          BY <1>1, <2>3, <3>1
        <4>2. s # NoTime => s <= now + Skew
          BY <1>1, <2>1, SyncAssumption DEF Times
        <4>3. s # NoTime => s <= s
          BY <2>1 DEF Stamps, Times
        <4> QED
          BY <4>1, <4>2, <4>3 DEF NotAhead
      <3>2. CASE ~(v = w /\ m = k)
        <4>1. m \in DOMAIN server[v] /\ server'[v][m] = server[v][m]
          BY <2>3, <3>2
        <4>2. m \in Metrics /\ server[v][m] \in Stamps /\ NotAhead(v, m, server[v][m])
          BY <1>2, <4>1 DEF NothingAhead
        <4> QED
          BY <2>4, <4>1, <4>2 DEF NotAhead
      <3> QED
        BY <3>1, <3>2
    <2>6. FrameNotAhead([vehicle |-> w, blocks |-> d])'
      <3>1. NotAhead(w, k, server[w][k])'
        BY <2>3, <2>5
      <3> QED
        BY <2>2, <2>3, <3>1 DEF FrameNotAhead, NotAhead
    <2>7. UNCHANGED wire \/ Send(w, d)
      BY <1>6 DEF ServerChanges
    <2> HIDE DEF d
    <2>8. \A i \in DOMAIN wire' :
              /\ wire'[i] \in Frames
              /\ (i \in DOMAIN wire /\ wire'[i] = wire[i]) \/ FrameNotAhead(wire[i])'
      <3>1. CASE UNCHANGED wire
        BY <1>1, <3>1
      <3>2. CASE Send(w, d)
        <4>1. \A i \in DOMAIN wire' :
                /\ wire'[i] \in Frames
                /\ \/ i \in DOMAIN wire /\ wire'[i] = wire[i]
                   \/ i = Len(wire) + 1 /\ wire'[i] = [vehicle |-> w, blocks |-> d]
          BY <2>2, <3>2, SendType
        <4>2. ASSUME NEW i \in DOMAIN wire', wire'[i] = [vehicle |-> w, blocks |-> d]
              PROVE  FrameNotAhead(wire[i])'
          BY <2>6, <4>2 DEF FrameNotAhead, NotAhead
        <4> QED
          BY <4>1, <4>2
      <3> QED
        BY <2>7, <3>1, <3>2
    <2> QED
      BY <1>4, <2>4, <2>5, <2>8
  <1>7. ASSUME NEW w \in Vehicles, NEW k \in Metrics, NEW s \in Times, ServerRollsUp(w, k, s)
        PROVE  NothingAhead'
    <2> DEFINE d == [j \in {k} |-> s]
    <2>1. /\ server' = server /\ Send(w, d)
          /\ k \in DOMAIN server[w] /\ server[w][k] # NoTime /\ s + Skew < server[w][k]
      BY <1>7 DEF ServerRollsUp
    <2>2. d \in Blocks /\ DOMAIN d = {k} /\ d[k] = s
      BY OneBlock DEF Stamps
    <2>3. \A v \in Vehicles, m \in Metrics : \A t \in Stamps : NotAhead(v, m, t) => NotAhead(v, m, t)'
      BY <1>1, <2>1 DEF NotAhead
    <2>4. \A v \in Vehicles : \A m \in DOMAIN server'[v] : NotAhead(v, m, server[v][m])'
      BY <1>2, <2>1, <2>3 DEF NothingAhead, NotAhead
    <2>5. NotAhead(w, k, s)'
      <3>1. server[w][k] \in Stamps /\ server[w][k] <= now + Skew
        BY <1>2, <2>1 DEF NothingAhead, NotAhead
      <3> QED
        BY <1>1, <2>1, <3>1, SyncAssumption DEF NotAhead, Stamps, Times
    <2>6. FrameNotAhead([vehicle |-> w, blocks |-> d])'
      BY <2>2, <2>5 DEF FrameNotAhead, NotAhead
    <2> HIDE DEF d
    <2>7. \A i \in DOMAIN wire' :
              /\ wire'[i] \in Frames
              /\ (i \in DOMAIN wire /\ wire'[i] = wire[i]) \/ FrameNotAhead(wire[i])'
      BY <2>1, <2>2, <2>6, SendType, ZenonT(60) DEF FrameNotAhead, NotAhead
    <2> QED
      BY <1>4, <2>3, <2>4, <2>7
  <1> QED
    BY <1>5, <1>6, <1>7 DEF ServerStep

\* The recovered copy has been taken from the server too.
LEMMA RecoveredNotAhead ==
    ASSUME SyncTypeOK, NothingAhead, NEW polled \in SUBSET Vehicles
    PROVE  CopyNotAhead(Recovered(polled))
  <1>1. now \in Times /\ server \in [Vehicles -> Blocks] /\ saved \in [Vehicles -> Views]
    BY DEF SyncTypeOK, TypeOK
  <1> SUFFICES ASSUME NEW v \in Vehicles, NEW m \in DOMAIN Recovered(polled)[v]
               PROVE  LET t == Recovered(polled)[v][m].time
                      IN NotAhead(v, m, t) /\ (t # NoTime => t <= now)
    BY DEF CopyNotAhead
  <1>2. CASE v \in polled /\ m \in DOMAIN server[v]
    <2>1. Recovered(polled)[v][m] = Snapshot(v)[m]
      <3>1. Recovered(polled)[v] = Merge(saved[v], Snapshot(v)) /\ m \in DOMAIN Snapshot(v)
        BY <1>1, <1>2, SnapshotFacts DEF Recovered
      <3> QED
        BY <3>1 DEF Merge
    <2>2. Snapshot(v)[m].time = ClampTime(server[v][m], now)
      BY <1>1, <1>2, SnapshotFacts
    <2>3. server[v][m] \in Stamps /\ NotAhead(v, m, server[v][m]) /\ server[v] \in Blocks
      BY <1>1, <1>2, BlocksElim DEF NothingAhead
    <2> QED
      BY <1>1, <2>1, <2>2, <2>3, ClampedNotAhead
  <1>3. CASE ~(v \in polled /\ m \in DOMAIN server[v])
    <2>1. m \in DOMAIN saved[v] /\ Recovered(polled)[v][m] = saved[v][m]
      <3>1. CASE v \in polled
        <4>1. Recovered(polled)[v] = Merge(saved[v], Snapshot(v)) /\ m \notin DOMAIN Snapshot(v)
          BY <1>1, <1>3, <3>1, SnapshotFacts DEF Recovered
        <4> QED
          BY <4>1 DEF Merge
      <3>2. CASE v \notin polled
        BY <3>2 DEF Recovered
      <3> QED
        BY <3>1, <3>2
    <2> QED
      BY <2>1 DEF NothingAhead, CopyNotAhead
  <1> QED
    BY <1>2, <1>3

\* The restarted process: the seed is the copy's times, which the constructor's
\* clamp leaves as they are.
LEMMA RestartFacts ==
    ASSUME SyncTypeOK, NothingAhead, ProcessRestarts
    PROVE  /\ CopyNotAhead(view') /\ pc' = "none" /\ wire' = <<>>
           /\ UNCHANGED <<server, saved, now>>
           /\ \A v \in Vehicles, m \in Metrics : NotAhead(v, m, lastTimes'[v][m])
           /\ \A v \in Vehicles : \A m \in DOMAIN view'[v] : view'[v][m].time = lastTimes'[v][m]
  <1>1. PICK ids \in SUBSET Vehicles, polled \in SUBSET Vehicles :
            /\ lastTimes' = WarmGate(TimesOf(Recovered(polled)), now)
            /\ view' = [v \in Vehicles |-> IF v \in ids THEN Recovered(polled)[v] ELSE Nothing]
    BY DEF ProcessRestarts
  <1> DEFINE R == Recovered(polled)
  <1>2. now \in Times /\ R \in [Vehicles -> Views] /\ CopyNotAhead(R)
    BY RecoveredType, RecoveredNotAhead DEF SyncTypeOK, TypeOK
  <1> HIDE DEF R
  <1>3. CopyNotAhead(view')
    BY <1>1, <1>2, NothingFacts DEF CopyNotAhead, R
  <1>4. ASSUME NEW v \in Vehicles, NEW m \in Metrics
        PROVE  lastTimes'[v][m] = IF m \in DOMAIN R[v] THEN R[v][m].time ELSE NoTime
    <2>1. /\ TimesOf(R) \in [Vehicles -> Gates]
          /\ TimesOf(R)[v][m] = IF m \in DOMAIN R[v] THEN R[v][m].time ELSE NoTime
      BY <1>2, TimesOfFacts
    <2>2. lastTimes'[v][m] = ClampTime(TimesOf(R)[v][m], now)
      BY <1>1, <1>2, <2>1, WarmGateType DEF R
    <2> QED
      BY <1>2, <2>1, <2>2 DEF ClampTime, CopyNotAhead
  <1>5. \A v \in Vehicles, m \in Metrics : NotAhead(v, m, lastTimes'[v][m])
    BY <1>2, <1>4 DEF CopyNotAhead, NotAhead
  <1>6. \A v \in Vehicles : \A m \in DOMAIN view'[v] : view'[v][m].time = lastTimes'[v][m]
    <2> SUFFICES ASSUME NEW v \in Vehicles, NEW m \in DOMAIN view'[v]
                 PROVE  view'[v][m].time = lastTimes'[v][m]
      OBVIOUS
    <2>1. view'[v] = R[v] /\ m \in DOMAIN R[v] /\ m \in Metrics
      BY <1>1, <1>2, NothingFacts, ViewsElim DEF R
    <2> QED
      BY <1>4, <2>1
  <1> QED
    BY <1>3, <1>5, <1>6 DEF ProcessRestarts

LEMMA NothingAheadStep ==
    ASSUME TypeInv, CancelInv, SyncTypeOK, NothingAhead, [SyncNext]_svars
    PROVE  NothingAhead'
  <1>1. CASE Persists
    BY <1>1 DEF Persists, vars, taskVars, attemptVars, sharedVars, serverVars, NothingAhead,
                NotAhead, FrameNotAhead, CopyNotAhead
  <1>2. CASE ProcessRestarts
    BY <1>2, RestartFacts DEF NothingAhead, NotAhead, FrameNotAhead, CopyNotAhead
  <1>3. CASE UNCHANGED svars
    BY <1>3 DEF svars, vars, taskVars, attemptVars, sharedVars, serverVars, copyVars, NothingAhead,
                NotAhead, FrameNotAhead, CopyNotAhead
  <1> QED
    BY <1>1, <1>2, <1>3, StreamNotAhead, ServerNotAhead DEF SyncNext

-----------------------------------------------------------------------------
(* The gate stores the times of the consumer's copy.                       *)

LEMMA GateMirrorsStep ==
    ASSUME TypeInv, CancelInv, SyncTypeOK, NothingAhead, GateMirrorsCopy, [SyncNext]_svars
    PROVE  GateMirrorsCopy'
  <1>1. CASE StreamStep
    <2> SUFFICES ASSUME NEW v \in Vehicles, NEW m \in DOMAIN view'[v], gap'[v][m] = "no"
                 PROVE  view'[v][m].time = lastTimes'[v][m]
      BY DEF GateMirrorsCopy
    <2>1. m \in Metrics
      BY <1>1, CopyType, ViewsElim
    <2>2. CASE Kept(v, m)
      BY <2>2 DEF Kept, GateMirrorsCopy
    <2>3. CASE Received(v, m)
      BY <2>3 DEF Received
    <2>4. ~GivenUp(v, m)
      BY NothingFacts DEF GivenUp
    <2> QED
      BY <1>1, <2>1, <2>2, <2>3, <2>4, MetricStep
  <1>2. CASE ServerStep \/ Persists
    BY <1>2 DEF ServerStep, ServerSendsState, ServerChanges, ServerRollsUp, Persists, vars,
                sharedVars, copyVars, GateMirrorsCopy
  <1>3. CASE ProcessRestarts
    BY <1>3, RestartFacts DEF GateMirrorsCopy
  <1>4. CASE UNCHANGED svars
    BY <1>4 DEF svars, vars, sharedVars, copyVars, GateMirrorsCopy
  <1> QED
    BY <1>1, <1>2, <1>3, <1>4 DEF SyncNext

-----------------------------------------------------------------------------
(* On a connection that is current, the newest blocks have been taken or    *)
(* come, and what else is in flight is barred by the gate.                  *)

\* The arithmetic of the two clocks: for a stamp that is not older than what
\* is stored, and for one that is older by more than the clocks differ.
LEMMA NewestAdopted ==
    ASSUME NEW stored \in Stamps, NEW t \in Stamps, NEW n \in Times,
           t # NoTime => t <= n + Skew,
           stored # NoTime => stored <= n,
           stored # NoTime /\ t # NoTime => stored <= t
    PROVE  /\ Adopts(stored, ClampTime(t, n))
           /\ t # NoTime => ClampTime(t, n) # NoTime /\ t <= ClampTime(t, n) + Skew
  <1>1. /\ n \in Nat /\ Skew \in Nat
        /\ t # NoTime => t \in Nat
        /\ stored # NoTime => stored \in Nat
    BY SyncAssumption DEF Stamps, Times
  <1>2. CASE t = NoTime
    BY <1>2 DEF Adopts, ClampTime
  <1>3. CASE t # NoTime
    <2>1. ClampTime(t, n) = IF t <= n THEN t ELSE n
      BY <1>3 DEF ClampTime
    <2>2. t <= ClampTime(t, n) + Skew /\ ClampTime(t, n) # NoTime
      BY <1>1, <1>3, <2>1, NoTimeAssumption
    <2>3. stored # NoTime => ClampTime(t, n) >= stored
      BY <1>1, <1>3, <2>1
    <2> QED
      BY <2>2, <2>3 DEF Adopts
  <1> QED
    BY <1>2, <1>3

LEMMA OlderDropped ==
    ASSUME NEW stored \in Stamps, NEW t \in Stamps, NEW newest \in Stamps, NEW n \in Times,
           stored # NoTime, t # NoTime, newest # NoTime,
           t + Skew < newest, newest <= stored + Skew
    PROVE  ~Adopts(stored, ClampTime(t, n))
  <1>1. n \in Nat /\ Skew \in Nat /\ t \in Nat /\ stored \in Nat /\ newest \in Nat
    BY SyncAssumption DEF Stamps, Times
  <1>2. ClampTime(t, n) = IF t <= n THEN t ELSE n
    BY DEF ClampTime
  <1>3. t < stored
    BY <1>1
  <1>4. ClampTime(t, n) \in Nat /\ ClampTime(t, n) < stored
    BY <1>1, <1>2, <1>3
  <1> QED
    BY <1>1, <1>4, NoTimeAssumption DEF Adopts

\* The newest block passes the gate: what is stored is neither in the future
\* nor ahead of the server.
LEMMA NewestPasses ==
    ASSUME TypeInv, SyncTypeOK, NothingAhead, HighWaterReachable,
           NEW v \in Vehicles, NEW m \in DOMAIN server[v]
    PROVE  LET t == ClampTime(server[v][m], now)
           IN /\ Adopts(lastTimes[v][m], t)
              /\ server[v][m] # NoTime => t # NoTime /\ server[v][m] <= t + Skew
  <1>1. m \in Metrics /\ server[v][m] \in Stamps /\ now \in Times /\ lastTimes[v][m] \in Stamps
    <2>1. server[v] \in Blocks /\ now \in Times /\ lastTimes \in [Vehicles -> Gates]
      BY DEF SyncTypeOK, TypeOK
    <2> QED
      BY <2>1, BlocksElim DEF Gates
  <1>2. server[v][m] # NoTime => server[v][m] <= now + Skew
    BY DEF NothingAhead, NotAhead
  <1>3. lastTimes[v][m] # NoTime =>
            /\ lastTimes[v][m] <= now
            /\ server[v][m] # NoTime => lastTimes[v][m] <= server[v][m]
    BY <1>1 DEF HighWaterReachable, NothingAhead, NotAhead
  <1> QED
    BY <1>1, <1>2, <1>3, NewestAdopted

\* A rollup does not.
LEMMA RollupBarred ==
    ASSUME TypeInv, SyncTypeOK, NEW v \in Vehicles, NEW m \in DOMAIN server[v], NEW t \in Stamps,
           Taken(v, m), Rollup(v, m, t)
    PROVE  ~Adopts(lastTimes[v][m], ClampTime(t, now))
  <1>1. m \in Metrics /\ server[v][m] \in Stamps /\ now \in Times /\ lastTimes[v][m] \in Stamps
    <2>1. server[v] \in Blocks /\ now \in Times /\ lastTimes \in [Vehicles -> Gates]
      BY DEF SyncTypeOK, TypeOK
    <2> QED
      BY <2>1, BlocksElim DEF Gates
  <1>2. /\ server[v][m] # NoTime /\ t # NoTime /\ t + Skew < server[v][m]
        /\ lastTimes[v][m] # NoTime /\ server[v][m] <= lastTimes[v][m] + Skew
    BY DEF Taken, Rollup
  <1> QED
    BY <1>1, <1>2, OlderDropped

LEMMA StreamCurrent ==
    ASSUME TypeInv, CancelInv, SubscriptionInv, HighWaterReachable, SyncTypeOK, NothingAhead,
           ConnectionCurrent, StreamStep
    PROVE  ConnectionCurrent'
  <1> SUFFICES ASSUME Reading', ~idsChanged', NEW v \in requested' \ owed',
                      NEW m \in DOMAIN server'[v]
               PROVE  Current(v, m)'
    BY DEF ConnectionCurrent
  <1>1. /\ server' = server
        /\ owed' = IF Opens THEN requested' ELSE owed
        /\ Next
    BY DEF StreamStep, Alongside
  <1>2. /\ ~Opens /\ Reading /\ requested' = requested /\ owed' = owed
        /\ ~idsChanged /\ vehicleIds' = vehicleIds
    BY <1>1, ReadingStep
  <1>3. v \in Vehicles /\ m \in Metrics /\ m \in DOMAIN server[v] /\ requested = vehicleIds
    <2>1. requested \subseteq Vehicles /\ server \in [Vehicles -> Blocks]
      BY DEF SyncTypeOK, TypeOK
    <2> QED
      BY <1>1, <1>2, <2>1, BlocksElim DEF SubscriptionInv, SubscriptionFresh, Reading
  <1>4. Current(v, m)
    BY <1>1, <1>2 DEF ConnectionCurrent
  <1>5. \A f : Carries(f, v, m)' <=> Carries(f, v, m)
    BY <1>1 DEF Carries
  <1>6. \A t : Rollup(v, m, t)' <=> Rollup(v, m, t)
    BY <1>1 DEF Rollup
  <1>7. DOMAIN wire \subseteq Nat \ {0} /\ DOMAIN wire' \subseteq Nat \ {0}
    BY WireStep
  \* Moving up, the carriers stay behind what they were behind.
  <1>8. FrameRead => \A i \in DOMAIN wire : Comes(v, m, i) => Comes(v, m, i - 1)'
    <2> SUFFICES ASSUME FrameRead, NEW i \in DOMAIN wire, NEW j \in DOMAIN wire, j > i,
                        Carries(wire[j], v, m)
                 PROVE  Comes(v, m, i - 1)'
      BY DEF Comes
    <2>1. j > 1 /\ j - 1 > i - 1 /\ (j - 1) + 1 = j
      BY <1>7
    <2>2. j - 1 \in DOMAIN wire' /\ wire'[j - 1] = wire[j]
      BY <2>1, WireStep
    <2> QED
      BY <1>1, <2>1, <2>2 DEF Comes, Carries
  <1>9. ~FrameRead => wire' = wire /\ \A i \in Nat : Comes(v, m, i)' <=> Comes(v, m, i)
    BY <1>1, WireStep DEF Comes, Carries
  <1>10. pc' = "frame" => FrameRead \/ (pc = "frame" /\ frame' = frame)
    BY <1>1, ReadingStep
  <1>11. InFlightOrdered(v, m)'
    <2>1. CASE FrameRead
      <3>1. 1 \in DOMAIN wire /\ frame' = wire[1] /\ Ordered(wire[1], v, m, 1)
        BY <1>4, <2>1, WireStep DEF Current, InFlightOrdered
      <3>2. (pc = "frame" => Ordered(frame, v, m, 0))'
        BY <1>1, <1>8, <2>1, <3>1 DEF Ordered, Carries, Rollup
      <3>3. ASSUME NEW i \in DOMAIN wire' PROVE Ordered(wire[i], v, m, i)'
        <4>1. i + 1 \in DOMAIN wire /\ wire'[i] = wire[i + 1] /\ (i + 1) - 1 = i
          BY <1>7, <2>1, WireStep
        <4>2. Ordered(wire[i + 1], v, m, i + 1)
          BY <1>4, <4>1 DEF Current, InFlightOrdered
        <4>3. Comes(v, m, i + 1) => Comes(v, m, i)'
          BY <1>8, <2>1, <4>1
        <4> QED
          BY <1>1, <4>1, <4>2, <4>3 DEF Ordered, Carries, Rollup
      <3> QED
        BY <3>2, <3>3 DEF InFlightOrdered
    <2>2. CASE ~FrameRead
      <3>1. \A i \in DOMAIN wire' : Ordered(wire[i], v, m, i)'
        BY <1>1, <1>4, <1>7, <1>9, <2>2 DEF Current, InFlightOrdered, Ordered, Carries, Rollup
      <3>2. (pc = "frame" => Ordered(frame, v, m, 0))'
        BY <1>1, <1>4, <1>9, <1>10, <2>2 DEF Current, InFlightOrdered, Ordered, Carries, Rollup
      <3> QED
        BY <3>1, <3>2 DEF InFlightOrdered
    <2> QED
      BY <2>1, <2>2
  <1>12. Comes(v, m, 0) => Comes(v, m, 0)' \/ (pc = "frame" /\ Carries(frame, v, m))'
    <2>1. CASE FrameRead
      <3> SUFFICES ASSUME NEW j \in DOMAIN wire, Carries(wire[j], v, m)
                   PROVE  Comes(v, m, 0)' \/ (pc = "frame" /\ Carries(frame, v, m))'
        BY DEF Comes
      <3>1. CASE j = 1
        BY <1>1, <2>1, <3>1, WireStep DEF FrameRead, Carries
      <3>2. CASE j # 1
        <4>1. j > 1 /\ j - 1 > 0 /\ (j - 1) + 1 = j
          BY <1>7, <3>2
        <4>2. j - 1 \in DOMAIN wire' /\ wire'[j - 1] = wire[j]
          BY <2>1, <4>1, WireStep
        <4> QED
          BY <1>1, <4>1, <4>2 DEF Comes, Carries
      <3> QED
        BY <3>1, <3>2
    <2> QED
      BY <1>9, <2>1
  \* The newest block, handled, is taken.
  <1>13. ASSUME HandleFrame, Carries(frame, v, m) PROVE Taken(v, m)'
    <2>1. Passes(v, m) /\ frame.blocks[m] = server[v][m]
      BY <1>2, <1>3, <1>13, NewestPasses DEF Passes, Carries
    <2>2. CASE Received(v, m)
      BY <1>1, <1>3, <2>1, <2>2, NewestPasses DEF Received, Taken, Has
    <2> QED
      BY <1>2, <1>3, <1>13, <2>1, <2>2, MetricStep DEF GivenUp
  \* What has been taken stays.
  <1>14. Taken(v, m) => Taken(v, m)' \/ Comes(v, m, 0)'
    <2> SUFFICES ASSUME Taken(v, m) PROVE Taken(v, m)' \/ Comes(v, m, 0)'
      OBVIOUS
    <2>1. CASE Kept(v, m)
      BY <1>1, <1>2, <2>1 DEF Kept, Taken, Has
    <2>2. CASE Received(v, m)
      <3>1. /\ HandleFrame /\ pc = "frame" /\ frame.vehicle = v /\ m \in DOMAIN frame.blocks
            /\ Adopts(lastTimes[v][m], ClampTime(frame.blocks[m], now))
        BY <2>2 DEF Received, Passes, HandleFrame, At
      <3>2. Ordered(frame, v, m, 0)
        BY <1>4, <3>1 DEF Current, InFlightOrdered
      <3>3. frame.blocks[m] \in Stamps
        BY <3>1, BlocksElim DEF TypeInv, TypeOK, Frames
      <3>4. Carries(frame, v, m) \/ Comes(v, m, 0)
        BY <1>3, <3>1, <3>2, <3>3, RollupBarred DEF Ordered
      <3>5. ~FrameRead
        BY <3>1 DEF FrameRead
      <3> QED
        BY <1>9, <1>13, <3>1, <3>4, <3>5
    <2> QED
      BY <1>2, <1>3, <2>1, <2>2, MetricStep DEF GivenUp
  <1>15. pc = "frame" /\ Carries(frame, v, m) =>
            Taken(v, m)' \/ (pc = "frame" /\ Carries(frame, v, m))'
    <2>1. pc = "frame" /\ pc' = "frame" => frame' = frame
      BY <1>10 DEF FrameRead
    <2>2. pc = "frame" /\ pc' # "frame" => HandleFrame
      BY <1>1, ReadingStep
    <2> QED
      BY <1>1, <1>13, <2>1, <2>2 DEF Carries
  <1> QED
    BY <1>4, <1>11, <1>12, <1>14, <1>15 DEF Current

\* The server appends: a frame that leaves the newest block of v, m as it is
\* and is a carrier, a rollup or about something else disturbs nothing.
LEMMA AppendedCurrent ==
    ASSUME SyncTypeOK, NEW w \in Vehicles, NEW b \in Blocks, Send(w, b),
           UNCHANGED <<pc, frame, view, gap, lastTimes>>,
           NEW v, NEW m, server'[v][m] = server[v][m], Current(v, m),
           w = v /\ m \in DOMAIN b => b[m] = server[v][m] \/ Rollup(v, m, b[m])
    PROVE  Current(v, m)'
  <1> DEFINE f == [vehicle |-> w, blocks |-> b]
  <1>1. /\ \A i \in DOMAIN wire : i \in DOMAIN wire' /\ wire'[i] = wire[i]
        /\ \A i \in DOMAIN wire' : (i \in DOMAIN wire /\ wire'[i] = wire[i]) \/ wire'[i] = f
    <2>1. /\ Len(wire) \in Nat /\ DOMAIN wire = 1..Len(wire) /\ DOMAIN wire' = 1..(Len(wire) + 1)
          /\ \A i \in DOMAIN wire : wire'[i] = wire[i]
      BY SendType
    <2>2. DOMAIN wire \subseteq DOMAIN wire'
      BY <2>1
    <2> QED
      BY <2>1, <2>2, SendType
  <1>2. \A i : Comes(v, m, i) => Comes(v, m, i)'
    BY <1>1 DEF Comes, Carries
  <1>3. ASSUME NEW g, NEW i, Ordered(g, v, m, i)
        PROVE  /\ g.vehicle = v /\ m \in DOMAIN g.blocks =>
                    \/ g.vehicle = v /\ m \in DOMAIN g.blocks /\ g.blocks[m] = server'[v][m]
                    \/ Comes(v, m, i)'
                    \/ server'[v][m] # NoTime /\ g.blocks[m] # NoTime
                       /\ g.blocks[m] + Skew < server'[v][m]
    BY <1>2, <1>3 DEF Ordered, Carries, Rollup
  <1>4. (pc = "frame" => Ordered(frame, v, m, 0))'
    BY <1>3 DEF Current, InFlightOrdered, Ordered, Carries, Rollup
  <1>5. ASSUME NEW i \in DOMAIN wire' PROVE Ordered(wire[i], v, m, i)'
    <2>1. CASE i \in DOMAIN wire /\ wire'[i] = wire[i]
      BY <1>3, <2>1 DEF Current, InFlightOrdered, Ordered, Carries, Rollup
    <2>2. CASE wire'[i] = f
      BY <2>2 DEF Ordered, Carries, Rollup
    <2> QED
      BY <1>1, <2>1, <2>2
  <1>6. (Taken(v, m) \/ (pc = "frame" /\ Carries(frame, v, m)) \/ Comes(v, m, 0))'
    BY <1>2 DEF Current, Taken, Has, Carries
  <1> QED
    BY <1>4, <1>5, <1>6 DEF Current, InFlightOrdered

\* A frame that carries the newest block, appended, makes any other current.
LEMMA CarrierCurrent ==
    ASSUME SyncTypeOK, NEW v \in Vehicles, NEW b \in Blocks, Send(v, b),
           NEW m \in DOMAIN b, b[m] = server'[v][m]
    PROVE  Current(v, m)'
  <1>1. PICK n \in Nat : /\ DOMAIN wire = 1..n /\ DOMAIN wire' = 1..(n + 1)
                         /\ wire'[n + 1] = [vehicle |-> v, blocks |-> b]
    BY SendType
  <1>2. Carries(wire[n + 1], v, m)'
    BY <1>1 DEF Carries
  <1>3. \A i \in 0..n : Comes(v, m, i)'
    BY <1>1, <1>2 DEF Comes, Carries
  <1>4. Comes(v, m, 0)'
    BY <1>3
  <1>5. ASSUME NEW i \in DOMAIN wire' PROVE Ordered(wire[i], v, m, i)'
    <2>1. i \in 0..n \/ i = n + 1
      BY <1>1
    <2> QED
      BY <1>1, <1>2, <1>3, <2>1 DEF Ordered, Carries
  <1> QED
    BY <1>4, <1>5 DEF Current, InFlightOrdered, Ordered

LEMMA ServerCurrent ==
    ASSUME SyncTypeOK, ConnectionCurrent, ServerStep
    PROVE  ConnectionCurrent'
  <1>1. UNCHANGED <<pc, frame, view, gap, lastTimes, requested, idsChanged>>
    <2>1. UNCHANGED <<vars, copyVars>>
      BY DEF ServerStep, ServerSendsState, ServerChanges, ServerRollsUp
    <2> QED
      BY <2>1 DEF vars, copyVars, taskVars, attemptVars, sharedVars
  <1> SUFFICES ASSUME Reading, ~idsChanged, NEW v \in requested \ owed',
                      NEW m \in DOMAIN server'[v]
               PROVE  Current(v, m)'
    BY <1>1 DEF ConnectionCurrent, Reading
  <1>2. server \in [Vehicles -> Blocks] /\ v \in Vehicles
    BY DEF SyncTypeOK, TypeOK
  <1>3. v \notin owed => \A k \in DOMAIN server[v] : Current(v, k)
    BY DEF ConnectionCurrent
  <1>4. ASSUME NEW w \in Vehicles, ServerSendsState(w) PROVE Current(v, m)'
    <2>1. /\ server' = server /\ owed' = owed \ {w} /\ Send(w, server[w])
          /\ server[w] \in Blocks
      BY <1>2, <1>4 DEF ServerSendsState
    <2>2. CASE v = w
      BY <2>1, <2>2, CarrierCurrent
    <2>3. CASE v # w
      BY <1>1, <1>3, <2>1, <2>3, AppendedCurrent
    <2> QED
      BY <2>2, <2>3
  <1>5. ASSUME NEW w \in Vehicles, NEW k \in Metrics, NEW s, ServerChanges(w, k, s)
        PROVE  Current(v, m)'
    <2> DEFINE d == [j \in {k} |-> s]
    <2>1. /\ s \in Stamps /\ server' = [server EXCEPT ![w] = Merge(server[w], d)]
          /\ owed' = owed
          /\ IF v \in requested \ owed /\ v = w THEN Send(w, d) ELSE UNCHANGED wire \/ Send(w, d)
      BY <1>5 DEF ServerChanges
    <2>2. d \in Blocks /\ DOMAIN d = {k} /\ d[k] = s
      <3>1. d \in Blocks
        BY <2>1, OneBlock
      <3> QED
        BY <3>1
    <2>3. /\ v = w /\ m = k => server'[v][m] = s
          /\ ~(v = w /\ m = k) => m \in DOMAIN server[v] /\ server'[v][m] = server[v][m]
      <3>1. server'[w] = Merge(server[w], d) /\ \A u \in Vehicles \ {w} : server'[u] = server[u]
        BY <1>2, <2>1
      <3>2. /\ DOMAIN server'[w] = DOMAIN server[w] \cup {k} /\ server'[w][k] = s
            /\ \A j \in DOMAIN server[w] \ {k} : server'[w][j] = server[w][j]
        BY <2>2, <3>1 DEF Merge
      <3> QED
        BY <1>2, <3>1, <3>2
    <2> HIDE DEF d
    <2>4. CASE v = w /\ m = k
      BY <1>2, <2>1, <2>2, <2>3, <2>4, CarrierCurrent
    <2>5. CASE ~(v = w /\ m = k)
      <3>1. Current(v, m) /\ server'[v][m] = server[v][m]
        BY <1>3, <2>1, <2>3, <2>5
      <3>2. CASE Send(w, d)
        BY <1>1, <2>2, <2>5, <3>1, <3>2, AppendedCurrent
      <3>3. CASE UNCHANGED wire
        BY <1>1, <3>1, <3>3 DEF Current, InFlightOrdered, Ordered, Taken, Has, Comes, Carries, Rollup
      <3> QED
        BY <2>1, <3>2, <3>3
    <2> QED
      BY <2>4, <2>5
  <1>6. ASSUME NEW w \in Vehicles, NEW k \in Metrics, NEW s \in Times, ServerRollsUp(w, k, s)
        PROVE  Current(v, m)'
    <2> DEFINE d == [j \in {k} |-> s]
    <2>1. /\ server' = server /\ owed' = owed /\ Send(w, d)
          /\ server[w][k] # NoTime /\ s + Skew < server[w][k]
      BY <1>6 DEF ServerRollsUp
    <2>2. d \in Blocks /\ DOMAIN d = {k} /\ d[k] = s
      <3>1. d \in Blocks
        BY OneBlock DEF Stamps
      <3> QED
        BY <3>1
    <2>3. s # NoTime
      BY NoTimeAssumption, MaxTimeAssumption DEF Times
    <2> HIDE DEF d
    <2> QED
      BY <1>1, <1>3, <2>1, <2>2, <2>3, AppendedCurrent DEF Rollup
  <1> QED
    BY <1>4, <1>5, <1>6 DEF ServerStep

LEMMA ConnectionCurrentStep ==
    ASSUME TypeInv, CancelInv, SubscriptionInv, HighWaterReachable, SyncTypeOK, NothingAhead,
           ConnectionCurrent, [SyncNext]_svars
    PROVE  ConnectionCurrent'
  <1>1. CASE Persists \/ UNCHANGED svars
    BY <1>1 DEF Persists, svars, vars, taskVars, attemptVars, sharedVars, serverVars, copyVars,
                ConnectionCurrent, Reading, Current, InFlightOrdered, Ordered, Taken, Has, Comes,
                Carries, Rollup
  <1>2. CASE ProcessRestarts
    BY <1>2 DEF ProcessRestarts, ConnectionCurrent, Reading
  <1> QED
    BY <1>1, <1>2, StreamCurrent, ServerCurrent DEF SyncNext

-----------------------------------------------------------------------------
(* The invariant of the composition: the stream's own invariants hold in it *)
(* too, as what surrounds the stream leaves it alone or starts it anew.     *)

StreamInv == TypeInv /\ StopInv /\ CancelInv /\ SubscriptionInv /\ HighWaterReachable

LEMMA InitStreamInv == Init => StreamInv
  BY InitTypeInv, InitStopInv, InitCancelInv, InitSubscriptionInv, InitHighWater DEF StreamInv

LEMMA NextStreamInv == StreamInv /\ [Next]_vars => StreamInv'
  BY NextTypeInv, NextStopInv, NextCancelInv, NextSubscriptionInv, HighWaterStep DEF StreamInv

LEMMA SyncStreamInv == SyncSpec => [](StreamInv /\ SyncInv)
  <1>1. SyncInit => StreamInv /\ SyncInv
    <2> SUFFICES ASSUME SyncInit PROVE StreamInv /\ SyncInv
      OBVIOUS
    <2>1. StreamInv
      BY InitStreamInv DEF SyncInit
    <2>2. /\ pc = "none" /\ wire = <<>> /\ owed = {}
          /\ now \in Times /\ server \in [Vehicles -> Blocks]
          /\ \A v \in Vehicles : \A m \in DOMAIN server[v] :
                server[v][m] = NoTime \/ server[v][m] <= now + Skew
          /\ view = [v \in Vehicles |-> Nothing] /\ saved = view
          /\ gap = [v \in Vehicles |-> NoGap]
          /\ lastTimes = [v \in Vehicles |-> OpenGate]
      BY DEF SyncInit, Init
    <2>3. SyncTypeOK
      BY <2>1, <2>2, NothingFacts, SyncAssumption DEF SyncTypeOK, StreamInv, TypeInv, NoGap
    <2>4. NothingAhead
      <3>1. \A v \in Vehicles : \A m \in DOMAIN server[v] : server[v][m] \in Stamps
        BY <2>2, BlocksElim
      <3>2. \A v \in Vehicles : \A m \in DOMAIN server[v] : NotAhead(v, m, server[v][m])
        BY <2>2, <3>1 DEF NotAhead, Stamps, Times
      <3>3. CopyNotAhead(view) /\ CopyNotAhead(saved)
        BY <2>2, NothingFacts DEF CopyNotAhead
      <3>4. \A v \in Vehicles, m \in Metrics : NotAhead(v, m, lastTimes[v][m])
        BY <2>2 DEF NotAhead, OpenGate
      <3> QED
        BY <2>2, <3>2, <3>3, <3>4 DEF NothingAhead
    <2>5. GateMirrorsCopy /\ ConnectionCurrent
      BY <2>2, NothingFacts DEF GateMirrorsCopy, ConnectionCurrent, Reading
    <2> QED
      BY <2>1, <2>3, <2>4, <2>5 DEF SyncInv
  <1>2. StreamInv /\ SyncInv /\ [SyncNext]_svars => StreamInv'
    <2> SUFFICES ASSUME StreamInv, SyncInv, [SyncNext]_svars PROVE StreamInv'
      OBVIOUS
    <2>1. CASE StreamStep
      BY <2>1, NextStreamInv DEF StreamStep
    <2>2. CASE ServerStep \/ Persists \/ UNCHANGED svars
      <3>1. UNCHANGED vars
        BY <2>2 DEF ServerStep, ServerSendsState, ServerChanges, ServerRollsUp, Persists, svars
      <3> QED
        BY <3>1, NextStreamInv
    <2>3. CASE ProcessRestarts
      <3>1. Init'
        BY <2>3, RestartInitialises DEF SyncInv
      <3>2. Init' => StreamInv'
        BY InitStreamInv, PTL
      <3> QED
        BY <3>1, <3>2
    <2> QED
      BY <2>1, <2>2, <2>3 DEF SyncNext
  <1>3. StreamInv /\ StreamInv' /\ SyncInv /\ [SyncNext]_svars => SyncInv'
    BY SyncTypeStep, NothingAheadStep, GateMirrorsStep, ConnectionCurrentStep DEF StreamInv, SyncInv
  <1> QED
    BY <1>1, <1>2, <1>3, PTL DEF SyncSpec

\* The types of the composition; nothing is in flight, or owed, without a
\* connection that is being read.
THEOREM SyncTypeCorrect == SyncSpec => []SyncTypeOK
  <1>1. SyncInv => SyncTypeOK
    BY DEF SyncInv
  <1> QED
    BY <1>1, SyncStreamInv, PTL

\* A current connection brings the consumer the newest block of every metric:
\* it has it, or it comes, or this connection lost it in a callback.
THEOREM CopySynchronised == SyncSpec => []Synchronised
  <1>1. SyncInv => Synchronised
    <2> SUFFICES ASSUME SyncInv, Reading, ~idsChanged, NEW v \in requested,
                        NEW m \in DOMAIN server[v]
                 PROVE  Has(v, m) \/ OnItsWay(v, m) \/ gap[v][m] = "here"
      BY DEF Synchronised
    <2>1. v \in owed \/ Current(v, m)
      BY DEF SyncInv, ConnectionCurrent
    <2> QED
      BY <2>1 DEF Current, Taken, Comes, OnItsWay
  <1> QED
    BY <1>1, SyncStreamInv, PTL

\* Within a process, no block of the copy is replaced by an older one.
THEOREM CopyAdvances == SyncSpec => CopyNeverOlder
  <1> DEFINE Advances == \A v \in Vehicles : \A m \in DOMAIN view[v] \cap DOMAIN view'[v] :
                \/ NoTime \in {view[v][m].time, view'[v][m].time}
                \/ view'[v][m].time >= view[v][m].time
                \/ gap[v][m] # "no"
  <1>1. ASSUME StreamInv, SyncInv, StreamStep PROVE Advances
    <2> SUFFICES ASSUME NEW v \in Vehicles, NEW m \in DOMAIN view[v] \cap DOMAIN view'[v],
                        view[v][m].time # NoTime, view'[v][m].time # NoTime, gap[v][m] = "no"
                 PROVE  view'[v][m].time >= view[v][m].time
      OBVIOUS
    <2>1. m \in Metrics /\ view[v][m].time \in Stamps /\ view[v][m].time = lastTimes[v][m]
      BY <1>1, ViewsElim DEF SyncInv, SyncTypeOK, GateMirrorsCopy, Known
    <2>2. CASE view'[v][m] = view[v][m]
      BY <2>1, <2>2, MaxTimeAssumption DEF Stamps, Times
    <2>3. CASE /\ Passes(v, m)
               /\ view'[v][m] = [stamp |-> frame.blocks[m], time |-> ClampTime(frame.blocks[m], now)]
      BY <2>1, <2>3 DEF Passes, Adopts
    <2> QED
      BY <1>1, <2>1, <2>2, <2>3, MetricStep, NothingFacts
         DEF Kept, GivenUp, Received, StreamInv, SyncInv
  <1>2. StreamInv /\ SyncInv /\ [SyncNext]_svars => [StreamStep => Advances]_svars
    BY <1>1
  <1> QED
    BY <1>2, SyncStreamInv, PTL DEF SyncSpec, CopyNeverOlder
=============================================================================
