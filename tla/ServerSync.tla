----------------------------- MODULE ServerSync -----------------------------
(***************************************************************************)
(* TelemetryStream between the server it reads from and the consumer that  *)
(* accumulates what it delivers: the server's current telemetry, the       *)
(* frames in flight on the live connection, the copy the consumer builds   *)
(* with Telemetry.merge (src/src/aioabrp/models.py), what of it has been   *)
(* written to disk, and a process that may be killed at any moment and     *)
(* constructs a stream anew, seeded from the disk.                         *)
(*                                                                         *)
(* The server is modelled from what the library expects of it: a           *)
(* connection begins with the full state of every vehicle asked for, with  *)
(* unchanged times, goes on with the changes, and carries now and then a   *)
(* backdated rollup; one connection keeps its order.  A block's content is *)
(* named by the time the server stamped it with.                           *)
(***************************************************************************)
EXTENDS TelemetryStream, Sequences

CONSTANTS
    Skew,           \* how far the server's clock is ahead of the consumer's
    MaxInFlight     \* bound on the frames in flight

ASSUME SyncAssumption == Skew \in Nat /\ MaxInFlight \in Nat \ {0}

VARIABLES
    server,         \* per vehicle, the stamps of its current blocks
    owed,           \* vehicles whose full state the connection still awaits
    wire,           \* frames in flight
    view,           \* the consumer's copy: per block its stamp, and its time
    saved,          \* the copy as it was last written to disk
    gap             \* blocks lost in a callback that raised: since then "here"
                    \* (the same connection) or "before" it, else "no"

serverVars == <<server, owed, wire>>
copyVars == <<view, saved, gap>>
svars == <<vars, serverVars, copyVars>>

Reading == pc \in {"read", "frame", "next"}
Known == [stamp : Stamps, time : Stamps]
Views == UNION {[M -> Known] : M \in SUBSET Metrics}
Nothing == [m \in {} |-> NoTime]
NoGap == [m \in Metrics |-> "no"]

-----------------------------------------------------------------------------
(* The consumer's copy.                                                    *)

\* Telemetry.merge: the present fields of delta over those of known.
Merge(known, delta) ==
    [m \in DOMAIN known \cup DOMAIN delta |->
        IF m \in DOMAIN delta THEN delta[m] ELSE known[m]]

\* async_get_current_telemetry: the server's state, clamped, not gated.
Snapshot(v) ==
    [m \in DOMAIN server[v] |->
        [stamp |-> server[v][m], time |-> ClampFutureTimes(server[v], now)[m]]]

\* The seed a consumer derives from the telemetry it has.
TimesOf(known) ==
    [v \in Vehicles |->
        [m \in Metrics |-> IF m \in DOMAIN known[v] THEN known[v][m].time ELSE NoTime]]

Opens == pc = "token" /\ pc' = "read"

Delivered ==
    [m \in DOMAIN callback'.telemetry |->
        [stamp |-> frame.blocks[m], time |-> callback'.telemetry[m]]]

\* on_update merges what it is given, or raises before it has.
UpdateTaken ==
    LET v == callback'.vehicle
        Noted(mark) == [gap EXCEPT ![v] =
            [m \in Metrics |-> IF m \in DOMAIN Delivered THEN mark ELSE @[m]]]
    IN \/ view' = [view EXCEPT ![v] = Merge(@, Delivered)] /\ gap' = Noted("no")
       \/ UNCHANGED view /\ gap' = Noted("here")

\* The copy of a vehicle is given up with its subscription.
CopyKept ==
    LET removed == vehicleIds \ vehicleIds' IN
    /\ view' = [v \in Vehicles |-> IF v \in removed THEN Nothing ELSE view[v]]
    /\ gap' = [v \in Vehicles |->
            IF v \in removed THEN NoGap
            ELSE [m \in Metrics |->
                    IF Opens /\ gap[v][m] = "here" THEN "before" ELSE gap[v][m]]]

\* The consumer writes its copy to disk.
Persists ==
    /\ saved # view
    /\ saved' = view
    /\ UNCHANGED <<vars, serverVars, view, gap>>
-----------------------------------------------------------------------------
(* The server and its connection.                                          *)

\* What is in flight is lost with the connection.
WireLeft == IF ~Reading' THEN <<>> ELSE IF FrameRead THEN Tail(wire) ELSE wire

\* What a step of the stream does to what surrounds it.
Alongside ==
    /\ FrameRead => wire # <<>> /\ frame' = Head(wire)
    /\ wire' = WireLeft
    /\ owed' = IF Opens THEN requested' ELSE IF Reading' THEN owed ELSE {}
    /\ IF Delivery THEN UpdateTaken ELSE CopyKept
    /\ UNCHANGED <<server, saved>>

StreamStep == Next /\ Alongside

Send(v, blocks) ==
    /\ Len(wire) < MaxInFlight
    /\ wire' = Append(wire, [vehicle |-> v, blocks |-> blocks])

\* A measurement, stamped by the server's clock or not at all; the connection
\* carries it unless the full state, still to come, will.
ServerChanges(v, m, t) ==
    /\ t \in Stamps /\ (m \in DOMAIN server[v] => server[v][m] # t)
    /\ server' = [server EXCEPT ![v] = Merge(@, [k \in {m} |-> t])]
    /\ IF Reading /\ v \in requested \ owed
       THEN Send(v, [k \in {m} |-> t])
       ELSE UNCHANGED wire
    /\ UNCHANGED <<vars, owed, copyVars>>

ServerSendsState(v) ==
    /\ Reading /\ v \in owed
    /\ Send(v, server[v])
    /\ owed' = owed \ {v}
    /\ UNCHANGED <<vars, server, copyVars>>

\* A rollup is older than the current block by more than the clocks differ.
ServerRollsUp(v, m, t) ==
    /\ Reading /\ v \in requested
    /\ m \in DOMAIN server[v] /\ server[v][m] # NoTime /\ t + Skew < server[v][m]
    /\ Send(v, [k \in {m} |-> t])
    /\ UNCHANGED <<vars, server, owed, copyVars>>

ServerStep ==
    \E v \in Vehicles :
        \/ ServerSendsState(v)
        \/ \E m \in Metrics :
            \/ \E t \in {now + Skew, NoTime} : ServerChanges(v, m, t)
            \/ \E t \in Times : ServerRollsUp(v, m, t)
-----------------------------------------------------------------------------
\* The copy on the disk, brought up to date with one-shot snapshots.
Recovered(polled) ==
    [v \in Vehicles |-> IF v \in polled THEN Merge(saved[v], Snapshot(v)) ELSE saved[v]]

\* The process is killed; the next one recovers its copy, and constructs a
\* stream seeded with the times of what it then has.
ProcessRestarts ==
    \E ids \in SUBSET Vehicles, polled \in SUBSET Vehicles :
           /\ lastTimes' = WarmGate(TimesOf(Recovered(polled)), now)
           /\ view' = [v \in Vehicles |-> IF v \in ids THEN Recovered(polled)[v] ELSE Nothing]
           /\ vehicleIds' = ids
           /\ pc' = "none" /\ cancels' = 0 /\ cancelPending' = FALSE
           /\ result' = "none" /\ tripwire' = FALSE
           /\ delayIdx' = 0 /\ requested' = {} /\ sawFrame' = FALSE
           /\ outcome' = "none" /\ frame' = NoFrame /\ watch' = "none"
           /\ idsChanged' = FALSE
           /\ stopped' = FALSE /\ lastCall' = "none"
           /\ callers' = [c \in Callers |-> [at |-> "out", cancel |-> "no", exit |-> "none"]]
           /\ callback' = NoCallback /\ heard' = "none"
           /\ wire' = <<>> /\ owed' = {}
           /\ gap' = [v \in Vehicles |-> NoGap]
           /\ UNCHANGED <<server, saved, now>>

SyncInit ==
    /\ Init /\ lastTimes = [v \in Vehicles |-> OpenGate]
    /\ server \in [Vehicles -> {b \in Blocks :
            \A m \in DOMAIN b : b[m] = NoTime \/ b[m] <= now + Skew}]
    /\ owed = {} /\ wire = <<>>
    /\ view = [v \in Vehicles |-> Nothing] /\ saved = view
    /\ gap = [v \in Vehicles |-> NoGap]

SyncNext == StreamStep \/ ServerStep \/ Persists \/ ProcessRestarts

SyncSpec == SyncInit /\ [][SyncNext]_svars

FairSyncSpec == SyncSpec /\ LoopFairness /\ CloseFairness
-----------------------------------------------------------------------------
(* Properties.                                                             *)

\* Types; frames are in flight, and state is owed, only while one is reading.
SyncTypeOK ==
    /\ TypeOK
    /\ server \in [Vehicles -> Blocks]
    /\ owed \subseteq requested
    /\ wire \in Seq(Frames) /\ Len(wire) <= MaxInFlight
    /\ ~Reading => owed = {} /\ wire = <<>>
    /\ view \in [Vehicles -> Views] /\ saved \in [Vehicles -> Views]
    /\ gap \in [Vehicles -> [Metrics -> {"no", "here", "before"}]]

\* Where the newest block of a metric is: with the consumer, or on its way.
Has(v, m) == m \in DOMAIN view[v] /\ view[v][m].stamp = server[v][m]

Carries(f, v, m) == f.vehicle = v /\ m \in DOMAIN f.blocks /\ f.blocks[m] = server[v][m]

OnItsWay(v, m) ==
    \/ v \in owed
    \/ pc = "frame" /\ Carries(frame, v, m)
    \/ \E i \in DOMAIN wire : Carries(wire[i], v, m)

\* On a connection the stream believes current, the newest block of every
\* metric of every vehicle is in the consumer's copy or on its way there,
\* unless this very connection delivered it into a callback that raised: the
\* full state at its beginning makes up for whatever earlier connections, other
\* vehicle sets, callbacks and processes have lost, and no rollup displaces it.
\* (The equal-time rule of _gate_metrics, the seed, set_vehicle_ids, merge.)
Synchronised ==
    Reading /\ ~idsChanged =>
        \A v \in requested : \A m \in DOMAIN server[v] :
            Has(v, m) \/ OnItsWay(v, m) \/ gap[v][m] = "here"

\* Within a process the consumer's copy never goes back in time, rollups that
\* come before the full state included: after a restart the seed stands in for
\* the gate that was lost.  Only a block lost in a callback may leave the gate
\* behind the copy.  (The seed of the constructor, _gate_metrics.)
CopyNeverOlder ==
    [][StreamStep =>
        \A v \in Vehicles : \A m \in DOMAIN view[v] \cap DOMAIN view'[v] :
            \/ NoTime \in {view[v][m].time, view'[v][m].time}
            \/ view'[v][m].time >= view[v][m].time
            \/ gap[v][m] # "no"]_svars

InSync ==
    \A v \in vehicleIds : \A m \in DOMAIN server[v] : Has(v, m)

\* A step that disturbs nothing: no change on either side, no failure of the
\* getter, the network or a callback, no restart; a connection may be closed by
\* the server once everything sent has arrived (its idle close).
Calm ==
    /\ UNCHANGED <<server, vehicleIds, stopped, callers>>
    /\ Len(wire') > Len(wire) => owed' # owed
    /\ \A v \in Vehicles, m \in Metrics : gap'[v][m] = "here" => gap[v][m] = "here"
    /\ pc = "token" => pc' \in {"token", "read"}
    /\ pc = "read" => \/ pc' \in {"read", "frame"}
                      \/ pc' = "ended" /\ outcome' = "stream_closed"
                         /\ wire = <<>> /\ owed = {}
    /\ pc = "frame" => pc' # "close"
    /\ pc' = "none" => pc = "none"

\* The world does its part: tokens come, the server talks, and closes what is
\* idle.
Cooperation ==
    /\ WF_svars(ConnectOnce /\ Alongside)
    /\ WF_svars(\E v \in Vehicles : ServerSendsState(v))
    /\ WF_svars(wire # <<>> /\ FrameArrives(Head(wire)) /\ Alongside)
    /\ WF_svars(wire = <<>> /\ owed = {} /\ StreamEnds("stream_closed") /\ Alongside)

\* Once the world is calm and does its part, a running stream brings the copy
\* up to date and keeps it so, whatever was lost before.  (The reconnect loop
\* and the backfill of equal times together.)
Converges ==
    Cooperation /\ <>[][Calm]_svars => <>[](pc \in Live => InSync)
=============================================================================
