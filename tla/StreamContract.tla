--------------------------- MODULE StreamContract ---------------------------
(***************************************************************************)
(* What TelemetryStream promises its consumer, with no task, connection,   *)
(* token or timer in it: in which order callbacks may come and what they   *)
(* may carry.  Between start() and the end of the stream it is down or up; *)
(* CONNECTED takes it up, DISCONNECTED down, telemetry comes only while it *)
(* is up, for subscribed vehicles, and no metric ever goes back in time.   *)
(* Off, it is silent.  It goes off when stop() is called, or with an event *)
(* that says so, never by itself.                                          *)
(***************************************************************************)
EXTENDS MonotonicityGate

VARIABLES
    phase,          \* "off", "down" or "up"
    asked,          \* the last call among start() and stop()
    running,        \* the callback being run
    subscribed,     \* the vehicles subscribed to
    seen            \* time of the last block seen per vehicle and metric

vars == <<phase, asked, running, subscribed, seen>>

Silent == [kind |-> "none"]
Event(s, r) == [kind |-> "event", state |-> s, reason |-> r]
Update(v, t) == [kind |-> "update", vehicle |-> v, telemetry |-> t]

DropReasons == {"stream_closed", "vehicles_changed", "watchdog_stall", "error"}

Init ==
    /\ phase = "off" /\ asked = "none"
    /\ running = Silent
    /\ subscribed \in SUBSET Vehicles
    /\ seen \in [Vehicles -> Gates]

\* start() takes effect, or is ignored: on a running stream, but also on one
\* that is off because a stop() is still under way.
Start ==
    /\ running = Silent
    /\ asked' = "start"
    /\ phase' \in {phase, "down"}
    /\ UNCHANGED <<running, subscribed, seen>>

\* stop() silences the stream at once, before it is over.
Stop ==
    /\ running = Silent
    /\ asked' = "stop"
    /\ phase' = "off"
    /\ UNCHANGED <<running, subscribed, seen>>

\* It subscribes to other vehicles, even from inside a callback; what it has
\* seen of a vehicle it drops is forgotten.
Subscribe(ids) ==
    /\ subscribed' = ids
    /\ seen' = WithoutGates(seen, subscribed \ ids)
    /\ UNCHANGED <<phase, asked, running>>

Return ==
    /\ running # Silent
    /\ running' = Silent
    /\ UNCHANGED <<phase, asked, subscribed, seen>>

\* The first frame of a connection.
Connected ==
    /\ running = Silent /\ phase = "down"
    /\ phase' = "up"
    /\ running' = Event("CONNECTED", "none")
    /\ UNCHANGED <<asked, subscribed, seen>>

\* The end of a connection, or of an attempt to make one.
Disconnected(reason) ==
    /\ running = Silent /\ phase \in {"down", "up"}
    /\ phase' = "down"
    /\ running' = Event("DISCONNECTED", reason)
    /\ UNCHANGED <<asked, subscribed, seen>>

\* Credentials are refused: only between connections, and the end of the stream.
AuthFailed ==
    /\ running = Silent /\ phase = "down"
    /\ phase' = "off"
    /\ running' = Event("AUTH_FAILED", "auth")
    /\ UNCHANGED <<asked, subscribed, seen>>

\* A defect ends the stream; the report may cross with a start() that follows.
InternalError ==
    /\ running = Silent /\ phase \in {"down", "up"}
    /\ phase' \in {"off", "down"}
    /\ running' = Event("DISCONNECTED", "internal_error")
    /\ UNCHANGED <<asked, subscribed, seen>>

\* Telemetry of a subscribed vehicle: at least one block, none older than the
\* one seen last.
Telemetry(v, blocks) ==
    /\ running = Silent /\ phase = "up" /\ v \in subscribed
    /\ DOMAIN blocks # {} /\ Adopted(seen[v], blocks) = blocks
    /\ running' = Update(v, blocks)
    /\ seen' = [seen EXCEPT ![v] = GateAfter(@, blocks)]
    /\ UNCHANGED <<phase, asked, subscribed>>

Next ==
    \/ Start \/ Stop \/ Return
    \/ \E ids \in SUBSET Vehicles : Subscribe(ids)
    \/ Connected \/ AuthFailed \/ InternalError
    \/ \E reason \in DropReasons : Disconnected(reason)
    \/ \E v \in Vehicles, blocks \in Blocks : Telemetry(v, blocks)

Spec == Init /\ [][Next]_vars
=============================================================================
