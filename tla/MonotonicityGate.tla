-------------------------- MODULE MonotonicityGate --------------------------
(***************************************************************************)
(* The pure part of the telemetry pipeline: clamping of wire times to the  *)
(* clock (src/src/aioabrp/_clock.py) and the per-(vehicle, metric)         *)
(* monotonicity gate (_gate_metrics in src/src/aioabrp/stream.py).         *)
(*                                                                         *)
(* The dict _last_times is curried: lastTimes[v][m] is the stored time of  *)
(* (v, m), NoTime when the dict has no entry.  The blocks of a frame are a *)
(* function from the metrics the frame carries to their wire times, NoTime *)
(* for a block without one.  Values are abstracted away: no decision of    *)
(* the gate looks at them.                                                 *)
(***************************************************************************)
EXTENDS Naturals

CONSTANTS
    Vehicles,   \* vehicle ids the account may own
    Metrics,    \* the metrics a frame may carry
    MaxTime,    \* bound on wall-clock and wire times
    NoTime      \* no wire time, or no stored entry

ASSUME MaxTimeAssumption == MaxTime \in Nat
ASSUME NoTimeAssumption == NoTime \notin Nat

Times == 0..MaxTime
Stamps == Times \cup {NoTime}

\* What extraction yields for a frame: some metrics, each with its stamp.
Blocks == UNION {[M -> Stamps] : M \in SUBSET Metrics}
Gates == [Metrics -> Stamps]

-----------------------------------------------------------------------------
\* Slips of the clamp and of the gate, for the runs that show they are seen.
ClampTimeNever(t, n) == t
AdoptsNewerOnly(stored, t) == t = NoTime \/ stored = NoTime \/ t > stored
AdoptsAll(stored, t) == TRUE
GateKeepsOnTimeless(stored, t) == IF t = NoTime THEN stored ELSE t
WarmGateCold(seed, n) == [v \in Vehicles |-> [m \in Metrics |-> NoTime]]

-----------------------------------------------------------------------------
\* min(t, n); a missing time passes through.
ClampTime(t, n) == IF t = NoTime \/ t <= n THEN t ELSE n

ClampFutureTimes(blocks, n) ==
    [m \in DOMAIN blocks |-> ClampTime(blocks[m], n)]

\* The gate's rule for one metric: only a block strictly older than the
\* stored time is dropped.
Adopts(stored, t) == t = NoTime \/ stored = NoTime \/ t >= stored

\* What the gate stores for an adopted block: its time, nothing for a block
\* without one.
StoredAfter(stored, t) == t

Adopted(gate, blocks) ==
    [m \in {k \in DOMAIN blocks : Adopts(gate[k], blocks[k])} |-> blocks[m]]

GateAfter(gate, blocks) ==
    [m \in DOMAIN gate |->
        IF m \in DOMAIN Adopted(gate, blocks)
        THEN StoredAfter(gate[m], blocks[m]) ELSE gate[m]]

\* A gate with no entry for any metric.
OpenGate == [m \in Metrics |-> NoTime]

\* set_vehicle_ids drops the entries of the vehicles it removes.
WithoutGates(lastTimes, removed) ==
    [v \in DOMAIN lastTimes |-> IF v \in removed THEN OpenGate ELSE lastTimes[v]]

\* The constructor clamps every time of a consumer's seed to the clock.
WarmGate(seed, n) == [v \in Vehicles |-> ClampFutureTimes(seed[v], n)]
=============================================================================
