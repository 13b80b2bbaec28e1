------------------------- MODULE MCTelemetryStream -------------------------
(***************************************************************************)
(* Instances of TelemetryStream for TLC.  The configurations give small    *)
(* sets of model values to the constants; vehicles, metrics and callers    *)
(* are interchangeable, which the safety runs use.                         *)
(***************************************************************************)
EXTENDS TelemetryStream, TLC

Symmetry == Permutations(Vehicles) \cup Permutations(Callers) \cup Permutations(Metrics)
=============================================================================
