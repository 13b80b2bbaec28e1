-------------------------- MODULE StreamRefinement --------------------------
(***************************************************************************)
(* TelemetryStream implements StreamContract.  The phase the consumer can  *)
(* count on follows from _stopped, the life of the task and the last event *)
(* dispatched; a failed task whose tripwire is still to run has not ended  *)
(* yet as far as the consumer can tell.                                    *)
(***************************************************************************)
EXTENDS StreamHistory

Over ==
    \/ stopped \/ pc = "none" \/ heard = "AUTH_FAILED"
    \/ pc = "done" /\ ~tripwire

Phase ==
    IF Over THEN "off" ELSE IF heard = "CONNECTED" THEN "up" ELSE "down"

Contract == INSTANCE StreamContract WITH
    phase <- Phase, asked <- lastCall, running <- callback, subscribed <- vehicleIds, seen <- shown

\* Every behaviour of the stream is one the contract allows: the order and the
\* content of the callbacks, across cancellations, reconnects and restarts.
ImplementsContract == Contract!Spec
=============================================================================
