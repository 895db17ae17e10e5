-------------------------- MODULE MCTelemetryOutbox --------------------------
(* Small instances of TelemetryOutbox. *)
EXTENDS TelemetryOutbox, TLC

CONSTANTS i1, i2, w1, w2

TwoInvocations == {i1, i2}
TwoWorkers == {w1, w2}

\* The second worker's clock runs ahead of the first one's.
SkewedClocks == w1 :> 0 @@ w2 :> 1
=============================================================================
