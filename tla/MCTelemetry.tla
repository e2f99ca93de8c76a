----------------------------- MODULE MCTelemetry -----------------------------
(* Telemetry for TLC. *)
EXTENDS Telemetry

CONSTANTS r1, r2, ticks, quotes, x1, x2

TwoRecorders == {r1, r2}
TwoStreams == {ticks, quotes}
TwoScripts == {x1, x2}
\* Records of streams, or invocations of scripts.
SomeMixes == {<<2, 0>>, <<0, 3>>}
ShortAndLong == {1, 4}
=============================================================================
