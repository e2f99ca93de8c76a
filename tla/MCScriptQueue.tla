--------------------------- MODULE MCScriptQueue ---------------------------
(* ScriptQueue for TLC. *)
EXTENDS ScriptQueue

CONSTANTS p1, p2

\* An ingestor alone, or an ingestor and another thread (a script worker that
\* emits into the same stream, or the telemetry thread).
OneProducer == {p1}
TwoProducers == {p1, p2}
=============================================================================
