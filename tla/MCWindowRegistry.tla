-------------------------- MODULE MCWindowRegistry --------------------------
(* WindowRegistry for TLC. *)
EXTENDS WindowRegistry

CONSTANTS ticks, quotes, wasm, py

TwoStreams == {ticks, quotes}
TwoScripts == {wasm, py}
Modes == [x \in TwoScripts |-> IF x = wasm THEN "zero_copy" ELSE "snapshot"]
Triggers == [x \in TwoScripts |-> ticks]

\* The WASM script has the last tick, so that its position advances; the Python
\* script the ticks of the trigger's instant and the last quote.
BothWindows ==
    [x \in TwoScripts |->
        IF x = wasm THEN [s \in {ticks} |-> [type |-> "count", n |-> 1]]
        ELSE [s \in TwoStreams |-> IF s = ticks THEN [type |-> "time", n |-> 0]
                                   ELSE [type |-> "count", n |-> 1]]]

Invocations == [x \in TwoScripts |-> IF x = wasm THEN 2 ELSE 1]
=============================================================================
