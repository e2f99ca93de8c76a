\* A zero-copy and a snapshot script over two streams, rings of two slots.
SPECIFICATION Spec
CONSTANTS
    ticks = ticks
    quotes = quotes
    wasm = wasm
    py = py
    Streams <- TwoStreams
    Scripts <- TwoScripts
    Mode <- Modes
    TriggerOf <- Triggers
    Windows <- BothWindows
    Ensured <- TwoStreams
    Capacity = 2
    Wrap = 8
    MaxTs = 1
    MaxEvents = 4
    MaxInvocations <- Invocations
INVARIANTS
    TypeOK
    InputIntact
    LapCounted
    WindowExact
CHECK_DEADLOCK FALSE
