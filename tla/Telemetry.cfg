\* Two threads recording two streams, two scripts, one entry per
\* chunk, fair; two chunks are as many as a byte counts.
SPECIFICATION LiveSpec
CONSTANTS
    r1 = r1
    r2 = r2
    ticks = ticks
    quotes = quotes
    x1 = x1
    x2 = x2
    Recorders <- TwoRecorders
    Streams <- TwoStreams
    Scripts <- TwoScripts
    Durations <- ShortAndLong
    UINT64_MAX = 5
    PerChunk = 1
    ByteMod = 3
    TsMod = 2
    Mixes <- SomeMixes
INVARIANTS
    TypeOK
    NothingUncounted
    DashboardAddsUp
    LatenciesConsistent
    NothingUninvoked
PROPERTIES
    EventuallyShown
CHECK_DEADLOCK FALSE
