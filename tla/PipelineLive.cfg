\* One script, one ingestor, one reload, fair.
SPECIFICATION LiveSpec
CONSTANTS
    s1 = s1
    s2 = s2
    i1 = i1
    i2 = i2
    Telemetry = Telemetry
    Scripts <- OneScript
    Ingestors <- OneIngestor
    MaxStarts = 2
PROPERTIES
    StopReturns
    SignalEnds
