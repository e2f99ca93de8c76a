\* Changes two seconds apart, none while the monitor records its baseline.
SPECIFICATION LiveSpec
CONSTANTS
    so1 = so1
    so2 = so2
    Config = Config
    Plugins <- OnePlugin
    MaxClock = 5
    MaxEdits = 2
    EditGap = 2
    Jitter = 1
    Quiet = TRUE
PROPERTIES
    EveryChangeLoaded
    SignalEnds
