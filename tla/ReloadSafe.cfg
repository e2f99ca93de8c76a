\* Two plugins, changes at any time, inexact modification times.
SPECIFICATION Spec
CONSTANTS
    so1 = so1
    so2 = so2
    Config = Config
    Plugins <- TwoPlugins
    MaxClock = 2
    MaxEdits = 2
    EditGap = 0
    Jitter = 1
    Quiet = FALSE
SYMMETRY PluginSymmetry
INVARIANTS
    TypeOK
    DetectedIsLoaded
