\* Two scripts, one ingestor, one reload.
SPECIFICATION Spec
CONSTANTS
    s1 = s1
    s2 = s2
    i1 = i1
    i2 = i2
    Telemetry = Telemetry
    Scripts <- TwoScripts
    Ingestors <- OneIngestor
    MaxStarts = 2
SYMMETRY SectionSymmetry
INVARIANTS
    TypeOK
    NoDanglingUse
    NothingLeft
