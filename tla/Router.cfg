\* The example configuration, one with a chain of scripts, and every short file.
SPECIFICATION LiveSpec
CONSTANTS
    Files <- AllFiles
    Native = "dummy_ticks"
    MaxEvents <- TwoAndOne
    MaxReports = 1
    STREAM_ID_MAX = 2
    SCHEMA_ID_MAX = 1
    PAYLOAD_MAX = 2
    IO_BUF_SIZE = 10
INVARIANTS
    TypeOK
    ParsedAsWritten
    
    
    FieldsKept

    
CHECK_DEADLOCK FALSE
