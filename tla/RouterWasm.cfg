\* One event through one WASM script.
SPECIFICATION Spec
CONSTANTS
    Files <- OneWasm
    Native = "dummy_ticks"
    MaxEvents <- TwoAndOne
    MaxReports = 0
    STREAM_ID_MAX = 2
    SCHEMA_ID_MAX = 1
    PAYLOAD_MAX = 2
    IO_BUF_SIZE = 10
INVARIANTS
    PayloadKept
CHECK_DEADLOCK FALSE
