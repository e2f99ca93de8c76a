----------------------------- MODULE ScriptCodec -----------------------------
(***************************************************************************)
(* How an event gets into a script and back: the memory layout between     *)
(* WasmScript (executor/wasm/wasm_script.hpp) and its guest, the           *)
(* dictionaries of PythonScript (executor/python/python_script.hpp), and   *)
(* the two guests of examples/scripts.                                     *)
(*                                                                         *)
(* Memory is a sequence of cells.  A number of any width is one cell, so   *)
(* is a byte of payload; a stream or schema name is one cell followed by   *)
(* the padding of its field.  The input has no windows: nothing in the     *)
(* server calls ensure_stream(), so no stream has a ring, and a stream     *)
(* without one is left out (window_registry.hpp:134).                      *)
(***************************************************************************)
EXTENDS Naturals, Sequences

CONSTANTS
    STREAM_ID_MAX,  \* cells of a stream name
    SCHEMA_ID_MAX,  \* cells of a schema name
    PAYLOAD_MAX,    \* cells of a payload
    IO_BUF_SIZE     \* cells of the input and of the output zone

ASSUME CodecAssumption ==
    /\ STREAM_ID_MAX \in Nat \ {0}
    /\ SCHEMA_ID_MAX \in 1..STREAM_ID_MAX
    /\ PAYLOAD_MAX \in Nat \ {0}
    /\ IO_BUF_SIZE \in Nat \ {0}
    /\ 4 + STREAM_ID_MAX + SCHEMA_ID_MAX + PAYLOAD_MAX + 2 <= 2 * IO_BUF_SIZE

Cell(n) == [i \in 1..n |-> 0]
Named(name, n) == <<name>> \o Cell(n - 1)

\* wev_ptr(): the fields in order, the payload right behind the schema.
wev(e) ==
    <<e.timestamp_ns, e.sequence, e.lineage_depth, Len(e.payload)>>
        \o Named(e.stream_id, STREAM_ID_MAX) \o Named(e.schema_id, SCHEMA_ID_MAX) \o e.payload

HeaderSize == 4 + STREAM_ID_MAX + SCHEMA_ID_MAX

\* rev(): the event that begins at cell p.  The pointer moves over the schema
\* by STREAM_ID_MAX (line 85), so the payload is taken from behind its place.
rev(mem, p) ==
    [timestamp_ns  |-> mem[p],
     sequence      |-> mem[p + 1],
     lineage_depth |-> mem[p + 2],
     stream_id     |-> mem[p + 4],
     schema_id     |-> mem[p + 4 + STREAM_ID_MAX],
     payload       |-> LET at == p + 4 + 2 * STREAM_ID_MAX
                       IN SubSeq(mem, at, at + mem[p + 3] - 1)]

\* The n events from cell p on; each one is as long as its header says.
revs(mem, p, n) ==
    LET at[i \in 1..n] ==
            IF i = 1 THEN p ELSE at[i - 1] + HeaderSize + mem[at[i - 1] + 3]
    IN [i \in 1..n |-> rev(mem, at[i])]

-----------------------------------------------------------------------------
\* on_trigger() of passthrough.c: what it writes, or nothing where it returns -1.
passthrough_c(in) ==
    LET plen == in[4]
        payload == SubSeq(in, HeaderSize + 1, HeaderSize + plen)
    IN IF plen > PAYLOAD_MAX \/ 1 + HeaderSize + plen > IO_BUF_SIZE THEN <<>>
       ELSE <<1, in[1], in[2], in[3], plen>>
                \o Named("wasm_processed", STREAM_ID_MAX)
                \o Named("wasm_v1", SCHEMA_ID_MAX) \o payload

\* on_trigger() of passthrough.py, on the trigger's dictionary.
passthrough_py(d) ==
    [stream_id |-> "py_processed", schema_id |-> "py_v1",
     payload |-> d.payload, sequence |-> d.sequence]

-----------------------------------------------------------------------------
\* The output zone before the first call, and past its end the memory behind it.
NewMemory == Cell(IO_BUF_SIZE + STREAM_ID_MAX)

\* The trigger and the number of windows.
Input(e) == Append(wev(e), 0)

\* invoke_zero_copy(): the output zone afterwards, and what is emitted.  What
\* is not overwritten stays from earlier calls; input that is too long runs on
\* into the output zone before its length is looked at.
invoke_zero_copy(e, mem) ==
    LET in == Input(e)
        out == passthrough_c(in)
        Over(cells) == cells \o SubSeq(mem, Len(cells) + 1, Len(mem))
    IN IF Len(in) > IO_BUF_SIZE
       THEN [mem |-> Over(SubSeq(in, IO_BUF_SIZE + 1, Len(in))), emitted |-> <<>>]
       ELSE [mem |-> Over(out),
             emitted |-> IF out = <<>> THEN <<>> ELSE revs(Over(out), 2, out[1])]

\* event_to_pydict()
event_to_pydict(e) ==
    [stream_id |-> e.stream_id, schema_id |-> e.schema_id, sequence |-> e.sequence,
     timestamp_ns |-> e.timestamp_ns, lineage_depth |-> e.lineage_depth, payload |-> e.payload]

\* Faulty: set_payload refuses a payload that just fits.
set_payloadOffByOne(payload) == IF Len(payload) < PAYLOAD_MAX THEN payload ELSE <<>>

\* Event::set_payload() on a new event.
set_payload(payload) == IF Len(payload) <= PAYLOAD_MAX THEN payload ELSE <<>>

\* pydict_to_event(): a key that is missing leaves 0, lineage_depth is not read.
pydict_to_event(d) ==
    [timestamp_ns  |-> IF "timestamp_ns" \in DOMAIN d THEN d.timestamp_ns ELSE 0,
     sequence      |-> d.sequence,
     lineage_depth |-> 0,
     stream_id     |-> d.stream_id,
     schema_id     |-> d.schema_id,
     payload       |-> set_payload(d.payload)]

\* PythonScript::invoke_snapshot()
invoke_snapshot(e) == <<pydict_to_event(passthrough_py(event_to_pydict(e)))>>
=============================================================================
