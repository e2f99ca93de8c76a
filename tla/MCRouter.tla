------------------------------ MODULE MCRouter ------------------------------
(* Router for TLC. *)
EXTENDS Router

Open(name) == [tag |-> "section", name |-> name]
Let(key, val) == [tag |-> "pair", key |-> key, val |-> val]
Blank == [tag |-> "blank"]
Junk == [tag |-> "junk"]

Ingestor(as) == <<Open("ingestor"), Let("plugin", <<"dummy.so">>)>> \o
    (IF as = "" THEN <<>> ELSE <<Let("as", <<as>>)>>)

Script(id, runtime, emits) ==
    <<Open("script"), Let("id", <<id>>), Let("runtime", <<runtime>>),
      Let("path", <<"passthrough">>), Let("trigger", <<"dummys">>)>>
    \o [i \in DOMAIN emits |-> Let("emits", <<emits[i]>>)]

\* examples/mawmaw.conf, with one of its two WASM scripts
Example ==
    Ingestor("dummys")
    \o <<Open("publisher"), Let("id", <<"telemetry">>), Let("type", <<"telemetry">>), Blank,
         Open("publisher"), Let("id", <<"ws_live">>), Let("type", <<"websocket">>),
                            Let("port", <<"9001">>)>>
    \o Script("wasm1", "wasm", <<"wasm_output1">>)
    \o Script("py", "python", <<"py_output">>)
    \o <<Open("routes"), Let("dummys", <<"wasm1", "py">>),
         Let("wasm_output1", <<"telemetry">>), Let("py_output", <<"ws_live", "telemetry">>),
         Let("telemetry", <<"telemetry">>)>>

\* Two ingestors, scripts behind one another, a target that does not exist, an
\* endpoint that cannot be made, routes in two sections.
Chained ==
    Ingestor("") \o Ingestor("other")
    \o <<Open("routes"), Let("dummy_ticks", <<"ws_live", "first">>),
         Let("wasm_processed", <<"second", "nowhere">>)>>
    \o Script("first", "wasm", <<>>)
    \o Script("second", "python", <<"done", "unused">>)
    \o <<Open("publisher"), Let("id", <<"ws_live">>), Let("type", <<"websocket">>),
                            Let("port", <<"9001">>),
         Open("publisher"), Let("id", <<"log">>), Let("type", <<"file">>),
         Open("routes"), Let("dummy_ticks", <<"second", "log">>), Let("other", <<"second">>),
         Let("done", <<"telemetry">>)>>

\* An ingestor without a plugin, one whose name is left empty, two scripts of one
\* id, one that is incomplete, an endpoint with the id of a script, a stream with
\* the name of a multi key.
Odd ==
    <<Open("ingestor"), Let("plugin", <<>>),
      Open("ingestor"), Let("as", <<>>), Let("plugin", <<"dummy.so">>)>>
    \o Script("one", "wasm", <<"left">>)
    \o Script("one", "python", <<"right">>)
    \o <<Open("script"), Let("id", <<"half">>), Let("runtime", <<"python">>),
         Open("publisher"), Let("id", <<"one">>), Let("type", <<"null">>),
         Open("publisher"), Let("id", <<"out">>), Let("type", <<"null">>),
         Open("routes"), Let("dummy_ticks", <<"one", "half", "out">>), Let("left", <<"one">>),
         Let("right", <<"out">>), Let("emits", <<"out">>)>>

\* Every short file over a few lines.
Lines == {Open("routes"), Open("script"), Let("a", <<"x">>), Let("a", <<"y", "x">>),
          Let("b", <<>>), Let("emits", <<"x">>), Junk}
Short == UNION {[1..n -> Lines] : n \in 0..4}

\* Two events of the first ingestor, one of the second.
TwoAndOne == <<2, 1>>

AllFiles == {Example, Chained, Odd} \cup Short

OneWasm ==
    {Ingestor("dummys") \o Script("wasm1", "wasm", <<"out">>)
     \o <<Open("routes"), Let("dummys", <<"wasm1">>), Let("out", <<"stdout">>)>>}
=============================================================================
