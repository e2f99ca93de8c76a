------------------------------- MODULE Config -------------------------------
(***************************************************************************)
(* The configuration file (config/config.hpp) and what start_pipeline()    *)
(* (server/main.cpp) makes of it: routes, scripts, endpoints, ingestors.   *)
(*                                                                         *)
(* A file is a sequence of lines.  A line is trimmed and taken apart       *)
(* already:                                                                *)
(*   [tag |-> "blank"]                       blank or a comment            *)
(*   [tag |-> "section", name |-> n]         [n]                           *)
(*   [tag |-> "pair", key |-> k, val |-> v]  k = v, v split at its commas  *)
(*   [tag |-> "junk"]                        anything else                 *)
(* Sections are referred to by their number in the file.                   *)
(***************************************************************************)
EXTENDS Integers, Sequences, FiniteSets, SequencesExt

IsLine(line) ==
    \/ line.tag \in {"blank", "junk"} /\ line = [tag |-> line.tag]
    \/ line.tag = "section" /\ line = [tag |-> "section", name |-> line.name]
    \/ /\ line.tag = "pair" /\ line = [tag |-> "pair", key |-> line.key, val |-> line.val]
       /\ line.val \in Seq(Range(line.val)) /\ "" \notin Range(line.val)

is_multi_key(key) == key \in {"window", "endpoint", "emits"}

Section(name) == [type |-> name, kv |-> <<>>, multi |-> <<>>]

Get(f, key) == IF key \in DOMAIN f THEN f[key] ELSE <<>>

\* f with f[key] set.
Put(f, key, val) == [k \in DOMAIN f \cup {key} |-> IF k = key THEN val ELSE f[k]]

NewParse == [ok |-> TRUE, sections |-> <<>>]
Refused == [ok |-> FALSE, sections |-> <<>>]

\* A pair in its section; only the keys of is_multi_key() may be repeated.
AddPair(sec, line) ==
    IF is_multi_key(line.key)
    THEN [sec EXCEPT !.multi = Put(@, line.key, Append(Get(@, line.key), line.val))]
    ELSE [sec EXCEPT !.kv = Put(@, line.key, line.val)]

\* Faulty: Repeated takes no key for a repeated one.
RepeatedNever(sec, line) == FALSE

Repeated(sec, line) == ~is_multi_key(line.key) /\ line.key \in DOMAIN sec.kv

\* A line that makes parse() throw: no pair, a pair outside a section, a
\* repeated key.
Throws(p, line) ==
    \/ line.tag = "junk"
    \/ /\ line.tag = "pair"
       /\ p.sections = <<>> \/ Repeated(Last(p.sections), line)

AddLine(p, line) ==
    CASE ~p.ok \/ line.tag = "blank" -> p
      [] p.ok /\ Throws(p, line) -> Refused
      [] p.ok /\ line.tag = "section" ->
            [p EXCEPT !.sections = Append(@, Section(line.name))]
      [] OTHER -> [p EXCEPT !.sections = ReplaceAt(@, Len(@), AddPair(Last(@), line))]

\* Line after line.
parse(lines) ==
    LET upto[i \in 0..Len(lines)] == IF i = 0 THEN NewParse ELSE AddLine(upto[i - 1], lines[i])
    IN upto[Len(lines)]

of_type(cfg, type) == {i \in DOMAIN cfg.sections : cfg.sections[i].type = type}

\* A single value, which has no commas.
Value(sec, key) == LET v == Get(sec.kv, key) IN IF v = <<>> THEN "" ELSE v[1]

-----------------------------------------------------------------------------
\* The targets of a stream in all [routes] sections.
RoutesOf(cfg, stream) ==
    FlattenSeq([i \in DOMAIN cfg.sections |->
        IF i \in of_type(cfg, "routes") THEN Get(cfg.sections[i].kv, stream) ELSE <<>>])

parse_routes(cfg) ==
    LET keys == UNION {DOMAIN cfg.sections[i].kv : i \in of_type(cfg, "routes")}
    IN [stream \in {k \in keys : RoutesOf(cfg, k) # <<>>} |-> RoutesOf(cfg, stream)]

get_script_emits(sec) == FlattenSeq(Get(sec.multi, "emits"))

-----------------------------------------------------------------------------
(* start_pipeline()                                                        *)

EndpointTypes == {"stdout", "null", "telemetry", "file", "websocket", "http"}

\* make_endpoint() returns.
Makes(sec) ==
    /\ Value(sec, "id") # ""
    /\ Value(sec, "type") \in EndpointTypes
    /\ Value(sec, "type") = "file" => Value(sec, "path") # ""
    /\ Value(sec, "type") \in {"websocket", "http"} => Value(sec, "port") # ""

Made(cfg) == {i \in of_type(cfg, "publisher") : Makes(cfg.sections[i])}

Defaults(cfg) ==
    IF of_type(cfg, "publisher") = {} THEN {"stdout", "telemetry"}
    ELSE IF \E i \in Made(cfg) : Value(cfg.sections[i], "type") = "telemetry" THEN {}
    ELSE {"telemetry"}

\* The ids of some sections, and the last section with an id.
Ids(cfg, S) == {Value(cfg.sections[i], "id") : i \in S}
LastOf(cfg, S, id) == Max({i \in S : Value(cfg.sections[i], "id") = id})

\* endpoints_: what is added last under an id stays.
Endpoints(cfg) ==
    [id \in Ids(cfg, Made(cfg)) |-> Value(cfg.sections[LastOf(cfg, Made(cfg), id)], "type")]

AllEndpoints(cfg) ==
    LET eps == Endpoints(cfg)
    IN [id \in DOMAIN eps \cup Defaults(cfg) |-> IF id \in Defaults(cfg) THEN id ELSE eps[id]]

\* The [script] sections that get a queue and a thread.  Their files load.
Scripts(cfg) ==
    {i \in of_type(cfg, "script") :
        /\ \A key \in {"id", "runtime", "path", "trigger"} : Value(cfg.sections[i], key) # ""
        /\ Value(cfg.sections[i], "runtime") \in {"python", "wasm"}}

\* The handler's queue: that of the last script with the id.
Handlers(cfg) == [id \in Ids(cfg, Scripts(cfg)) |-> LastOf(cfg, Scripts(cfg), id)]

output_stream(sec) ==
    IF get_script_emits(sec) = <<>> THEN "" ELSE get_script_emits(sec)[1]

Ingestors(cfg) == {i \in of_type(cfg, "ingestor") : Value(cfg.sections[i], "plugin") # ""}
=============================================================================
