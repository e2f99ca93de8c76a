--------------------------- MODULE PipelineProofs ---------------------------
(***************************************************************************)
(* Proofs about Pipeline, for any number of scripts, ingestors and reloads.*)
(***************************************************************************)
EXTENDS Pipeline, TLAPS

\* A thread takes a step only while it runs, and a step of it changes nothing but
\* its own place, the pointer it loaded and the queues it routes to.
LEMMA ThreadStep ==
    ASSUME TypeOK, NEW t \in Threads, Thread(t)
    PROVE  /\ ~Idle(t)
           /\ \A u \in Threads \ {t} : tpc'[u] = tpc[u]
           /\ TypeOK'
           /\ KeepMain
<1>1. KeepMain
    BY DEF Thread, Routing, ScriptLoop, ScriptWait, ScriptDispatch, IngestorLoop, TelemetryLoop,
           TelemetryEmit, RouteLoad, RouteRecord, RoutePush, RouteDeliver
<1>2. \E from, to \in {"ready", "waiting", "dispatch", "sleep", "load", "record", "push",
                       "deliver", "exited"} : from # "exited" /\ Step(t, from, to)
    BY DEF Thread, Routing, ScriptLoop, ScriptWait, ScriptDispatch, IngestorLoop, TelemetryLoop,
           TelemetryEmit, RouteLoad, RouteRecord, RoutePush, RouteDeliver
<1>3. tpc \in [Threads -> {"none", "ready", "waiting", "dispatch", "sleep", "load", "record",
                           "push", "deliver", "exited"}]
    BY DEF TypeOK
<1>4. pending' \subseteq Scripts
    BY DEF TypeOK, Thread, Routing, ScriptLoop, ScriptWait, ScriptDispatch, IngestorLoop,
           TelemetryLoop, TelemetryEmit, RouteLoad, RouteRecord, RoutePush, RouteDeliver
<1>5. tel_ptr' \in [Threads -> BOOLEAN]
    BY DEF TypeOK, Thread, Routing, ScriptLoop, ScriptWait, ScriptDispatch, IngestorLoop,
           TelemetryLoop, TelemetryEmit, RouteLoad, RouteRecord, RoutePush, RouteDeliver
<1>6. ~Idle(t) /\ \A u \in Threads \ {t} : tpc'[u] = tpc[u]
    BY <1>2, <1>3 DEF Step, Idle
<1>7. TypeOK'
    BY <1>1, <1>2, <1>3, <1>4, <1>5
    DEF TypeOK, Step, KeepMain, mainVars, stateVars, objVars
<1> QED
    BY <1>1, <1>6, <1>7

-----------------------------------------------------------------------------
(* Type correctness.                                                       *)

\* Every step of main() preserves the types.
LEMMA MainTypeStep == TypeOK /\ (Starting \/ Stopping \/ Signal \/ BeginStop \/ Reparse) => TypeOK'
<1> SUFFICES ASSUME TypeOK, Starting \/ Stopping \/ Signal \/ BeginStop \/ Reparse
             PROVE  TypeOK'
    OBVIOUS
<1> USE MaxStartsAssumption DEF TypeOK, mainVars, stateVars, objVars, threadVars
<1>1. CASE StartObjects
    BY <1>1 DEF StartObjects, Owned
<1>2. CASE StartScripts
    BY <1>2 DEF StartScripts
<1>3. ASSUME NEW s \in Scripts, StartScriptThread(s) PROVE TypeOK'
    BY <1>3 DEF StartScriptThread, Threads
<1>4. CASE ScriptThreadsStarted
    BY <1>4 DEF ScriptThreadsStarted
<1>5. ASSUME NEW i \in Ingestors, StartIngestor(i) PROVE TypeOK'
    BY <1>5 DEF StartIngestor, Threads
<1>6. CASE StartTelemetry \/ ThrowNoIngestors
    BY <1>6 DEF StartTelemetry, ThrowNoIngestors, Threads
<1>7. CASE Signal \/ BeginStop \/ Reparse
    <2>1. CASE Signal
        BY <2>1 DEF Signal
    <2>2. CASE BeginStop
        <3>1. final' \in BOOLEAN
            BY <2>2 DEF BeginStop
        <3> QED
            BY <2>2, <3>1 DEF BeginStop
    <2>3. CASE Reparse
        <3>1. starts' \in 1..MaxStarts
            BY <2>3 DEF Reparse
        <3>2. final' \in BOOLEAN /\ g_running' \in BOOLEAN
            BY <2>3 DEF Reparse
        <3> QED
            BY <2>3, <3>1, <3>2 DEF Reparse
    <2> QED
        BY <1>7, <2>1, <2>2, <2>3
<1>8. ASSUME NEW i \in Ingestors, StopIngestor(i) \/ DestroyPlugin(i) PROVE TypeOK'
    BY <1>8 DEF StopIngestor, DestroyPlugin
<1>9. ASSUME NEW s \in Scripts, StopQueue(s) PROVE TypeOK'
    BY <1>9 DEF StopQueue
<1>10. CASE DetachTelemetry \/ StopTelemetry \/ JoinTelemetry \/ QueuesStopped \/ JoinScripts
    BY <1>10 DEF DetachTelemetry, StopTelemetry, JoinTelemetry, QueuesStopped, JoinScripts
<1>11. CASE ResetAll
    BY <1>11 DEF ResetAll, Reset
<1> QED
    BY <1>1, <1>2, <1>3, <1>4, <1>5, <1>6, <1>7, <1>8, <1>9, <1>10, <1>11 DEF Starting, Stopping

\* Every step preserves the types.
LEMMA TypeStep == TypeOK /\ [Next]_vars => TypeOK'
<1>1. ASSUME TypeOK, UNCHANGED vars PROVE TypeOK'
    BY <1>1 DEF TypeOK, vars, mainVars, stateVars, objVars, threadVars
<1> QED
    BY <1>1, MainTypeStep, ThreadStep DEF Next

\* Initially nothing exists.
LEMMA TypeInit == Init => TypeOK
<1> SUFFICES ASSUME Init PROVE TypeOK
    OBVIOUS
<1>1. starts \in 1..MaxStarts
    BY MaxStartsAssumption DEF Init
<1>2. tel_ptr \in [Threads -> BOOLEAN]
    BY DEF Init
<1>3. tpc \in [Threads -> {"none", "ready", "waiting", "dispatch", "sleep", "load", "record",
                           "push", "deliver", "exited"}]
    BY DEF Init
<1> QED
    BY <1>1, <1>2, <1>3 DEF Init, TypeOK

\* Every variable keeps its type through starts, reloads and stops.
THEOREM TypeCorrect == Spec => []TypeOK
BY TypeInit, TypeStep, PTL DEF Spec

-----------------------------------------------------------------------------
(* Lifetimes.                                                              *)

\* A running thread of a script or a plugin has its owner in PipelineState.
Owners ==
    /\ \A s \in Scripts : ~Idle(s) => s \in script_threads
    /\ \A i \in Ingestors : ~Idle(i) => i \in plugins

\* Where in its life a pipeline can have script threads, plugins, and a telemetry
\* thread; the latter runs only while stop_pipeline() will still join it.
ScriptPhase ==
    script_threads # {} =>
        mpc \in {"threads", "ingestors", "up", "stop", "plugins", "join_telemetry", "queues",
                 "join", "terminated"}
PluginPhase == plugins # {} => mpc \in {"ingestors", "up", "stop", "plugins"}
TelemetryPhase ==
    ~Idle(Telemetry) =>
        \/ mpc \in {"up", "stop", "plugins"} /\ tel_running
        \/ mpc = "join_telemetry"

\* The objects live while a thread may use them ...
HeldInUse ==
    \/ mpc \in {"scripts", "threads", "ingestors", "up"}
    \/ script_threads # {}
    \/ plugins # {}
    \/ ~Idle(Telemetry)
    => held = Owned

\* ... and are given up one by one.
HeldAfterwards ==
    /\ mpc = "reset_registry" => held \subseteq {"registry", "router", "publisher"}
    /\ mpc = "reset_router" => held \subseteq {"router", "publisher"}
    /\ mpc = "reset_publisher" => held \subseteq {"publisher"}
    /\ mpc \in {"objects", "parse", "exit"} => held = {}

LifeInv ==
    TypeOK /\ Owners /\ ScriptPhase /\ PluginPhase /\ TelemetryPhase /\ HeldInUse /\ HeldAfterwards

\* Initially there is nothing to use or to join.
LEMMA LifeInit == Init => LifeInv
<1> SUFFICES ASSUME Init PROVE LifeInv
    OBVIOUS
<1>1. \A t \in Threads : Idle(t)
    BY DEF Init, Idle
<1>2. Telemetry \in Threads /\ Scripts \subseteq Threads /\ Ingestors \subseteq Threads
    BY DEF Threads
<1> QED
    BY <1>1, <1>2, TypeInit
    DEF Init, LifeInv, Owners, ScriptPhase, PluginPhase, TelemetryPhase, HeldInUse, HeldAfterwards

\* A thread's own steps disturb nobody's lifetime.
LEMMA ThreadLifeStep == ASSUME LifeInv, NEW t \in Threads, Thread(t) PROVE LifeInv'
<1>1. /\ ~Idle(t)
      /\ \A u \in Threads \ {t} : tpc'[u] = tpc[u]
      /\ TypeOK'
      /\ KeepMain
    BY ThreadStep DEF LifeInv
<1>2. \A u \in Threads : ~Idle(u)' => ~Idle(u)
    BY <1>1 DEF Idle
<1>3. Telemetry \in Threads /\ Scripts \subseteq Threads /\ Ingestors \subseteq Threads
    BY DEF Threads
<1> QED
    BY <1>1, <1>2, <1>3
    DEF LifeInv, Owners, ScriptPhase, PluginPhase, TelemetryPhase, HeldInUse, HeldAfterwards,
        KeepMain, mainVars, stateVars, objVars

\* start_pipeline() gives every thread it creates an owner, and fails only before
\* anything that would have to be joined is lost.
LEMMA StartLifeStep == LifeInv /\ Starting => LifeInv'
<1> SUFFICES ASSUME LifeInv, Starting PROVE LifeInv'
    OBVIOUS
<1>1. TypeOK'
    BY MainTypeStep DEF LifeInv
<1>2. Telemetry \in Threads /\ Scripts \subseteq Threads /\ Ingestors \subseteq Threads
    BY DEF Threads
<1> USE <1>1, <1>2, ThreadsAssumption
        DEF LifeInv, Owners, ScriptPhase, PluginPhase, TelemetryPhase, HeldInUse, HeldAfterwards,
            Idle, mainVars, stateVars, objVars, threadVars
<1>3. CASE StartObjects
    BY <1>3 DEF StartObjects
<1>4. CASE StartScripts
    BY <1>4 DEF StartScripts
<1>5. ASSUME NEW s \in Scripts, StartScriptThread(s) PROVE LifeInv'
    <2>1. /\ s \in script_threads'
          /\ \A t \in Threads \ {s} : tpc'[t] = tpc[t]
          /\ script_threads \subseteq script_threads'
        BY <1>5 DEF StartScriptThread, TypeOK
    <2> QED
        BY <1>5, <2>1 DEF StartScriptThread
<1>6. CASE ScriptThreadsStarted
    BY <1>6 DEF ScriptThreadsStarted
<1>7. ASSUME NEW i \in Ingestors, StartIngestor(i) PROVE LifeInv'
    <2>1. /\ \A t \in Threads \ {i} : tpc'[t] = tpc[t]
          /\ tpc'[i] = tpc[i] \/ i \in plugins'
          /\ plugins \subseteq plugins'
        BY <1>7 DEF StartIngestor, TypeOK
    <2> QED
        BY <1>7, <2>1 DEF StartIngestor
<1>8. CASE StartTelemetry
    <2>1. \A t \in Threads \ {Telemetry} : tpc'[t] = tpc[t]
        BY <1>8 DEF StartTelemetry, TypeOK
    <2> QED
        BY <1>8, <2>1 DEF StartTelemetry
<1>9. CASE ThrowNoIngestors
    BY <1>9 DEF ThrowNoIngestors
<1> QED
    BY <1>3, <1>4, <1>5, <1>6, <1>7, <1>8, <1>9 DEF Starting

\* stop_pipeline() gives up an owner only after the join, and an object only when
\* every thread is gone.
LEMMA StopLifeStep == LifeInv /\ Stopping => LifeInv'
<1> SUFFICES ASSUME LifeInv, Stopping PROVE LifeInv'
    OBVIOUS
<1>1. TypeOK'
    BY MainTypeStep DEF LifeInv
<1> USE <1>1, ThreadsAssumption
        DEF LifeInv, Owners, ScriptPhase, PluginPhase, TelemetryPhase, HeldInUse, HeldAfterwards,
            Idle, mainVars, stateVars, objVars, threadVars
<1>2. CASE DetachTelemetry
    BY <1>2 DEF DetachTelemetry
<1>3. ASSUME NEW i \in Ingestors, StopIngestor(i) PROVE LifeInv'
    BY <1>3 DEF StopIngestor
<1>4. ASSUME NEW i \in Ingestors, DestroyPlugin(i) PROVE LifeInv'
    BY <1>4 DEF DestroyPlugin
<1>5. CASE StopTelemetry
    <2>1. ~Idle(Telemetry) => "telemetry" \in held /\ tel_running
        BY <1>5 DEF StopTelemetry, Owned
    <2> QED
        BY <1>5, <2>1 DEF StopTelemetry
<1>6. CASE JoinTelemetry
    BY <1>6 DEF JoinTelemetry
<1>7. ASSUME NEW s \in Scripts, StopQueue(s) PROVE LifeInv'
    BY <1>7 DEF StopQueue
<1>8. CASE QueuesStopped
    BY <1>8 DEF QueuesStopped
<1>9. CASE JoinScripts
    BY <1>9 DEF JoinScripts
<1>10. CASE ResetAll
    <2>1. CASE Reset("telemetry", "reset_telemetry", "reset_registry")
        BY <2>1 DEF Reset, TypeOK, Owned
    <2>2. CASE Reset("registry", "reset_registry", "reset_router")
        BY <2>2 DEF Reset, TypeOK, Owned
    <2>3. CASE Reset("router", "reset_router", "reset_publisher")
        BY <2>3 DEF Reset, TypeOK, Owned
    <2>4. CASE Reset("publisher", "reset_publisher", IF final THEN "exit" ELSE "parse")
        BY <2>4 DEF Reset, TypeOK, Owned
    <2> QED
        BY <1>10, <2>1, <2>2, <2>3, <2>4 DEF ResetAll
<1> QED
    BY <1>2, <1>3, <1>4, <1>5, <1>6, <1>7, <1>8, <1>9, <1>10 DEF Stopping

\* Every step preserves the lifetimes.
LEMMA LifeStep == LifeInv /\ [Next]_vars => LifeInv'
<1> SUFFICES ASSUME LifeInv, [Next]_vars PROVE LifeInv'
    OBVIOUS
<1>1. CASE Signal \/ BeginStop \/ Reparse
    <2>1. TypeOK'
        BY <1>1, MainTypeStep DEF LifeInv
    <2> QED
        BY <1>1, <2>1
        DEF Signal, BeginStop, Reparse, LifeInv, Owners, ScriptPhase, PluginPhase, TelemetryPhase,
            HeldInUse, HeldAfterwards, Idle, mainVars, stateVars, objVars, threadVars
<1>2. CASE UNCHANGED vars
    BY <1>2, TypeStep
    DEF vars, LifeInv, Owners, ScriptPhase, PluginPhase, TelemetryPhase, HeldInUse,
        HeldAfterwards, Idle, mainVars, stateVars, objVars, threadVars
<1> QED
    BY <1>1, <1>2, ThreadLifeStep, StartLifeStep, StopLifeStep DEF Next

\* No thread ever uses the router, the telemetry, the registry or the publisher
\* after stop_pipeline(), or a start that failed, has destroyed it.
THEOREM UseCorrect == Spec => []NoDanglingUse
<1>1. LifeInv => NoDanglingUse
    <2> SUFFICES ASSUME LifeInv, NEW t \in Threads, ~Idle(t) PROVE held = Owned
        BY DEF NoDanglingUse, RouterAlive, Owned, Idle
    <2>1. t \in Scripts \/ t \in Ingestors \/ t = Telemetry
        BY DEF Threads
    <2> QED
        BY <2>1 DEF LifeInv, Owners, HeldInUse
<1> QED
    BY <1>1, LifeInit, LifeStep, PTL DEF Spec

\* When stop_pipeline() has returned no thread runs and no object lives, however the
\* stop, the signal and the threads interleaved and whatever failed to load.
THEOREM StopCorrect == Spec => []NothingLeft
<1>1. LifeInv => NothingLeft
    <2> SUFFICES ASSUME LifeInv, mpc \in {"parse", "exit"}
                 PROVE  /\ \A t \in Threads : Idle(t)
                        /\ held = {} /\ plugins = {} /\ script_threads = {}
        BY DEF NothingLeft
    <2>1. held = {} /\ plugins = {} /\ script_threads = {} /\ Idle(Telemetry)
        BY DEF LifeInv, HeldAfterwards, ScriptPhase, PluginPhase, TelemetryPhase
    <2> QED
        BY <2>1 DEF LifeInv, Owners, Threads
<1> QED
    BY <1>1, LifeInit, LifeStep, PTL DEF Spec
=============================================================================
