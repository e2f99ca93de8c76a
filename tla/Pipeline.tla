------------------------------ MODULE Pipeline ------------------------------
(***************************************************************************)
(* server/main.cpp: start_pipeline() and stop_pipeline() as main() calls   *)
(* them, at start, on reload and at shutdown, with the threads a pipeline  *)
(* runs (one per script, one per ingestor plugin, one for telemetry) and   *)
(* the lifetime of the objects they use through raw pointers.              *)
(*                                                                         *)
(* What the threads do to an object is abstracted to the fact that they    *)
(* use it; the queue between route() and a script is abstracted to whether *)
(* it holds an event (module ScriptQueue has its detail).                  *)
(***************************************************************************)
EXTENDS Naturals

CONSTANTS
    Scripts,        \* [script] sections of the configuration
    Ingestors,      \* [ingestor] sections
    Telemetry,      \* the telemetry thread
    MaxStarts       \* bound: calls of start_pipeline()

ASSUME ThreadsAssumption ==
    /\ Scripts \cap Ingestors = {}
    /\ Telemetry \notin Scripts \cup Ingestors
ASSUME MaxStartsAssumption == MaxStarts \in Nat \ {0}

VARIABLES
    mpc,            \* where main() is
    final,          \* the stop in progress is the one before exit
    starts,         \* calls of start_pipeline() so far
    g_running,
    todo,           \* sections the loop of start_pipeline() has yet to visit
    \* PipelineState
    held,           \* its owning pointers that are not null
    script_threads, \* std::thread objects in the vector
    plugins,        \* PluginHandles in the vector
    \* inside the objects
    queues,         \* scripts with a queue and a handler in the router
    stopped,        \* queues with the stop flag up
    pending,        \* queues that hold an event
    router_tel,     \* StreamRouter::telemetry_ is not null
    tel_running,    \* Telemetry::running_
    ingesting,      \* plugins whose running_ is true
    \* the threads
    tpc,            \* where each thread is
    tel_ptr         \* route(): the loaded `tel' is not null

mainVars == <<mpc, final, starts, todo>>
stateVars == <<held, script_threads, plugins>>
objVars == <<queues, stopped, router_tel, tel_running, ingesting>>
threadVars == <<tpc, tel_ptr>>
vars == <<mainVars, g_running, stateVars, objVars, pending, threadVars>>

Threads == Scripts \cup Ingestors \cup {Telemetry}
Owned == {"telemetry", "registry", "router", "publisher"}

\* A thread that has not been created, or has run to its end.
Idle(t) == tpc[t] \in {"none", "exited"}

\* The router is shared: by state.router, and by the functions that the script
\* threads and the plugins' threads run.  Telemetry and the publisher only refer
\* to it (the publisher drops the callback that start_pipeline() gives it).
RouterAlive ==
    \/ "router" \in held
    \/ \E t \in Scripts \cup Ingestors : ~Idle(t)

-----------------------------------------------------------------------------
Init ==
    /\ mpc = "objects"
    /\ final = FALSE
    /\ starts = 1
    /\ g_running = TRUE
    /\ todo = {}
    /\ held = {}
    /\ script_threads = {}
    /\ plugins = {}
    /\ queues = {}
    /\ stopped = {}
    /\ pending = {}
    /\ router_tel = FALSE
    /\ tel_running = FALSE
    /\ ingesting = {}
    /\ tpc = [t \in Threads |-> "none"]
    /\ tel_ptr = [t \in Threads |-> FALSE]

-----------------------------------------------------------------------------
(* start_pipeline()                                                        *)

\* Registry, publisher, router with its routes, telemetry, and the endpoints.
StartObjects ==
    /\ mpc = "objects"
    /\ held' = Owned
    /\ router_tel' = TRUE
    /\ tel_running' = FALSE
    /\ queues' = {}
    /\ stopped' = {}
    /\ pending' = {}
    /\ mpc' = "scripts"
    /\ UNCHANGED <<final, starts, todo, g_running, script_threads, plugins, ingesting, threadVars>>

\* Each script section: load the script, register its queue and its handler.  One
\* that misses a field, has an unknown runtime or fails to load is skipped.
StartScripts ==
    /\ mpc = "scripts"
    /\ \E loaded \in SUBSET Scripts :
          /\ queues' = loaded
          /\ todo' = loaded
    /\ mpc' = "threads"
    /\ UNCHANGED <<final, starts, g_running, stateVars, stopped, router_tel, tel_running,
                   ingesting, pending, threadVars>>

\* One thread per loaded script, in a loop that the first ones already overlap.
StartScriptThread(s) ==
    /\ mpc = "threads"
    /\ s \in todo
    /\ todo' = todo \ {s}
    /\ script_threads' = script_threads \cup {s}
    /\ tpc' = [tpc EXCEPT ![s] = "ready"]
    /\ UNCHANGED <<mpc, final, starts, g_running, held, plugins, objVars, pending, tel_ptr>>

ScriptThreadsStarted ==
    /\ mpc = "threads"
    /\ todo = {}
    /\ todo' = Ingestors
    /\ mpc' = "ingestors"
    /\ UNCHANGED <<final, starts, g_running, stateVars, objVars, pending, threadVars>>

\* Faulty StartIngestor: the plugin's thread is kept among the script threads.
StartIngestorMisfiled(i) ==
    /\ mpc = "ingestors"
    /\ i \in todo
    /\ todo' = todo \ {i}
    /\ script_threads' = script_threads \cup {i}
    /\ plugins' = plugins \cup {i}
    /\ ingesting' = ingesting \cup {i}
    /\ tpc' = [tpc EXCEPT ![i] = "ready"]
    /\ UNCHANGED <<mpc, final, starts, g_running, held, queues, stopped,
                   router_tel, tel_running, pending, tel_ptr>>

\* PluginHandle::load and start; a plugin that fails is skipped.
StartIngestor(i) ==
    /\ mpc = "ingestors"
    /\ i \in todo
    /\ todo' = todo \ {i}
    /\ \/ /\ plugins' = plugins \cup {i}
          /\ ingesting' = ingesting \cup {i}
          /\ tpc' = [tpc EXCEPT ![i] = "ready"]
       \/ UNCHANGED <<plugins, ingesting, tpc>>
    /\ UNCHANGED <<mpc, final, starts, g_running, held, script_threads, queues, stopped,
                   router_tel, tel_running, pending, tel_ptr>>

\* telemetry->start(), and the pipeline is up.
StartTelemetry ==
    /\ mpc = "ingestors"
    /\ todo = {}
    /\ plugins # {}
    /\ tel_running' = TRUE
    /\ tpc' = [tpc EXCEPT ![Telemetry] = "ready"]
    /\ mpc' = "up"
    /\ UNCHANGED <<final, starts, g_running, todo, stateVars, queues, stopped, router_tel,
                   ingesting, pending, tel_ptr>>

\* throw "No ingestors loaded": the PipelineState under construction is destroyed.
\* Its script threads are still joinable, and the destructor of a joinable
\* std::thread calls std::terminate.  Without script threads the exception
\* reaches main(), which returns at the first start and leaves its loop on reload.
ThrowNoIngestors ==
    /\ mpc = "ingestors"
    /\ todo = {}
    /\ plugins = {}
    /\ \/ /\ script_threads # {}
          /\ mpc' = "terminated"
          /\ UNCHANGED <<final, g_running, held>>
       \/ /\ script_threads = {}
          /\ held' = {}
          /\ \/ starts = 1 /\ mpc' = "exit" /\ UNCHANGED <<final, g_running>>
             \/ starts > 1 /\ mpc' = "stop" /\ final' = TRUE /\ g_running' = FALSE
    /\ UNCHANGED <<starts, todo, script_threads, plugins, objVars, pending, threadVars>>

-----------------------------------------------------------------------------
(* main() between start and stop                                           *)

\* handle_signal
Signal ==
    /\ g_running
    /\ mpc \notin {"exit", "terminated"}
    /\ g_running' = FALSE
    /\ UNCHANGED <<mainVars, stateVars, objVars, pending, threadVars>>

\* The loop of main() calls stop_pipeline() for a reload, or leaves the loop.
BeginStop ==
    /\ mpc = "up"
    /\ final' = ~g_running
    /\ mpc' = "stop"
    /\ UNCHANGED <<starts, todo, g_running, stateVars, objVars, pending, threadVars>>

\* The configuration is parsed again; failure ends the program through a second
\* stop_pipeline() on a state that is already empty.
Reparse ==
    /\ mpc = "parse"
    /\ \/ /\ starts < MaxStarts
          /\ starts' = starts + 1
          /\ mpc' = "objects"
          /\ UNCHANGED <<final, g_running>>
       \/ /\ mpc' = "stop"
          /\ final' = TRUE
          /\ g_running' = FALSE
          /\ UNCHANGED starts
    /\ UNCHANGED <<todo, stateVars, objVars, pending, threadVars>>

-----------------------------------------------------------------------------
(* stop_pipeline(): every step is guarded against a state already empty.   *)

\* router->set_telemetry(nullptr)
DetachTelemetry ==
    /\ mpc = "stop"
    /\ router_tel' = (router_tel /\ "router" \notin held)
    /\ mpc' = "plugins"
    /\ UNCHANGED <<final, starts, todo, g_running, stateVars, queues, stopped, tel_running,
                   ingesting, pending, threadVars>>

\* plugins.clear() destroys one handle after the other: stop() clears running_ ...
StopIngestor(i) ==
    /\ mpc = "plugins"
    /\ plugins \subseteq ingesting
    /\ i \in plugins
    /\ ingesting' = ingesting \ {i}
    /\ UNCHANGED <<mainVars, g_running, stateVars, queues, stopped, router_tel, tel_running,
                   pending, threadVars>>

\* ... and joins the plugin's thread; then the plugin is destroyed and unloaded.
DestroyPlugin(i) ==
    /\ mpc = "plugins"
    /\ i \in plugins \ ingesting
    /\ tpc[i] = "exited"
    /\ plugins' = plugins \ {i}
    /\ UNCHANGED <<mainVars, g_running, held, script_threads, objVars, pending, threadVars>>

\* telemetry->stop(): running_ = false ...
StopTelemetry ==
    /\ mpc = "plugins"
    /\ plugins = {}
    /\ tel_running' = FALSE
    /\ mpc' = IF "telemetry" \in held /\ tel_running THEN "join_telemetry" ELSE "queues"
    /\ UNCHANGED <<final, starts, todo, g_running, stateVars, queues, stopped, router_tel,
                   ingesting, pending, threadVars>>

\* ... thread_.join()
JoinTelemetry ==
    /\ mpc = "join_telemetry"
    /\ tpc[Telemetry] = "exited"
    /\ mpc' = "queues"
    /\ UNCHANGED <<final, starts, todo, g_running, stateVars, objVars, pending, threadVars>>

\* router->stop_all_queues(), queue by queue
StopQueue(s) ==
    /\ mpc = "queues"
    /\ "router" \in held
    /\ s \in queues \ stopped
    /\ stopped' = stopped \cup {s}
    /\ UNCHANGED <<mainVars, g_running, stateVars, queues, router_tel, tel_running, ingesting,
                   pending, threadVars>>

\* Faulty QueuesStopped: the loop over the queues ends early.
QueuesStoppedEarly ==
    /\ mpc = "queues"
    /\ mpc' = "join"
    /\ UNCHANGED <<final, starts, todo, g_running, stateVars, objVars, pending, threadVars>>

QueuesStopped ==
    /\ mpc = "queues"
    /\ "router" \in held => queues \subseteq stopped
    /\ mpc' = "join"
    /\ UNCHANGED <<final, starts, todo, g_running, stateVars, objVars, pending, threadVars>>

\* Faulty JoinScripts: the threads are detached instead of joined.
JoinScriptsDetach ==
    /\ mpc = "join"
    /\ script_threads' = {}
    /\ mpc' = "reset_telemetry"
    /\ UNCHANGED <<final, starts, todo, g_running, held, plugins, objVars, pending, threadVars>>

\* join every script thread, then clear the vector
JoinScripts ==
    /\ mpc = "join"
    /\ \A s \in script_threads : tpc[s] = "exited"
    /\ script_threads' = {}
    /\ mpc' = "reset_telemetry"
    /\ UNCHANGED <<final, starts, todo, g_running, held, plugins, objVars, pending, threadVars>>

\* Faulty Reset: registry_holder.reset() is missing.
ResetLeaky(x, from, to) ==
    /\ mpc = from
    /\ held' = held \ ({x} \ {"registry"})
    /\ mpc' = to
    /\ UNCHANGED <<final, starts, todo, g_running, script_threads, plugins, objVars, pending,
                   threadVars>>

\* telemetry.reset(), registry_holder.reset(), router.reset(), publisher.reset()
Reset(x, from, to) ==
    /\ mpc = from
    /\ held' = held \ {x}
    /\ mpc' = to
    /\ UNCHANGED <<final, starts, todo, g_running, script_threads, plugins, objVars, pending,
                   threadVars>>

ResetAll ==
    \/ Reset("telemetry", "reset_telemetry", "reset_registry")
    \/ Reset("registry", "reset_registry", "reset_router")
    \/ Reset("router", "reset_router", "reset_publisher")
    \/ Reset("publisher", "reset_publisher", IF final THEN "exit" ELSE "parse")

-----------------------------------------------------------------------------
(* The threads.                                                            *)

Step(t, from, to) == tpc[t] = from /\ tpc' = [tpc EXCEPT ![t] = to]
KeepMain == UNCHANGED <<mainVars, g_running, stateVars, objVars>>

\* A script thread: while (g_running) wait_for_trigger
ScriptLoop(s) ==
    /\ Step(s, "ready", IF g_running THEN "waiting" ELSE "exited")
    /\ UNCHANGED <<pending, tel_ptr>>
    /\ KeepMain

\* wait_for_trigger() returns nullopt once stopped, an event if there is one.
ScriptWait(s) ==
    /\ \/ /\ s \in stopped
          /\ Step(s, "waiting", "exited")
          /\ UNCHANGED pending
       \/ /\ s \in pending \ stopped
          /\ Step(s, "waiting", "dispatch")
          /\ pending' \in {pending, pending \ {s}}
    /\ UNCHANGED tel_ptr
    /\ KeepMain

\* dispatch() builds the windows from the registry, runs the script and records
\* the invocation in telemetry; the script emits events or none.
ScriptDispatch(s) ==
    /\ \E to \in {"load", "ready"} : Step(s, "dispatch", to)
    /\ UNCHANGED <<pending, tel_ptr>>
    /\ KeepMain

\* A plugin's thread: while (running_) emit(ev)
IngestorLoop(i) ==
    /\ Step(i, "ready", IF i \in ingesting THEN "load" ELSE "exited")
    /\ UNCHANGED <<pending, tel_ptr>>
    /\ KeepMain

\* Faulty TelemetryLoop: running_ is never looked at again.
TelemetryLoopForever ==
    /\ Step(Telemetry, "ready", "sleep")
    /\ UNCHANGED <<pending, tel_ptr>>
    /\ KeepMain

\* emit_metrics(): while (running_) sleep ...
TelemetryLoop ==
    /\ Step(Telemetry, "ready", IF tel_running THEN "sleep" ELSE "exited")
    /\ UNCHANGED <<pending, tel_ptr>>
    /\ KeepMain

\* ... then pack and route, without another look at running_.
TelemetryEmit ==
    /\ \E to \in {"load", "ready"} : Step(Telemetry, "sleep", to)
    /\ UNCHANGED <<pending, tel_ptr>>
    /\ KeepMain

\* route(): tel = telemetry_.load()
RouteLoad(t) ==
    /\ Step(t, "load", "record")
    /\ tel_ptr' = [tel_ptr EXCEPT ![t] = router_tel]
    /\ UNCHANGED pending
    /\ KeepMain

\* route(): if (tel) tel->record_event(), then registry_.push()
RouteRecord(t) ==
    /\ Step(t, "record", "push")
    /\ UNCHANGED <<pending, tel_ptr>>
    /\ KeepMain

RoutePush(t) ==
    /\ Step(t, "push", "deliver")
    /\ UNCHANGED <<pending, tel_ptr>>
    /\ KeepMain

\* route(): the targets, queues and publisher endpoints; the caller goes on
\* with its next event or returns to its loop.
RouteDeliver(t) ==
    /\ \/ Step(t, "deliver", "ready")
       \/ t \notin Ingestors /\ Step(t, "deliver", "load")
    /\ \E targets \in SUBSET queues : pending' = pending \cup targets
    /\ UNCHANGED tel_ptr
    /\ KeepMain

-----------------------------------------------------------------------------
Starting ==
    \/ StartObjects
    \/ StartScripts
    \/ \E s \in Scripts : StartScriptThread(s)
    \/ ScriptThreadsStarted
    \/ \E i \in Ingestors : StartIngestor(i)
    \/ StartTelemetry
    \/ ThrowNoIngestors

Stopping ==
    \/ DetachTelemetry
    \/ \E i \in Ingestors : StopIngestor(i) \/ DestroyPlugin(i)
    \/ StopTelemetry
    \/ JoinTelemetry
    \/ \E s \in Scripts : StopQueue(s)
    \/ QueuesStopped
    \/ JoinScripts
    \/ ResetAll

Routing(t) == RouteLoad(t) \/ RouteRecord(t) \/ RoutePush(t) \/ RouteDeliver(t)

Thread(t) ==
    \/ t \in Scripts /\ (ScriptLoop(t) \/ ScriptWait(t) \/ ScriptDispatch(t))
    \/ t \in Ingestors /\ IngestorLoop(t)
    \/ t = Telemetry /\ (TelemetryLoop \/ TelemetryEmit)
    \/ Routing(t)

\* main() ended, by return or by std::terminate.
Ended == mpc \in {"exit", "terminated"}

Next ==
    \/ Starting
    \/ Signal
    \/ BeginStop
    \/ Reparse
    \/ Stopping
    \/ mpc # "terminated" /\ \E t \in Threads : Thread(t)
    \/ Ended /\ UNCHANGED vars

Spec == Init /\ [][Next]_vars

\* main() runs on, except that nothing obliges it to reload while g_running;
\* every thread runs on; a script does not emit for ever, nor does telemetry.
Fairness ==
    /\ WF_vars(Starting)
    /\ WF_vars(Stopping)
    /\ WF_vars(Reparse)
    /\ WF_vars(~g_running /\ BeginStop)
    /\ \A t \in Threads :
          /\ WF_vars(mpc # "terminated" /\ Thread(t))
          /\ SF_vars(RouteDeliver(t) /\ tpc'[t] = "ready")

LiveSpec == Spec /\ Fairness

-----------------------------------------------------------------------------
(* Properties.                                                             *)

\* Every variable stays in its type.
TypeOK ==
    /\ mpc \in {"objects", "scripts", "threads", "ingestors", "up", "stop", "plugins", "join_telemetry",
                "queues", "join", "reset_telemetry", "reset_registry", "reset_router",
                "reset_publisher", "parse", "exit", "terminated"}
    /\ final \in BOOLEAN
    /\ starts \in 1..MaxStarts
    /\ g_running \in BOOLEAN
    /\ todo \subseteq Scripts \cup Ingestors
    /\ held \subseteq Owned
    /\ script_threads \subseteq Scripts
    /\ plugins \subseteq Ingestors
    /\ queues \subseteq Scripts
    /\ stopped \subseteq Scripts
    /\ pending \subseteq Scripts
    /\ router_tel \in BOOLEAN
    /\ tel_running \in BOOLEAN
    /\ ingesting \subseteq Ingestors
    /\ tpc \in [Threads -> {"none", "ready", "waiting", "dispatch", "sleep", "load", "record",
                            "push", "deliver", "exited"}]
    /\ tel_ptr \in [Threads -> BOOLEAN]

\* No thread uses an object that stop_pipeline(), or the failed start, has
\* destroyed: route() uses the router, the telemetry it loaded, the registry and
\* the publisher, and both of them use the telemetry through pointers of their
\* own; dispatch() uses the registry and the telemetry.
NoDanglingUse ==
    \A t \in Threads :
        /\ tpc[t] \in {"load", "record", "push", "deliver"} => RouterAlive
        /\ tpc[t] = "record" /\ tel_ptr[t] => "telemetry" \in held
        /\ tpc[t] = "push" => {"registry", "telemetry"} \subseteq held
        /\ tpc[t] = "deliver" => {"publisher", "telemetry"} \subseteq held
        /\ tpc[t] = "dispatch" => {"registry", "telemetry"} \subseteq held

\* When stop_pipeline() has returned, for a reload or before exit, nothing of the
\* old pipeline is left: no thread runs, no object lives.
NothingLeft ==
    mpc \in {"parse", "exit"} =>
        /\ \A t \in Threads : Idle(t)
        /\ held = {} /\ plugins = {} /\ script_threads = {}

\* stop_pipeline() returns: the joins of plugins, telemetry and scripts all end,
\* in the order the code takes them.
StopReturns == mpc = "stop" ~> mpc \in {"parse", "exit"}

\* A signal ends the program.
SignalEnds == ~g_running ~> Ended
=============================================================================
