---------------------------- MODULE ReloadServer ----------------------------
(***************************************************************************)
(* server/main.cpp: main()'s loop and the reload_monitor() thread, the two *)
(* globals between them, and the files they watch.  The pipeline itself is *)
(* abstracted to the versions of the files it was built from (module       *)
(* Pipeline has start_pipeline and stop_pipeline).                         *)
(*                                                                         *)
(* Time is counted in seconds because get_file_mtime() returns a time_t.   *)
(* It computes ftime - file_clock::now() + system_clock::now(), two clock  *)
(* readings, so the second it returns may be one too late.                 *)
(***************************************************************************)
EXTENDS Naturals

CONSTANTS
    Plugins,        \* paths of plugin files
    Config,         \* path of the configuration file
    MaxClock,       \* bound: seconds that pass
    MaxEdits,       \* bound: changes of files
    EditGap,        \* seconds between two changes of one file, at least
    Jitter,         \* how far get_file_mtime() may be off, 0 or 1
    Quiet           \* no file changes while the monitor records its baseline

Files == Plugins \cup {Config}

ASSUME FilesAssumption == Config \notin Plugins /\ Plugins # {}
ASSUME BoundsAssumption ==
    /\ MaxClock \in Nat \ {0}
    /\ MaxEdits \in Nat
    /\ EditGap \in 0..(MaxClock - 1)
    /\ Jitter \in 0..1
    /\ Quiet \in BOOLEAN

VARIABLES
    \* the file system
    clock,
    version,            \* how often each file was changed
    mtime,              \* time of the last change
    present,            \* files that exist
    listed,             \* plugins the configuration file names
    malformed,          \* the configuration file does not parse
    edits,
    \* main()
    mpc,
    paths,              \* plugins named by the configuration it parsed
    todo,               \* plugins yet to load
    loaded,             \* the version of each file it last used
    g_running,
    g_reload_requested,
    \* reload_monitor()
    rpc,
    plugin_paths,
    plugin_mtimes,      \* the map, NoTime for a path that is not in it
    config_mtime,
    seen                \* history: the version of each file at its last detected change

fileVars == <<clock, version, mtime, present, listed, malformed, edits>>
mainVars == <<mpc, paths, todo, loaded>>
monVars == <<rpc, plugin_paths, plugin_mtimes, config_mtime, seen>>
vars == <<fileVars, mainVars, g_running, g_reload_requested, monVars>>

NoTime == MaxClock + 2
Times == 0..(MaxClock + 2)

\* get_file_mtime(): 0 on any error.
FileMtime(f) == IF f \in present THEN {mtime[f] + j : j \in 0..Jitter} ELSE {0}

-----------------------------------------------------------------------------
\* The files were last changed EditGap seconds ago.
Init ==
    /\ clock = 1 + EditGap
    /\ version = [f \in Files |-> 0]
    /\ mtime = [f \in Files |-> 1]
    /\ present = Files
    /\ listed = Plugins
    /\ malformed = FALSE
    /\ edits = 0
    /\ mpc = "parse"
    /\ paths = {}
    /\ todo = {}
    /\ loaded = [f \in Files |-> 0]
    /\ g_running = TRUE
    /\ g_reload_requested = FALSE
    /\ rpc = "none"
    /\ plugin_paths = {}
    /\ plugin_mtimes = [p \in Plugins |-> NoTime]
    /\ config_mtime = 0
    /\ seen = [f \in Files |-> 0]

-----------------------------------------------------------------------------
(* The file system.                                                        *)

Tick ==
    /\ clock < MaxClock
    /\ clock' = clock + 1
    /\ UNCHANGED <<version, mtime, present, listed, malformed, edits, mainVars, g_running,
                   g_reload_requested, monVars>>

\* The monitor is recording modification times it will compare with later.
TakingBaseline == rpc \in {"none", "paths", "base_plugins", "base_config", "repaths", "rebase"}

\* Someone replaces or removes a file; a new configuration may name other plugins,
\* or not parse (it may be half written).
Change(f) ==
    /\ edits < MaxEdits
    /\ clock >= mtime[f] + EditGap
    /\ Quiet => ~TakingBaseline
    /\ edits' = edits + 1
    /\ version' = [version EXCEPT ![f] = @ + 1]
    /\ mtime' = [mtime EXCEPT ![f] = clock]
    /\ \/ present' = present \ {f} /\ UNCHANGED <<listed, malformed>>
       \/ /\ present' = present \cup {f}
          /\ \/ f # Config /\ UNCHANGED <<listed, malformed>>
             \/ f = Config /\ malformed' = FALSE /\ listed' \in SUBSET Plugins
             \/ f = Config /\ malformed' = TRUE /\ UNCHANGED listed
    /\ UNCHANGED <<clock, mainVars, g_running, g_reload_requested, monVars>>

-----------------------------------------------------------------------------
(* main()                                                                  *)

\* config::parse throws when the file cannot be opened or is malformed.
Parses == Config \in present /\ ~malformed

Parse ==
    /\ mpc = "parse"
    /\ loaded' = [loaded EXCEPT ![Config] = version[Config]]
    /\ \/ /\ Parses
          /\ paths' = listed
          /\ todo' = listed
          /\ mpc' = "load"
          /\ UNCHANGED g_running
       \/ /\ ~Parses
          /\ mpc' = IF rpc = "none" THEN "exit" ELSE "shutdown"
          /\ g_running' = FALSE
          /\ UNCHANGED <<paths, todo>>
    /\ UNCHANGED <<fileVars, g_reload_requested, monVars>>

\* start_pipeline(): dlopen of one plugin, whatever the file now is.
LoadPlugin(p) ==
    /\ mpc = "load"
    /\ p \in todo
    /\ todo' = todo \ {p}
    /\ loaded' = [loaded EXCEPT ![p] = version[p]]
    /\ paths' = IF p \in present THEN paths ELSE paths \ {p}
    /\ UNCHANGED <<fileVars, mpc, g_running, g_reload_requested, monVars>>

\* Faulty Started: the request is cleared again once the new pipeline is up.
StartedClears ==
    /\ mpc = "load"
    /\ todo = {}
    /\ paths # {}
    /\ mpc' = "wait"
    /\ rpc' = IF rpc = "none" THEN "paths" ELSE rpc
    /\ g_reload_requested' = FALSE
    /\ UNCHANGED <<fileVars, paths, todo, loaded, g_running, plugin_paths, plugin_mtimes,
                   config_mtime, seen>>

\* start_pipeline() returns, or throws because no plugin was loaded.  The first
\* start is followed by the monitor thread.
Started ==
    /\ mpc = "load"
    /\ todo = {}
    /\ \/ /\ paths # {}
          /\ mpc' = "wait"
          /\ rpc' = IF rpc = "none" THEN "paths" ELSE rpc
          /\ UNCHANGED g_running
       \/ /\ paths = {}
          /\ mpc' = IF rpc = "none" THEN "exit" ELSE "shutdown"
          /\ g_running' = FALSE
          /\ UNCHANGED rpc
    /\ UNCHANGED <<fileVars, paths, todo, loaded, g_reload_requested, plugin_paths, plugin_mtimes,
                   config_mtime, seen>>

\* wait_for() returns after a notification or 500 ms; then g_running is checked.
Wake ==
    /\ mpc = "wait"
    /\ mpc' = IF g_running THEN "exchange" ELSE "shutdown"
    /\ UNCHANGED <<fileVars, paths, todo, loaded, g_running, g_reload_requested, monVars>>

\* g_reload_requested.exchange(false)
Exchange ==
    /\ mpc = "exchange"
    /\ g_reload_requested' = FALSE
    /\ mpc' = IF g_reload_requested THEN "stop" ELSE "loop"
    /\ UNCHANGED <<fileVars, paths, todo, loaded, g_running, monVars>>

\* stop_pipeline()
Stop ==
    /\ mpc = "stop"
    /\ mpc' = "parse"
    /\ UNCHANGED <<fileVars, paths, todo, loaded, g_running, g_reload_requested, monVars>>

\* while (g_running)
Loop ==
    /\ mpc = "loop"
    /\ mpc' = IF g_running THEN "wait" ELSE "shutdown"
    /\ UNCHANGED <<fileVars, paths, todo, loaded, g_running, g_reload_requested, monVars>>

\* g_running = false; join the monitor; stop_pipeline()
Shutdown ==
    /\ mpc = "shutdown"
    /\ g_running' = FALSE
    /\ mpc' = "join"
    /\ UNCHANGED <<fileVars, paths, todo, loaded, g_reload_requested, monVars>>

JoinMonitor ==
    /\ mpc = "join"
    /\ rpc = "done"
    /\ mpc' = "exit"
    /\ UNCHANGED <<fileVars, paths, todo, loaded, g_running, g_reload_requested, monVars>>

\* handle_signal
Signal ==
    /\ g_running
    /\ g_running' = FALSE
    /\ UNCHANGED <<fileVars, mainVars, g_reload_requested, monVars>>

-----------------------------------------------------------------------------
(* reload_monitor()                                                        *)

\* Faulty PathsNow: every section's path is collected, not only the ingestors'.
PathsNowAll == IF Parses THEN listed \cup {Config} ELSE {}

\* get_plugin_paths() parses the configuration for itself; an error means no paths.
PathsNow == IF Parses THEN listed ELSE {}

GetPaths ==
    /\ rpc \in {"paths", "repaths"}
    /\ plugin_paths' = PathsNow
    /\ rpc' = IF rpc = "paths" THEN "base_plugins" ELSE "rebase"
    /\ UNCHANGED <<fileVars, mainVars, g_running, g_reload_requested, plugin_mtimes,
                   config_mtime, seen>>

\* The map after a configuration was read: paths gone are erased, new ones
\* entered with the time their file has now, the others keep theirs.
Rebased(m) ==
    \A p \in Plugins :
        \/ p \notin plugin_paths /\ m[p] = NoTime
        \/ p \in plugin_paths /\ plugin_mtimes[p] # NoTime /\ m[p] = plugin_mtimes[p]
        \/ p \in plugin_paths /\ plugin_mtimes[p] = NoTime /\ m[p] \in FileMtime(p)

Rebase ==
    /\ rpc \in {"base_plugins", "rebase"}
    /\ \E m \in [Plugins -> Times] : Rebased(m) /\ plugin_mtimes' = m
    /\ rpc' = IF rpc = "base_plugins" THEN "base_config" ELSE "poll"
    /\ UNCHANGED <<fileVars, mainVars, g_running, g_reload_requested, plugin_paths,
                   config_mtime, seen>>

BaseConfig ==
    /\ rpc = "base_config"
    /\ config_mtime' \in FileMtime(Config)
    /\ rpc' = "poll"
    /\ UNCHANGED <<fileVars, mainVars, g_running, g_reload_requested, plugin_paths,
                   plugin_mtimes, seen>>

\* Faulty Poll: while (true).
PollForever ==
    /\ rpc = "poll"
    /\ rpc' = "config"
    /\ UNCHANGED <<fileVars, mainVars, g_running, g_reload_requested, plugin_paths,
                   plugin_mtimes, config_mtime, seen>>

\* while (g_running) { sleep 100 ms; ...
Poll ==
    /\ rpc = "poll"
    /\ rpc' = IF g_running THEN "config" ELSE "done"
    /\ UNCHANGED <<fileVars, mainVars, g_running, g_reload_requested, plugin_paths,
                   plugin_mtimes, config_mtime, seen>>

\* A changed configuration: raise the flag, then look up the plugins again.
PollConfig ==
    /\ rpc = "config"
    /\ \E t \in FileMtime(Config) :
          \/ /\ t # config_mtime
             /\ g_reload_requested' = TRUE
             /\ config_mtime' = t
             /\ seen' = [seen EXCEPT ![Config] = version[Config]]
             /\ rpc' = "repaths"
          \/ /\ t = config_mtime
             /\ rpc' = "plugins"
             /\ UNCHANGED <<g_reload_requested, config_mtime, seen>>
    /\ UNCHANGED <<fileVars, mainVars, g_running, plugin_paths, plugin_mtimes>>

\* Faulty PollPlugins: the new time is recorded and no reload requested.
PollPluginsSilent ==
    /\ rpc = "plugins"
    /\ rpc' = "poll"
    /\ \E m \in [Plugins -> Times] :
          /\ \A p \in Plugins : m[p] \in IF plugin_mtimes[p] = NoTime THEN {NoTime} ELSE FileMtime(p)
          /\ plugin_mtimes' = m
    /\ UNCHANGED <<fileVars, mainVars, g_running, g_reload_requested, plugin_paths, config_mtime, seen>>

\* The first changed plugin of the map raises the flag; the others wait for the
\* next round.
PollPlugins ==
    /\ rpc = "plugins"
    /\ rpc' = "poll"
    /\ \/ \E p \in Plugins : \E t \in FileMtime(p) :
             /\ plugin_mtimes[p] \notin {NoTime, t}
             /\ g_reload_requested' = TRUE
             /\ plugin_mtimes' = [plugin_mtimes EXCEPT ![p] = t]
             /\ seen' = [seen EXCEPT ![p] = version[p]]
       \/ /\ \A p \in Plugins :
                plugin_mtimes[p] = NoTime \/ plugin_mtimes[p] \in FileMtime(p)
          /\ UNCHANGED <<g_reload_requested, plugin_mtimes, seen>>
    /\ UNCHANGED <<fileVars, mainVars, g_running, plugin_paths, config_mtime>>

-----------------------------------------------------------------------------
Main ==
    \/ Parse
    \/ \E p \in Plugins : LoadPlugin(p)
    \/ Started
    \/ Wake
    \/ Exchange
    \/ Stop
    \/ Loop
    \/ Shutdown
    \/ JoinMonitor

Monitor == GetPaths \/ Rebase \/ BaseConfig \/ Poll \/ PollConfig \/ PollPlugins

Next ==
    \/ Tick
    \/ \E f \in Files : Change(f)
    \/ Main
    \/ Monitor
    \/ Signal
    \/ mpc = "exit" /\ UNCHANGED vars

Spec == Init /\ [][Next]_vars

\* Both threads run on: main() because its wait has a timeout, whether or not the
\* notification of the monitor or of the signal handler reached it.
LiveSpec == Spec /\ WF_vars(Main) /\ WF_vars(Monitor)

-----------------------------------------------------------------------------
(* Properties.                                                             *)

\* Every variable stays in its type.
TypeOK ==
    /\ clock \in 1..MaxClock
    /\ version \in [Files -> 0..MaxEdits]
    /\ mtime \in [Files -> 1..MaxClock]
    /\ present \subseteq Files
    /\ listed \subseteq Plugins
    /\ malformed \in BOOLEAN
    /\ edits \in 0..MaxEdits
    /\ mpc \in {"parse", "load", "wait", "exchange", "stop", "loop", "shutdown", "join", "exit"}
    /\ paths \subseteq Plugins
    /\ todo \subseteq Plugins
    /\ loaded \in [Files -> 0..MaxEdits]
    /\ g_running \in BOOLEAN
    /\ g_reload_requested \in BOOLEAN
    /\ rpc \in {"none", "paths", "base_plugins", "base_config", "poll", "config", "plugins",
                "repaths", "rebase", "done"}
    /\ plugin_paths \subseteq Plugins
    /\ plugin_mtimes \in [Plugins -> Times]
    /\ config_mtime \in Times
    /\ seen \in [Files -> 0..MaxEdits]

\* main() has no reload ahead of it that would still read file f.
NotReloading(f) ==
    \/ mpc \in {"wait", "exchange", "loop"}
    \/ mpc = "load" /\ f \notin todo

\* A change the monitor has noticed is not forgotten, however its flag races with
\* main(): the running pipeline was built from at least that version of the file,
\* or a reload that will read it is requested or under way.
DetectedIsLoaded ==
    \A f \in Files :
        g_running /\ NotReloading(f) /\ (f = Config \/ f \in paths)
            => g_reload_requested \/ loaded[f] >= seen[f]

\* Every change of the configuration, or of a plugin it names, ends up in the
\* running pipeline, unless the program ends.
EveryChangeLoaded ==
    \A f \in Files :
        loaded[f] < version[f] ~>
            \/ loaded[f] = version[f]
            \/ mpc = "exit"
            \/ f # Config /\ f \notin listed

\* A signal ends the program, whatever the monitor is doing.
SignalEnds == ~g_running ~> mpc = "exit"
=============================================================================
