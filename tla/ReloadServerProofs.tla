------------------------- MODULE ReloadServerProofs -------------------------
(***************************************************************************)
(* Proofs about ReloadServer, for any number of plugins, changes and       *)
(* seconds, with exact or inexact modification times.                      *)
(***************************************************************************)
EXTENDS ReloadServer, TLAPS

\* A file was changed no more often than files were changed in all; without this the
\* bound on the versions would not be known to hold.
Edited == \A f \in Files : version[f] <= edits

TypeInv == TypeOK /\ Edited

\* get_file_mtime() returns a time of the model.
LEMMA FileMtimeType ==
    ASSUME TypeOK, NEW f \in Files
    PROVE  FileMtime(f) \subseteq Times
<1>1. \A j \in 0..Jitter : mtime[f] + j \in Times
    BY BoundsAssumption DEF TypeOK, Times
<1>2. 0 \in Times
    BY BoundsAssumption DEF Times
<1> QED
    BY <1>1, <1>2 DEF FileMtime

\* Initially the files are unchanged and nothing runs.
LEMMA TypeInit == Init => TypeInv
<1> SUFFICES ASSUME Init PROVE TypeInv
    OBVIOUS
<1> USE BoundsAssumption
<1>1. clock \in 1..MaxClock /\ edits \in 0..MaxEdits /\ config_mtime \in Times
    BY DEF Init, Times
<1>2. /\ version \in [Files -> 0..MaxEdits]
      /\ loaded \in [Files -> 0..MaxEdits]
      /\ seen \in [Files -> 0..MaxEdits]
    BY DEF Init
<1>3. mtime \in [Files -> 1..MaxClock]
    BY DEF Init
<1>4. plugin_mtimes \in [Plugins -> Times]
    BY DEF Init, NoTime, Times
<1>5. Edited
    BY DEF Init, Edited
<1>6. malformed \in BOOLEAN /\ g_running \in BOOLEAN /\ g_reload_requested \in BOOLEAN
    BY Zenon DEF Init
<1> QED
    BY <1>1, <1>2, <1>3, <1>4, <1>5, <1>6 DEF Init, TypeInv, TypeOK

\* The file system and main() preserve the types.
LEMMA MainTypeStep ==
    TypeInv /\ (Tick \/ (\E f \in Files : Change(f)) \/ Main \/ Signal) => TypeInv'
<1> SUFFICES ASSUME TypeInv, Tick \/ (\E f \in Files : Change(f)) \/ Main \/ Signal
             PROVE  TypeInv'
    OBVIOUS
<1> USE BoundsAssumption DEF TypeInv, TypeOK, Edited, fileVars, mainVars, monVars
<1>1. CASE Tick
    BY <1>1 DEF Tick
<1>2. ASSUME NEW f \in Files, Change(f) PROVE TypeInv'
    <2>1. version' \in [Files -> 0..MaxEdits] /\ edits' \in 0..MaxEdits /\ Edited'
        BY <1>2 DEF Change
    <2>2. mtime' \in [Files -> 1..MaxClock]
        BY <1>2 DEF Change
    <2>3. present' \subseteq Files /\ listed' \subseteq Plugins /\ malformed' \in BOOLEAN
        BY <1>2 DEF Change
    <2> QED
        BY <1>2, <2>1, <2>2, <2>3 DEF Change
<1>3. CASE Parse
    BY <1>3 DEF Parse, Files
<1>4. ASSUME NEW p \in Plugins, LoadPlugin(p) PROVE TypeInv'
    BY <1>4 DEF LoadPlugin, Files
<1>5. CASE Started
    BY <1>5 DEF Started
<1>6. CASE Wake \/ Stop \/ Loop \/ Shutdown \/ JoinMonitor \/ Signal
    <2>1. CASE Wake \/ Stop \/ Loop
        BY <2>1 DEF Wake, Stop, Loop
    <2>2. CASE Shutdown
        BY <2>2 DEF Shutdown
    <2>3. CASE JoinMonitor
        BY <2>3 DEF JoinMonitor
    <2>4. CASE Signal
        BY <2>4 DEF Signal
    <2> QED
        BY <1>6, <2>1, <2>2, <2>3, <2>4
<1>7. CASE Exchange
    BY <1>7 DEF Exchange
<1> QED
    BY <1>1, <1>2, <1>3, <1>4, <1>5, <1>6, <1>7 DEF Main

\* So does the monitor.
LEMMA MonitorTypeStep == TypeInv /\ Monitor => TypeInv'
<1> SUFFICES ASSUME TypeInv, Monitor PROVE TypeInv'
    OBVIOUS
<1>1. Config \in Files /\ Plugins \subseteq Files
    BY DEF Files
<1>2. \A f \in Files : FileMtime(f) \subseteq Times
    BY FileMtimeType DEF TypeInv
<1> USE <1>1, <1>2 DEF TypeInv, TypeOK, Edited, fileVars, mainVars, monVars
<1>3. CASE GetPaths
    BY <1>3 DEF GetPaths, PathsNow
<1>4. CASE Rebase
    BY <1>4 DEF Rebase
<1>5. CASE BaseConfig
    BY <1>5 DEF BaseConfig
<1>6. CASE Poll
    BY <1>6 DEF Poll
<1>7. CASE PollConfig
    BY <1>7 DEF PollConfig
<1>8. CASE PollPlugins
    <2>1. ASSUME NEW p \in Plugins, NEW t \in FileMtime(p),
                 plugin_mtimes' = [plugin_mtimes EXCEPT ![p] = t],
                 seen' = [seen EXCEPT ![p] = version[p]]
          PROVE  plugin_mtimes' \in [Plugins -> Times] /\ seen' \in [Files -> 0..MaxEdits]
        BY <2>1
    <2>2. plugin_mtimes' \in [Plugins -> Times] /\ seen' \in [Files -> 0..MaxEdits]
        BY <1>8, <2>1 DEF PollPlugins
    <2> QED
        BY <1>8, <2>2 DEF PollPlugins
<1> QED
    BY <1>3, <1>4, <1>5, <1>6, <1>7, <1>8 DEF Monitor

\* Every step preserves the types.
LEMMA TypeStep == TypeInv /\ [Next]_vars => TypeInv'
<1>1. ASSUME TypeInv, UNCHANGED vars PROVE TypeInv'
    BY <1>1 DEF TypeInv, TypeOK, Edited, vars, fileVars, mainVars, monVars
<1> QED
    BY <1>1, MainTypeStep, MonitorTypeStep DEF Next

\* Every variable keeps its type: no modification time, version or path from outside
\* the files there are ever gets into the monitor's tables.
THEOREM TypeCorrect == Spec => []TypeOK
<1>1. TypeInv => TypeOK
    BY DEF TypeInv
<1> QED
    BY <1>1, TypeInit, TypeStep, PTL DEF Spec

-----------------------------------------------------------------------------
(* A detected change is loaded.                                            *)

\* The monitor never notices a version that does not exist yet.
SeenExists == \A f \in Files : seen[f] <= version[f]

ReloadInv == TypeInv /\ SeenExists /\ DetectedIsLoaded

\* The monitor raises the flag in the step in which it notices a change.
LEMMA MonitorStep == ReloadInv /\ Monitor => ReloadInv'
<1> SUFFICES ASSUME ReloadInv, Monitor PROVE ReloadInv'
    OBVIOUS
<1>1. TypeInv'
    BY MonitorTypeStep DEF ReloadInv
<1>2. Config \in Files /\ Plugins \subseteq Files
    BY DEF Files
<1> USE <1>1, <1>2 DEF ReloadInv, TypeInv, TypeOK, SeenExists, DetectedIsLoaded, NotReloading,
                       fileVars, mainVars, monVars
<1>3. CASE GetPaths \/ Rebase \/ BaseConfig \/ Poll
    BY <1>3 DEF GetPaths, Rebase, BaseConfig, Poll
<1>4. CASE PollConfig
    BY <1>4 DEF PollConfig
<1>5. CASE PollPlugins
    BY <1>5 DEF PollPlugins
<1> QED
    BY <1>3, <1>4, <1>5 DEF Monitor

\* main() clears the flag only on the way to reading every file again, and what it
\* reads then is at least what the monitor has noticed by then.
LEMMA MainStep == ReloadInv /\ Main => ReloadInv'
<1> SUFFICES ASSUME ReloadInv, Main PROVE ReloadInv'
    OBVIOUS
<1>1. TypeInv'
    BY MainTypeStep DEF ReloadInv
<1>2. Config \in Files /\ Plugins \subseteq Files
    BY DEF Files
<1> USE <1>1, <1>2, FilesAssumption
        DEF ReloadInv, TypeInv, TypeOK, SeenExists, DetectedIsLoaded, NotReloading, fileVars, monVars
<1>3. CASE Parse
    BY <1>3 DEF Parse
<1>4. ASSUME NEW p \in Plugins, LoadPlugin(p) PROVE ReloadInv'
    <2>1. /\ loaded'[p] = version[p]
          /\ \A f \in Files \ {p} : loaded'[f] = loaded[f]
          /\ paths' \subseteq paths
        BY <1>4 DEF LoadPlugin
    <2> QED
        BY <1>4, <2>1 DEF LoadPlugin
<1>5. CASE Started
    BY <1>5 DEF Started
<1>6. CASE Wake \/ Stop \/ Loop \/ Shutdown \/ JoinMonitor
    BY <1>6 DEF Wake, Stop, Loop, Shutdown, JoinMonitor
<1>7. CASE Exchange
    BY <1>7 DEF Exchange
<1> QED
    BY <1>3, <1>4, <1>5, <1>6, <1>7 DEF Main

\* Every step preserves that a detected change is loaded or about to be.
LEMMA ReloadStep == ReloadInv /\ [Next]_vars => ReloadInv'
<1> SUFFICES ASSUME ReloadInv, [Next]_vars PROVE ReloadInv'
    OBVIOUS
<1>1. TypeInv'
    BY TypeStep DEF ReloadInv
<1> USE <1>1 DEF ReloadInv, TypeInv, TypeOK, SeenExists, DetectedIsLoaded, NotReloading,
                 fileVars, mainVars, monVars
<1>2. CASE Tick \/ Signal \/ UNCHANGED vars
    BY <1>2 DEF Tick, Signal, vars
<1>3. ASSUME NEW f \in Files, Change(f) PROVE ReloadInv'
    <2>1. \A g \in Files : version'[g] >= version[g]
        BY <1>3 DEF Change
    <2> QED
        BY <1>3, <2>1 DEF Change
<1> QED
    BY <1>2, <1>3, MonitorStep, MainStep DEF Next

\* However the monitor's flag races with the exchange in main(), the running pipeline
\* was built from every change the monitor has noticed, or a reload is ahead.
THEOREM DetectedCorrect == Spec => []DetectedIsLoaded
<1>1. Init => ReloadInv
    <2> SUFFICES ASSUME Init PROVE ReloadInv
        OBVIOUS
    <2>1. \A f \in Files : seen[f] = 0 /\ version[f] = 0 /\ loaded[f] = 0
        BY DEF Init
    <2> QED
        BY <2>1, TypeInit DEF ReloadInv, SeenExists, DetectedIsLoaded
<1>2. ReloadInv => DetectedIsLoaded
    BY DEF ReloadInv
<1> QED
    BY <1>1, <1>2, ReloadStep, PTL DEF Spec
=============================================================================
