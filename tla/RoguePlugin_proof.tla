------------------------- MODULE RoguePlugin_proof --------------------------
(***************************************************************************)
(* Proofs about RoguePlugin, for any number of reloads and any editions of *)
(* the game.  The composition implements the lifecycle taken by itself, so *)
(* the lifecycle's invariants are proved without the language and carried  *)
(* over.                                                                   *)
(***************************************************************************)
EXTENDS RoguePlugin, TLAPS

LifecycleStep == [LifecycleNext]_lifecycleVars

\* Every step of the composed plugin is a step of the lifecycle or leaves it
\* alone: what is proved of the lifecycle holds in the composition.
LEMMA StepsOfLifecycle == [PluginNext]_pluginVars => LifecycleStep
<1> SUFFICES ASSUME [PluginNext]_pluginVars PROVE LifecycleStep
  OBVIOUS
<1>1. CASE LifecycleAlone
  BY <1>1 DEF LifecycleAlone, InitAlone, WatcherAlone, LifecycleStep,
              LifecycleNext, InitThread, WatcherThread, LoaderThread
<1>2. CASE DetachPlugin
  BY <1>2 DEF DetachPlugin, LifecycleStep, LifecycleNext, LoaderThread
<1>3. CASE GameStartup \/ InstallLanguage \/ ReloadLanguage
  BY <1>3 DEF GameStartup, InstallLanguage, ReloadLanguage, LifecycleStep
<1>4. CASE InstallOthers
  BY <1>4 DEF InstallOthers, LifecycleStep, LifecycleNext, InitThread
<1>5. CASE BeginReload \/ ReloadOthers
  BY <1>5 DEF BeginReload, ReloadOthers, LifecycleStep, LifecycleNext,
              WatcherThread
<1>6. CASE UNCHANGED pluginVars
  BY <1>6 DEF pluginVars, LifecycleStep
<1> QED
  BY <1>1, <1>2, <1>3, <1>4, <1>5, <1>6 DEF PluginNext

-----------------------------------------------------------------------------
(* The lifecycle.                                                          *)

\* Outside a call of its two functions the flag tells how the period stands; in a
\* call, what is still to be done.
TimerExact ==
    /\ "raising" \in {init, watcher} => g_raised /\ periods = 0
    /\ "restoring" \in {init, watcher} => ~g_raised /\ periods = 1
    /\ {init, watcher} \intersect {"raising", "restoring"} = {}
         => periods = (IF g_raised THEN 1 ELSE 0)

\* The init thread and the watcher's are not both at work.
OneAtWork ==
    /\ watcher # "none" => init = "ended"
    /\ (watcher # "none" /\ loader \in {"running", "init", "watcher"}) => owned

NotLoaded ==
    loader = "out" => /\ init = "none" /\ watcher = "none"
                      /\ ~g_raised /\ periods = 0 /\ ~vmpHook
                      /\ journal = "none"

LogSafe ==
    loader \notin {"unmap", "gone"} =>
        /\ getting # "dead"
        /\ getting = "tested" => instance = "live"

Loaded == loader = "running" => TimerExact /\ journal \in {"none", "open"}

\* How far a detach has come that found everybody at rest.
BeforeStop == {"init", "watcher"}
BeforeVmp == BeforeStop \union {"exit?", "vmp"}
BeforeTimer == BeforeVmp \union {"timer"}
BeforeClean == BeforeTimer \union {"journal"}
BeforeClose == BeforeClean \union {"close"}
BeforeVeh == BeforeClose \union {"veh"}

QuietDetach ==
    (loader \notin {"out", "running", "exited"} /\ caught = {}) =>
        /\ init = "ended" /\ watcher \in {"none", "waiting", "ended"}
        /\ TimerExact
        /\ loader \notin BeforeStop =>
             watcher \in {"none", "ended"} \/ watchStop
        /\ loader \notin BeforeVmp => ~vmpHook
        /\ loader \notin BeforeTimer => ~g_raised
        /\ journal \in {"none", "open", "clean", "closed"}
        /\ loader \in BeforeClean => journal \in {"none", "open"}
        /\ loader = "close" => journal \in {"none", "clean"}
        /\ loader \notin BeforeClose => journal \in {"none", "closed"}
        /\ loader \notin BeforeVeh => ~veh
        /\ loader \in {"unmap", "gone"} => instance = "none" /\ getting = "out"

LifecycleInv ==
    /\ LifecycleTypeOK
    /\ OneAtWork
    /\ NotLoaded
    /\ LogSafe
    /\ Loaded
    /\ QuietDetach

LEMMA LifecycleInvInit == LifecycleInit => LifecycleInv
<1> SUFFICES ASSUME LifecycleInit PROVE LifecycleInv
  OBVIOUS
<1> USE DEF LifecycleInit
<1>1. LifecycleTypeOK
  <2>1. /\ exiting \in BOOLEAN /\ owned \in BOOLEAN
        /\ watchStop \in BOOLEAN /\ g_raised \in BOOLEAN /\ veh \in BOOLEAN
        /\ vmpHook \in BOOLEAN /\ blocked \in BOOLEAN
    BY Zenon
  <2>2. reloads \in 0 .. MaxReloads /\ periods \in Nat
    BY ReloadBound
  <2>3. /\ loader \in LoaderPlace /\ init \in InitPlace
        /\ watcher \in WatcherPlace
    BY Zenon DEF LoaderPlace, InitPlace, WatcherPlace
  <2> HIDE DEF LifecycleInit
  <2>4. /\ journal = "none" /\ instance = "none" /\ getting = "out"
        /\ caught = {} /\ holder = "free"
    BY Zenon DEF LifecycleInit
  <2> QED
    BY <2>1, <2>2, <2>3, <2>4 DEF LifecycleTypeOK, Holder
<1>2. OneAtWork /\ NotLoaded /\ LogSafe
  BY DEF OneAtWork, NotLoaded, LogSafe
<1>3. Loaded /\ QuietDetach
  BY DEF Loaded, QuietDetach
<1> QED
  BY <1>1, <1>2, <1>3 DEF LifecycleInv

\* What the two timer functions can leave of the flag and the period.
LEMMA TimerCallTypes ==
    ASSUME periods \in Nat, g_raised \in BOOLEAN, BeginPeriod \/ EndPeriod
    PROVE  periods' \in Nat /\ g_raised' \in BOOLEAN
<1>1. periods' \in Nat
  BY DEF BeginPeriod, EndPeriod
<1>2. g_raised' \in BOOLEAN
  BY Zenon DEF BeginPeriod, EndPeriod
<1> QED
  BY <1>1, <1>2

LEMMA InitThreadTypes == LifecycleTypeOK /\ InitThread => LifecycleTypeOK'
<1> SUFFICES ASSUME LifecycleTypeOK, InitThread PROVE LifecycleTypeOK'
  OBVIOUS
<1> USE DEF LifecycleTypeOK, stops, handles, logging, lock
<1>1. CASE InitStarts
  BY <1>1 DEF InitStarts, InitPlace, timer
<1>2. CASE InitInstallsVmp
  BY <1>2 DEF InitInstallsVmp, InitPlace, timer
<1>3. CASE InitWaits
  BY <1>3 DEF InitWaits, InitPlace, timer
<1>6. CASE InitOpensJournal
  BY <1>6 DEF InitOpensJournal, InitPlace, timer
<1>7. CASE InitLoadsDbghelp
  BY <1>7 DEF InitLoadsDbghelp, InitPlace, timer
<1>10. CASE InitFaults
  BY <1>10 DEF InitFaults, InitPlace, timer
<1>11. CASE InitGivesUp
  BY <1>11 DEF InitGivesUp, InitPlace, timer
<1>8. CASE InitCompletes
  BY <1>8 DEF InitCompletes, InitPlace, timer
<1>9. CASE InitCreatesWatcher
  BY <1>9 DEF InitCreatesWatcher, InitPlace, WatcherPlace, timer
<1>4. CASE InitInstalls
  <2>1. init' \in InitPlace /\ g_raised' \in BOOLEAN /\ periods' \in Nat
    <3>1. CASE ApplyFps(init, "complete") /\ UNCHANGED periods
      BY <3>1 DEF ApplyFps, InitPlace
    <3>2. CASE init' \in {"complete", "dbghelp", "ended"} /\ UNCHANGED timer
      BY <3>2 DEF InitPlace, timer
    <3> QED
      BY <1>4, <3>1, <3>2 DEF InitInstalls
  <2> QED
    BY <1>4, <2>1 DEF InitInstalls
<1>5. CASE InitEndsTimerCall
  <2>1. periods' \in Nat /\ g_raised' \in BOOLEAN
    BY <1>5, TimerCallTypes DEF InitEndsTimerCall
  <2> QED
    BY <1>5, <2>1 DEF InitEndsTimerCall, InitPlace
<1> QED
  BY <1>1, <1>2, <1>3, <1>4, <1>5, <1>6, <1>7, <1>8, <1>9,
     <1>10, <1>11 DEF InitThread

LEMMA WatcherThreadTypes == LifecycleTypeOK /\ WatcherThread => LifecycleTypeOK'
<1> SUFFICES ASSUME LifecycleTypeOK, WatcherThread PROVE LifecycleTypeOK'
  OBVIOUS
<1> USE DEF LifecycleTypeOK, stops, handles, logging, lock
<1>1. CASE WatcherWakes
  <2>1. reloads' \in 0 .. MaxReloads
    BY <1>1, ReloadBound DEF WatcherWakes
  <2>2. caught' \subseteq Threads
    BY <1>1 DEF WatcherWakes, Threads
  <2> QED
    BY <1>1, <2>1, <2>2 DEF WatcherWakes, WatcherPlace, timer
<1>2. CASE WatcherReloads
  <2>1. watcher' \in WatcherPlace /\ g_raised' \in BOOLEAN
    BY <1>2 DEF WatcherReloads, ApplyFps, WatcherPlace
  <2> QED
    BY <1>2, <2>1 DEF WatcherReloads
<1>3. CASE WatcherEndsTimerCall
  <2>1. periods' \in Nat /\ g_raised' \in BOOLEAN
    BY <1>3, TimerCallTypes DEF WatcherEndsTimerCall
  <2> QED
    BY <1>3, <2>1 DEF WatcherEndsTimerCall, WatcherPlace
<1>4. CASE WatcherEnds
  BY <1>4 DEF WatcherEnds, WatcherPlace, timer
<1> QED
  BY <1>1, <1>2, <1>3, <1>4 DEF WatcherThread

LEMMA DetachTypes == LifecycleTypeOK /\ Detach => LifecycleTypeOK'
<1> SUFFICES ASSUME LifecycleTypeOK, Detach PROVE LifecycleTypeOK'
  OBVIOUS
<1> USE DEF LifecycleTypeOK, LoaderStep, LoaderPlace, Detaching, stops, handles,
            logging, lock
<1>1. CASE StopInit
  BY <1>1 DEF StopInit, timer
<1>7. CASE LeaveOnExit
  BY <1>7 DEF LeaveOnExit, timer
<1>8. CASE UninstallVmp
  BY <1>8 DEF UninstallVmp, timer
<1>2. CASE StopWatcher
  <2>1. watchStop' \in BOOLEAN
    BY <1>2 DEF StopWatcher
  <2> QED
    BY <1>2, <2>1 DEF StopWatcher, timer
<1>3. CASE RestoreTimer
  <2>1. periods' \in Nat
    BY <1>3 DEF RestoreTimer
  <2> QED
    BY <1>3, <2>1 DEF RestoreTimer
<1>4. CASE WriteClean
  BY <1>4 DEF WriteClean, timer
<1>9. CASE CloseJournal
  BY <1>9 DEF CloseJournal, timer
<1>5. CASE UninstallVeh
  BY <1>5 DEF UninstallVeh, timer
<1>6. CASE ShutdownLog
  <2>1. caught' \subseteq Threads
    BY <1>6 DEF ShutdownLog, Threads
  <2> QED
    BY <1>6, <2>1 DEF ShutdownLog, timer
<1>10. CASE Unmap
  BY <1>10 DEF Unmap, timer
<1> QED
  BY <1>1, <1>2, <1>3, <1>4, <1>5, <1>6, <1>7, <1>8, <1>9, <1>10 DEF Detach

\* What a thread of the game does in log::get leaves the rest alone.
LEMMA GameThreadFrame ==
    ASSUME GameThread
    PROVE  UNCHANGED <<loader, exiting, init, watcher, owned, watchStop,
                       reloads, g_raised, periods, veh, vmpHook, journal,
                       instance, caught>>
BY DEF GameThread, TestInstance, LockInstance, stops, handles, timer

\* A log call changes nothing but who holds the lock.
LEMMA LogCallsFrame ==
    ASSUME LogCalls
    PROVE  UNCHANGED <<loader, exiting, init, watcher, owned, watchStop, reloads,
                       g_raised, periods, veh, vmpHook, journal, instance,
                       getting, caught>>
BY DEF LogCalls, TakeLog, ReleaseLog, stops, handles, timer

LEMMA LifecycleTypeStep == LifecycleTypeOK /\ LifecycleStep => LifecycleTypeOK'
<1> SUFFICES ASSUME LifecycleTypeOK, LifecycleStep PROVE LifecycleTypeOK'
  OBVIOUS
<1>1. CASE GameThread
  <2>1. holder' \in Holder /\ getting' \in {"out", "tested", "dead"}
    BY <1>1 DEF LifecycleTypeOK, GameThread, TestInstance, LockInstance, lock,
       Holder, Threads
  <2>2. UNCHANGED blocked
    BY <1>1 DEF GameThread, TestInstance, LockInstance, lock
  <2> QED
    BY <1>1, <2>1, <2>2, GameThreadFrame DEF LifecycleTypeOK
<1>5. CASE LogCalls
  <2>1. holder' \in Holder /\ blocked' \in BOOLEAN
    BY <1>5 DEF LogCalls, TakeLog, ReleaseLog, Holder
  <2> QED
    BY <1>5, <2>1, LogCallsFrame DEF LifecycleTypeOK
<1>2. CASE Attach
  BY <1>2 DEF LifecycleTypeOK, Attach, LoaderPlace, InitPlace, stops, timer,
              logging, lock
<1>3. CASE \E exit \in BOOLEAN : BeginDetach(exit)
  <2> PICK exit \in BOOLEAN : BeginDetach(exit)
    BY <1>3
  <2>1. caught' \subseteq Threads
    BY DEF BeginDetach, Threads
  <2>2. holder' \in Holder /\ blocked' \in BOOLEAN
    BY DEF LifecycleTypeOK, BeginDetach, Holder
  <2> QED
    BY <2>1, <2>2 DEF LifecycleTypeOK, BeginDetach, LoaderPlace, Detaching, stops,
                timer, handles
<1>4. CASE UNCHANGED lifecycleVars
  BY <1>4 DEF LifecycleTypeOK, lifecycleVars, stops, timer, handles, logging, lock
<1> QED
  BY <1>1, <1>2, <1>3, <1>4, <1>5, InitThreadTypes, WatcherThreadTypes, DetachTypes
     DEF LifecycleStep, LifecycleNext, LoaderThread

\* What a step of the init thread, outside a timer call, leaves alone.
LEMMA InitThreadFrame ==
    ASSUME InitThread
    PROVE  /\ UNCHANGED <<loader, exiting, watchStop, reloads, veh,
                          getting, caught>>
           /\ ~exiting /\ loader # "gone" /\ init \notin {"none", "ended"}
           /\ UNCHANGED <<watcher, owned>> \/ InitCreatesWatcher
           /\ \/ InitInstalls \/ InitEndsTimerCall
              \/ /\ UNCHANGED <<g_raised, periods>>
                 /\ init \notin {"raising", "restoring"}
                 /\ init' \notin {"raising", "restoring"}
           /\ UNCHANGED journal \/ InitOpensJournal
           /\ UNCHANGED instance \/ instance' = "live"
<1> USE DEF InitStep, InitRuns, OthersRun, stops, handles, logging, timer
<1>1. CASE InitStarts
  BY <1>1 DEF InitStarts
<1>2. CASE InitInstallsVmp
  BY <1>2 DEF InitInstallsVmp
<1>3. CASE InitWaits
  BY <1>3 DEF InitWaits
<1>4. CASE InitOpensJournal
  BY <1>4 DEF InitOpensJournal
<1>5. CASE InitInstalls
  BY <1>5 DEF InitInstalls
<1>6. CASE InitLoadsDbghelp
  BY <1>6 DEF InitLoadsDbghelp
<1>7. CASE InitEndsTimerCall
  BY <1>7 DEF InitEndsTimerCall
<1>8. CASE InitCompletes
  BY <1>8 DEF InitCompletes
<1>9. CASE InitCreatesWatcher
  BY <1>9 DEF InitCreatesWatcher
<1>10. CASE InitFaults
  BY <1>10 DEF InitFaults
<1>11. CASE InitGivesUp
  BY <1>11 DEF InitGivesUp
<1> QED
  BY <1>1, <1>2, <1>3, <1>4, <1>5, <1>6, <1>7, <1>8, <1>9, <1>10, <1>11
     DEF InitThread

LEMMA WatcherThreadFrame ==
    ASSUME WatcherThread
    PROVE  /\ UNCHANGED <<loader, exiting, init, owned, watchStop, veh,
                          vmpHook, journal, instance, getting>>
           /\ ~exiting /\ watcher # "none" /\ watcher' # "none"
<1> USE DEF WatcherRuns, OthersRun, stops, handles, logging, timer
<1>1. CASE WatcherWakes
  BY <1>1 DEF WatcherWakes
<1>2. CASE WatcherReloads
  BY <1>2 DEF WatcherReloads, ApplyFps
<1>3. CASE WatcherEndsTimerCall
  BY <1>3 DEF WatcherEndsTimerCall
<1>4. CASE WatcherEnds
  BY <1>4 DEF WatcherEnds
<1> QED
  BY <1>1, <1>2, <1>3, <1>4 DEF WatcherThread

LEMMA DetachFrame ==
    ASSUME Detach
    PROVE  /\ loader \in Detaching
           /\ loader' \in {"watcher", "exit?", "exited", "vmp", "timer", "journal",
                           "close", "veh", "log", "unmap", "gone"}
           /\ UNCHANGED <<init, watcher, getting>>
           /\ loader = "log" \/ UNCHANGED instance
           /\ loader' = "exit?" \/ UNCHANGED owned
           /\ loader' = "watcher" => loader = "init"
           /\ loader = "unmap" <=> loader' = "gone"
<1> USE DEF LoaderStep, Detaching, stops, handles, logging, timer
<1>1. CASE StopInit
  BY <1>1 DEF StopInit
<1>2. CASE StopWatcher
  BY <1>2 DEF StopWatcher
<1>3. CASE LeaveOnExit
  BY <1>3 DEF LeaveOnExit
<1>4. CASE UninstallVmp
  BY <1>4 DEF UninstallVmp
<1>5. CASE RestoreTimer
  BY <1>5 DEF RestoreTimer
<1>6. CASE WriteClean
  BY <1>6 DEF WriteClean
<1>7. CASE CloseJournal
  BY <1>7 DEF CloseJournal
<1>8. CASE UninstallVeh
  BY <1>8 DEF UninstallVeh
<1>9. CASE ShutdownLog
  BY <1>9 DEF ShutdownLog
<1>10. CASE Unmap
  BY <1>10 DEF Unmap
<1> QED
  BY <1>1, <1>2, <1>3, <1>4, <1>5, <1>6, <1>7, <1>8, <1>9, <1>10 DEF Detach

\* The watcher comes after init_game's other steps and is owned until it is told
\* to stop.
LEMMA OneAtWorkStep == LifecycleInv /\ LifecycleStep => OneAtWork'
<1> SUFFICES ASSUME LifecycleInv, LifecycleStep PROVE OneAtWork'
  OBVIOUS
<1> USE DEF LifecycleInv, OneAtWork
<1>1. CASE InitThread
  <2>1. CASE InitCreatesWatcher
    BY <2>1 DEF InitCreatesWatcher
  <2>2. CASE UNCHANGED <<watcher, owned>>
    BY <1>1, <2>2, InitThreadFrame
  <2> QED
    BY <1>1, <2>1, <2>2, InitThreadFrame
<1>2. CASE WatcherThread
  BY <1>2, WatcherThreadFrame
<1>3. CASE GameThread
  BY <1>3, GameThreadFrame
<1>4. CASE Attach
  BY <1>4 DEF Attach, NotLoaded
<1>5. CASE \E exit \in BOOLEAN : BeginDetach(exit)
  BY <1>5 DEF BeginDetach, stops
<1>6. CASE Detach
  BY <1>6, DetachFrame
<1>7. CASE UNCHANGED lifecycleVars
  BY <1>7 DEF lifecycleVars, stops
<1>8. CASE LogCalls
  BY <1>8, LogCallsFrame
<1> QED
  BY <1>1, <1>2, <1>3, <1>4, <1>5, <1>6, <1>7, <1>8
     DEF LifecycleStep, LifecycleNext, LoaderThread

LEMMA NotLoadedStep == LifecycleInv /\ LifecycleStep => NotLoaded'
<1> SUFFICES ASSUME LifecycleInv, LifecycleStep PROVE NotLoaded'
  OBVIOUS
<1> USE DEF LifecycleInv, NotLoaded
<1>1. CASE InitThread
  BY <1>1, InitThreadFrame
<1>2. CASE WatcherThread
  BY <1>2, WatcherThreadFrame
<1>3. CASE GameThread
  BY <1>3, GameThreadFrame
<1>4. CASE LoaderThread
  <2>1. loader' # "out"
    BY <1>4, DetachFrame DEF LoaderThread, Attach, BeginDetach
  <2> QED
    BY <2>1
<1>5. CASE UNCHANGED lifecycleVars
  BY <1>5 DEF lifecycleVars, timer, handles
<1>6. CASE LogCalls
  BY <1>6, LogCallsFrame
<1> QED
  BY <1>1, <1>2, <1>3, <1>4, <1>5, <1>6 DEF LifecycleStep, LifecycleNext

\* The log lives as long as DllMain has not come to its end.
LEMMA LogSafeStep == LifecycleInv /\ LifecycleStep => LogSafe'
<1> SUFFICES ASSUME LifecycleInv, LifecycleStep PROVE LogSafe'
  OBVIOUS
<1> USE DEF LifecycleInv, LogSafe
<1>1. CASE InitThread
  BY <1>1, InitThreadFrame
<1>2. CASE WatcherThread
  BY <1>2, WatcherThreadFrame
<1>3. CASE GameThread
  <2>1. CASE TestInstance
    BY <2>1 DEF TestInstance, LifecycleTypeOK
  <2>2. CASE LockInstance
    BY <2>2 DEF LockInstance
  <2> QED
    BY <1>3, <2>1, <2>2 DEF GameThread
<1>4. CASE Attach \/ \E exit \in BOOLEAN : BeginDetach(exit)
  BY <1>4 DEF Attach, BeginDetach, logging
<1>5. CASE Detach
  <2>1. CASE ShutdownLog \/ Unmap
    BY <2>1 DEF ShutdownLog, Unmap, LoaderStep
  <2>2. CASE ~ShutdownLog /\ ~Unmap
    <3>1. loader \notin {"log", "unmap"}
      BY <1>5, <2>2 DEF Detach, StopInit, StopWatcher, LeaveOnExit, UninstallVmp,
         RestoreTimer, WriteClean, CloseJournal, UninstallVeh, LoaderStep
    <3> QED
      BY <1>5, <3>1, DetachFrame DEF Detaching
  <2> QED
    BY <2>1, <2>2
<1>6. CASE UNCHANGED lifecycleVars
  BY <1>6 DEF lifecycleVars, logging
<1>7. CASE LogCalls
  BY <1>7, LogCallsFrame
<1> QED
  BY <1>1, <1>2, <1>3, <1>4, <1>5, <1>6, <1>7
     DEF LifecycleStep, LifecycleNext, LoaderThread

\* The flag and the period, when the init thread is the only one at work.
LEMMA InitKeepsTimer ==
    ASSUME LifecycleTypeOK, TimerExact, watcher = "none", InitThread
    PROVE  watcher' # "none" \/ TimerExact'
<1> USE DEF TimerExact
<1>1. CASE InitInstalls
  <2>1. UNCHANGED watcher /\ init = "install"
    BY <1>1 DEF InitInstalls, InitStep
  <2>2. CASE ApplyFps(init, "complete") /\ UNCHANGED periods
    BY <2>1, <2>2 DEF ApplyFps, LifecycleTypeOK
  <2>3. CASE init' \in {"complete", "dbghelp", "ended"} /\ UNCHANGED timer
    BY <2>1, <2>3 DEF timer
  <2> QED
    BY <1>1, <2>2, <2>3 DEF InitInstalls
<1>2. CASE InitEndsTimerCall
  BY <1>2 DEF InitEndsTimerCall, BeginPeriod, EndPeriod
<1>3. CASE ~InitInstalls /\ ~InitEndsTimerCall
  <2>1. /\ UNCHANGED <<g_raised, periods>>
        /\ init \notin {"raising", "restoring"}
        /\ init' \notin {"raising", "restoring"}
    BY <1>3, InitThreadFrame
  <2>2. SUFFICES ASSUME watcher' = "none" PROVE TimerExact'
    OBVIOUS
  <2> QED
    BY <2>1, <2>2
<1> QED
  BY <1>1, <1>2, <1>3

\* The same for the watcher's thread.
LEMMA WatcherKeepsTimer ==
    ASSUME LifecycleTypeOK, TimerExact, init = "ended", WatcherThread
    PROVE  TimerExact'
<1> USE DEF TimerExact
<1>1. CASE WatcherWakes
  BY <1>1 DEF WatcherWakes, timer
<1>2. CASE WatcherReloads
  <2>1. CASE ApplyFps(watcher, "waiting")
    BY <1>2, <2>1 DEF WatcherReloads, ApplyFps, LifecycleTypeOK
  <2>2. CASE watcher' = "waiting" /\ UNCHANGED g_raised
    BY <1>2, <2>2 DEF WatcherReloads
  <2> QED
    BY <1>2, <2>1, <2>2 DEF WatcherReloads
<1>3. CASE WatcherEndsTimerCall
  BY <1>3 DEF WatcherEndsTimerCall, BeginPeriod, EndPeriod
<1>4. CASE WatcherEnds
  BY <1>4 DEF WatcherEnds, timer
<1> QED
  BY <1>1, <1>2, <1>3, <1>4 DEF WatcherThread

LEMMA LoadedStep == LifecycleInv /\ LifecycleStep => Loaded'
<1> SUFFICES ASSUME LifecycleInv, LifecycleStep, loader' = "running"
             PROVE  TimerExact' /\ journal' \in {"none", "open"}
  BY DEF Loaded
<1> USE DEF LifecycleInv, Loaded
<1>1. CASE InitThread
  <2>1. TimerExact /\ watcher = "none" /\ UNCHANGED loader
    BY <1>1, InitThreadFrame DEF OneAtWork
  <2>2. TimerExact'
    <3>1. CASE InitCreatesWatcher
      BY <2>1, <3>1 DEF InitCreatesWatcher, InitStep, timer, TimerExact
    <3>2. CASE ~InitCreatesWatcher
      BY <1>1, <2>1, <3>2, InitThreadFrame, InitKeepsTimer
    <3> QED
      BY <3>1, <3>2
  <2>3. journal' \in {"none", "open"}
    BY <1>1, <2>1, InitThreadFrame DEF InitOpensJournal
  <2> QED
    BY <2>2, <2>3
<1>2. CASE WatcherThread
  <2>1. TimerExact /\ init = "ended" /\ UNCHANGED <<loader, journal>>
    BY <1>2, WatcherThreadFrame DEF OneAtWork
  <2> QED
    BY <1>2, <2>1, WatcherKeepsTimer
<1>3. CASE GameThread
  BY <1>3, GameThreadFrame DEF TimerExact
<1>4. CASE Attach
  BY <1>4 DEF Attach, NotLoaded, TimerExact, timer
<1>5. CASE \E exit \in BOOLEAN : BeginDetach(exit)
  BY <1>5 DEF BeginDetach
<1>6. CASE Detach
  BY <1>6, DetachFrame
<1>7. CASE UNCHANGED lifecycleVars
  BY <1>7 DEF lifecycleVars, timer, handles, TimerExact
<1>8. CASE LogCalls
  BY <1>8, LogCallsFrame DEF TimerExact
<1> QED
  BY <1>1, <1>2, <1>3, <1>4, <1>5, <1>6, <1>7, <1>8
     DEF LifecycleStep, LifecycleNext, LoaderThread

\* A detach that found everybody at rest: each of its steps does its part, and
\* the threads stay at rest.
LEMMA QuietDetachStep == LifecycleInv /\ LifecycleStep => QuietDetach'
<1> SUFFICES ASSUME LifecycleInv, LifecycleStep,
                    loader' \notin {"out", "running", "exited"}, caught' = {}
             PROVE  QuietDetach'
  BY DEF QuietDetach
<1> USE DEF LifecycleInv
<1>1. CASE \E exit \in BOOLEAN : BeginDetach(exit)
  <2> PICK exit \in BOOLEAN : BeginDetach(exit)
    BY <1>1
  <2>1. init = "ended" /\ watcher \in {"none", "waiting"}
    BY DEF BeginDetach
  <2>2. loader = "running" /\ loader' = "init"
    BY DEF BeginDetach
  <2>3. TimerExact /\ journal \in {"none", "open"}
    BY <2>2 DEF Loaded
  <2>4. UNCHANGED <<init, watcher, g_raised, periods, journal>>
    BY DEF BeginDetach, timer, handles
  <2>5. TimerExact'
    BY <2>3, <2>4 DEF TimerExact
  <2> QED
    BY <2>1, <2>2, <2>3, <2>4, <2>5 DEF QuietDetach, BeforeStop, BeforeVmp,
       BeforeTimer, BeforeClean, BeforeClose, BeforeVeh
<1>2. CASE ~\E exit \in BOOLEAN : BeginDetach(exit)
  <2>1. loader \notin {"out", "running", "exited"} /\ caught = {}
    <3>1. CASE InitThread
      BY <3>1, InitThreadFrame
    <3>2. CASE WatcherThread
      BY <3>2 DEF WatcherThread, WatcherWakes, WatcherReloads,
         WatcherEndsTimerCall, WatcherEnds
    <3>3. CASE GameThread
      BY <3>3, GameThreadFrame
    <3>4. CASE Attach
      BY <3>4 DEF Attach
    <3>5. CASE Detach
      <4>1. loader \in Detaching
        BY <3>5, DetachFrame
      <4>2. caught = {}
        BY <3>5 DEF Detach, StopInit, StopWatcher, LeaveOnExit, UninstallVmp,
           RestoreTimer, WriteClean, CloseJournal, UninstallVeh, ShutdownLog, Unmap
      <4> QED
        BY <4>1, <4>2 DEF Detaching
    <3>6. CASE UNCHANGED lifecycleVars
      BY <3>6 DEF lifecycleVars
    <3>7. CASE LogCalls
      BY <3>7, LogCallsFrame
    <3> QED
      BY <1>2, <3>1, <3>2, <3>3, <3>4, <3>5, <3>6, <3>7
         DEF LifecycleStep, LifecycleNext, LoaderThread
  <2> USE DEF QuietDetach
  <2>2. init = "ended" /\ watcher \in {"none", "waiting", "ended"} /\ TimerExact
    BY <2>1
  <2>3. TimerExact => periods = (IF g_raised THEN 1 ELSE 0)
    BY <2>2 DEF TimerExact
  <2> USE DEF BeforeStop, BeforeVmp, BeforeTimer, BeforeClean, BeforeClose,
              BeforeVeh
  <2>4. CASE InitThread
    BY <2>2, <2>4, InitThreadFrame
  <2>5. CASE WatcherThread
    <3>1. CASE WatcherEnds
      <4>1. /\ watcher' = "ended"
            /\ UNCHANGED <<loader, init, g_raised, periods, veh, vmpHook, journal,
                           watchStop, instance, getting>>
        BY <3>1 DEF WatcherEnds, timer, handles, logging, stops
      <4>2. TimerExact'
        BY <2>2, <4>1 DEF TimerExact
      <4> QED
        BY <2>1, <4>1, <4>2
    <3>2. ~WatcherWakes
      BY <2>1 DEF WatcherWakes
    <3> QED
      BY <2>2, <2>5, <3>1, <3>2 DEF WatcherThread, WatcherReloads,
         WatcherEndsTimerCall
  <2>6. CASE GameThread
    <3>1. TimerExact'
      BY <2>2, <2>6, GameThreadFrame DEF TimerExact
    <3>2. loader \in {"unmap", "gone"} => UNCHANGED getting
      BY <2>1, <2>6 DEF GameThread, TestInstance, LockInstance
    <3> QED
      BY <2>1, <2>6, <3>1, <3>2, GameThreadFrame
  <2>7. CASE Attach
    BY <2>1, <2>7 DEF Attach
  <2>8. CASE Detach
    <3> USE DEF LoaderStep, stops, timer, handles, logging
    <3>1. CASE StopInit
      BY <2>1, <3>1 DEF StopInit, TimerExact
    <3>2. CASE StopWatcher
      BY <2>1, <3>2 DEF StopWatcher, TimerExact, OneAtWork
    <3>3. CASE LeaveOnExit
      BY <2>1, <3>3 DEF LeaveOnExit, TimerExact
    <3>4. CASE UninstallVmp
      BY <2>1, <3>4 DEF UninstallVmp, TimerExact
    <3>5. CASE RestoreTimer
      BY <2>1, <3>5 DEF RestoreTimer, TimerExact
    <3>6. CASE WriteClean
      BY <2>1, <3>6 DEF WriteClean, TimerExact
    <3>7. CASE CloseJournal
      BY <2>1, <3>7 DEF CloseJournal, TimerExact
    <3>8. CASE UninstallVeh
      BY <2>1, <3>8 DEF UninstallVeh, TimerExact
    <3>9. CASE ShutdownLog
      BY <2>1, <3>9 DEF ShutdownLog, TimerExact
    <3>10. CASE Unmap
      BY <2>1, <3>10 DEF Unmap, TimerExact
    <3> QED
      BY <2>8, <3>1, <3>2, <3>3, <3>4, <3>5, <3>6, <3>7, <3>8, <3>9, <3>10
         DEF Detach
  <2>9. CASE UNCHANGED lifecycleVars
    BY <2>1, <2>9 DEF lifecycleVars, stops, timer, handles, logging, TimerExact
  <2>10. CASE LogCalls
    <3>1. TimerExact'
      BY <2>2, <2>10, LogCallsFrame DEF TimerExact
    <3> QED
      BY <2>1, <2>10, <3>1, LogCallsFrame
  <2> QED
    BY <1>2, <2>4, <2>5, <2>6, <2>7, <2>8, <2>9, <2>10
       DEF LifecycleStep, LifecycleNext, LoaderThread
<1> QED
  BY <1>1, <1>2

LEMMA LifecycleInvStep == LifecycleInv /\ LifecycleStep => LifecycleInv'
<1> SUFFICES ASSUME LifecycleInv, LifecycleStep PROVE LifecycleInv'
  OBVIOUS
<1>1. LifecycleTypeOK'
  BY LifecycleTypeStep DEF LifecycleInv
<1> QED
  BY <1>1, OneAtWorkStep, NotLoadedStep, LogSafeStep, LoadedStep, QuietDetachStep
     DEF LifecycleInv

\* The lifecycle's invariant holds of the plugin with its language hook.
LEMMA LifecycleInvariant == PluginSpec => []LifecycleInv
<1>1. PluginInit => LifecycleInv
  BY LifecycleInvInit DEF PluginInit
<1>2. LifecycleInv /\ [PluginNext]_pluginVars => LifecycleInv'
  BY LifecycleInvStep, StepsOfLifecycle
<1> QED
  BY <1>1, <1>2, PTL DEF PluginSpec

\* The plugin's threads, the loader and a thread of the game keep the types of
\* what they share, for any number of reloads.
THEOREM LifecycleTypeCorrect == PluginSpec => []LifecycleTypeOK
<1>1. LifecycleInv => LifecycleTypeOK
  BY DEF LifecycleInv
<1> QED
  BY <1>1, LifecycleInvariant, PTL

\* However often the INI changes, whichever timer calls fail: the flag of
\* timer_resolution.cpp is true of the period while the plugin is loaded.
THEOREM TimerFlagIsTrue == PluginSpec => []TimerFlagTrue
<1>1. LifecycleInv => TimerFlagTrue
  BY DEF LifecycleInv, Loaded, TimerExact, TimerFlagTrue
<1> QED
  BY <1>1, LifecycleInvariant, PTL

\* An unload that finds the plugin's threads at rest gives everything back.
THEOREM UnloadGivesEverythingBack == PluginSpec => []UnloadGivesBack
<1>1. LifecycleInv => UnloadGivesBack
  <2> SUFFICES ASSUME LifecycleInv, loader = "gone", caught = {}
               PROVE  /\ ~g_raised /\ periods = 0
                      /\ ~veh /\ ~vmpHook
                      /\ journal \in {"none", "closed"}
                      /\ instance = "none" /\ getting # "dead"
                      /\ watcher \in {"none", "ended"} \/ watchStop
    BY DEF UnloadGivesBack
  <2> QED
    BY DEF LifecycleInv, QuietDetach, BeforeStop, BeforeVmp, BeforeTimer,
       BeforeClean, BeforeClose, BeforeVeh, TimerExact
<1> QED
  BY <1>1, LifecycleInvariant, PTL

-----------------------------------------------------------------------------
(* The order of install and reload.                                        *)

\* install is under way only while the init thread is in install_all, or has
\* faulted there.
InstallInOrder ==
    /\ (init \notin {"install", "fatal", "ended"} \/ watcher # "none")
         => step \notin InstallPlace
    /\ loader \notin {"out", "running"} => step = "out"

LEMMA InstallInOrderStep ==
    LifecycleInv /\ InstallInOrder /\ [PluginNext]_pluginVars => InstallInOrder'
<1> SUFFICES ASSUME LifecycleInv, InstallInOrder, [PluginNext]_pluginVars
             PROVE  InstallInOrder'
  OBVIOUS
<1> USE DEF InstallInOrder
<1>1. CASE LifecycleAlone
  <2>1. UNCHANGED step
    BY <1>1 DEF LifecycleAlone, languageVars
  <2>2. CASE InitAlone
    <3>1. CASE InitCreatesWatcher
      BY <2>1, <3>1 DEF InitCreatesWatcher, InitStep
    <3>2. CASE ~InitCreatesWatcher
      <4>1. UNCHANGED <<loader, watcher>>
        BY <2>2, <3>2, InitThreadFrame DEF InitAlone, InitThread
      <4>2. init # "install" \/ init' = "fatal"
        BY <2>2, <3>2 DEF InitAlone, InitStep, InitStarts, InitInstallsVmp,
           InitWaits, InitOpensJournal, InitLoadsDbghelp, InitEndsTimerCall,
           InitCompletes, InitFaults, InitGivesUp
      <4>3. init \notin {"fatal", "ended"} \/ init' = "ended"
        BY <2>2, <3>2 DEF InitAlone, InitStep, InitStarts, InitInstallsVmp,
           InitWaits, InitOpensJournal, InitLoadsDbghelp, InitEndsTimerCall,
           InitCompletes, InitFaults, InitGivesUp
      <4> QED
        BY <2>1, <4>1, <4>2, <4>3
    <3> QED
      BY <3>1, <3>2
  <2>3. CASE WatcherAlone
    BY <2>1, <2>3, WatcherThreadFrame DEF WatcherAlone, WatcherThread
  <2>4. CASE GameThread
    BY <2>1, <2>4, GameThreadFrame
  <2>5. CASE Attach
    BY <2>1, <2>5 DEF Attach, LifecycleInv, NotLoaded
  <2>6. CASE Detach
    BY <2>1, <2>6, DetachFrame DEF Detaching
  <2>7. CASE LogCalls
    BY <2>1, <2>7, LogCallsFrame
  <2> QED
    BY <1>1, <2>2, <2>3, <2>4, <2>5, <2>6, <2>7 DEF LifecycleAlone
<1>2. CASE DetachPlugin
  BY <1>2 DEF DetachPlugin, ForgetLanguage, InstallPlace
<1>3. CASE GameStartup
  <2>1. UNCHANGED step
    BY <1>3 DEF GameStartup, Game, LoadLanguageFile, GameInitCopiesIndex,
       PassSetup, TakeSnapshot, PatchBitfields, SetIndexAgain, SetLanguageAgain
  <2> QED
    BY <1>3, <2>1 DEF GameStartup, lifecycleVars
<1>4. CASE InstallLanguage
  <2>1. init = "install" /\ loader = "running" /\ UNCHANGED <<init, loader, watcher>>
    BY <1>4 DEF InstallLanguage, Followed, InitStep, lifecycleVars
  <2>2. watcher = "none"
    BY <2>1 DEF LifecycleInv, OneAtWork
  <2> QED
    BY <2>1, <2>2
<1>5. CASE InstallOthers
  <2>1. UNCHANGED <<step, loader, watcher>> /\ init = "install"
    BY <1>5 DEF InstallOthers, InitInstalls, InitStep, languageVars
  <2>2. watcher = "none"
    BY <2>1 DEF LifecycleInv, OneAtWork
  <2>3. step \notin InstallPlace \/ ~Followed
    BY <1>5 DEF InstallOthers
  <2>4. loader # "out"
    BY <2>1 DEF LifecycleInv, NotLoaded
  <2> QED
    BY <2>1, <2>2, <2>3, <2>4 DEF Followed, InstallPlace
<1>6. CASE BeginReload
  <2>1. UNCHANGED <<init, loader>> /\ watcher # "none" /\ watcher' # "none"
    BY <1>6, WatcherThreadFrame DEF BeginReload, WatcherThread
  <2>2. \/ step' \in {"reload", "off"} /\ loader = "running"
        \/ UNCHANGED step
    BY <1>6 DEF BeginReload, Followed, ReloadConfig, languageVars
  <2> QED
    BY <2>1, <2>2 DEF InstallPlace
<1>7. CASE ReloadLanguage
  <2>1. UNCHANGED <<init, loader, watcher>> /\ loader = "running"
    BY <1>7 DEF ReloadLanguage, Followed, lifecycleVars
  <2>2. step' \in {"idle", "index"}
    BY <1>7 DEF ReloadLanguage, OnReload, KeepLanguage, SwitchLanguage, SwitchIndex
  <2> QED
    BY <2>1, <2>2 DEF InstallPlace
<1>8. CASE ReloadOthers
  BY <1>8, WatcherThreadFrame DEF ReloadOthers, WatcherThread, languageVars
<1>9. CASE UNCHANGED pluginVars
  BY <1>9 DEF pluginVars, lifecycleVars, languageVars
<1> QED
  BY <1>1, <1>2, <1>3, <1>4, <1>5, <1>6, <1>7, <1>8, <1>9 DEF PluginNext

\* No reload runs beside install or the timer calls of the init thread.
THEOREM ReloadsComeAfterInit == PluginSpec => []ReloadAfterInit
<1>1. PluginInit => InstallInOrder
  BY DEF PluginInit, LifecycleInit, LanguageInit, InstallInOrder, InstallPlace
<1>2. /\ LifecycleInv /\ LifecycleInv' /\ InstallInOrder
      /\ [PluginNext]_pluginVars
      => InstallInOrder'
  BY InstallInOrderStep
<1>3. LifecycleInv /\ InstallInOrder => ReloadAfterInit
  BY DEF LifecycleInv, OneAtWork, InstallInOrder, ReloadAfterInit
<1> QED
  BY <1>1, <1>2, <1>3, LifecycleInvariant, PTL DEF PluginSpec

-----------------------------------------------------------------------------
(* The language.                                                           *)

LanguageStep ==
    \/ Game \/ Install \/ ReloadConfig \/ OnReload \/ ForgetLanguage
    \/ UNCHANGED languageVars

\* What the composed plugin does to the language is a step of its three actors.
LEMMA StepsOfLanguage == [PluginNext]_pluginVars => LanguageStep
BY DEF PluginNext, pluginVars, LanguageStep, LifecycleAlone, DetachPlugin,
   GameStartup, InstallLanguage, InstallOthers, BeginReload, ReloadLanguage,
   ReloadOthers

LEMMA LanguageTypeStep == LanguageTypeOK /\ LanguageStep => LanguageTypeOK'
<1> SUFFICES ASSUME LanguageTypeOK, LanguageStep PROVE LanguageTypeOK'
  OBVIOUS
<1> USE DEF LanguageTypeOK, game, code, statics
<1>1. CASE LoadLanguageFile
  BY <1>1 DEF LoadLanguageFile, GamePlace, InCallback
<1>2. CASE GameInitCopiesIndex
  <2>1. quiet' \in BOOLEAN
    BY <1>2 DEF GameInitCopiesIndex
  <2> QED
    BY <1>2, <2>1 DEF GameInitCopiesIndex
<1>3. CASE PassSetup
  BY <1>3 DEF PassSetup, GamePlace, InCallback
<1>4. CASE TakeSnapshot
  <2>1. quiet' \in BOOLEAN /\ s_real_game_id' \in {"ww", "ru", "asia"}
    BY <1>4 DEF TakeSnapshot, RealGameId
  <2> QED
    BY <1>4, <2>1 DEF TakeSnapshot, GamePlace, InCallback
<1>5. CASE PatchBitfields
  BY <1>5 DEF PatchBitfields, GamePlace, InCallback
<1>6. CASE SetIndexAgain
  <2>1. lang_idx' \in UILanguages \union {"own"}
    BY <1>6 DEF SetIndexAgain
  <2> QED
    BY <1>6, <2>1 DEF SetIndexAgain, GamePlace, InCallback
<1>7. CASE SetLanguageAgain
  <2>1. ui_lang' \in UILanguages \union {"own"}
    BY <1>7 DEF SetLanguageAgain
  <2> QED
    BY <1>7, <2>1 DEF SetLanguageAgain, GamePlace, InCallback
<1>8. CASE BeginInstall
  <2>1. step' \in PluginPlace
    BY <1>8 DEF BeginInstall, PluginPlace, InstallPlace
  <2> QED
    BY <1>8, <2>1 DEF BeginInstall
<1>9. CASE OverrideLanguage
  <2>1. /\ ui_lang' \in UILanguages \union {"own"}
        /\ lang_idx' \in UILanguages \union {"own"}
    BY <1>9 DEF OverrideLanguage
  <2>2. step' \in PluginPlace /\ resolved' \subseteq {"ui", "idx"}
    BY <1>9 DEF OverrideLanguage, PluginPlace, InstallPlace
  <2> QED
    BY <1>9, <2>1, <2>2 DEF OverrideLanguage
<1>10. CASE ResolveIsSteam
  BY <1>10 DEF ResolveIsSteam, PluginPlace, InstallPlace
<1>11. CASE PrePatch
  BY <1>11 DEF PrePatch, PluginPlace, InstallPlace
<1>12. CASE ArmBitfieldHook
  <2>1. bf_hook' \in BOOLEAN /\ step' \in PluginPlace
    BY <1>12 DEF ArmBitfieldHook, PluginPlace, InstallPlace
  <2> QED
    BY <1>12, <2>1 DEF ArmBitfieldHook
<1>13. CASE StubGameId
  BY <1>13 DEF StubGameId, PluginPlace, InstallPlace
<1>14. CASE ReloadConfig
  BY <1>14 DEF ReloadConfig, PluginPlace, ReloadPlace
<1>15. CASE KeepLanguage
  BY <1>15 DEF KeepLanguage, PluginPlace, ReloadPlace
<1>16. CASE SwitchLanguage
  <2>1. quiet' \in BOOLEAN /\ ui_lang' \in UILanguages \union {"own"}
    BY <1>16 DEF SwitchLanguage
  <2> QED
    BY <1>16, <2>1 DEF SwitchLanguage, PluginPlace, ReloadPlace
<1>17. CASE SwitchIndex
  <2>1. lang_idx' \in UILanguages \union {"own"}
    BY <1>17 DEF SwitchIndex
  <2> QED
    BY <1>17, <2>1 DEF SwitchIndex, PluginPlace
<1>18. CASE ForgetLanguage
  BY <1>18 DEF ForgetLanguage, PluginPlace, GamePlace, UILanguages
<1>19. CASE UNCHANGED languageVars
  BY <1>19 DEF languageVars
<1> QED
  BY <1>1, <1>2, <1>3, <1>4, <1>5, <1>6, <1>7, <1>8, <1>9, <1>10, <1>11, <1>12,
     <1>13, <1>14, <1>15, <1>16, <1>17, <1>18, <1>19
     DEF LanguageStep, Game, Install, OnReload

LEMMA LanguageTypeInit == LanguageInit => LanguageTypeOK
<1> SUFFICES ASSUME LanguageInit PROVE LanguageTypeOK
  OBVIOUS
<1>1. bits \subseteq Unlockable
  BY EditionsKnown DEF LanguageInit
<1>3. /\ copied \in BOOLEAN /\ bf_hook \in BOOLEAN
      /\ fresh \in BOOLEAN /\ quiet \in BOOLEAN
  BY Zenon DEF LanguageInit
<1> QED
  BY <1>1, <1>3 DEF LanguageInit, LanguageTypeOK, GamePlace, PluginPlace,
     UILanguages, Unlockable

\* Which languages the game and the plugin each know of, as long as the game's
\* loader has written the bitfield after the pre-patch.
EditionKept ==
    fresh =>
        /\ place = "written" => menu_bf = bits
        /\ place \in InCallback \union {"unlocked"}
             => s_real_game_id = RealGameId(bits)
        /\ place \in {"patched", "indexed", "unlocked"} => menu_bf = Unlockable

LEMMA EditionKeptStep == EditionKept /\ LanguageStep => EditionKept'
<1> SUFFICES ASSUME EditionKept, LanguageStep PROVE EditionKept'
  OBVIOUS
<1> USE DEF EditionKept, InCallback, game, code, statics
<1>1. CASE Game
  <2>1. CASE LoadLanguageFile
    BY <2>1 DEF LoadLanguageFile
  <2>2. CASE GameInitCopiesIndex
    BY <2>2 DEF GameInitCopiesIndex
  <2>3. CASE PassSetup
    BY <2>3 DEF PassSetup
  <2>4. CASE TakeSnapshot
    BY <2>4 DEF TakeSnapshot
  <2>5. CASE PatchBitfields
    BY <2>5 DEF PatchBitfields
  <2>6. CASE SetIndexAgain
    BY <2>6 DEF SetIndexAgain
  <2>7. CASE SetLanguageAgain
    BY <2>7 DEF SetLanguageAgain
  <2> QED
    BY <1>1, <2>1, <2>2, <2>3, <2>4, <2>5, <2>6, <2>7 DEF Game
<1>2. CASE PrePatch
  BY <1>2 DEF PrePatch
<1>3. CASE Install /\ ~PrePatch
  <2>1. UNCHANGED <<bits, place, menu_bf, s_real_game_id, fresh>>
    BY <1>3 DEF Install, BeginInstall, OverrideLanguage, ResolveIsSteam,
       ArmBitfieldHook, StubGameId
  <2> QED
    BY <2>1
<1>4. CASE ReloadConfig \/ OnReload
  <2>1. UNCHANGED <<bits, place, menu_bf, s_real_game_id, fresh>>
    BY <1>4 DEF ReloadConfig, OnReload, KeepLanguage, SwitchLanguage, SwitchIndex
  <2> QED
    BY <2>1
<1>5. CASE ForgetLanguage
  BY <1>5 DEF ForgetLanguage
<1>6. CASE UNCHANGED languageVars
  BY <1>6 DEF languageVars
<1> QED
  BY <1>1, <1>2, <1>3, <1>4, <1>5, <1>6 DEF LanguageStep

\* Once the addresses are found, the two globals and the hook's note agree, but
\* between the two writes of a switch; a callback under way has seen no switch.
LanguageAgrees ==
    /\ step \in {"out", "override", "override only"} => resolved = {}
    /\ step \in {"override", "override only"} => new_lang = s_ui_language
    /\ (quiet /\ {"ui", "idx"} \subseteq resolved) =>
         /\ step # "index" => ui_lang = s_current_language
                              /\ lang_idx = s_current_language
         /\ step = "index" => ui_lang = new_lang /\ place \notin InCallback
         /\ place \in InCallback => s_current_language = s_ui_language
         /\ step \notin ReloadPlace \union {"off"}
              => new_lang \in {"None", s_current_language}

LEMMA LanguageAgreesStep == LanguageAgrees /\ LanguageStep => LanguageAgrees'
<1> SUFFICES ASSUME LanguageAgrees, LanguageStep PROVE LanguageAgrees'
  OBVIOUS
<1> USE DEF LanguageAgrees, game, code, statics, InCallback, ReloadPlace
<1>1. CASE LoadLanguageFile
  BY <1>1 DEF LoadLanguageFile
<1>2. CASE GameInitCopiesIndex
  BY <1>2 DEF GameInitCopiesIndex, Switched
<1>3. CASE PassSetup
  BY <1>3 DEF PassSetup
<1>4. CASE TakeSnapshot
  BY <1>4 DEF TakeSnapshot, Switched
<1>5. CASE PatchBitfields
  BY <1>5 DEF PatchBitfields
<1>6. CASE SetIndexAgain
  BY <1>6 DEF SetIndexAgain
<1>7. CASE SetLanguageAgain
  BY <1>7 DEF SetLanguageAgain
<1>8. CASE BeginInstall
  BY <1>8 DEF BeginInstall
<1>9. CASE OverrideLanguage
  BY <1>9 DEF OverrideLanguage
<1>10. CASE ResolveIsSteam
  BY <1>10 DEF ResolveIsSteam
<1>11. CASE PrePatch
  BY <1>11 DEF PrePatch
<1>12. CASE ArmBitfieldHook
  BY <1>12 DEF ArmBitfieldHook
<1>13. CASE StubGameId
  BY <1>13 DEF StubGameId
<1>14. CASE ReloadConfig
  BY <1>14 DEF ReloadConfig
<1>15. CASE KeepLanguage
  BY <1>15 DEF KeepLanguage, NothingToSwitch
<1>16. CASE SwitchLanguage
  BY <1>16 DEF SwitchLanguage
<1>17. CASE SwitchIndex
  BY <1>17 DEF SwitchIndex
<1>18. CASE ForgetLanguage
  BY <1>18 DEF ForgetLanguage
<1>19. CASE UNCHANGED languageVars
  BY <1>19 DEF languageVars
<1> QED
  BY <1>1, <1>2, <1>3, <1>4, <1>5, <1>6, <1>7, <1>8, <1>9, <1>10, <1>11, <1>12,
     <1>13, <1>14, <1>15, <1>16, <1>17, <1>18, <1>19
     DEF LanguageStep, Game, Install, OnReload

LanguageInv == LanguageTypeOK /\ EditionKept /\ LanguageAgrees

LEMMA LanguageInvariant == PluginSpec => []LanguageInv
<1>1. PluginInit => LanguageInv
  <2> SUFFICES ASSUME LanguageInit PROVE LanguageInv
    BY DEF PluginInit
  <2>1. EditionKept /\ LanguageAgrees
    BY DEF LanguageInit, EditionKept, LanguageAgrees, InCallback, ReloadPlace
  <2> QED
    BY <2>1, LanguageTypeInit DEF LanguageInv
<1>2. LanguageInv /\ [PluginNext]_pluginVars => LanguageInv'
  BY StepsOfLanguage, LanguageTypeStep, EditionKeptStep, LanguageAgreesStep
     DEF LanguageInv
<1> QED
  BY <1>1, <1>2, PTL DEF PluginSpec

\* The variables of the language hook keep their types, for any editions.
THEOREM LanguageTypeCorrect == PluginSpec => []LanguageTypeOK
<1>1. LanguageInv => LanguageTypeOK
  BY DEF LanguageInv
<1> QED
  BY <1>1, LanguageInvariant, PTL

\* Behind lang_setup the game has all languages and its own edition, for any
\* editions and whatever the order of the game's startup and install.
THEOREM EditionIsOwn == PluginSpec => []OwnEdition
<1>1. LanguageInv => OwnEdition
  BY DEF LanguageInv, EditionKept, OwnEdition
<1> QED
  BY <1>1, LanguageInvariant, PTL

\* While the last reload has left the hook enabled, the newest language is in both
\* globals, for any number of reloads and however often they switched it off.
THEOREM NewestLanguageIsSet == PluginSpec => []NewestLanguageSet
<1>1. LanguageInv => NewestLanguageSet
  BY DEF LanguageInv, LanguageAgrees, NewestLanguageSet, ReloadPlace
<1> QED
  BY <1>1, LanguageInvariant, PTL
=============================================================================
