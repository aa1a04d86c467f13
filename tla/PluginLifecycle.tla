-------------------------- MODULE PluginLifecycle ---------------------------
(***************************************************************************)
(* The plugin from DLL_PROCESS_ATTACH to DLL_PROCESS_DETACH: the loader in *)
(* DllMain, the init thread, the watcher's thread, and a thread of the game*)
(* that logs from a callback.  What a detach finds running goes on, since  *)
(* nobody is joined; what has been acquired is to be given back.           *)
(*                                                                         *)
(* The watcher's loop, the packer and the journal are one step or one cell *)
(* each here: FileWatcher, VmpBypass and CrashJournal take them apart.  The*)
(* hook that uses a resource of the process, Rogue's FPSUnlock, is here as *)
(* raise_timer_resolution and restore_timer_resolution.                    *)
(***************************************************************************)
EXTENDS Integers

CONSTANT MaxReloads     \* bound on the changes of the INI

ASSUME ReloadBound == MaxReloads \in Nat

VARIABLES
    loader,     \* where the loader's thread is, see LoaderPlace
    exiting,    \* the detach is that of a process exit
    init,       \* where the init thread is, see InitPlace
    watcher,    \* where the watcher's thread is, see WatcherPlace
    owned,      \* watcher() holds the object
    watchStop,  \* the watcher has been told to stop
    reloads,    \* changes of the INI so far
    g_raised,   \* the flag of timer_resolution.cpp
    periods,    \* timeBeginPeriod calls not yet ended
    veh,        \* g_veh_handle is set
    vmpHook,    \* CreateThread carries the plugin's jump
    journal,    \* "none", "open", "clean", "closed", or "cut": closed unclean
    instance,   \* g_instance of the log: "none" or "live"
    getting,    \* where the game's thread is in log::get: "out", "tested", "dead"
    holder,     \* who holds a lock of the log once the loader detaches, see Holder
    blocked,    \* the holder waits for the loader lock inside its log call
    caught      \* history: the threads at work while the loader detaches

timer == <<g_raised, periods>>
handles == <<veh, vmpHook, journal>>
lock == <<holder, blocked>>
logging == <<instance, getting, lock>>
stops == <<owned, watchStop>>
lifecycleVars == <<loader, exiting, init, watcher, stops, reloads, timer,
                   handles, logging, caught>>

Detaching == {"init", "watcher", "exit?", "vmp", "timer", "journal", "close",
              "veh", "log", "unmap"}
LoaderPlace == {"out", "running", "gone", "exited"} \union Detaching
InitPlace == {"none", "start", "vmp", "wait", "journal", "install", "dbghelp",
              "raising", "restoring", "complete", "watch", "fatal", "ended"}
WatcherPlace == {"none", "waiting", "reload", "raising", "restoring", "ended"}
Threads == {"init", "watcher", "game"}
Holder == {"free", "left"} \union Threads    \* "left": a fault has left it locked

LifecycleTypeOK ==
    /\ loader \in LoaderPlace
    /\ exiting \in BOOLEAN
    /\ init \in InitPlace
    /\ watcher \in WatcherPlace
    /\ owned \in BOOLEAN /\ watchStop \in BOOLEAN
    /\ reloads \in 0 .. MaxReloads
    /\ g_raised \in BOOLEAN
    /\ periods \in Nat
    /\ veh \in BOOLEAN /\ vmpHook \in BOOLEAN
    /\ journal \in {"none", "open", "clean", "closed", "cut"}
    /\ instance \in {"none", "live"}
    /\ getting \in {"out", "tested", "dead"}
    /\ holder \in Holder /\ blocked \in BOOLEAN
    /\ caught \subseteq Threads

LifecycleInit ==
    /\ loader = "out" /\ exiting = FALSE
    /\ init = "none" /\ watcher = "none"
    /\ owned = FALSE /\ watchStop = FALSE
    /\ reloads = 0
    /\ g_raised = FALSE /\ periods = 0
    /\ veh = FALSE /\ vmpHook = FALSE /\ journal = "none"
    /\ instance = "none" /\ getting = "out"
    /\ holder = "free" /\ blocked = FALSE
    /\ caught = {}

\* The loader's thread is in DllMain, under the loader lock.
LoaderLockFree == loader \notin Detaching

\* A process that exits has ended all its other threads before DllMain; once the
\* plugin is unmapped there is nothing of it left to run.
OthersRun == ~exiting /\ loader # "gone"

-----------------------------------------------------------------------------
(* win32::timer_resolution, called by thread `who` when it is at `at`.     *)

\* Mutant: the flag stays set when timeBeginPeriod has failed.
BeginPeriod_FlagStays ==
    \/ periods' = periods + 1 /\ UNCHANGED g_raised
    \/ UNCHANGED <<g_raised, periods>>

\* timeBeginPeriod, the second half of raise_timer_resolution.
BeginPeriod ==
    \/ periods' = periods + 1 /\ UNCHANGED g_raised
    \/ g_raised' = FALSE /\ UNCHANGED periods

\* timeEndPeriod: an error if there is no period to end.
EndPeriod ==
    /\ periods' = IF periods > 0 THEN periods - 1 ELSE 0
    /\ UNCHANGED g_raised

\* apply_fps_patch: capped raises, uncapped restores; each begins by exchanging
\* the flag and does nothing more if it was already as wanted.
ApplyFps(place, next) ==
    \/ /\ g_raised' = TRUE
       /\ place' = IF g_raised THEN next ELSE "raising"
    \/ /\ g_raised' = FALSE
       /\ place' = IF g_raised THEN "restoring" ELSE next

-----------------------------------------------------------------------------
(* The init thread: game_init_impl and init_game.                          *)

InitRuns == OthersRun /\ holder # "init"
InitStep(from) == InitRuns /\ init = from

\* The wrong game: nothing is done.  Otherwise the log is created.
InitStarts ==
    /\ InitStep("start")
    /\ \/ init' = "ended" /\ UNCHANGED instance
       \/ \E vmprotect \in BOOLEAN :
            /\ init' = IF vmprotect THEN "vmp" ELSE "journal"
            /\ instance' = "live"
    /\ UNCHANGED <<loader, exiting, watcher, stops, reloads, timer, handles,
                   getting, lock, caught>>

\* vmp::install arms the CreateThread hook, or fails and init_game goes on.
InitInstallsVmp ==
    /\ InitStep("vmp")
    /\ vmpHook' \in BOOLEAN
    /\ init' = "wait"
    /\ UNCHANGED <<loader, exiting, watcher, stops, reloads, timer, veh, journal,
                   logging, caught>>

\* wait_for_unpack and wait_for_integrity_blocked: the packer, the time limit or
\* the stop token ends them; what follows does not ask the token again.
InitWaits ==
    /\ InitStep("wait")
    /\ init' = "journal"
    /\ UNCHANGED <<loader, exiting, watcher, stops, reloads, timer, handles,
                   logging, caught>>

\* Mutant: the watcher is created before install_all.
InitOpensJournal_WatcherToo ==
    /\ InitStep("journal")
    /\ init' = "install" /\ journal' \in {"none", "open"}
    /\ watcher' = "waiting" /\ owned' = TRUE
    /\ UNCHANGED <<loader, exiting, watchStop, reloads, timer, veh,
                   vmpHook, logging, caught>>

InitOpensJournal ==
    /\ InitStep("journal")
    /\ init' = "install"
    /\ journal' \in {"none", "open"}
    /\ UNCHANGED <<loader, exiting, watcher, stops, reloads, timer, veh, vmpHook,
                   logging, caught>>

\* install_all: the frame-rate hook is installed, or not; an install faults and
\* its report loads dbghelp.dll; an exception ends init_game.
InitInstalls ==
    /\ InitStep("install")
    /\ \/ ApplyFps(init, "complete") /\ UNCHANGED periods
       \/ init' \in {"complete", "dbghelp", "ended"} /\ UNCHANGED timer
    /\ UNCHANGED <<loader, exiting, watcher, stops, reloads, handles, logging,
                   caught>>

\* LoadLibraryA needs the loader lock.
InitLoadsDbghelp ==
    /\ InitStep("dbghelp")
    /\ LoaderLockFree
    /\ init' = "complete"
    /\ UNCHANGED <<loader, exiting, watcher, stops, reloads, timer, handles,
                   logging, caught>>

InitEndsTimerCall ==
    /\ InitRuns
    /\ \/ init = "raising" /\ BeginPeriod
       \/ init = "restoring" /\ EndPeriod
    /\ init' = "complete"
    /\ UNCHANGED <<loader, exiting, watcher, stops, reloads, handles, logging,
                   caught>>

\* write_init_complete, vmp::uninstall.
InitCompletes ==
    /\ InitStep("complete")
    /\ vmpHook' = FALSE
    /\ init' = "watch"
    /\ UNCHANGED <<loader, exiting, watcher, stops, reloads, timer, veh, journal,
                   logging, caught>>

InitCreatesWatcher ==
    /\ InitStep("watch")
    /\ watcher' = "waiting"
    /\ owned' = TRUE
    /\ init' = "ended"
    /\ UNCHANGED <<loader, exiting, watchStop, reloads, timer, handles,
                   logging, caught>>

\* The filter of game_init takes a fault outside guarded_install: its report loads
\* dbghelp.dll as well, and then the thread is at its end.
InitFaults ==
    /\ InitRuns
    /\ init \in {"vmp", "wait", "journal", "install", "complete", "watch"}
    /\ init' = "fatal"
    /\ UNCHANGED <<loader, exiting, watcher, stops, reloads, timer, handles,
                   logging, caught>>

InitGivesUp ==
    /\ InitStep("fatal")
    /\ LoaderLockFree
    /\ init' = "ended"
    /\ UNCHANGED <<loader, exiting, watcher, stops, reloads, timer, handles,
                   logging, caught>>

InitThread ==
    \/ InitStarts \/ InitInstallsVmp \/ InitWaits \/ InitOpensJournal
    \/ InitInstalls \/ InitLoadsDbghelp \/ InitEndsTimerCall \/ InitCompletes
    \/ InitCreatesWatcher \/ InitFaults \/ InitGivesUp

-----------------------------------------------------------------------------
(* The watcher's thread.                                                   *)

WatcherRuns == OthersRun /\ holder # "watcher"

\* The INI changes: the callback of init_game reloads the registry.
WatcherWakes ==
    /\ WatcherRuns
    /\ watcher = "waiting" /\ ~watchStop /\ reloads < MaxReloads
    /\ reloads' = reloads + 1
    /\ watcher' = "reload"
    /\ caught' = IF loader = "running" THEN caught ELSE caught \union {"watcher"}
    /\ UNCHANGED <<loader, exiting, init, stops, timer, handles, logging>>

\* on_reload of the frame-rate hook, if it is installed and enabled.
WatcherReloads ==
    /\ WatcherRuns
    /\ watcher = "reload"
    /\ \/ ApplyFps(watcher, "waiting")
       \/ watcher' = "waiting" /\ UNCHANGED g_raised
    /\ UNCHANGED <<loader, exiting, init, stops, reloads, periods, handles,
                   logging, caught>>

WatcherEndsTimerCall ==
    /\ WatcherRuns
    /\ \/ watcher = "raising" /\ BeginPeriod
       \/ watcher = "restoring" /\ EndPeriod
    /\ watcher' = "waiting"
    /\ UNCHANGED <<loader, exiting, init, stops, reloads, handles, logging,
                   caught>>

WatcherEnds ==
    /\ WatcherRuns
    /\ watcher = "waiting" /\ watchStop
    /\ watcher' = "ended"
    /\ UNCHANGED <<loader, exiting, init, stops, reloads, timer, handles, logging,
                   caught>>

-----------------------------------------------------------------------------
(* The log.  log::get by a thread of the game is a test without a lock, and*)
(* then the lock inside the object.  Nobody but the loader waits for the   *)
(* log's locks here, so who holds one is followed from the detach on.      *)

TestInstance ==
    /\ OthersRun
    /\ getting = "out" /\ instance # "none" /\ holder # "game"
    /\ getting' = "tested"
    /\ UNCHANGED <<loader, exiting, init, watcher, stops, reloads, timer, handles,
                   instance, lock, caught>>

\* With the object gone the thread locks freed memory.
LockInstance ==
    /\ OthersRun
    /\ getting = "tested"
    /\ IF instance = "live"
       THEN /\ holder = "free" /\ getting' = "out"
            /\ holder' = IF loader = "running" THEN "free" ELSE "game"
       ELSE getting' = "dead" /\ UNCHANGED holder
    /\ UNCHANGED <<loader, exiting, init, watcher, stops, reloads, timer, handles,
                   instance, blocked, caught>>

\* The steps of the init thread and the watcher's that log.
Logs(t) ==
    /\ instance = "live"
    /\ \/ t = "init" /\ init \notin {"none", "start", "raising", "restoring", "ended"}
       \/ t = "watcher" /\ watcher = "reload"

\* spdlog may need the loader lock while it holds its own.
TakeLog(t) ==
    /\ OthersRun /\ loader \in Detaching
    /\ Logs(t) /\ holder = "free"
    /\ holder' = t /\ blocked' \in BOOLEAN
    /\ UNCHANGED <<loader, exiting, init, watcher, stops, reloads, timer, handles,
                   instance, getting, caught>>

\* A log call ends, or a fault under the lock leaves it locked.
ReleaseLog(t) ==
    /\ OthersRun
    /\ holder = t /\ (blocked => LoaderLockFree)
    /\ holder' \in {"free", "left"} /\ blocked' = FALSE
    /\ UNCHANGED <<loader, exiting, init, watcher, stops, reloads, timer, handles,
                   instance, getting, caught>>

-----------------------------------------------------------------------------
(* DllMain.                                                                *)

Attach ==
    /\ loader = "out"
    /\ loader' = "running"
    /\ veh' = TRUE
    /\ init' = "start"
    /\ UNCHANGED <<exiting, watcher, stops, reloads, timer, vmpHook, journal,
                   logging, caught>>

BeginDetach(exit) ==
    /\ loader = "running"
    /\ loader' = "init"
    /\ exiting' = exit
    /\ caught' = (IF init = "ended" THEN {} ELSE {"init"})
                 \union (IF watcher \in {"none", "waiting"} THEN {}
                         ELSE {"watcher"})
    /\ \/ holder' \in {"free", "left"} /\ UNCHANGED blocked
       \/ /\ holder' \in {t \in Threads : Logs(t) \/ (t = "game" /\ instance = "live")}
          /\ blocked' \in BOOLEAN
    /\ UNCHANGED <<init, watcher, stops, reloads, timer, handles, instance, getting>>

LoaderStep(from, to) == loader = from /\ loader' = to

\* Mutant: the thread is joined, as the destructor of jthread would.
StopInit_Joins ==
    /\ init = "ended"
    /\ LoaderStep("init", "watcher")
    /\ UNCHANGED <<exiting, init, watcher, stops, reloads, timer, handles, logging,
                   caught>>

\* request_stop, which only the waits for the packer ask for (VmpBypass), and the
\* object is released, not joined.
StopInit ==
    /\ LoaderStep("init", "watcher")
    /\ UNCHANGED <<exiting, init, watcher, stops, reloads, timer, handles, logging,
                   caught>>

\* If there is a watcher yet.
StopWatcher ==
    /\ LoaderStep("watcher", "exit?")
    /\ watchStop' = (watchStop \/ owned)
    /\ owned' = FALSE
    /\ UNCHANGED <<exiting, init, watcher, reloads, timer, handles,
                   logging, caught>>

\* Mutant: the exit cleans up like an unload.
LeaveOnExit_CleansUp ==
    /\ LoaderStep("exit?", "vmp")
    /\ UNCHANGED <<exiting, init, watcher, stops, reloads, timer, handles,
                   logging, caught>>

LeaveOnExit ==
    /\ LoaderStep("exit?", IF exiting THEN "exited" ELSE "vmp")
    /\ UNCHANGED <<exiting, init, watcher, stops, reloads, timer, handles,
                   logging, caught>>

\* vmp::uninstall logs what it has removed.
UninstallVmp ==
    /\ LoaderStep("vmp", "timer")
    /\ vmpHook => holder = "free"
    /\ vmpHook' = FALSE
    /\ UNCHANGED <<exiting, init, watcher, stops, reloads, timer, veh, journal,
                   logging, caught>>

\* Mutant: the flag is cleared and the period forgotten.
RestoreTimer_FlagOnly ==
    /\ LoaderStep("timer", "journal")
    /\ g_raised' = FALSE
    /\ UNCHANGED <<exiting, init, watcher, stops, reloads, periods, handles,
                   logging, caught>>

\* restore_timer_resolution on the loader's thread.
RestoreTimer ==
    /\ LoaderStep("timer", "journal")
    /\ g_raised' = FALSE
    /\ periods' = IF g_raised /\ periods > 0 THEN periods - 1 ELSE periods
    /\ UNCHANGED <<exiting, init, watcher, stops, reloads, handles, logging,
                   caught>>

WriteClean ==
    /\ LoaderStep("journal", "close")
    /\ journal' = IF journal = "open" THEN "clean" ELSE journal
    /\ UNCHANGED <<exiting, init, watcher, stops, reloads, timer, veh, vmpHook,
                   logging, caught>>

CloseJournal ==
    /\ LoaderStep("close", "veh")
    /\ journal' = IF journal = "open" THEN "cut"
                  ELSE IF journal = "clean" THEN "closed" ELSE journal
    /\ UNCHANGED <<exiting, init, watcher, stops, reloads, timer, veh, vmpHook,
                   logging, caught>>

UninstallVeh ==
    /\ LoaderStep("veh", "log")
    /\ veh' = FALSE
    /\ UNCHANGED <<exiting, init, watcher, stops, reloads, timer, vmpHook,
                   journal, logging, caught>>

\* g_instance.reset(): the pointer is null before the object is destroyed, which
\* flushes its loggers under their locks.
ShutdownLog ==
    /\ LoaderStep("log", "unmap")
    /\ holder = "free"
    /\ instance' = "none"
    /\ caught' = IF getting = "out" THEN caught ELSE caught \union {"game"}
    /\ UNCHANGED <<exiting, init, watcher, stops, reloads, timer, handles, getting,
                   lock>>

\* DllMain returns and the plugin's image is unmapped.
Unmap ==
    /\ LoaderStep("unmap", "gone")
    /\ UNCHANGED <<exiting, init, watcher, stops, reloads, timer, handles, logging,
                   caught>>

Detach ==
    \/ StopInit \/ StopWatcher \/ LeaveOnExit \/ UninstallVmp \/ RestoreTimer
    \/ WriteClean \/ CloseJournal \/ UninstallVeh \/ ShutdownLog \/ Unmap

-----------------------------------------------------------------------------

WatcherThread == WatcherWakes \/ WatcherReloads \/ WatcherEndsTimerCall
                 \/ WatcherEnds
GameThread == TestInstance \/ LockInstance
LoaderThread == Attach \/ (\E exit \in BOOLEAN : BeginDetach(exit)) \/ Detach

LogCalls == \E t \in Threads : TakeLog(t) \/ ReleaseLog(t)

LifecycleNext ==
    InitThread \/ WatcherThread \/ GameThread \/ LogCalls \/ LoaderThread

\* The loader goes on when it can, and gets a lock of the log that is free time and
\* again; a log call that does not wait for the loader comes to its end.  The game
\* need not log, the INI need not change, and nobody need unload the plugin.
LifecycleFairness ==
    /\ SF_lifecycleVars(Detach)
    /\ \A t \in Threads : WF_lifecycleVars(ReleaseLog(t))

-----------------------------------------------------------------------------
(* Properties.                                                             *)

\* The tail of DllMain: an unload that finds the plugin's threads at rest, and
\* no thread inside log::get, gives back everything, whatever the start has come
\* to and whatever the reloads did: the timer period, both handlers, the journal
\* with its last line, the log, and no watcher is left that will not end.
UnloadGivesBack ==
    (loader = "gone" /\ caught = {}) =>
        /\ ~g_raised /\ periods = 0
        /\ ~veh /\ ~vmpHook
        /\ journal \in {"none", "closed"}
        /\ instance = "none" /\ getting # "dead"
        /\ watcher \in {"none", "ended"} \/ watchStop

\* While the plugin is loaded, the flag says whether the period is raised, and it
\* is raised once at most, also after failures of timeBeginPeriod: outside a call
\* of either function.
TimerFlagTrue ==
    (loader = "running" /\ {init, watcher} \intersect {"raising", "restoring"} = {})
        => periods = (IF g_raised THEN 1 ELSE 0)

\* The comments in DllMain: the loader never waits for a thread that may be waiting
\* for the loader lock, nor, when the process exits, for a lock that a terminated
\* thread has held.  An unload logs, though: it can stand still at a lock of the log
\* that a fault has left, or whose holder waits for the loader lock.
LogStuck == holder = "left" \/ blocked
DetachReturns ==
    (loader \in Detaching)
        ~> (loader \in {"gone", "exited"} \/ (~exiting /\ LogStuck))
=============================================================================
