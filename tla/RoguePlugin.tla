---------------------------- MODULE RoguePlugin -----------------------------
(***************************************************************************)
(* The plugin for Rogue: PluginLifecycle with the LanguageUnlock hook at   *)
(* work on its threads.  install is a part of install_all on the init      *)
(* thread, on_reload a part of the reload on the watcher's, and the game   *)
(* starts up meanwhile.                                                    *)
(*                                                                         *)
(* The language is followed until the loader detaches.  Then its variables *)
(* are set to one value and stay, which keeps the instance small: no step  *)
(* of the lifecycle depends on them any more.                              *)
(***************************************************************************)
EXTENDS PluginLifecycle, LanguageUnlock

pluginVars == <<lifecycleVars, languageVars>>

PluginInit == LifecycleInit /\ LanguageInit

Followed == loader = "running"

\* LanguageUnlock's install, which install_all calls before FPSUnlock's.
InstallLanguage ==
    /\ Followed /\ InitStep("install")
    /\ Install
    /\ UNCHANGED lifecycleVars

\* The rest of install_all, before and after it; with the hook disabled, or its
\* patterns missing, there is no install.
InstallOthers ==
    /\ InitInstalls
    /\ ~Followed \/ step \notin InstallPlace
    /\ UNCHANGED languageVars

\* The registry loads the new configuration, and calls on_reload of the hooks that
\* are installed and enabled.
BeginReload ==
    /\ WatcherWakes
    /\ IF Followed /\ step \in {"idle", "off"} THEN ReloadConfig ELSE UNCHANGED languageVars

ReloadLanguage ==
    /\ Followed /\ watcher = "reload"
    /\ OnReload
    /\ UNCHANGED lifecycleVars

ReloadOthers ==
    /\ WatcherReloads
    /\ step \notin ReloadPlace
    /\ UNCHANGED languageVars

\* The game's startup goes its way from before the plugin is loaded.
GameStartup ==
    /\ loader \in {"out", "running"}
    /\ Game
    /\ UNCHANGED lifecycleVars

ForgetLanguage ==
    /\ place' = "boot" /\ step' = "out"
    /\ bits' = {} /\ menu_bf' = {} /\ resolved' = {}
    /\ ui_lang' = "own" /\ lang_idx' = "own" /\ id_code' = "own"
    /\ s_real_game_id' = "ww"
    /\ s_ui_language' = "None" /\ s_current_language' = "None"
    /\ new_lang' = "None"
    /\ copied' = FALSE /\ bf_hook' = FALSE
    /\ fresh' = FALSE /\ quiet' = TRUE

DetachPlugin == (\E exit \in BOOLEAN : BeginDetach(exit)) /\ ForgetLanguage

InitAlone ==
    \/ InitStarts \/ InitInstallsVmp \/ InitWaits \/ InitOpensJournal
    \/ InitLoadsDbghelp \/ InitEndsTimerCall \/ InitCompletes
    \/ InitCreatesWatcher \/ InitFaults \/ InitGivesUp
WatcherAlone == WatcherEndsTimerCall \/ WatcherEnds

LifecycleAlone ==
    /\ InitAlone \/ WatcherAlone \/ GameThread \/ LogCalls \/ Attach \/ Detach
    /\ UNCHANGED languageVars

PluginNext ==
    \/ LifecycleAlone \/ DetachPlugin \/ GameStartup
    \/ InstallLanguage \/ InstallOthers
    \/ BeginReload \/ ReloadLanguage \/ ReloadOthers

PluginSpec == PluginInit /\ [][PluginNext]_pluginVars /\ LifecycleFairness

-----------------------------------------------------------------------------
(* Properties.                                                             *)

\* init_game creates the watcher as its last step: no reload runs beside install,
\* beside another hook's install, or beside a call of the timer functions by the
\* init thread; none of them has a lock against the other.
ReloadAfterInit == watcher # "none" => init = "ended" /\ step \notin InstallPlace
=============================================================================
