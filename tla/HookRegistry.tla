---------------------------- MODULE HookRegistry ----------------------------
(***************************************************************************)
(* hooks::Registry: install_all on the init thread and then, one at a      *)
(* time, reload on the watcher thread (the watcher starts only after       *)
(* install_all has returned).  Game threads run the callbacks of armed     *)
(* sites between any two steps and look at `enabled` and `cfg`, which is   *)
(* why every store to them is a step of its own.                           *)
(*                                                                         *)
(* Abstracted: a hook's Config is the revision of the INI it was read      *)
(* from; of the [Hooks] section only the set of hooks that it leaves on    *)
(* is kept; the sites a hook patches are one "some site is armed" bit.     *)
(* What install or on_reload of a hook does with the configuration it is   *)
(* run with is the hook's affair: it may refuse a value, find the game not *)
(* ready or fail to write (see LanguageUnlock).  `told` records the run.   *)
(***************************************************************************)
EXTENDS HookGraph

CONSTANTS
    Reloadable,     \* the hooks whose traits define on_reload
    MaxReloads      \* bound on the number of reload calls

ASSUME ReloadAssumption == Reloadable \subseteq Hook /\ MaxReloads \in Nat

VARIABLES
    pc,         \* where the registry's caller is, see PC
    call,       \* the call in progress: install_all or reload
    i,          \* index of the loop in progress
    ini,        \* the parsed INI of that call: on, rev
    cfg,        \* cfg[h]: INI revision held by the Config of h, 0 for defaults
    enabled,    \* the hooks whose HookState::enabled is true
    installed,  \* the hooks whose HookState::installed is true
    flags,      \* the local enabled_flags of apply_enabled_flags
    changed,    \* the local `changed` of cascade_disable
    found,      \* the hooks all of whose required patterns were resolved
    live,       \* the hooks with an armed site in the game's code
    failed,     \* the hooks whose install returned false or faulted
    told,       \* told[h]: revision that install or on_reload of h last ran with
    journal     \* the hooks with a hook_installed line in the journal

vars == <<pc, call, i, ini, cfg, enabled, installed, flags, changed, found,
          live, failed, told, journal>>

installVars == <<installed, found, live, failed, told, journal>>
cascadeVars == <<flags, changed>>
callVars == <<call, ini>>

PC == {"load_config", "load_enabled", "cascade", "store_enabled", "install",
       "installing", "on_reload", "idle", "aborted"}

Rev == 0 .. (MaxReloads + 1)

TypeOK ==
    /\ pc \in PC
    /\ call \in {"install_all", "reload"}
    /\ i \in 0 .. N
    /\ ini \in [on : SUBSET Hook, rev : Rev]
    /\ cfg \in [Hook -> Rev]
    /\ enabled \subseteq Hook
    /\ installed \subseteq Hook
    /\ flags \subseteq Hook
    /\ changed \in BOOLEAN
    /\ found \subseteq Hook
    /\ live \subseteq Hook
    /\ failed \subseteq Hook
    /\ told \in [Hook -> Rev]
    /\ journal \subseteq Hook

Init ==
    /\ pc = "load_config"
    /\ call = "install_all"
    /\ i = 0
    /\ ini \in [on : SUBSET Hook, rev : {1}]
    /\ cfg = [h \in Hook |-> 0]
    /\ enabled = Hook
    /\ installed = {}
    /\ flags = {}
    /\ changed = FALSE
    /\ found \in SUBSET Hook
    /\ live = {}
    /\ failed = {}
    /\ told = [h \in Hook |-> 0]
    /\ journal = {}

-----------------------------------------------------------------------------
(* The part install_all and reload share: configs, then enabled flags.     *)

LoadConfig ==
    /\ pc = "load_config"
    /\ i < N
    /\ cfg' = [cfg EXCEPT ![i] = ini.rev]
    /\ i' = i + 1
    /\ UNCHANGED <<pc, enabled, installVars, callVars, cascadeVars>>

ConfigsLoaded ==
    /\ pc = "load_config"
    /\ i = N
    /\ pc' = "load_enabled"
    /\ i' = 0
    /\ UNCHANGED <<cfg, enabled, installVars, callVars, cascadeVars>>

\* load_enabled stores what the file says, dependencies not yet considered.
LoadEnabled ==
    /\ pc = "load_enabled"
    /\ i < N
    /\ enabled' = IF i \in ini.on THEN enabled \union {i} ELSE enabled \ {i}
    /\ i' = i + 1
    /\ UNCHANGED <<pc, cfg, installVars, callVars, cascadeVars>>

\* The flags are copied to a local array; no other thread stores to them.
ReadFlags ==
    /\ pc = "load_enabled"
    /\ i = N
    /\ flags' = enabled
    /\ changed' = FALSE
    /\ pc' = "cascade"
    /\ i' = 0
    /\ UNCHANGED <<cfg, enabled, installVars, callVars>>

\* Mutant: a pass does not remember that it has disabled somebody.
CascadeVisit_Forgetful ==
    /\ pc = "cascade"
    /\ i < N
    /\ flags' = IF HardDeps[i] \subseteq flags THEN flags ELSE flags \ {i}
    /\ i' = i + 1
    /\ UNCHANGED <<pc, changed, cfg, enabled, installVars, callVars>>

\* cascade_disable: a pass over the hooks in list order ...
CascadeVisit ==
    /\ pc = "cascade"
    /\ i < N
    /\ IF i \in flags /\ ~(HardDeps[i] \subseteq flags)
         THEN flags' = flags \ {i} /\ changed' = TRUE
         ELSE UNCHANGED cascadeVars
    /\ i' = i + 1
    /\ UNCHANGED <<pc, cfg, enabled, installVars, callVars>>

\* Mutant: `changed` is declared outside of the do-while loop.
CascadeAgain_NoReset ==
    /\ pc = "cascade"
    /\ i = N
    /\ changed
    /\ i' = 0
    /\ UNCHANGED <<pc, cfg, enabled, cascadeVars, installVars, callVars>>

\* ... repeated for as long as a pass has disabled somebody.
CascadeAgain ==
    /\ pc = "cascade"
    /\ i = N
    /\ changed
    /\ changed' = FALSE
    /\ i' = 0
    /\ UNCHANGED <<pc, cfg, enabled, flags, installVars, callVars>>

\* Mutant: one pass is taken to be enough.
CascadeDone_OnePass ==
    /\ pc = "cascade"
    /\ i = N
    /\ pc' = "store_enabled"
    /\ i' = 0
    /\ UNCHANGED <<cfg, enabled, installVars, callVars, cascadeVars>>

CascadeDone ==
    /\ pc = "cascade"
    /\ i = N
    /\ ~changed
    /\ pc' = "store_enabled"
    /\ i' = 0
    /\ UNCHANGED <<cfg, enabled, installVars, callVars, cascadeVars>>

StoreEnabled ==
    /\ pc = "store_enabled"
    /\ i < N
    /\ enabled' = IF i \in flags THEN enabled \union {i} ELSE enabled \ {i}
    /\ i' = i + 1
    /\ UNCHANGED <<pc, cfg, installVars, callVars, cascadeVars>>

FlagsApplied ==
    /\ pc = "store_enabled"
    /\ i = N
    /\ pc' = IF call = "install_all" THEN "install" ELSE "on_reload"
    /\ i' = 0
    /\ UNCHANGED <<cfg, enabled, installVars, callVars, cascadeVars>>

-----------------------------------------------------------------------------
(* The installation loop of install_all.                                   *)

\* Mutant: install in list order.
Slot_ListOrder(k) == k

\* The hook whose turn it is in slot k of install_order.
Slot(k) == InstallOrder[k]

\* Mutant: trust the flags as the cascade left them.
DepsMet_ByFlags(h) == HardDeps[h] \subseteq flags

\* first_unmet_hard_dep finds nothing.
DepsMet(h) == HardDeps[h] \subseteq installed

SkipDisabled ==
    /\ pc = "install"
    /\ i < N
    /\ Slot(i) \notin enabled
    /\ i' = i + 1
    /\ UNCHANGED <<pc, cfg, enabled, installVars, callVars, cascadeVars>>

\* Mutant: the skipped hook stays enabled.
SkipUninstallable_StaysEnabled ==
    /\ pc = "install"
    /\ i < N
    /\ Slot(i) \in enabled
    /\ ~DepsMet(Slot(i)) \/ Slot(i) \notin found
    /\ i' = i + 1
    /\ UNCHANGED <<pc, cfg, enabled, installVars, callVars, cascadeVars>>

\* An enabled hook with an uninstalled dependency or a missing pattern.
SkipUninstallable ==
    /\ pc = "install"
    /\ i < N
    /\ Slot(i) \in enabled
    /\ ~DepsMet(Slot(i)) \/ Slot(i) \notin found
    /\ enabled' = enabled \ {Slot(i)}
    /\ i' = i + 1
    /\ UNCHANGED <<pc, cfg, installVars, callVars, cascadeVars>>

BeginInstall ==
    /\ pc = "install"
    /\ i < N
    /\ Slot(i) \in enabled
    /\ DepsMet(Slot(i))
    /\ Slot(i) \in found
    /\ pc' = "installing"
    /\ UNCHANGED <<i, cfg, enabled, installVars, callVars, cascadeVars>>

\* The hook's install function arms a site: from here its callback can run.
ArmSite ==
    /\ pc = "installing"
    /\ Slot(i) \notin live
    /\ live' = live \union {Slot(i)}
    /\ UNCHANGED <<pc, i, cfg, enabled, installed, found, failed, told,
                   journal, callVars, cascadeVars>>

InstallSucceeds ==
    /\ pc = "installing"
    /\ installed' = installed \union {Slot(i)}
    /\ told' = [told EXCEPT ![Slot(i)] = cfg[Slot(i)]]
    /\ journal' = journal \union {Slot(i)}
    /\ pc' = "install"
    /\ i' = i + 1
    /\ UNCHANGED <<cfg, enabled, found, live, failed, callVars, cascadeVars>>

\* install returned false, or guarded_install caught a hardware exception.
\* Some hooks take back what they armed, most leave it.
InstallFails ==
    /\ pc = "installing"
    /\ enabled' = enabled \ {Slot(i)}
    /\ failed' = failed \union {Slot(i)}
    /\ live' \in {live, live \ {Slot(i)}}
    /\ pc' = "install"
    /\ i' = i + 1
    /\ UNCHANGED <<cfg, installed, found, told, journal, callVars,
                   cascadeVars>>

\* A C++ exception is not caught by guarded_install: it ends install_all, and
\* init_game then returns before it starts the watcher.
InstallThrows ==
    /\ pc = "installing"
    /\ pc' = "aborted"
    /\ UNCHANGED <<i, cfg, enabled, installVars, callVars, cascadeVars>>

InstallDone ==
    /\ pc = "install"
    /\ i = N
    /\ pc' = "idle"
    /\ UNCHANGED <<i, cfg, enabled, installVars, callVars, cascadeVars>>

-----------------------------------------------------------------------------
(* reload, called by the file watcher with a freshly read INI.             *)

\* Mutant: reload does not load the configs.
StartReload_FlagsOnly ==
    /\ pc = "idle"
    /\ ini.rev <= MaxReloads
    /\ ini' \in [on : SUBSET Hook, rev : {ini.rev + 1}]
    /\ call' = "reload"
    /\ pc' = "load_enabled"
    /\ i' = 0
    /\ UNCHANGED <<cfg, enabled, installVars, cascadeVars>>

StartReload ==
    /\ pc = "idle"
    /\ ini.rev <= MaxReloads
    /\ ini' \in [on : SUBSET Hook, rev : {ini.rev + 1}]
    /\ call' = "reload"
    /\ pc' = "load_config"
    /\ i' = 0
    /\ UNCHANGED <<cfg, enabled, installVars, cascadeVars>>

\* A hook is told of its new config only if it is installed and enabled; what
\* it makes of it does not come back to the registry, on_reload is void.
CallOnReload ==
    /\ pc = "on_reload"
    /\ i < N
    /\ told' = IF i \in installed \intersect enabled \intersect Reloadable
                 THEN [told EXCEPT ![i] = cfg[i]]
                 ELSE told
    /\ i' = i + 1
    /\ UNCHANGED <<pc, cfg, enabled, installed, found, live, failed, journal,
                   callVars, cascadeVars>>

ReloadDone ==
    /\ pc = "on_reload"
    /\ i = N
    /\ pc' = "idle"
    /\ UNCHANGED <<i, cfg, enabled, installVars, callVars, cascadeVars>>

-----------------------------------------------------------------------------
ApplyStep ==
    \/ LoadConfig \/ ConfigsLoaded \/ LoadEnabled \/ ReadFlags
    \/ CascadeVisit \/ CascadeAgain \/ CascadeDone
    \/ StoreEnabled \/ FlagsApplied

InstallStep ==
    \/ SkipDisabled \/ SkipUninstallable \/ BeginInstall \/ ArmSite
    \/ InstallSucceeds \/ InstallFails \/ InstallThrows \/ InstallDone

ReloadStep == CallOnReload \/ ReloadDone

\* The steps of a call in progress, and the arrival of a new call.
CallStep == ApplyStep \/ InstallStep \/ ReloadStep

Next == CallStep \/ StartReload

\* The thread that made the call keeps running; nobody has to edit the file.
Spec == Init /\ [][Next]_vars /\ WF_vars(CallStep)

-----------------------------------------------------------------------------
(* Properties.                                                             *)

\* A hook that is installed, or whose callback can already run, has all of its
\* hard dependencies installed ("a dependency whose patterns were missing or
\* whose install failed leaves dependents to run against state nothing
\* maintains").
DependenciesFirst ==
    \A h \in live \union installed : HardDeps[h] \subseteq installed

\* Between two calls the enabled hooks are closed under hard dependencies:
\* after install_all they are the installed ones, and a reload leaves exactly
\* the largest closed part of what the file asks for, however the chains of
\* dependencies run through the list.
EnabledAtRest ==
    pc = "idle" => enabled = IF call = "install_all"
                               THEN installed
                               ELSE GreatestClosed(ini.on)

\* install_all gives up only hooks it has a reason to give up: a hook that the
\* file and its dependencies leave on is installed unless a pattern is missing,
\* its own install failed, or a hard dependency is not installed in the end.
SkippedForCause ==
    (pc = "idle" /\ call = "install_all") =>
        \A h \in GreatestClosed(ini.on) \ installed :
            h \notin found \/ h \in failed \/ ~DepsMet(h)

\* Whatever was switched off and on or reloaded before, an active hook that
\* supports hot reload has had its chance at the latest configuration when the
\* call is over: install or on_reload has run with it, even if earlier reloads
\* passed the hook over because it was off at the time.
ToldAtRest ==
    pc = "idle" =>
        \A h \in installed \intersect enabled \intersect Reloadable :
            told[h] = ini.rev

\* cascade_disable never disables a hook that no dependency forces it to, and
\* a pass that changes nothing has established closure for what it visited.
CascadeExact ==
    pc = "cascade" =>
        /\ GreatestClosed(ini.on) \subseteq flags
        /\ ~changed => \A h \in flags : h < i => HardDeps[h] \subseteq flags

\* Every call ends, the repeated passes of cascade_disable included.
CallsEnd == (pc \notin {"idle", "aborted"}) ~> (pc \in {"idle", "aborted"})

\* The registry does what RegistryContract says, for readers of enabled().
CallPhase ==
    CASE pc = "aborted" -> "dead"
      [] pc = "idle" -> "ready"
      [] OTHER -> IF call = "install_all" THEN "starting" ELSE "reloading"

Contract == INSTANCE RegistryContract
    WITH phase <- CallPhase, enabled <- enabled, installed <- installed
ImplementsContract == Contract!Spec

\* guarded_install reports a hook whose installation failed as skipped, and
\* install_all switches it off: between calls the sites it left armed do not
\* act.
SkippedStaysOff == pc = "idle" => (live \ installed) \intersect enabled = {}
=============================================================================
