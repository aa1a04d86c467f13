----------------------------- MODULE VmpBypass -----------------------------
(***************************************************************************)
(* The VMProtect bypass of the Rogue build: kernel32!CreateThread is       *)
(* hooked while the packer starts its integrity thread, that thread is     *)
(* replaced by an empty one, the game is patched, the hook is removed.     *)
(* Actors: the init thread (install, the two waits, install_all,           *)
(* uninstall), threads that call CreateThread at any time (the packer and  *)
(* the game), and the loader, whose detach calls uninstall too, does not   *)
(* wait for the init thread, and has the rest of DllMain to run before the *)
(* plugin is unmapped: until then the init thread goes on.                 *)
(*                                                                         *)
(* safetyhook::InlineHook is external: `armed` is the patched prologue of  *)
(* CreateThread, `trampoline` a non-empty g_create_thread_hook.  Its call  *)
(* runs under a lock and answers null without a trampoline; its reset      *)
(* disarms first and frees the trampoline afterwards.                      *)
(***************************************************************************)
EXTENDS Integers

CONSTANTS
    GameThreads,    \* threads of the game that create a thread, once each
    Packer,         \* the thread that creates the integrity thread
    MaxPolls        \* turns of a polling loop until it times out

ASSUME PackerAssumption == Packer \notin GameThreads /\ MaxPolls \in Nat \ {0}

Caller == GameThreads \union {Packer}

VARIABLES
    pc,         \* pc["init"] and pc["loader"]
    trampoline, \* g_create_thread_hook reaches the real CreateThread
    armed,      \* CreateThread jumps to hk_create_thread
    active,     \* g_active
    blocked,    \* g_blocked_count
    stop,       \* stop requested on the init thread's token
    text,       \* .text of the game: "packed" (its first byte is zero),
                \* "unpacked", or "none" (the image has no such section)
    patched,    \* install_all has patched the game
    stage,      \* stage[c]: "idle", "hooked", "calling" or "returned"
    start,      \* start[c]: the start routine of the thread c creates
    handle,     \* handle[c]: what CreateThread has returned to c
    warned,     \* history: the log says that the bypass may not hold
    polls,      \* turns of the wait in progress
    found       \* history: where the loader's uninstall found the init thread

hookVars == <<trampoline, armed, active>>
callVars == <<blocked, stage, start, handle>>
gameVars == <<text, patched, warned, polls>>
unloadVars == <<stop, found>>
vars == <<pc, hookVars, callVars, gameVars, unloadVars>>

\* The steps of uninstall, which both threads call.
UninstallPC == {"check_active", "disarm", "free", "deactivate"}
InitPC == {"create", "publish", "arm", "activate", "wait_unpack",
           "wait_blocked", "install_all", "done"} \union UninstallPC
LoaderPC == {"loaded", "tail", "unloaded"} \union UninstallPC

\* A start routine lies in a VMProtect section, is a branch into one, or is
\* neither; "empty" is empty_thread.
VmpStart == {"in_vmp", "branch_to_vmp"}
Start == VmpStart \union {"elsewhere", "empty"}

TypeOK ==
    /\ pc \in [{"init", "loader"} -> InitPC \union LoaderPC]
    /\ pc["init"] \in InitPC /\ pc["loader"] \in LoaderPC
    /\ trampoline \in BOOLEAN /\ armed \in BOOLEAN /\ active \in BOOLEAN
    /\ stop \in BOOLEAN /\ found \in InitPC \union {"nowhere"}
    /\ text \in {"packed", "unpacked", "none"}
    /\ patched \in BOOLEAN /\ warned \in BOOLEAN
    /\ polls \in 0 .. MaxPolls
    /\ blocked \in Nat
    /\ stage \in [Caller -> {"idle", "hooked", "calling", "returned"}]
    /\ start \in [Caller -> Start]
    /\ handle \in [Caller -> {"none", "thread", "null"}]

Init ==
    /\ pc = [t \in {"init", "loader"} |->
               IF t = "init" THEN "create" ELSE "loaded"]
    /\ trampoline = FALSE
    /\ armed = FALSE
    /\ active = FALSE
    /\ blocked = 0
    /\ stop = FALSE
    /\ found = "nowhere"
    /\ text \in {"packed", "unpacked", "none"}
    /\ patched = FALSE
    /\ stage = [c \in Caller |-> "idle"]
    /\ start \in [Caller -> VmpStart \union {"elsewhere"}]
    /\ \A c \in Caller : c = Packer <=> start[c] \in VmpStart
    /\ handle = [c \in Caller |-> "none"]
    /\ warned = FALSE
    /\ polls = 0

\* Nothing of the plugin runs once its code is unmapped.
Mapped == pc["loader"] # "unloaded"

At(t, here) == pc[t] = here /\ Mapped
Goto(t, next) == pc' = [pc EXCEPT ![t] = next]

-----------------------------------------------------------------------------
(* install, on the init thread.                                            *)

\* No VMProtect section, no CreateThread, or the hook could not be made or
\* enabled: init_game warns and goes on without the bypass.
InstallFailed ==
    /\ Goto("init", "wait_unpack")
    /\ warned' = TRUE
    /\ trampoline' = FALSE

\* Mutant: the hook is created without the StartDisabled flag.
CreateHook_Armed ==
    /\ At("init", "create")
    /\ Goto("init", "publish")
    /\ armed' = TRUE
    /\ UNCHANGED <<trampoline, active, callVars, gameVars, unloadVars>>

\* InlineHook::create with StartDisabled: the hook exists, in a local.
CreateHook ==
    /\ At("init", "create")
    /\ \/ Goto("init", "publish") /\ UNCHANGED <<trampoline, warned>>
       \/ InstallFailed
    /\ UNCHANGED <<armed, active, callVars, text, patched, polls, unloadVars>>

\* ... and is moved to g_create_thread_hook before it is armed.
PublishHook ==
    /\ At("init", "publish")
    /\ trampoline' = TRUE
    /\ Goto("init", "arm")
    /\ UNCHANGED <<armed, active, callVars, gameVars, unloadVars>>

ArmHook ==
    /\ At("init", "arm")
    /\ \/ /\ armed' = TRUE
          /\ Goto("init", "activate")
          /\ UNCHANGED <<trampoline, warned>>
       \/ InstallFailed /\ UNCHANGED armed
    /\ UNCHANGED <<active, callVars, text, patched, polls, unloadVars>>

Activate ==
    /\ At("init", "activate")
    /\ active' = TRUE
    /\ Goto("init", "wait_unpack")
    /\ UNCHANGED <<trampoline, armed, callVars, gameVars, unloadVars>>

-----------------------------------------------------------------------------
(* The two waits of init_game.                                             *)

Satisfied(t) == IF t = "wait_unpack" THEN text # "packed" ELSE blocked > 0

\* What a wait looks at before its loop: the bypass is not there (any more), or
\* the game is unpacked or has no .text to look at.
Skipped(t) ==
    /\ polls = 0
    /\ ~active \/ (t = "wait_unpack" /\ text # "packed")

AfterWait(t) == IF t = "wait_unpack" THEN "wait_blocked" ELSE "install_all"

\* A requested stop ends the loop with a warning.
Cancelled(t) == stop /\ ~Skipped(t)

\* Mutant: the time waited is never added up.
Poll_NoClock ==
    \E here \in {"wait_unpack", "wait_blocked"} :
        /\ At("init", here)
        /\ Skipped(here) \/ Cancelled(here) \/ Satisfied(here)
        /\ Goto("init", AfterWait(here))
        /\ warned' = (warned \/ Cancelled(here))
        /\ UNCHANGED <<hookVars, callVars, text, patched, polls, unloadVars>>

\* The test on entry and then one turn of a polling loop: a requested stop is
\* looked at first, then the condition; otherwise sleep.
Poll ==
    \E here \in {"wait_unpack", "wait_blocked"} :
        /\ At("init", here)
        /\ polls < MaxPolls
        /\ IF Skipped(here) \/ Cancelled(here) \/ Satisfied(here)
             THEN /\ Goto("init", AfterWait(here))
                  /\ polls' = 0
                  /\ warned' = (warned \/ Cancelled(here))
             ELSE polls' = polls + 1 /\ UNCHANGED <<pc, warned>>
        /\ UNCHANGED <<hookVars, callVars, text, patched, unloadVars>>

\* 30 seconds are over: warn and go on.
TimeOut ==
    \E here \in {"wait_unpack", "wait_blocked"} :
        /\ At("init", here)
        /\ polls = MaxPolls
        /\ Goto("init", AfterWait(here))
        /\ polls' = 0
        /\ warned' = TRUE
        /\ UNCHANGED <<hookVars, callVars, text, patched, unloadVars>>

\* install_all patches the game; an exception from it skips uninstall.
InstallAll ==
    /\ At("init", "install_all")
    /\ patched' = TRUE
    /\ \E next \in {"check_active", "done"} : Goto("init", next)
    /\ UNCHANGED <<hookVars, callVars, text, warned, polls, unloadVars>>

-----------------------------------------------------------------------------
(* uninstall, called by the init thread at the end and by the loader when  *)
(* the plugin is unloaded.                                                 *)

AfterUninstall(t) == IF t = "init" THEN "done" ELSE "tail"

\* The first test is the loader's only look at what the init thread has done.
Find(t) == found' = IF t = "loader" THEN pc["init"] ELSE found

\* Mutant: g_active is exchanged for false in the test.
CheckActive_Exchange(t) ==
    /\ At(t, "check_active")
    /\ Goto(t, IF active THEN "disarm" ELSE AfterUninstall(t))
    /\ active' = FALSE
    /\ Find(t)
    /\ UNCHANGED <<trampoline, armed, callVars, gameVars, stop>>

CheckActive(t) ==
    /\ At(t, "check_active")
    /\ Goto(t, IF active THEN "disarm" ELSE AfterUninstall(t))
    /\ Find(t)
    /\ UNCHANGED <<hookVars, callVars, gameVars, stop>>

\* g_create_thread_hook.reset(): restore the prologue, ...
DisarmHook(t) ==
    /\ At(t, "disarm")
    /\ armed' = FALSE
    /\ Goto(t, "free")
    /\ UNCHANGED <<trampoline, active, callVars, gameVars, unloadVars>>

\* ... then give up the trampoline.
FreeHook(t) ==
    /\ At(t, "free")
    /\ trampoline' = FALSE
    /\ Goto(t, "deactivate")
    /\ UNCHANGED <<armed, active, callVars, gameVars, unloadVars>>

Deactivate(t) ==
    /\ At(t, "deactivate")
    /\ active' = FALSE
    /\ Goto(t, AfterUninstall(t))
    /\ UNCHANGED <<trampoline, armed, callVars, gameVars, unloadVars>>

Uninstall(t) == CheckActive(t) \/ DisarmHook(t) \/ FreeHook(t) \/ Deactivate(t)

\* DLL_PROCESS_DETACH asks the init thread to stop and goes on at once.
Detach ==
    /\ pc["loader"] = "loaded"
    /\ stop' = TRUE
    /\ Goto("loader", "check_active")
    /\ UNCHANGED <<hookVars, callVars, gameVars, found>>

\* The rest of DllMain (timer, journal, VEH, log), then the code is unmapped.
Unmap ==
    /\ pc["loader"] = "tail"
    /\ Goto("loader", "unloaded")
    /\ UNCHANGED <<hookVars, callVars, gameVars, unloadVars>>

-----------------------------------------------------------------------------
(* CreateThread, called by the game and by the packer.                     *)

\* The packer unpacks .text before it starts its integrity thread.
Unpack ==
    /\ text = "packed"
    /\ text' = "unpacked"
    /\ UNCHANGED <<pc, hookVars, callVars, patched, warned, polls, unloadVars>>

Call(c) ==
    /\ stage[c] = "idle"
    /\ c = Packer => text # "packed"
    /\ IF armed
         THEN /\ Mapped
              /\ stage' = [stage EXCEPT ![c] = "hooked"]
              /\ UNCHANGED handle
         ELSE /\ stage' = [stage EXCEPT ![c] = "returned"]
              /\ handle' = [handle EXCEPT ![c] = "thread"]
    /\ UNCHANGED <<pc, hookVars, blocked, start, gameVars, unloadVars>>

\* hk_create_thread up to its last statement.
IsVmpThread(s) == s \in VmpStart

\* Mutant: every intercepted thread is counted as blocked.
Intercept_CountsAll(c) ==
    /\ stage[c] = "hooked"
    /\ Mapped
    /\ stage' = [stage EXCEPT ![c] = "calling"]
    /\ start' = [start EXCEPT ![c] = IF IsVmpThread(@) THEN "empty" ELSE @]
    /\ blocked' = blocked + 1
    /\ UNCHANGED <<pc, hookVars, handle, gameVars, unloadVars>>

Intercept(c) ==
    /\ stage[c] = "hooked"
    /\ Mapped
    /\ stage' = [stage EXCEPT ![c] = "calling"]
    /\ IF IsVmpThread(start[c])
         THEN /\ start' = [start EXCEPT ![c] = "empty"]
              /\ blocked' = blocked + 1
         ELSE UNCHANGED <<start, blocked>>
    /\ UNCHANGED <<pc, hookVars, handle, gameVars, unloadVars>>

\* g_create_thread_hook.call: the real CreateThread, or null without one.
CallThrough(c) ==
    /\ stage[c] = "calling"
    /\ Mapped
    /\ stage' = [stage EXCEPT ![c] = "returned"]
    /\ handle' = [handle EXCEPT ![c] = IF trampoline THEN "thread" ELSE "null"]
    /\ UNCHANGED <<pc, hookVars, blocked, start, gameVars, unloadVars>>

-----------------------------------------------------------------------------
InitStep == \/ CreateHook \/ PublishHook \/ ArmHook \/ Activate
            \/ Poll \/ TimeOut \/ InstallAll \/ Uninstall("init")

CallerStep(c) == Call(c) \/ Intercept(c) \/ CallThrough(c)

Next == \/ InitStep \/ Detach \/ Uninstall("loader") \/ Unmap \/ Unpack
        \/ \E c \in Caller : CallerStep(c)

\* The init thread is scheduled; the packer need not unpack, nobody need call.
Spec == Init /\ [][Next]_vars /\ WF_vars(InitStep)

-----------------------------------------------------------------------------
(* Properties.                                                             *)

\* The packer's integrity thread runs VMProtect code.
IntegrityRuns == handle[Packer] = "thread" /\ start[Packer] \in VmpStart

\* The game is never patched under the eyes of the integrity thread ("letting
\* the integrity thread run would crash the process") without the log having
\* warned: not when the packer is early, not when it is late, and not because
\* the game created threads of its own meanwhile.  One exception: an unload
\* that takes the hook away from an init thread which is still waiting; with
\* g_active cleared its waits return at once and without a word.
PatchedUnobserved ==
    (patched /\ IntegrityRuns) =>
        warned \/ found \in {"wait_unpack", "wait_blocked"}

\* "Publish first, arm second": while install runs, no thread gets null from
\* CreateThread, whenever it calls.
InstallIsSafe ==
    (\E c \in Caller : handle[c] = "null") =>
        pc["init"] \notin {"create", "publish", "arm", "activate"}

\* Once the loader has been through uninstall, CreateThread jumps into the
\* plugin no more, up to the unmapping and after it, however far the init
\* thread had got and whether it uninstalls at the same time.  One exception:
\* an init thread that install has not yet let go of; the loader finds g_active
\* still false, and the hook stays or is armed behind its back.
UnloadLeavesNoHook ==
    (pc["loader"] \in {"tail", "unloaded"} /\ armed) =>
        found \in {"create", "publish", "arm", "activate"}

\* The init thread gets past both waits, whatever the packer does.
WaitsEnd ==
    (pc["init"] \in {"wait_unpack", "wait_blocked"}) ~>
        (pc["init"] \in {"install_all", "done"} \/ ~Mapped)

\* A hooked CreateThread reaches the real one: calling through an empty hook
\* "returns a null HANDLE without ever reaching the real CreateThread", which
\* the order of install is there to avoid.  Here for a plugin that is not being
\* unloaded.
NoNullHandle ==
    pc["loader"] = "loaded" => \A c \in Caller : handle[c] # "null"
=============================================================================
