-------------------------- MODULE RegistryContract --------------------------
(***************************************************************************)
(* What the rest of the program may rely on from hooks::Registry: a        *)
(* callback reads enabled(), the watcher calls reload, the user edits the  *)
(* file.  Loops, local arrays and the reasons for a skip are hidden.       *)
(***************************************************************************)
EXTENDS HookGraph

VARIABLES
    phase,      \* "starting", "ready", "reloading" or "dead"
    enabled,    \* the hooks whose callbacks may act
    installed   \* the hooks that are installed

vars == <<phase, enabled, installed>>

Init ==
    /\ phase = "starting"
    /\ enabled = Hook
    /\ installed = {}

\* While a call is in progress callers see each flag change on its own.
SetFlag ==
    /\ phase \in {"starting", "reloading"}
    /\ \E h \in Hook : enabled' \in {enabled \union {h}, enabled \ {h}}
    /\ UNCHANGED <<phase, installed>>

\* A hook is installed once, and after all of its hard dependencies.
InstallOne ==
    /\ phase = "starting"
    /\ \E h \in Hook \ installed :
         /\ HardDeps[h] \subseteq installed
         /\ installed' = installed \union {h}
    /\ UNCHANGED <<phase, enabled>>

\* install_all leaves enabled exactly what it installed.
FinishInstall ==
    /\ phase = "starting"
    /\ enabled = installed
    /\ phase' = "ready"
    /\ UNCHANGED <<enabled, installed>>

\* An exception ends install_all; no call follows.
Die ==
    /\ phase = "starting"
    /\ phase' = "dead"
    /\ UNCHANGED <<enabled, installed>>

BeginReload ==
    /\ phase = "ready"
    /\ phase' = "reloading"
    /\ UNCHANGED <<enabled, installed>>

\* A reload leaves on what the file leaves on, less what misses a dependency.
FinishReload ==
    /\ phase = "reloading"
    /\ \E on \in SUBSET Hook : enabled = GreatestClosed(on)
    /\ phase' = "ready"
    /\ UNCHANGED <<enabled, installed>>

Next == \/ SetFlag \/ InstallOne \/ FinishInstall \/ Die
        \/ BeginReload \/ FinishReload

Spec == Init /\ [][Next]_vars
=============================================================================
