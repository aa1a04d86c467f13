-------------------------- MODULE VmpBypass_proof --------------------------
(***************************************************************************)
(* The safety properties of VmpBypass, for any set of threads of the game  *)
(* and any length of the two waits.                                        *)
(***************************************************************************)
EXTENDS VmpBypass, TLAPS

-----------------------------------------------------------------------------
(* Types.                                                                  *)

USE PackerAssumption DEF At, Goto, hookVars, callVars, gameVars, unloadVars

LEMMA InitTypes == Init => TypeOK
<1> SUFFICES ASSUME Init PROVE TypeOK
    OBVIOUS
<1>1. /\ trampoline \in BOOLEAN /\ armed \in BOOLEAN /\ active \in BOOLEAN
      /\ stop \in BOOLEAN
      /\ patched \in BOOLEAN /\ warned \in BOOLEAN
    BY Zenon DEF Init
<1>2. /\ pc \in [{"init", "loader"} -> InitPC \union LoaderPC]
      /\ pc["init"] \in InitPC /\ pc["loader"] \in LoaderPC
    BY DEF Init, InitPC, LoaderPC
<1>3. /\ stage \in [Caller -> {"idle", "hooked", "calling", "returned"}]
      /\ start \in [Caller -> Start]
      /\ handle \in [Caller -> {"none", "thread", "null"}]
    BY DEF Init, Start
<1> QED BY <1>1, <1>2, <1>3 DEF Init, TypeOK

\* Where the two threads are, and where the one has found the other.
PlaceOK ==
    /\ pc \in [{"init", "loader"} -> InitPC \union LoaderPC]
    /\ pc["init"] \in InitPC /\ pc["loader"] \in LoaderPC
    /\ found \in InitPC \union {"nowhere"}

LEMMA StepPlace == PlaceOK /\ [Next]_vars => PlaceOK'
<1> SUFFICES ASSUME PlaceOK, [Next]_vars PROVE PlaceOK'
    OBVIOUS
<1>1. ASSUME NEW next \in InitPC, Goto("init", next), found' = found
      PROVE  PlaceOK'
    BY <1>1 DEF PlaceOK
<1>2. ASSUME NEW next \in LoaderPC, Goto("loader", next), found' = found
      PROVE  PlaceOK'
    BY <1>2 DEF PlaceOK
<1>3. CASE CreateHook \/ PublishHook \/ ArmHook \/ Activate \/ Poll
           \/ TimeOut \/ InstallAll
    <2>1. /\ found' = found
          /\ \/ pc' = pc
             \/ \E next \in {"publish", "arm", "activate", "wait_unpack",
                    "wait_blocked", "install_all", "check_active", "done"} :
                  Goto("init", next)
        BY <1>3 DEF CreateHook, PublishHook, ArmHook, Activate, InstallFailed,
            Poll, TimeOut, AfterWait, InstallAll
    <2> QED BY <2>1, <1>1 DEF PlaceOK, InitPC, UninstallPC
<1>4. ASSUME NEW t \in {"init", "loader"}, Uninstall(t) PROVE PlaceOK'
    <2>1. /\ \E next \in {"disarm", "free", "deactivate", AfterUninstall(t)} :
                Goto(t, next)
          /\ found' \in {found, pc["init"]}
        BY <1>4 DEF Uninstall, CheckActive, Find, DisarmHook, FreeHook,
            Deactivate
    <2>2. /\ {"disarm", "free", "deactivate"} \subseteq InitPC \intersect LoaderPC
          /\ IF t = "init" THEN AfterUninstall(t) \in InitPC
                           ELSE AfterUninstall(t) \in LoaderPC
        BY DEF AfterUninstall, InitPC, LoaderPC, UninstallPC
    <2> QED BY <2>1, <2>2 DEF PlaceOK
<1>5. CASE Detach \/ Unmap
    <2>1. /\ found' = found
          /\ Goto("loader", "check_active") \/ Goto("loader", "unloaded")
        BY <1>5 DEF Detach, Unmap
    <2> QED BY <2>1, <1>2 DEF LoaderPC, UninstallPC
<1>6. CASE Unpack \/ UNCHANGED vars
    BY <1>6 DEF PlaceOK, Unpack, vars
<1>7. ASSUME NEW c \in Caller, CallerStep(c) PROVE PlaceOK'
    BY <1>7 DEF PlaceOK, CallerStep, Call, Intercept, CallThrough
<1> QED BY <1>3, <1>4, <1>5, <1>6, <1>7 DEF Next, InitStep

LEMMA StepTypes == TypeOK /\ [Next]_vars => TypeOK'
<1> SUFFICES ASSUME TypeOK, [Next]_vars PROVE TypeOK'
    OBVIOUS
<1>0. PlaceOK'
    BY StepPlace DEF TypeOK, PlaceOK
<1> USE <1>0 DEF TypeOK, PlaceOK
<1>1. CASE CreateHook
    BY <1>1 DEF CreateHook, InstallFailed
<1>2. CASE PublishHook
    BY <1>2 DEF PublishHook
<1>3. CASE ArmHook
    BY <1>3 DEF ArmHook, InstallFailed
<1>4. CASE Activate
    BY <1>4 DEF Activate
<1>5. CASE Poll
    <2>1. PICK here \in {"wait_unpack", "wait_blocked"} :
            /\ polls < MaxPolls
            /\ IF Skipped(here) \/ Cancelled(here) \/ Satisfied(here)
                 THEN /\ Goto("init", AfterWait(here))
                      /\ polls' = 0
                      /\ warned' = (warned \/ Cancelled(here))
                 ELSE polls' = polls + 1 /\ UNCHANGED <<pc, warned>>
            /\ UNCHANGED <<hookVars, callVars, text, patched, unloadVars>>
        BY <1>5 DEF Poll
    <2>2. warned' \in BOOLEAN
        BY <2>1, Zenon
    <2>3. CASE Skipped(here) \/ Cancelled(here) \/ Satisfied(here)
        BY <2>1, <2>2, <2>3 DEF AfterWait
    <2>4. CASE ~(Skipped(here) \/ Cancelled(here) \/ Satisfied(here))
        BY <2>1, <2>4
    <2> QED BY <2>3, <2>4
<1>6. CASE TimeOut
    BY <1>6 DEF TimeOut, AfterWait
<1>7. CASE InstallAll
    BY <1>7 DEF InstallAll
<1>8. ASSUME NEW t \in {"init", "loader"}, Uninstall(t) PROVE TypeOK'
    <2>1. CASE CheckActive(t)
        BY <1>8, <2>1 DEF CheckActive
    <2>2. CASE DisarmHook(t)
        BY <1>8, <2>2 DEF DisarmHook
    <2>3. CASE FreeHook(t)
        BY <1>8, <2>3 DEF FreeHook
    <2>4. CASE Deactivate(t)
        BY <1>8, <2>4 DEF Deactivate
    <2> QED BY <1>8, <2>1, <2>2, <2>3, <2>4 DEF Uninstall
<1>9. CASE Detach \/ Unmap
    BY <1>9 DEF Detach, Unmap
<1>10. CASE Unpack
    BY <1>10 DEF Unpack
<1>11. ASSUME NEW c \in Caller, Call(c) PROVE TypeOK'
    BY <1>11 DEF Call
<1>12. ASSUME NEW c \in Caller, Intercept(c) PROVE TypeOK'
    BY <1>12 DEF Intercept, Start
<1>13. ASSUME NEW c \in Caller, CallThrough(c) PROVE TypeOK'
    BY <1>13 DEF CallThrough
<1>14. CASE UNCHANGED vars
    BY <1>14 DEF vars
<1> QED BY <1>1, <1>2, <1>3, <1>4, <1>5, <1>6, <1>7, <1>8, <1>9, <1>10,
          <1>11, <1>12, <1>13, <1>14 DEF Next, InitStep, CallerStep

\* Every variable keeps its type, however many threads call CreateThread.
THEOREM BypassTypeCorrect == Spec => []TypeOK
    BY InitTypes, StepTypes, PTL DEF Spec

-----------------------------------------------------------------------------
(* The hook.                                                               *)

Early == {"create", "publish", "arm", "activate"}
Waiting == {"wait_unpack", "wait_blocked"}
Patching == {"install_all", "done"} \union UninstallPC

\* What the loader has seen of the init thread when it tested g_active; the
\* init thread only moves on from there.
FoundInv ==
    /\ pc["loader"] \in {"loaded", "check_active"} => found = "nowhere"
    /\ pc["loader"] \in {"disarm", "free", "deactivate"} =>
           found \in Waiting \union Patching
    /\ found \in Waiting => pc["init"] \in Waiting \union Patching
    /\ found \in Patching => pc["init"] \in Patching
    /\ pc["loader"] \in {"tail", "unloaded"} => found # "nowhere"

\* Who may still do what to the hook: an armed hook is active, except for the
\* moment before the init thread says so; a thread that has disarmed it finds
\* it disarmed; the loader removes only a hook that install is done with, and
\* once it has been through uninstall only an init thread that it found inside
\* install can have the hook armed.
HookInv ==
    /\ FoundInv
    /\ active => pc["init"] \notin Early
    /\ armed => active \/ pc["init"] = "activate"
    /\ \A t \in {"init", "loader"} : pc[t] \in {"free", "deactivate"} => ~armed
    /\ pc["loader"] \in {"tail", "unloaded"} /\ armed => found \in Early
    /\ pc["init"] \in {"arm", "activate"} => trampoline

LEMMA StepFound == TypeOK /\ HookInv /\ [Next]_vars => FoundInv'
<1> SUFFICES ASSUME TypeOK, HookInv, [Next]_vars PROVE FoundInv'
    OBVIOUS
<1> USE DEF TypeOK, HookInv, FoundInv, Early, Waiting, Patching, InitPC,
            UninstallPC, AfterUninstall, Mapped
<1>1. CASE CreateHook \/ PublishHook \/ ArmHook \/ Activate
    <2>1. /\ pc["init"] \in Early
          /\ pc'["loader"] = pc["loader"] /\ found' = found
        BY <1>1 DEF CreateHook, PublishHook, ArmHook, Activate, InstallFailed
    <2> QED BY <2>1
<1>2. CASE Poll \/ TimeOut \/ InstallAll
    <2>1. /\ pc'["loader"] = pc["loader"] /\ found' = found
          /\ pc["init"] \in Waiting \union Patching
          /\ pc'["init"] \in Waiting \union Patching
          /\ pc["init"] \in Patching => pc'["init"] \in Patching
        BY <1>2 DEF Poll, TimeOut, AfterWait, InstallAll
    <2> QED BY <2>1
<1>3. ASSUME NEW t \in {"init", "loader"}, Uninstall(t) PROVE FoundInv'
    <2>1. CASE CheckActive(t)
        BY <1>3, <2>1 DEF CheckActive, Find
    <2>2. CASE DisarmHook(t) \/ FreeHook(t) \/ Deactivate(t)
        BY <1>3, <2>2 DEF DisarmHook, FreeHook, Deactivate
    <2> QED BY <1>3, <2>1, <2>2 DEF Uninstall
<1>4. CASE Detach \/ Unmap
    BY <1>4 DEF Detach, Unmap
<1>5. CASE Unpack \/ UNCHANGED vars
    BY <1>5 DEF Unpack, vars
<1>6. ASSUME NEW c \in Caller, CallerStep(c) PROVE FoundInv'
    BY <1>6 DEF CallerStep, Call, Intercept, CallThrough
<1> QED BY <1>1, <1>2, <1>3, <1>4, <1>5, <1>6 DEF Next, InitStep

LEMMA StepHook == TypeOK /\ HookInv /\ [Next]_vars => HookInv'
<1> SUFFICES ASSUME TypeOK, HookInv, [Next]_vars PROVE HookInv'
    OBVIOUS
<1>0. FoundInv'
    BY StepFound
<1> USE <1>0 DEF TypeOK, HookInv, FoundInv, Early, Waiting, Patching,
            UninstallPC, AfterUninstall, Mapped
<1>1. CASE CreateHook
    BY <1>1 DEF CreateHook, InstallFailed
<1>2. CASE PublishHook
    BY <1>2 DEF PublishHook
<1>3. CASE ArmHook
    <2>1. /\ pc["init"] = "arm" /\ ~active /\ ~armed /\ trampoline
          /\ pc["loader"] \notin {"disarm", "free", "deactivate", "unloaded"}
          /\ found' = found
        BY <1>3 DEF ArmHook
    <2>2. CASE armed' = TRUE
        <3>1. /\ pc'["init"] = "activate" /\ pc'["loader"] = pc["loader"]
              /\ UNCHANGED <<trampoline, active>>
            BY <1>3, <2>1, <2>2 DEF ArmHook, InstallFailed
        <3>2. pc["loader"] = "tail" => found \in Early
            BY <2>1 DEF InitPC
        <3> QED BY <2>1, <3>1, <3>2
    <2>3. CASE armed' = armed
        <3>1. /\ pc'["init"] \in {"activate", "wait_unpack"}
              /\ pc'["loader"] = pc["loader"] /\ ~armed' /\ ~active'
            BY <1>3, <2>1, <2>3 DEF ArmHook, InstallFailed
        <3>2. pc'["init"] = "activate" => trampoline'
            BY <1>3, <2>1 DEF ArmHook, InstallFailed
        <3> QED BY <2>1, <3>1, <3>2
    <2> QED BY <1>3, <2>2, <2>3 DEF ArmHook
<1>4. CASE Activate
    BY <1>4 DEF Activate
<1>5. CASE Poll \/ TimeOut
    <2>1. /\ pc["init"] \in {"wait_unpack", "wait_blocked"}
          /\ pc'["init"] \in {"wait_unpack", "wait_blocked", "install_all"}
          /\ pc'["loader"] = pc["loader"]
          /\ UNCHANGED hookVars /\ found' = found
        BY <1>5 DEF Poll, TimeOut, AfterWait
    <2> QED BY <2>1
<1>6. CASE InstallAll
    BY <1>6 DEF InstallAll
<1>7. ASSUME NEW t \in {"init", "loader"}, Uninstall(t) PROVE HookInv'
    <2>1. CASE CheckActive(t)
        BY <1>7, <2>1 DEF CheckActive, Find
    <2>2. CASE DisarmHook(t)
        BY <1>7, <2>2 DEF DisarmHook
    <2>3. CASE FreeHook(t)
        BY <1>7, <2>3 DEF FreeHook
    <2>4. CASE Deactivate(t)
        BY <1>7, <2>4 DEF Deactivate
    <2> QED BY <1>7, <2>1, <2>2, <2>3, <2>4 DEF Uninstall
<1>8. CASE Detach \/ Unmap
    BY <1>8 DEF Detach, Unmap
<1>9. CASE Unpack \/ UNCHANGED vars
    BY <1>9 DEF Unpack, vars
<1>10. ASSUME NEW c \in Caller, CallerStep(c) PROVE HookInv'
    BY <1>10 DEF CallerStep, Call, Intercept, CallThrough
<1> QED BY <1>1, <1>2, <1>3, <1>4, <1>5, <1>6, <1>7, <1>8, <1>9, <1>10
    DEF Next, InitStep

\* Once the loader has been through uninstall there is no jump into the plugin
\* left in CreateThread, unless it found the init thread still inside install.
THEOREM NoHookIsLeft == Spec => []UnloadLeavesNoHook
<1>1. Init => TypeOK /\ HookInv
    BY InitTypes DEF Init, HookInv, FoundInv, Waiting, Patching, UninstallPC
<1>2. TypeOK /\ HookInv /\ [Next]_vars => (TypeOK /\ HookInv)'
    BY StepTypes, StepHook
<1>3. HookInv => UnloadLeavesNoHook
    BY DEF HookInv, Early, UnloadLeavesNoHook
<1> QED BY <1>1, <1>2, <1>3, PTL DEF Spec

-----------------------------------------------------------------------------
(* The callers.                                                            *)

\* Until the hook is armed nobody is in it, and until install is done with it
\* everybody who is in it reaches the real CreateThread.
CallInv ==
    /\ pc["init"] \in {"create", "publish", "arm"} =>
           \A c \in Caller : stage[c] \notin {"hooked", "calling"}
    /\ pc["init"] \in Early => \A c \in Caller : handle[c] # "null"

LEMMA StepCall == TypeOK /\ HookInv /\ CallInv /\ [Next]_vars => CallInv'
<1> SUFFICES ASSUME TypeOK, HookInv, CallInv, [Next]_vars PROVE CallInv'
    OBVIOUS
<1> USE DEF TypeOK, HookInv, FoundInv, Waiting, Patching, UninstallPC, CallInv,
            Early
<1>1. CASE InitStep \/ Detach \/ Unmap \/ Uninstall("loader") \/ Unpack
           \/ UNCHANGED vars
    <2>1. stage' = stage /\ handle' = handle
        BY <1>1 DEF InitStep, CreateHook, PublishHook, ArmHook, Activate, Poll,
            TimeOut, InstallAll, Uninstall, CheckActive, DisarmHook, FreeHook,
            Deactivate, Detach, Unmap, Unpack, vars
    <2>2. /\ pc'["init"] \in Early => pc["init"] \in Early
          /\ pc'["init"] \in {"create", "publish", "arm"} =>
                 pc["init"] \in {"create", "publish", "arm"}
        <3>1. CASE CreateHook \/ PublishHook \/ ArmHook \/ Activate
            BY <3>1 DEF CreateHook, PublishHook, ArmHook, Activate,
                InstallFailed
        <3>2. CASE Poll \/ TimeOut \/ InstallAll
            BY <3>2 DEF Poll, TimeOut, AfterWait, InstallAll
        <3>3. ASSUME NEW t \in {"init", "loader"}, Uninstall(t)
              PROVE  pc'["init"] \in Early => pc'["init"] = pc["init"]
            BY <3>3 DEF Uninstall, CheckActive, DisarmHook, FreeHook,
                Deactivate, AfterUninstall
        <3>4. CASE Detach \/ Unmap \/ Unpack \/ UNCHANGED vars
            BY <3>4 DEF Detach, Unmap, Unpack, vars
        <3> QED BY <1>1, <3>1, <3>2, <3>3, <3>4 DEF InitStep
    <2> QED BY <2>1, <2>2
<1>2. ASSUME NEW c \in Caller, Call(c) PROVE CallInv'
    BY <1>2 DEF Call
<1>3. ASSUME NEW c \in Caller, Intercept(c) PROVE CallInv'
    BY <1>3 DEF Intercept
<1>4. ASSUME NEW c \in Caller, CallThrough(c) PROVE CallInv'
    BY <1>4 DEF CallThrough
<1> QED BY <1>1, <1>2, <1>3, <1>4 DEF Next, CallerStep

\* While install runs, no thread gets null from CreateThread.
THEOREM NoNullDuringInstall == Spec => []InstallIsSafe
<1>1. Init => TypeOK /\ HookInv /\ CallInv
    BY InitTypes DEF Init, HookInv, FoundInv, CallInv, Waiting, Patching,
        UninstallPC
<1>2. TypeOK /\ HookInv /\ CallInv /\ [Next]_vars
        => (TypeOK /\ HookInv /\ CallInv)'
    BY StepTypes, StepHook, StepCall
<1>3. CallInv => InstallIsSafe
    BY DEF CallInv, InstallIsSafe, Early
<1> QED BY <1>1, <1>2, <1>3, PTL DEF Spec

-----------------------------------------------------------------------------
(* The packer.                                                             *)

\* g_blocked_count counts the integrity thread and nothing else, and without a
\* warning the init thread leaves its waits only when it has been counted, or
\* when an unload has found it there and cleared g_active.
PackerInv ==
    /\ \A c \in Caller : start[c] \in VmpStart => c = Packer
    /\ blocked > 0 => start[Packer] = "empty"
    /\ pc["init"] \in Waiting /\ ~warned => active \/ found \in Waiting
    /\ pc["init"] \in Patching /\ ~warned => blocked > 0 \/ found \in Waiting
    /\ patched => pc["init"] \in Patching

LEMMA StepPacker == TypeOK /\ HookInv /\ PackerInv /\ [Next]_vars => PackerInv'
<1> SUFFICES ASSUME TypeOK, HookInv, PackerInv, [Next]_vars PROVE PackerInv'
    OBVIOUS
<1> USE DEF TypeOK, PackerInv, Waiting, Patching, UninstallPC, Mapped,
            AfterUninstall
<1>1. CASE CreateHook
    BY <1>1 DEF CreateHook, InstallFailed
<1>2. CASE PublishHook
    BY <1>2 DEF PublishHook
<1>3. CASE ArmHook
    BY <1>3 DEF ArmHook, InstallFailed
<1>4. CASE Activate
    BY <1>4 DEF Activate
<1>5. CASE Poll
    <2>1. PICK here \in {"wait_unpack", "wait_blocked"} :
            /\ At("init", here)
            /\ IF Skipped(here) \/ Cancelled(here) \/ Satisfied(here)
                 THEN /\ Goto("init", AfterWait(here))
                      /\ warned' = (warned \/ Cancelled(here))
                 ELSE UNCHANGED <<pc, warned>>
            /\ UNCHANGED <<hookVars, callVars, text, patched, unloadVars>>
        BY <1>5 DEF Poll
    <2>2. CASE Cancelled(here)
        BY <2>1, <2>2 DEF AfterWait
    <2>3. CASE ~Cancelled(here) /\ (Skipped(here) \/ Satisfied(here))
        BY <2>1, <2>3 DEF AfterWait, Satisfied, Skipped
    <2>4. CASE ~Cancelled(here) /\ ~Skipped(here) /\ ~Satisfied(here)
        BY <2>1, <2>4
    <2> QED BY <2>2, <2>3, <2>4
<1>6. CASE TimeOut
    BY <1>6 DEF TimeOut, AfterWait
<1>7. CASE InstallAll
    BY <1>7 DEF InstallAll
<1>8. ASSUME NEW t \in {"init", "loader"}, Uninstall(t) PROVE PackerInv'
    <2>1. CASE CheckActive(t)
        BY <1>8, <2>1 DEF CheckActive, Find, HookInv, FoundInv
    <2>2. CASE DisarmHook(t)
        BY <1>8, <2>2 DEF DisarmHook
    <2>3. CASE FreeHook(t)
        BY <1>8, <2>3 DEF FreeHook
    <2>4. CASE Deactivate(t)
        BY <1>8, <2>4 DEF Deactivate, HookInv, FoundInv
    <2> QED BY <1>8, <2>1, <2>2, <2>3, <2>4 DEF Uninstall
<1>9. CASE Detach \/ Unmap
    BY <1>9 DEF Detach, Unmap
<1>10. CASE Unpack \/ UNCHANGED vars
    BY <1>10 DEF Unpack, vars
<1>11. ASSUME NEW c \in Caller, Call(c) \/ CallThrough(c) PROVE PackerInv'
    BY <1>11 DEF Call, CallThrough
<1>12. ASSUME NEW c \in Caller, Intercept(c) PROVE PackerInv'
    <2>1. CASE start[c] \in VmpStart
        <3>1. c = Packer /\ start' = [start EXCEPT ![c] = "empty"]
              /\ blocked' = blocked + 1
            BY <1>12, <2>1 DEF Intercept, IsVmpThread
        <3>2. start'[Packer] = "empty" /\ blocked' > 0
            BY <3>1 DEF Caller
        <3>3. \A d \in Caller : start'[d] \in VmpStart => d = Packer
            BY <3>1 DEF VmpStart
        <3> QED BY <1>12, <3>2, <3>3 DEF Intercept
    <2>2. CASE start[c] \notin VmpStart
        BY <1>12, <2>2 DEF Intercept, IsVmpThread
    <2> QED BY <2>1, <2>2
<1> QED BY <1>1, <1>2, <1>3, <1>4, <1>5, <1>6, <1>7, <1>8, <1>9, <1>10,
          <1>11, <1>12 DEF Next, InitStep, CallerStep

\* The game is never patched while the integrity thread runs, unless the log
\* has warned that it may or an unload overtook the init thread in a wait.
THEOREM PatchingIsUnobserved == Spec => []PatchedUnobserved
<1>1. Init => TypeOK /\ HookInv /\ PackerInv
    BY InitTypes DEF Init, HookInv, FoundInv, PackerInv, Waiting, Patching, UninstallPC,
        Early
<1>2. TypeOK /\ HookInv /\ PackerInv /\ [Next]_vars
        => (TypeOK /\ HookInv /\ PackerInv)'
    BY StepTypes, StepHook, StepPacker
<1>3. TypeOK /\ PackerInv => PatchedUnobserved
    BY DEF TypeOK, PackerInv, Waiting, PatchedUnobserved, IntegrityRuns, VmpStart
<1> QED BY <1>1, <1>2, <1>3, PTL DEF Spec
=============================================================================
