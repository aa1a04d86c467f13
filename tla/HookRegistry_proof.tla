------------------------- MODULE HookRegistry_proof -------------------------
(***************************************************************************)
(* Proofs about HookRegistry for every number of hooks, every acyclic      *)
(* dependency relation and every number of reloads.                        *)
(***************************************************************************)
EXTENDS HookRegistry, TLAPS

-----------------------------------------------------------------------------
(* The greatest closed subset.                                             *)

\* GreatestClosed(S) is a subset of S, is closed, and contains every closed
\* subset of S.
LEMMA GreatestClosedProps ==
    ASSUME NEW S \in SUBSET Hook
    PROVE  /\ GreatestClosed(S) \subseteq S
           /\ Closed(GreatestClosed(S))
           /\ \A T \in SUBSET S : Closed(T) => T \subseteq GreatestClosed(S)
  BY HardDepsAssumption DEF GreatestClosed, Closed

\* A closed subset of S that contains GreatestClosed(S) is GreatestClosed(S):
\* this is how cascade_disable ends.
LEMMA GreatestClosedUnique ==
    ASSUME NEW S \in SUBSET Hook, NEW T \in SUBSET S,
           Closed(T), GreatestClosed(S) \subseteq T
    PROVE  T = GreatestClosed(S)
  BY GreatestClosedProps

\* Removing a hook with a missing dependency keeps GreatestClosed(S) inside:
\* one step of cascade_disable.
LEMMA RemoveUnmet ==
    ASSUME NEW S \in SUBSET Hook, NEW T \in SUBSET Hook, NEW h \in Hook,
           GreatestClosed(S) \subseteq T,
           ~(HardDeps[h] \subseteq T)
    PROVE  GreatestClosed(S) \subseteq T \ {h}
<1>1. h \notin GreatestClosed(S)
  BY GreatestClosedProps DEF Closed
<1> QED  BY <1>1

-----------------------------------------------------------------------------
(* The inductive invariant: what each stage of a call has established.     *)

StageInv ==
    /\ pc = "installing" => i < N
    /\ pc \in {"install", "installing", "aborted"} => call = "install_all"
    /\ pc = "on_reload" => call = "reload"

\* Before the installation loop of install_all nothing is installed or armed.
FreshInv ==
    (call = "install_all" /\ pc \in {"load_config", "load_enabled", "cascade",
                                     "store_enabled"})
        => installed = {} /\ live = {}

FlagsInv ==
    /\ pc = "load_enabled" =>
         \A h \in Hook : h < i => (h \in enabled <=> h \in ini.on)
    /\ pc = "cascade" => flags \subseteq ini.on
    /\ pc = "store_enabled" =>
         /\ flags = GreatestClosed(ini.on)
         /\ \A h \in Hook : h < i => (h \in enabled <=> h \in flags)
    /\ (call = "reload" /\ pc \in {"on_reload", "idle"}) =>
         enabled = GreatestClosed(ini.on)

\* The installation loop is running, or was the last thing that ran.
InLoop ==
    \/ pc \in {"install", "installing"}
    \/ pc = "idle" /\ call = "install_all"

\* Slots before i are decided, slots from i on are untouched.
LoopInv ==
    InLoop =>
        /\ pc = "idle" => i = N
        /\ enabled \subseteq GreatestClosed(ini.on)
        /\ \A k \in Hook :
             k < i => (Slot(k) \in enabled <=> Slot(k) \in installed)
        /\ \A k \in Hook : k >= i =>
             /\ Slot(k) \notin installed
             /\ Slot(k) \in GreatestClosed(ini.on) => Slot(k) \in enabled

\* A hook given up by the loop has its reason, and keeps it.
CauseInv ==
    InLoop =>
        \A k \in Hook :
            (k < i /\ Slot(k) \in GreatestClosed(ini.on) \ installed) =>
                \/ Slot(k) \notin found
                \/ Slot(k) \in failed
                \/ ~DepsMet(Slot(k))

ArmedInv ==
    /\ DependenciesFirst
    /\ pc = "installing" => DepsMet(Slot(i)) /\ Slot(i) \in enabled

\* Configs are loaded before anything reads them, and on_reload or install has
\* run with them for every active hook by the end of the call.
ConfigInv ==
    /\ pc = "load_config" => \A h \in Hook : h < i => cfg[h] = ini.rev
    /\ pc # "load_config" => \A h \in Hook : cfg[h] = ini.rev
    /\ (call = "install_all" /\ pc # "load_config")
         => \A h \in installed : told[h] = ini.rev
    /\ (call = "reload" /\ pc \in {"on_reload", "idle"}) =>
         \A h \in installed \intersect enabled \intersect Reloadable :
             (h < i \/ pc = "idle") => told[h] = ini.rev

IInv == /\ TypeOK /\ StageInv /\ FreshInv /\ FlagsInv /\ CascadeExact
        /\ LoopInv /\ CauseInv /\ ArmedInv /\ ConfigInv

-----------------------------------------------------------------------------
(* Type correctness.                                                       *)

\* The variables keep their types: the starting states.
LEMMA InitTypeOK == Init => TypeOK
<1> SUFFICES ASSUME Init PROVE TypeOK
  OBVIOUS
<1>1. i \in 0 .. N /\ pc \in PC
  BY NAssumption DEF Init, PC
<1>2. {0, 1} \subseteq Rev
  BY ReloadAssumption DEF Rev
<1> QED  BY <1>1, <1>2 DEF Init, TypeOK

\* Hooks are the numbers below N.
LEMMA HookRange ==
    /\ N \in Int
    /\ \A h \in Hook : h \in Int /\ 0 <= h /\ h < N
  BY NAssumption DEF Hook

\* Slots of the installation order are hooks, different slots different hooks.
LEMMA SlotProps ==
    /\ \A k \in Hook : Slot(k) \in Hook
    /\ \A j, k \in Hook : Slot(j) = Slot(k) => j = k
    /\ \A h \in Hook : \E k \in Hook : Slot(k) = h
    /\ \A j, k \in Hook : Slot(j) \in HardDeps[Slot(k)] => j < k
  BY InstallOrderAssumption DEF Slot

\* A loop index short of N is a hook, and so is the hook in its slot.
LEMMA LoopIndex ==
    ASSUME TypeOK
    PROVE  /\ i < N => i \in Hook /\ i + 1 \in 0 .. N /\ Slot(i) \in Hook
           /\ 0 \in 0 .. N
           /\ i \in Int
<1>1. i \in 0 .. N
  BY DEF TypeOK
<1>2. i \in Int /\ 0 \in 0 .. N /\ (i < N => i \in Hook /\ i + 1 \in 0 .. N)
  BY <1>1, NAssumption DEF Hook
<1> QED  BY <1>2, SlotProps

\* The variables keep their types: every step.
LEMMA NextTypeOK == TypeOK /\ StageInv /\ [Next]_vars => TypeOK'
<1> SUFFICES ASSUME TypeOK, StageInv, [Next]_vars PROVE TypeOK'
  OBVIOUS
<1> USE LoopIndex DEF TypeOK, PC, installVars, cascadeVars, callVars
<1>1. CASE LoadConfig        BY <1>1 DEF LoadConfig
<1>2. CASE ConfigsLoaded     BY <1>2 DEF ConfigsLoaded
<1>3. CASE LoadEnabled       BY <1>3 DEF LoadEnabled
<1>4. CASE ReadFlags         BY <1>4 DEF ReadFlags
<1>5. CASE CascadeVisit      BY <1>5 DEF CascadeVisit
<1>6. CASE CascadeAgain      BY <1>6 DEF CascadeAgain
<1>7. CASE CascadeDone       BY <1>7 DEF CascadeDone
<1>8. CASE StoreEnabled      BY <1>8 DEF StoreEnabled
<1>9. CASE FlagsApplied      BY <1>9 DEF FlagsApplied
<1>10. CASE SkipDisabled      BY <1>10 DEF SkipDisabled
<1>11. CASE SkipUninstallable BY <1>11 DEF SkipUninstallable
<1>12. CASE BeginInstall      BY <1>12 DEF BeginInstall
<1>13. CASE ArmSite BY <1>13 DEF ArmSite, StageInv
<1>14. CASE InstallSucceeds BY <1>14 DEF InstallSucceeds, StageInv
<1>15. CASE InstallFails BY <1>15 DEF InstallFails, StageInv
<1>16. CASE InstallThrows     BY <1>16 DEF InstallThrows
<1>17. CASE InstallDone       BY <1>17 DEF InstallDone
<1>18. CASE StartReload       BY <1>18, ReloadAssumption DEF StartReload, Rev
<1>19. CASE CallOnReload      BY <1>19 DEF CallOnReload
<1>20. CASE ReloadDone        BY <1>20 DEF ReloadDone
<1>21. CASE UNCHANGED vars    BY <1>21 DEF vars
<1> QED
  BY <1>1, <1>2, <1>3, <1>4, <1>5, <1>6, <1>7, <1>8, <1>9, <1>10, <1>11, <1>12,
     <1>13, <1>14, <1>15, <1>16, <1>17, <1>18, <1>19, <1>20, <1>21
     DEF Next, CallStep, ApplyStep, InstallStep, ReloadStep

-----------------------------------------------------------------------------
(* The invariant is inductive, conjunct by conjunct.                       *)

\* IInv holds initially.
LEMMA InitIInv == Init => IInv
<1> SUFFICES ASSUME Init PROVE IInv
  OBVIOUS
<1>1. TypeOK
  BY InitTypeOK
<1>2. StageInv /\ FreshInv /\ FlagsInv /\ CascadeExact /\ LoopInv /\ CauseInv
  BY DEF Init, StageInv, FreshInv, FlagsInv, CascadeExact, LoopInv, CauseInv,
            InLoop
<1>3. ArmedInv
  BY DEF Init, ArmedInv, DependenciesFirst
<1>4. ConfigInv
  BY DEF Init, ConfigInv, Hook
<1> QED  BY <1>1, <1>2, <1>3, <1>4 DEF IInv

\* The stages of a call follow each other as the code has it.
LEMMA StageStep ==
    ASSUME TypeOK, StageInv, [Next]_vars
    PROVE  StageInv'
<1> USE LoopIndex DEF TypeOK, StageInv
<1>1. CASE ApplyStep
  BY <1>1 DEF ApplyStep, LoadConfig, ConfigsLoaded, LoadEnabled, ReadFlags,
              CascadeVisit, CascadeAgain, CascadeDone, StoreEnabled,
              FlagsApplied, callVars
<1>2. CASE InstallStep
  BY <1>2 DEF InstallStep, SkipDisabled, SkipUninstallable, BeginInstall,
              ArmSite, InstallSucceeds, InstallFails, InstallThrows,
              InstallDone, callVars
<1>3. CASE ReloadStep \/ StartReload
  BY <1>3 DEF ReloadStep, StartReload, CallOnReload, ReloadDone, callVars
<1>4. CASE UNCHANGED vars
  BY <1>4 DEF vars
<1> QED  BY <1>1, <1>2, <1>3, <1>4 DEF Next, CallStep

\* Nothing is installed or armed before the installation loop.
LEMMA FreshStep ==
    ASSUME TypeOK, StageInv, FreshInv, [Next]_vars
    PROVE  FreshInv'
<1> USE DEF TypeOK, StageInv, FreshInv
<1>1. CASE ApplyStep
  BY <1>1 DEF ApplyStep, LoadConfig, ConfigsLoaded, LoadEnabled, ReadFlags,
              CascadeVisit, CascadeAgain, CascadeDone, StoreEnabled,
              FlagsApplied, callVars, installVars
<1>2. CASE InstallStep
  BY <1>2 DEF InstallStep, SkipDisabled, SkipUninstallable, BeginInstall,
              ArmSite, InstallSucceeds, InstallFails, InstallThrows,
              InstallDone, callVars
<1>3. CASE ReloadStep \/ StartReload
  BY <1>3 DEF ReloadStep, StartReload, CallOnReload, ReloadDone, callVars
<1>4. CASE UNCHANGED vars
  BY <1>4 DEF vars
<1> QED  BY <1>1, <1>2, <1>3, <1>4 DEF Next, CallStep

\* Every hook with an armed site has its hard dependencies installed: only
\* BeginInstall lets a hook through, and it has looked at them.
LEMMA ArmedStep ==
    ASSUME TypeOK, StageInv, FreshInv, ArmedInv, [Next]_vars
    PROVE  ArmedInv'
<1> USE LoopIndex DEF TypeOK, StageInv, FreshInv, ArmedInv,
                      DependenciesFirst, DepsMet
<1>1. CASE ApplyStep
  BY <1>1 DEF ApplyStep, LoadConfig, ConfigsLoaded, LoadEnabled, ReadFlags,
              CascadeVisit, CascadeAgain, CascadeDone, StoreEnabled,
              FlagsApplied, installVars, Slot
<1>2. CASE SkipDisabled \/ SkipUninstallable
  BY <1>2 DEF SkipDisabled, SkipUninstallable, installVars
<1>3. CASE BeginInstall
  BY <1>3 DEF BeginInstall, installVars, Slot
<1>4. CASE ArmSite
  BY <1>4 DEF ArmSite, Slot
<1>5. CASE InstallSucceeds
  BY <1>5 DEF InstallSucceeds
<1>6. CASE InstallFails
  BY <1>6 DEF InstallFails
<1>7. CASE InstallThrows \/ InstallDone
  BY <1>7 DEF InstallThrows, InstallDone, installVars
<1>8. CASE ReloadStep \/ StartReload
  BY <1>8 DEF ReloadStep, StartReload, CallOnReload, ReloadDone, installVars
<1>9. CASE UNCHANGED vars
  BY <1>9 DEF vars, Slot
<1> QED
  BY <1>1, <1>2, <1>3, <1>4, <1>5, <1>6, <1>7, <1>8, <1>9
     DEF Next, CallStep, InstallStep

\* cascade_disable keeps the greatest closed set and ends with it.
LEMMA CascadeStep ==
    ASSUME TypeOK, StageInv, FlagsInv, CascadeExact, [Next]_vars
    PROVE  CascadeExact'
<1>1. CASE ReadFlags
  <2>1. enabled = ini.on
    BY <1>1, HookRange DEF ReadFlags, FlagsInv, TypeOK
  <2>2. flags' = ini.on /\ ini' = ini /\ i' = 0
    BY <1>1, <2>1 DEF ReadFlags, callVars
  <2>3. GreatestClosed(ini.on) \subseteq ini.on
    BY GreatestClosedProps DEF TypeOK
  <2> QED  BY <2>2, <2>3, HookRange DEF CascadeExact, TypeOK
<1>2. CASE CascadeVisit
  <2>1. pc' = "cascade" /\ ini' = ini /\ i' = i + 1 /\ i \in Hook
    BY <1>2, LoopIndex DEF CascadeVisit, callVars
  <2>2. CASE i \in flags /\ ~(HardDeps[i] \subseteq flags)
    <3>1. flags' = flags \ {i} /\ changed'
      BY <1>2, <2>2 DEF CascadeVisit
    <3>2. GreatestClosed(ini.on) \subseteq flags \ {i}
      BY <1>2, <2>1, <2>2, RemoveUnmet DEF CascadeVisit, CascadeExact, TypeOK
    <3> QED  BY <2>1, <3>1, <3>2 DEF CascadeExact
  <2>3. CASE ~(i \in flags /\ ~(HardDeps[i] \subseteq flags))
    <3>1. UNCHANGED <<flags, changed>>
      BY <1>2, <2>3 DEF CascadeVisit, cascadeVars
    <3>2. \A h \in Hook : h < i + 1 => h < i \/ h = i
      BY <2>1, HookRange
    <3> QED
      BY <1>2, <2>1, <2>3, <3>1, <3>2 DEF CascadeVisit, CascadeExact, TypeOK
  <2> QED  BY <2>2, <2>3
<1>3. CASE CascadeAgain
  BY <1>3 DEF CascadeAgain, CascadeExact, callVars, TypeOK, Hook
<1>4. CASE LoadConfig \/ ConfigsLoaded \/ LoadEnabled \/ CascadeDone
           \/ StoreEnabled \/ FlagsApplied
  BY <1>4 DEF LoadConfig, ConfigsLoaded, LoadEnabled, CascadeDone,
              StoreEnabled, FlagsApplied, CascadeExact
<1>5. CASE InstallStep
  BY <1>5 DEF InstallStep, SkipDisabled, SkipUninstallable, BeginInstall,
              ArmSite, InstallSucceeds, InstallFails, InstallThrows,
              InstallDone, CascadeExact
<1>6. CASE ReloadStep \/ StartReload
  BY <1>6 DEF ReloadStep, StartReload, CallOnReload, ReloadDone, CascadeExact
<1>7. CASE UNCHANGED vars
  BY <1>7 DEF vars, CascadeExact
<1> QED
  BY <1>1, <1>2, <1>3, <1>4, <1>5, <1>6, <1>7 DEF Next, CallStep, ApplyStep

\* The two loops that store flags, and what the calls leave behind.
LEMMA FlagsStep ==
    ASSUME TypeOK, StageInv, FlagsInv, CascadeExact, [Next]_vars
    PROVE  FlagsInv'
<1> USE DEF TypeOK, StageInv
<1>1. CASE LoadConfig \/ ConfigsLoaded
  BY <1>1 DEF LoadConfig, ConfigsLoaded, FlagsInv, Hook
<1>2. CASE LoadEnabled
  BY <1>2, LoopIndex DEF LoadEnabled, FlagsInv, callVars, Hook
<1>3. CASE ReadFlags
  BY <1>3 DEF ReadFlags, FlagsInv, callVars, Hook
<1>4. CASE CascadeVisit \/ CascadeAgain
  BY <1>4 DEF CascadeVisit, CascadeAgain, FlagsInv, callVars, cascadeVars
<1>5. CASE CascadeDone
  <2>1. Closed(flags)
    BY <1>5 DEF CascadeDone, CascadeExact, Closed, Hook
  <2>2. flags = GreatestClosed(ini.on)
    BY <1>5, <2>1, GreatestClosedUnique DEF CascadeDone, FlagsInv, CascadeExact
  <2> QED  BY <1>5, <2>2 DEF CascadeDone, FlagsInv, callVars, cascadeVars, Hook
<1>6. CASE StoreEnabled
  BY <1>6, LoopIndex DEF StoreEnabled, FlagsInv, callVars, cascadeVars, Hook
<1>7. CASE FlagsApplied
  <2>1. enabled = GreatestClosed(ini.on)
    BY <1>7, HookRange, GreatestClosedProps DEF FlagsApplied, FlagsInv
  <2> QED  BY <1>7, <2>1 DEF FlagsApplied, FlagsInv, callVars
<1>8. CASE InstallStep
  BY <1>8 DEF InstallStep, SkipDisabled, SkipUninstallable, BeginInstall,
              ArmSite, InstallSucceeds, InstallFails, InstallThrows,
              InstallDone, FlagsInv, callVars
<1>9. CASE ReloadStep \/ StartReload
  BY <1>9 DEF ReloadStep, StartReload, CallOnReload, ReloadDone, FlagsInv,
              callVars
<1>10. CASE UNCHANGED vars
  BY <1>10 DEF vars, FlagsInv
<1> QED
  BY <1>1, <1>2, <1>3, <1>4, <1>5, <1>6, <1>7, <1>8, <1>9, <1>10
     DEF Next, CallStep, ApplyStep

\* The installation order does not change.
LEMMA SlotPrime == \A k : Slot(k)' = Slot(k)
  BY DEF Slot

\* The installation loop decides one slot after the other.
LEMMA LoopStep ==
    ASSUME TypeOK, StageInv, FreshInv, FlagsInv, LoopInv, ArmedInv, [Next]_vars
    PROVE  LoopInv'
<1> USE DEF TypeOK, StageInv
<1>1. CASE LoadConfig \/ ConfigsLoaded \/ LoadEnabled \/ ReadFlags
           \/ CascadeVisit \/ CascadeAgain \/ CascadeDone \/ StoreEnabled
  BY <1>1 DEF LoadConfig, ConfigsLoaded, LoadEnabled, ReadFlags, CascadeVisit,
              CascadeAgain, CascadeDone, StoreEnabled, LoopInv, InLoop
<1>2. CASE FlagsApplied
  <2>1. enabled = GreatestClosed(ini.on)
    BY <1>2, HookRange, GreatestClosedProps DEF FlagsApplied, FlagsInv
  <2> QED
    BY <1>2, <2>1, HookRange
       DEF FlagsApplied, FreshInv, LoopInv, InLoop, callVars, installVars
<1>3. CASE SkipDisabled
  BY <1>3, SlotProps, HookRange, LoopIndex, SlotPrime
     DEF SkipDisabled, LoopInv, InLoop, callVars, installVars
<1>4. CASE SkipUninstallable
  BY <1>4, SlotProps, HookRange, LoopIndex, SlotPrime
     DEF SkipUninstallable, LoopInv, InLoop, callVars, installVars
<1>5. CASE BeginInstall
  BY <1>5 DEF BeginInstall, LoopInv, InLoop, callVars, installVars, Slot
<1>6. CASE ArmSite
  BY <1>6 DEF ArmSite, LoopInv, InLoop, callVars, Slot
<1>7. CASE InstallSucceeds
  <2>1. /\ i \in Hook /\ pc' = "install" /\ i' = i + 1
        /\ installed' = installed \union {Slot(i)}
        /\ UNCHANGED <<call, ini, enabled>>
    BY <1>7, LoopIndex DEF InstallSucceeds, callVars
  <2>2. LoopInv /\ InLoop /\ pc # "idle"
    BY <1>7 DEF InstallSucceeds, InLoop
  <2>3. Slot(i) \in enabled
    BY <1>7 DEF ArmedInv, InstallSucceeds
  <2>4. \A k \in Hook : k < i + 1 =>
           (Slot(k)' \in enabled' <=> Slot(k)' \in installed')
    BY <2>1, <2>2, <2>3, SlotProps, HookRange, SlotPrime DEF LoopInv
  <2>5. \A k \in Hook : k >= i + 1 => k >= i /\ Slot(k) # Slot(i)
    BY <2>1, SlotProps, HookRange
  <2> QED
    BY <2>1, <2>2, <2>4, <2>5, SlotPrime DEF LoopInv
<1>8. CASE InstallFails
  BY <1>8, SlotProps, HookRange, LoopIndex, SlotPrime
     DEF InstallFails, LoopInv, InLoop, callVars
<1>9. CASE InstallThrows
  BY <1>9 DEF InstallThrows, LoopInv, InLoop
<1>10. CASE InstallDone
  BY <1>10 DEF InstallDone, LoopInv, InLoop, callVars, installVars, Slot
<1>11. CASE ReloadStep \/ StartReload
  BY <1>11 DEF ReloadStep, StartReload, CallOnReload, ReloadDone, LoopInv,
               InLoop, callVars
<1>12. CASE UNCHANGED vars
  BY <1>12 DEF vars, LoopInv, InLoop, Slot
<1> QED
  BY <1>1, <1>2, <1>3, <1>4, <1>5, <1>6, <1>7, <1>8, <1>9, <1>10, <1>11, <1>12
     DEF Next, CallStep, ApplyStep, InstallStep

\* A reason to skip a hook is not lost: the missing dependency of a skipped
\* hook sits in an earlier slot, so no later slot can install it.
LEMMA CauseStep ==
    ASSUME TypeOK, StageInv, FreshInv, LoopInv, CauseInv, [Next]_vars
    PROVE  CauseInv'
<1> USE DEF TypeOK, StageInv
<1>1. CASE LoadConfig \/ ConfigsLoaded \/ LoadEnabled \/ ReadFlags
           \/ CascadeVisit \/ CascadeAgain \/ CascadeDone \/ StoreEnabled
  BY <1>1 DEF LoadConfig, ConfigsLoaded, LoadEnabled, ReadFlags, CascadeVisit,
              CascadeAgain, CascadeDone, StoreEnabled, CauseInv, InLoop
<1>2. CASE FlagsApplied
  BY <1>2, HookRange DEF FlagsApplied, CauseInv, InLoop
<1>3. CASE SkipDisabled
  BY <1>3, HookRange, SlotPrime, LoopIndex
     DEF SkipDisabled, LoopInv, CauseInv, InLoop, callVars, installVars,
         DepsMet
<1>4. CASE SkipUninstallable
  BY <1>4, HookRange, SlotPrime, LoopIndex
     DEF SkipUninstallable, CauseInv, InLoop, callVars, installVars, DepsMet
<1>5. CASE BeginInstall \/ ArmSite
  BY <1>5, SlotPrime
     DEF BeginInstall, ArmSite, CauseInv, InLoop, callVars, installVars,
         DepsMet
<1>6. CASE InstallSucceeds
  <2>1. /\ i \in Hook /\ i' = i + 1 /\ CauseInv /\ InLoop
        /\ installed' = installed \union {Slot(i)}
        /\ UNCHANGED <<ini, found, failed>>
    BY <1>6, LoopIndex DEF InstallSucceeds, callVars, InLoop
  <2>2. SUFFICES ASSUME NEW k \in Hook, k < i,
                        Slot(k) \in GreatestClosed(ini.on) \ installed,
                        ~DepsMet(Slot(k))
                 PROVE  ~DepsMet(Slot(k))'
    BY <2>1, <2>2, HookRange, SlotPrime DEF CauseInv
  <2>3. PICK d \in HardDeps[Slot(k)] : d \notin installed
    BY <2>2 DEF DepsMet
  <2>4. d \in Hook
    BY <2>2, <2>3, SlotProps, HardDepsAssumption
  <2>5. PICK m \in Hook : Slot(m) = d
    BY <2>4, SlotProps
  <2>6. m < i
    <3>1. m < k
      BY <2>2, <2>3, <2>5, SlotProps
    <3>2. m \in Int /\ k \in Int /\ i \in Int
      BY <2>1, <2>2, <2>5, HookRange
    <3> QED  BY <2>2, <3>1, <3>2
  <2>7. d # Slot(i)
    BY <2>1, <2>5, <2>6, SlotProps, HookRange
  <2> QED  BY <2>1, <2>3, <2>7, SlotPrime DEF DepsMet
<1>7. CASE InstallFails
  BY <1>7, HookRange, SlotPrime, LoopIndex
     DEF InstallFails, CauseInv, InLoop, callVars, DepsMet
<1>8. CASE InstallThrows
  BY <1>8 DEF InstallThrows, CauseInv, InLoop
<1>9. CASE InstallDone
  BY <1>9, SlotPrime
     DEF InstallDone, CauseInv, InLoop, callVars, installVars, DepsMet
<1>10. CASE ReloadStep \/ StartReload
  BY <1>10 DEF ReloadStep, StartReload, CallOnReload, ReloadDone, CauseInv,
               InLoop, callVars
<1>11. CASE UNCHANGED vars
  BY <1>11, SlotPrime DEF vars, CauseInv, InLoop, DepsMet
<1> QED
  BY <1>1, <1>2, <1>3, <1>4, <1>5, <1>6, <1>7, <1>8, <1>9, <1>10, <1>11
     DEF Next, CallStep, ApplyStep, InstallStep

\* Configs are loaded first and handed on last.
LEMMA ConfigStep ==
    ASSUME TypeOK, StageInv, FreshInv, ConfigInv, [Next]_vars
    PROVE  ConfigInv'
<1> USE DEF TypeOK, StageInv, ConfigInv
<1>1. CASE LoadConfig
  BY <1>1, LoopIndex, HookRange DEF LoadConfig, callVars
<1>2. CASE ConfigsLoaded
  BY <1>2, HookRange DEF ConfigsLoaded, callVars, installVars, FreshInv
<1>3. CASE LoadEnabled \/ ReadFlags \/ CascadeVisit \/ CascadeAgain
           \/ CascadeDone \/ StoreEnabled
  BY <1>3 DEF LoadEnabled, ReadFlags, CascadeVisit, CascadeAgain, CascadeDone,
              StoreEnabled, callVars, installVars
<1>4. CASE FlagsApplied
  BY <1>4, HookRange DEF FlagsApplied, callVars, installVars
<1>5. CASE SkipDisabled \/ SkipUninstallable \/ BeginInstall \/ ArmSite
           \/ InstallFails \/ InstallThrows \/ InstallDone
  BY <1>5 DEF SkipDisabled, SkipUninstallable, BeginInstall, ArmSite,
              InstallFails, InstallThrows, InstallDone, callVars, installVars
<1>6. CASE InstallSucceeds
  BY <1>6, LoopIndex DEF InstallSucceeds, callVars
<1>7. CASE StartReload
  BY <1>7, HookRange DEF StartReload
<1>8. CASE CallOnReload
  BY <1>8, LoopIndex, HookRange DEF CallOnReload, callVars
<1>9. CASE ReloadDone
  BY <1>9, HookRange DEF ReloadDone, callVars, installVars
<1>10. CASE UNCHANGED vars
  BY <1>10 DEF vars
<1> QED
  BY <1>1, <1>2, <1>3, <1>4, <1>5, <1>6, <1>7, <1>8, <1>9, <1>10
     DEF Next, CallStep, ApplyStep, InstallStep, ReloadStep

\* IInv is inductive.
LEMMA NextIInv == IInv /\ [Next]_vars => IInv'
  BY NextTypeOK, StageStep, FreshStep, FlagsStep, CascadeStep, LoopStep,
     CauseStep, ArmedStep, ConfigStep DEF IInv

\* IInv holds in every reachable state.
THEOREM IInvHolds == Spec => []IInv
  BY InitIInv, NextIInv, PTL DEF Spec

\* When every slot is decided, the enabled hooks are the installed ones.
LEMMA LoopEnds ==
    ASSUME IInv, InLoop, i = N
    PROVE  enabled = installed
<1> USE DEF IInv, TypeOK
<1>1. \A k \in Hook : Slot(k) \in enabled <=> Slot(k) \in installed
  BY HookRange DEF LoopInv
<1>2. \A h \in Hook : h \in enabled <=> h \in installed
  BY <1>1, SlotProps
<1> QED  BY <1>2

\* What the inductive invariant says of the flags between calls.
LEMMA RestingFlags == IInv => EnabledAtRest
<1> SUFFICES ASSUME IInv, pc = "idle" PROVE EnabledAtRest
  BY DEF EnabledAtRest
<1>1. CASE call = "install_all"
  BY <1>1, LoopEnds DEF IInv, LoopInv, InLoop, EnabledAtRest
<1>2. CASE call = "reload"
  BY <1>2 DEF IInv, FlagsInv, EnabledAtRest
<1> QED  BY <1>1, <1>2 DEF IInv, TypeOK

-----------------------------------------------------------------------------
(* The safety properties of HookRegistry.                                  *)

\* The variables of the registry always have their types.
THEOREM TypeCorrect == Spec => []TypeOK
<1>1. IInv => TypeOK
  BY DEF IInv
<1> QED  BY <1>1, IInvHolds, PTL

\* A hook that is installed or armed has its hard dependencies installed.
THEOREM DependenciesFirstHolds == Spec => []DependenciesFirst
<1>1. IInv => DependenciesFirst
  BY DEF IInv, ArmedInv
<1> QED  BY <1>1, IInvHolds, PTL

\* cascade_disable never goes below the greatest closed set of enabled hooks,
\* and a pass without a change leaves a closed set.
THEOREM CascadeExactHolds == Spec => []CascadeExact
<1>1. IInv => CascadeExact
  BY DEF IInv
<1> QED  BY <1>1, IInvHolds, PTL

\* The enabled flags between calls: the installed hooks after install_all, the
\* greatest closed part of the file's choice after a reload.
THEOREM EnabledAtRestHolds == Spec => []EnabledAtRest
  BY RestingFlags, IInvHolds, PTL

\* install_all leaves out no hook without one of the three reasons.
THEOREM SkippedForCauseHolds == Spec => []SkippedForCause
<1>1. IInv => SkippedForCause
  <2> SUFFICES ASSUME IInv, pc = "idle", call = "install_all",
                      NEW h \in GreatestClosed(ini.on) \ installed
               PROVE  h \notin found \/ h \in failed \/ ~DepsMet(h)
    BY DEF SkippedForCause
  <2>1. h \in Hook
    BY GreatestClosedProps DEF IInv, TypeOK
  <2>2. PICK k \in Hook : Slot(k) = h
    BY <2>1, SlotProps
  <2>3. k < i
    BY HookRange DEF IInv, LoopInv, InLoop
  <2> QED  BY <2>2, <2>3 DEF IInv, CauseInv, InLoop
<1> QED  BY <1>1, IInvHolds, PTL

\* After every call install or on_reload of every active hook has run with the
\* configuration just read.
THEOREM ToldAtRestHolds == Spec => []ToldAtRest
<1>1. IInv => ToldAtRest
  BY DEF IInv, TypeOK, ConfigInv, ToldAtRest
<1> QED  BY <1>1, IInvHolds, PTL

-----------------------------------------------------------------------------
(* HookRegistry implements RegistryContract.                               *)

\* The two modules mean the same sets.
LEMMA ContractSets ==
    /\ Contract!Hook = Hook
    /\ \A S : Contract!GreatestClosed(S) = GreatestClosed(S)
  BY DEF Contract!Hook, Hook, Contract!GreatestClosed, GreatestClosed,
         Contract!Closed, Closed

\* A starting state of the registry is one of the contract.
LEMMA ContractInit == Init => Contract!Init
  BY ContractSets DEF Init, Contract!Init, CallPhase

\* The phase the contract sees, stage by stage.
LEMMA PhaseOf ==
    ASSUME TypeOK
    PROVE  /\ pc = "aborted" => CallPhase = "dead"
           /\ pc = "idle" => CallPhase = "ready"
           /\ (pc \notin {"aborted", "idle"} /\ call = "install_all")
                => CallPhase = "starting"
           /\ (pc \notin {"aborted", "idle"} /\ call = "reload")
                => CallPhase = "reloading"
  BY DEF CallPhase, TypeOK, PC

\* Every step of the registry is a step of the contract or a stutter.
LEMMA ContractStep ==
    ASSUME IInv, IInv', [Next]_vars
    PROVE  [Contract!Next]_(Contract!vars)
<1> USE DEF Contract!vars
<1> DEFINE Quiet == UNCHANGED <<enabled, installed>> /\ CallPhase' = CallPhase
<1>0. /\ TypeOK /\ StageInv
      /\ TypeOK'
  BY DEF IInv
<1>1. CASE \/ LoadConfig \/ ConfigsLoaded \/ ReadFlags \/ CascadeVisit
           \/ CascadeAgain \/ CascadeDone \/ FlagsApplied
  <2>1. Quiet
    BY <1>0, <1>1, PhaseOf
       DEF LoadConfig, ConfigsLoaded, ReadFlags, CascadeVisit, CascadeAgain,
           CascadeDone, FlagsApplied, callVars, installVars, CallPhase
  <2> QED  BY <2>1
<1>2. CASE LoadEnabled \/ StoreEnabled
  <2>1. /\ \E h \in Hook : enabled' \in {enabled \union {h}, enabled \ {h}}
        /\ installed' = installed /\ pc' = pc /\ call' = call
        /\ pc \in {"load_enabled", "store_enabled"}
    BY <1>0, <1>2, LoopIndex
       DEF LoadEnabled, StoreEnabled, callVars, installVars
  <2>2. CallPhase \in {"starting", "reloading"} /\ CallPhase' = CallPhase
    BY <1>0, <2>1, PhaseOf DEF CallPhase, TypeOK
  <2> QED  BY <2>1, <2>2, ContractSets DEF Contract!Next, Contract!SetFlag
<1>3. CASE SkipDisabled \/ BeginInstall \/ ArmSite
  <2>1. Quiet
    BY <1>3
       DEF SkipDisabled, BeginInstall, ArmSite, callVars, installVars, CallPhase
  <2> QED  BY <2>1
<1>4. CASE SkipUninstallable \/ InstallFails
  <2>1. /\ \E h \in Hook : enabled' = enabled \ {h}
        /\ installed' = installed /\ call' = call
        /\ pc \in {"install", "installing"}
        /\ pc' \in {"install", "installing"}
    BY <1>0, <1>4, LoopIndex
       DEF SkipUninstallable, InstallFails, callVars, installVars, StageInv
  <2>2. CallPhase = "starting" /\ CallPhase' = "starting"
    BY <1>0, <2>1 DEF CallPhase, StageInv
  <2> QED  BY <2>1, <2>2, ContractSets DEF Contract!Next, Contract!SetFlag
<1>5. CASE InstallSucceeds
  <2>1. /\ Slot(i) \in Hook \ installed
        /\ HardDeps[Slot(i)] \subseteq installed
        /\ installed' = installed \union {Slot(i)}
        /\ UNCHANGED <<call, enabled>>
        /\ pc = "installing" /\ pc' = "install"
    BY <1>0, <1>5, LoopIndex
       DEF InstallSucceeds, callVars, IInv, ArmedInv, DepsMet, LoopInv, InLoop,
           StageInv, TypeOK
  <2>2. CallPhase = "starting" /\ CallPhase' = "starting"
    BY <1>0, <2>1 DEF CallPhase, StageInv
  <2> QED  BY <2>1, <2>2, ContractSets DEF Contract!Next, Contract!InstallOne
<1>6. CASE InstallThrows
  <2>1. CallPhase = "starting" /\ CallPhase' = "dead"
    BY <1>0, <1>6 DEF InstallThrows, CallPhase, StageInv
  <2> QED
    BY <1>6, <2>1 DEF InstallThrows, installVars, Contract!Next, Contract!Die
<1>7. CASE InstallDone
  <2>1. CallPhase = "starting" /\ CallPhase' = "ready"
    BY <1>0, <1>7 DEF InstallDone, CallPhase, StageInv
  <2>2. enabled = installed
    BY <1>7, LoopEnds DEF InstallDone, InLoop
  <2> QED
    BY <1>7, <2>1, <2>2
       DEF InstallDone, installVars, Contract!Next, Contract!FinishInstall
<1>8. CASE StartReload
  <2>1. CallPhase = "ready" /\ CallPhase' = "reloading"
    BY <1>0, <1>8 DEF StartReload, CallPhase
  <2> QED
    BY <1>8, <2>1
       DEF StartReload, installVars, Contract!Next, Contract!BeginReload
<1>9. CASE CallOnReload
  <2>1. Quiet
    BY <1>9 DEF CallOnReload, callVars, CallPhase
  <2> QED  BY <2>1
<1>10. CASE ReloadDone
  <2>1. CallPhase = "reloading" /\ CallPhase' = "ready"
    BY <1>0, <1>10 DEF ReloadDone, CallPhase, StageInv
  <2>2. enabled = GreatestClosed(ini.on) /\ ini.on \in SUBSET Hook
    BY <1>0, <1>10 DEF ReloadDone, IInv, FlagsInv, StageInv, TypeOK
  <2> QED
    BY <1>10, <2>1, <2>2, ContractSets
       DEF ReloadDone, installVars, Contract!Next, Contract!FinishReload
<1>11. CASE UNCHANGED vars
  BY <1>11 DEF vars, CallPhase
<1> QED
  BY <1>1, <1>2, <1>3, <1>4, <1>5, <1>6, <1>7, <1>8, <1>9, <1>10, <1>11
     DEF Next, CallStep, ApplyStep, InstallStep, ReloadStep

\* HookRegistry implements RegistryContract: whatever the loops do on the way,
\* readers of enabled() see only what the contract allows.
THEOREM ContractImplemented == Spec => ImplementsContract
  BY ContractInit, ContractStep, IInvHolds, PTL
     DEF Spec, ImplementsContract, Contract!Spec
=============================================================================
