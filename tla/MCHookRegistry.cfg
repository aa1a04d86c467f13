\* Every found set, every [Hooks] section, one failure or success per hook,
\* and two reloads with every other section.
CONSTANTS
    N = 3
    HardDeps <- MCHardDeps
    InstallOrder <- MCInstallOrder
    Reloadable <- MCReloadable
    MaxReloads = 2
SPECIFICATION Spec
INVARIANTS
    DependenciesFirst
    EnabledAtRest
    SkippedForCause
    ToldAtRest
    CascadeExact
PROPERTIES
    CallsEnd
    ImplementsContract
CHECK_DEADLOCK FALSE
