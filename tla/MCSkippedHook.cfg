CONSTANTS
    N = 3
    HardDeps <- MCHardDeps
    InstallOrder <- MCInstallOrder
    Reloadable <- MCReloadable
    MaxReloads = 1
SPECIFICATION Spec
INVARIANT
    SkippedStaysOff
CHECK_DEADLOCK FALSE
