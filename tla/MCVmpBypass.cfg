\* The packer and two threads of the game, three turns per wait.
CONSTANTS
    GameThreads = {g1, g2}
    Packer = packer
    MaxPolls = 3
SPECIFICATION Spec
INVARIANTS
    PatchedUnobserved
    InstallIsSafe
    UnloadLeavesNoHook
PROPERTY
    WaitsEnd
CHECK_DEADLOCK FALSE
