\* One thread of the game is enough to be inside the hook at uninstall.
CONSTANTS
    GameThreads = {g1}
    Packer = packer
    MaxPolls = 1
SPECIFICATION Spec
INVARIANT
    NoNullHandle
CHECK_DEADLOCK FALSE
