\* One session that is quit normally, and the next one.
CONSTANTS
    NumHooks = 2
    MaxSessions = 2
SPECIFICATION Spec
INVARIANT
    ExitIsQuiet
CHECK_DEADLOCK FALSE
