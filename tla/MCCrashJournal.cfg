\* Three sessions of two hooks: a crash, a session that dies before it has
\* started its record, and one that reads what is left.
CONSTANTS
    NumHooks = 2
    MaxSessions = 3
SPECIFICATION Spec
INVARIANTS
    TypeOK
    CrashIsReported
    UnloadIsQuiet
    JournalKeepsUp
CHECK_DEADLOCK FALSE
