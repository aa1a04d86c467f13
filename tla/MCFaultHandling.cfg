\* Two threads, one callback and the install, three exceptions in all, the
\* first foreign one logged.
CONSTANTS
    Thread = {t1, t2}
    Callback = {cb}
    Install = Install
    None = None
    Lost = Lost
    MaxForeign = 1
    MaxFaults = 3
SPECIFICATION Spec
INVARIANTS
    ReportsBounded
    FaultsContained
    SymbolCallsExclude
    DisabledIsExplained
PROPERTIES
    ReportsEnd
CHECK_DEADLOCK FALSE
