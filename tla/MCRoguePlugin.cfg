CONSTANTS
    MaxReloads = 2
    Editions <- TwoEditions
SPECIFICATION PluginSpec
INVARIANTS UnloadGivesBack TimerFlagTrue OwnEdition NewestLanguageSet ReloadAfterInit
PROPERTIES DetachReturns
CHECK_DEADLOCK FALSE
