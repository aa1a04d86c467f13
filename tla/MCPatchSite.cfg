CONSTANTS
    Plans <- AllPlans
    Thread = {t1, t2}
    MaxReloads = 2
SYMMETRY Symmetry
SPECIFICATION Spec
CHECK_DEADLOCK FALSE
INVARIANTS
    AtMostOnce
    OneSiteUnserved
    JumpsIntact
    OriginalsAreTheGames
    ChangesAreAttributable
    OneFaultPerThread
