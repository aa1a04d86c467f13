\* Every pair of dependency relations on three hooks.
CONSTANT N = 3
SPECIFICATION Spec
INVARIANTS
    TypeOK
    VerdictIsRight
    OrderIsTopological
CHECK_DEADLOCK FALSE
