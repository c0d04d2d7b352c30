SPECIFICATION Spec
CONSTANTS
    Users = {alice, bob}
    Sockets = {s1, s2, s3}
    Handlers = {h1, h2}
    None = None
    PerPage = 2
    MaxOld = 2
    MaxRows = 3
    Budgets <- MCBudgets
SYMMETRY Symmetry
CHECK_DEADLOCK FALSE
INVARIANTS
    TypeOK
    ToldIsRead
    NothingMissed
    OnlyEarlyLeaversStay
    RightPage
PROPERTY
    ReadIsFinal
