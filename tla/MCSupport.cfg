SPECIFICATION FairSpec
CONSTANTS
    Tickets = {t1, t2, t3}
    Users = {alice, bob}
    Handlers = {h1, h2}
    None = None
    Budgets <- MCBudgets
CHECK_DEADLOCK FALSE
INVARIANTS
    TypeOK
    AsAskedWhenSerial
    PagesPartition
PROPERTIES
    DeskSafety
    DeskFairness
