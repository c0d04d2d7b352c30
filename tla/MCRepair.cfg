SPECIFICATION FairSpec
CONSTANTS
    Users = {alice}
    Tariffs = {basic, pro}
    Cards = {visa}
    Handlers = {h1, h2}
    None = None
    Scenarios <- RepairScenarios
    MaxPlans = 3
    MaxTxs = 4
    MaxIntents = 3
    MaxSubs = 2
    MaxCustomers = 1
CHECK_DEADLOCK FALSE
INVARIANTS
    OneActivePlan
PROPERTIES
    PlanRestored
    LinkedSubscriptionSucceeds
    KeepsLedger
