SPECIFICATION Spec
CONSTANTS
    Users = {alice}
    Tariffs = {basic}
    Cards = {visa}
    Handlers = {h1, h2}
    None = None
    Scenarios <- NoCardScenarios
    MaxPlans = 2
    MaxTxs = 3
    MaxIntents = 2
    MaxSubs = 3
    MaxCustomers = 1
CHECK_DEADLOCK FALSE
INVARIANT
    ActiveHasCard
