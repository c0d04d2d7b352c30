SPECIFICATION FairSpec
CONSTANTS
    Users = {alice}
    Tariffs = {basic, pro}
    Cards = {visa}
    Handlers = {h1, h2}
    None = None
    Scenarios <- SettlementScenarios
    MaxPlans = 3
    MaxTxs = 4
    MaxIntents = 2
    MaxSubs = 2
    MaxCustomers = 1
CHECK_DEADLOCK FALSE
PROPERTIES
    SubscriptionSettles
