SPECIFICATION Spec
CONSTANTS
    Users = {alice}
    Tariffs = {basic, pro}
    Cards = {visa}
    Handlers = {h1, h2}
    None = None
    Scenarios <- RequestScenarios
    MaxPlans = 3
    MaxTxs = 4
    MaxIntents = 3
    MaxSubs = 3
    MaxCustomers = 2
SYMMETRY Symmetry
CHECK_DEADLOCK FALSE
INVARIANTS
    TypeOK
    OneActivePlan
    PaidBeforeSuccess
    SettledWhenAcknowledged
    ValidationRefunded
    NoFreeActivation
PROPERTY
    SubscriptionOutcomeFinal
    LinkedSubscriptionSucceeds
