SPECIFICATION ReportsSpec
CONSTANTS
    alice = alice
    bob = bob
    b1 = b1
    b2 = b2
    b3 = b3
    Users = {alice, bob}
    Buckets = {b1, b2, b3}
    None = None
    SlotsPerDay = 2
    Now = 5
    WindowEnds <- Ends
    Situations <- StatisticsSituations
    ann = ann
    ben = ben
    eve = eve
    acme = acme
    Handlers = {h1, h2}
    People <- Everybody
    Orders <- PeopleOrders
    Companies = {acme}
    Nobody = Nobody
    Statuses = {"trial", "active", "payment_required"}
    TariffOrders <- ThreeTariffs
    Scenarios <- ListingScenarios
CHECK_DEADLOCK FALSE
INVARIANTS
    StatisticsTypeOK
    BandwidthByDay
    StorageByDay
    FiguresOfTheRequest
    ListingsTypeOK
    NobodyElseListed
    OwnPageOfUsers
    PagesMatchTheList
    TariffsFromTheOffsetBefore
