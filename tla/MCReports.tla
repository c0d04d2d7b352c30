----------------------------- MODULE MCReports -----------------------------
(* Statistics, or the admin's listings, on small instances.  They share no  *)
(* state, so that a behaviour has requests of one of them only.             *)
EXTENDS MCStatistics, AdminListings

CONSTANTS ann, ben, eve, acme

Everybody == {ann, ben, eve}

\* Ben and Eve have as many open tickets as each other.
PeopleOrders ==
    ("email" :> {<<ann, ben, eve>>}) @@ ("" :> {})
    @@ ("openTicketsCount" :> {<<ben, eve, ann>>, <<eve, ben, ann>>})

ThreeTariffs ==
    ("id" :> {<<"start", "business", "large">>}) @@ ("trialDays" :> {})
    @@ ("bandwidth" :> {<<"large", "start", "business">>})

Somebody(registered, status, company) ==
    [registered |-> registered, status |-> status, company |-> company]

Accounted(present) ==
    (ann :> Somebody(TRUE, "active", acme)) @@ (ben :> Somebody(TRUE, "active", Nobody))
    @@ (eve :> Somebody(present, "payment_required", acme))

AskUsers(search, corporate, group, orderBy, order, page, perPage) ==
    [search |-> search, corporate |-> corporate, group |-> group,
     orderBy |-> orderBy, order |-> order, page |-> page, perPage |-> perPage]

Nothing == [users |-> {}, updates |-> {}, creations |-> {}, tariffs |-> {},
            requests |-> 0, faults |-> 0]

FilterQueries ==
    {AskUsers(Everybody, FALSE, "", "email", "DESC", 0, 0),
     AskUsers(Everybody, FALSE, "all", "openTicketsCount", "ASC", 1, 5),
     AskUsers(Everybody, FALSE, "active", "email", "DESC", 0, 1),
     AskUsers({ann, eve}, TRUE, "payment_required", "email", "ASC", 0, 0)}

PageQueries ==
    {AskUsers(Everybody, FALSE, "", "email", order, page, perPage) :
        order \in {"ASC", "DESC"}, page \in 0..3, perPage \in {1, 2}}
    \cup {AskUsers({ann, eve}, TRUE, group, "email", "DESC", page, 1) :
             group \in {"", "active"}, page \in 1..2}
    \cup {AskUsers(Everybody, FALSE, "", "openTicketsCount", order, page, 2) :
             order \in {"ASC", "DESC"}, page \in 1..2}
    \cup {AskUsers(Everybody, FALSE, "", "", "ASC", 0, 0)}

Updates ==
    {[id |-> ben, status |-> "payment_required", company |-> Nobody],
     [id |-> eve, status |-> "active", company |-> acme],
     [id |-> ann, status |-> "", company |-> acme]}

TariffQueries ==
    {[orderBy |-> orderBy, order |-> order, page |-> page, perPage |-> perPage] :
        orderBy \in DOMAIN ThreeTariffs, order \in {"ASC", "DESC"}, page \in 0..2,
        perPage \in {0, 2}}

ListingScenarios ==
    {[people |-> Accounted(TRUE), allowed |->
        [Nothing EXCEPT !.users = FilterQueries, !.requests = 3, !.faults = 1]],
     [people |-> Accounted(TRUE), allowed |->
        [Nothing EXCEPT !.users = PageQueries, !.requests = 2]],
     [people |-> Accounted(FALSE), allowed |->
        [Nothing EXCEPT !.users = {AskUsers(Everybody, FALSE, "active", "email", "ASC", 0, 2)},
                        !.updates = Updates, !.creations = {eve}, !.requests = 3, !.faults = 1]],
     [people |-> Accounted(TRUE), allowed |->
        [Nothing EXCEPT !.tariffs = TariffQueries, !.requests = 2, !.faults = 1]]}

NoListings ==
    /\ people = Accounted(TRUE) /\ scenario = Nothing
    /\ companies = [c \in Companies |-> "old"]
    /\ usersBuilder = NewBuilder /\ tariffsBuilder = NewBuilder
    /\ handler = [h \in Handlers |-> Idle]

NoStatistics ==
    /\ storage = <<>> /\ bandwidth = <<>> /\ buckets = Housed /\ users = Accounts
    /\ allowance = [requests |-> {}, tables |-> {}, writes |-> 0]
    /\ request = NoRequest

ReportsInit == (StatisticsInit /\ NoListings) \/ (ListingsInit /\ NoStatistics)

ReportsNext ==
    \/ StatisticsNext /\ UNCHANGED listingsVars
    \/ ListingsNext /\ UNCHANGED statisticsVars

ReportsSpec == ReportsInit /\ [][ReportsNext]_<<statisticsVars, listingsVars>>

\* The listings alone.
FiltersSpec ==
    /\ ListingsInit /\ NoStatistics
    /\ [][ListingsNext /\ UNCHANGED statisticsVars]_<<statisticsVars, listingsVars>>
=============================================================================
