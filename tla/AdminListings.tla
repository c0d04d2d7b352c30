--------------------------- MODULE AdminListings ---------------------------
(***************************************************************************)
(* The admin's listings of users and tariffs, and the changes of users.    *)
(* Each listing builds its SQL with one query builder, an object that all  *)
(* requests share: it remembers what it is set to, from one request to the *)
(* next and across the awaits of overlapping ones.                         *)
(*                                                                         *)
(* A search is the set of people whose names or address it matches.  What  *)
(* the rows are ordered by may change, and may be the same for several of  *)
(* them: a column has a set of orders, one of which the database takes.    *)
(***************************************************************************)
EXTENDS Integers, Sequences, SequencesExt, FiniteSets, Collections

CONSTANTS
    Handlers,   \* the requests in flight
    People,     \* everybody who may have an account
    Orders,     \* the orders that each column of orderBy may put everybody in
    Companies, Nobody,
    Statuses,   \* of UserStatus, "payment_required" among them
    TariffOrders, \* the orders that each column of orderBy may put the tariffs in
    Scenarios   \* the accounts at the beginning, and what may be asked

ASSUME ListingAssumption ==
    /\ "payment_required" \in Statuses /\ {"", "all"} \cap Statuses = {}
    /\ IsFiniteSet(Statuses)
    /\ Nobody \notin Companies

\* Everybody, once each.
Roster(roster) ==
    /\ roster \in Seq(People) /\ Range(roster) = People
    /\ \A i, j \in DOMAIN roster : i # j => roster[i] # roster[j]

(* The addresses, which are unique, leave one order only; a column that     *)
(* does not exist, as "", has none.                                         *)
ASSUME OrdersAssumption ==
    /\ IsFiniteSet(People)
    /\ \A column \in DOMAIN Orders : \A roster \in Orders[column] : Roster(roster)
    /\ "id" \in DOMAIN TariffOrders

VARIABLES
    people,     \* authnode's users; nobody is ever deleted
    companies,  \* authnode's companies: the name of each
    usersBuilder, tariffsBuilder,
    handler,    \* what each request is at
    scenario    \* what may still be asked, and how much may still fail

builders == <<usersBuilder, tariffsBuilder>>
listingsVars == <<people, companies, builders, handler, scenario>>

----------------------------------------------------------------------------
\* Queries and builders.

Order == {"ASC", "DESC"}
Names == {"old", "new"}

Person == [registered : BOOLEAN, status : Statuses, company : Companies \cup {Nobody}]

(* A query of the users' list; 0 stands for a number that is left out.      *)
(* "" and "all" are no status: they ask for everybody.                      *)
UsersQuery ==
    [search : SUBSET People, corporate : BOOLEAN, group : Statuses \cup {"", "all"},
     orderBy : DOMAIN Orders, order : Order, page : Nat, perPage : Nat]

TariffsQuery == [orderBy : DOMAIN TariffOrders, order : Order, page : Nat, perPage : Nat]

Page(q) == IF q.page = 0 THEN 1 ELSE q.page
PerPage(q) == IF q.perPage = 0 THEN 10 ELSE q.perPage

\* Mutant: the page that is left out is page 0.
OffsetUndefaulted(q) == (q.page - 1) * PerPage(q)

Offset(q) == (Page(q) - 1) * PerPage(q)

(* The conditions of a WHERE are joined by AND: that of the companies,      *)
(* those of the searches and those of the groups.                           *)
Unconditional == [corporate |-> FALSE, searches |-> {}, groups |-> {}]

NewBuilder ==
    [orderBy |-> "id", order |-> "ASC", limit |-> 10, offset |-> 0, where |-> Unconditional]

andWhere(where, q) ==
    [corporate |-> where.corporate \/ q.corporate,
     searches |-> where.searches \cup {q.search},
     groups |-> where.groups \cup ({q.group} \cap Statuses)]

Satisfies(p, where) ==
    /\ people[p].registered
    /\ where.corporate => people[p].company # Nobody
    /\ \A search \in where.searches : p \in search
    /\ \A group \in where.groups : people[p].status = group

Rank(roster, p) == CHOOSE i \in DOMAIN roster : roster[i] = p

\* Some people, in the order of a roster.
Rows(S, roster) == InOrder(S, [p \in S |-> Rank(roster, p)])

\* ORDER BY, OFFSET and LIMIT.
Slice(rows, sql) ==
    LET ordered == IF sql.order = "ASC" THEN rows ELSE Reverse(rows)
    IN  SubSeq(ordered, sql.offset + 1,
               IF sql.offset + sql.limit < Len(rows) THEN sql.offset + sql.limit ELSE Len(rows))

PagesCount(count, q) == (count + PerPage(q) - 1) \div PerPage(q)

----------------------------------------------------------------------------
\* Requests.

(* `sql` is the text sent to the database, `counts` the statistics so far.  *)
(* `offsetBefore` (the page that the tariffs' builder was left at), `alone` *)
(* and `unchanged` tell the properties what happened meanwhile.             *)
Idle == [at |-> "idle", query |-> <<>>, counts |-> <<>>, sql |-> NewBuilder,
         items |-> <<>>, offsetBefore |-> 0, alone |-> TRUE, unchanged |-> TRUE]

Is(h, place) == handler[h].at = place

Goes(h, next) == handler' = [handler EXCEPT ![h] = next]

Asked(h, kind, q) ==
    /\ Is(h, "idle")
    /\ scenario.requests > 0 /\ q \in scenario[kind]
    /\ scenario' = [scenario EXCEPT !.requests = @ - 1]

\* Overlapping requests are not alone.
Starts(h, place, q) ==
    LET busy == {g \in Handlers : ~Is(g, "idle")}
    IN  handler' = [g \in Handlers |->
            IF g = h THEN [Idle EXCEPT !.at = place, !.query = q, !.alone = busy = {},
                                       !.offsetBefore = tariffsBuilder.offset]
            ELSE [handler[g] EXCEPT !.alone = @ /\ g \notin busy]]

\* A write of authnode that h asks for.
Writes(h, next) ==
    handler' = [g \in Handlers |->
        IF g = h THEN next ELSE [handler[g] EXCEPT !.unchanged = FALSE]]

\* A database or authnode fails: the request ends, the builders stay as they are.
Fails(h) ==
    /\ ~Is(h, "idle") /\ ~Is(h, "answered")
    /\ scenario.faults > 0
    /\ scenario' = [scenario EXCEPT !.faults = @ - 1]
    /\ Goes(h, Idle)
    /\ UNCHANGED <<people, companies, builders>>

\* The database refuses to order by a column that does not exist.
UnknownColumn(h) ==
    /\ \/ Is(h, "users") /\ Orders[handler[h].sql.orderBy] = {}
       \/ Is(h, "tariffs") /\ TariffOrders[handler[h].sql.orderBy] = {}
    /\ Goes(h, Idle)
    /\ UNCHANGED <<people, companies, builders, scenario>>

ListingAnswered(h) ==
    /\ Is(h, "answered")
    /\ Goes(h, Idle)
    /\ UNCHANGED <<people, companies, builders, scenario>>

----------------------------------------------------------------------------
\* The users' list.

getUsers(h) ==
    /\ \E q \in scenario.users : Asked(h, "users", q) /\ Starts(h, "statistics", q)
    /\ UNCHANGED <<people, companies, builders>>

Counted(h, status, n) ==
    Goes(h, [handler[h] EXCEPT !.counts =
        [s \in DOMAIN @ \cup {status} |-> IF s = status THEN n ELSE @[s]]])

\* Mutant: the counts are of everybody.
CountGroupOfAll(h, status) ==
    /\ Is(h, "statistics") /\ status \notin DOMAIN handler[h].counts
    /\ Counted(h, status, Cardinality({p \in People : people[p].status = status}))
    /\ UNCHANGED <<people, companies, builders, scenario>>

\* A query for each status, all at once.
CountGroup(h, status) ==
    LET q == handler[h].query
        conditions == andWhere(Unconditional, [q EXCEPT !.group = status])
    IN  /\ Is(h, "statistics") /\ status \notin DOMAIN handler[h].counts
        /\ Counted(h, status, Cardinality({p \in People : Satisfies(p, conditions)}))
        /\ UNCHANGED <<people, companies, builders, scenario>>

\* Mutant: the offset is set after the query is built.
BuildUsersQueryEarly(h) ==
    LET q == handler[h].query
        set == [usersBuilder EXCEPT !.orderBy = q.orderBy, !.order = q.order,
                                    !.limit = PerPage(q), !.where = andWhere(@, q)]
    IN  /\ Is(h, "statistics") /\ DOMAIN handler[h].counts = Statuses
        /\ usersBuilder' = [set EXCEPT !.offset = Offset(q)]
        /\ Goes(h, [handler[h] EXCEPT !.at = "users", !.sql = set])
        /\ UNCHANGED <<people, companies, tariffsBuilder, scenario>>

\* Mutant: the query is built before its conditions are added.
BuildUsersQueryUnfiltered(h) ==
    LET q == handler[h].query
        set == [usersBuilder EXCEPT !.orderBy = q.orderBy, !.order = q.order,
                                    !.limit = PerPage(q), !.offset = Offset(q)]
    IN  /\ Is(h, "statistics") /\ DOMAIN handler[h].counts = Statuses
        /\ usersBuilder' = [set EXCEPT !.where = andWhere(@, q)]
        /\ Goes(h, [handler[h] EXCEPT !.at = "users", !.sql = set])
        /\ UNCHANGED <<people, companies, tariffsBuilder, scenario>>

\* With the last count the builder is set, and the query built and sent, at once.
BuildUsersQuery(h) ==
    LET q == handler[h].query
        set == [orderBy |-> q.orderBy, order |-> q.order, limit |-> PerPage(q),
                offset |-> Offset(q), where |-> andWhere(usersBuilder.where, q)]
    IN  /\ Is(h, "statistics") /\ DOMAIN handler[h].counts = Statuses
        /\ usersBuilder' = set
        /\ Goes(h, [handler[h] EXCEPT !.at = "users", !.sql = set])
        /\ UNCHANGED <<people, companies, tariffsBuilder, scenario>>

\* A row of the list: the name of its company is read after it.
Item(p) == [user |-> p, status |-> people[p].status, company |-> people[p].company,
            named |-> IF people[p].company = Nobody THEN "none" ELSE "unread"]

After(items) ==
    IF \A i \in DOMAIN items : items[i].named # "unread" THEN "answered" ELSE "companies"

QueryUsers(h) ==
    LET sql == handler[h].sql
        found == {p \in People : Satisfies(p, sql.where)}
    IN  /\ Is(h, "users")
        /\ \E roster \in Orders[sql.orderBy] :
              LET page == Slice(Rows(found, roster), sql)
                  items == [i \in DOMAIN page |-> Item(page[i])]
              IN  Goes(h, [handler[h] EXCEPT !.at = After(items), !.items = items])
        /\ UNCHANGED <<people, companies, builders, scenario>>

ReadCompany(h, i) ==
    LET item == handler[h].items[i]
        items == [handler[h].items EXCEPT ![i].named = companies[item.company]]
    IN  /\ Is(h, "companies") /\ item.named = "unread"
        /\ Goes(h, [handler[h] EXCEPT !.at = After(items), !.items = items])
        /\ UNCHANGED <<people, companies, builders, scenario>>

NaN == -1

TotalCount(counts) == SumOver(counts, DOMAIN counts)

(* The pages that the answer says there are.  The counts have no name that  *)
(* "all" or "payment_required" leads to: their pages are NaN.               *)
UsersPagesCount(h) ==
    LET q == handler[h].query
        counts == handler[h].counts
    IN  CASE q.group = "" -> PagesCount(TotalCount(counts), q)
          [] q.group \in Statuses \ {"payment_required"} -> PagesCount(counts[q.group], q)
          [] OTHER -> NaN

----------------------------------------------------------------------------
\* Changes of users.

\* An update of a user leaves out what stays as it is: Nobody's company, status "".
UserUpdate == [id : People, status : Statuses \cup {""}, company : Companies \cup {Nobody}]

updateUser(h) ==
    /\ \E u \in scenario.updates : Asked(h, "updates", u) /\ Starts(h, "find", u)
    /\ UNCHANGED <<people, companies, builders>>

FindUser(h) ==
    LET u == handler[h].query
    IN  /\ Is(h, "find")
        /\ Goes(h, IF ~people[u.id].registered THEN Idle
                   ELSE [handler[h] EXCEPT !.at =
                             IF u.company = Nobody THEN "update" ELSE "company"])
        /\ UNCHANGED <<people, companies, builders, scenario>>

updateCompany(h) ==
    /\ Is(h, "company")
    /\ companies' = [companies EXCEPT ![handler[h].query.company] = "new"]
    /\ Goes(h, [handler[h] EXCEPT !.at = "update"])
    /\ UNCHANGED <<people, builders, scenario>>

\* Only the columns that the request names are written.
UpdateRow(h) ==
    LET u == handler[h].query
    IN  /\ Is(h, "update")
        /\ people' = IF u.status = "" THEN people
                     ELSE [people EXCEPT ![u.id].status = u.status]
        /\ Writes(h, [handler[h] EXCEPT !.at = "answered"])
        /\ UNCHANGED <<companies, builders, scenario>>

\* A physical person, or one of a company, is created by authnode.
createUser(h) ==
    /\ \E p \in scenario.creations : Asked(h, "creations", p) /\ Starts(h, "create", [id |-> p])
    /\ UNCHANGED <<people, companies, builders>>

createVerifiedUser(h) ==
    LET p == handler[h].query.id
    IN  /\ Is(h, "create")
        /\ \/ /\ ~people[p].registered
              /\ people' = [people EXCEPT ![p].registered = TRUE]
              /\ Writes(h, [handler[h] EXCEPT !.at = "answered"])
           \/ /\ people[p].registered
              /\ Goes(h, Idle)
              /\ UNCHANGED people
        /\ UNCHANGED <<companies, builders, scenario>>

----------------------------------------------------------------------------
\* The tariffs' list.

\* Mutant: the builder keeps the limit of an earlier request.
getAllUnlimited(h) ==
    \E q \in scenario.tariffs :
        /\ Asked(h, "tariffs", q) /\ Starts(h, "count", q)
        /\ tariffsBuilder' = [tariffsBuilder EXCEPT !.orderBy = q.orderBy, !.order = q.order]
        /\ UNCHANGED <<people, companies, usersBuilder>>

\* Column, order and limit are set before the await.
getAll(h) ==
    \E q \in scenario.tariffs :
        /\ Asked(h, "tariffs", q) /\ Starts(h, "count", q)
        /\ tariffsBuilder' = [tariffsBuilder EXCEPT !.orderBy = q.orderBy, !.order = q.order,
                                                    !.limit = PerPage(q)]
        /\ UNCHANGED <<people, companies, usersBuilder>>

\* With the count the query is built, as the builder is set by then.
CountTariffs(h) ==
    /\ Is(h, "count")
    /\ Goes(h, [handler[h] EXCEPT !.at = "tariffs", !.sql = tariffsBuilder])
    /\ UNCHANGED <<people, companies, builders, scenario>>

\* The offset is set when the rows are there.
QueryTariffs(h) ==
    /\ Is(h, "tariffs")
    /\ \E rows \in TariffOrders[handler[h].sql.orderBy] :
          Goes(h, [handler[h] EXCEPT !.at = "answered", !.items = Slice(rows, handler[h].sql)])
    /\ tariffsBuilder' = [tariffsBuilder EXCEPT !.offset = Offset(handler[h].query)]
    /\ UNCHANGED <<people, companies, usersBuilder, scenario>>

----------------------------------------------------------------------------
\* What may be asked: every query, update and user there is, or some of them.
Allowed ==
    [users : SUBSET UsersQuery, tariffs : SUBSET TariffsQuery,
     updates : SUBSET UserUpdate, creations : SUBSET People,
     requests : Nat, faults : Nat]

ASSUME ScenariosAssumption ==
    Scenarios \subseteq [people : [People -> Person], allowed : Allowed]

ListingsInit ==
    /\ \E s \in Scenarios : people = s.people /\ scenario = s.allowed
    /\ companies = [c \in Companies |-> "old"]
    /\ usersBuilder = NewBuilder /\ tariffsBuilder = NewBuilder
    /\ handler = [h \in Handlers |-> Idle]

ListingsNext ==
    \E h \in Handlers :
        \/ getUsers(h) \/ BuildUsersQuery(h) \/ QueryUsers(h)
        \/ \E status \in Statuses : CountGroup(h, status)
        \/ \E i \in DOMAIN handler[h].items : ReadCompany(h, i)
        \/ updateUser(h) \/ FindUser(h) \/ updateCompany(h) \/ UpdateRow(h)
        \/ createUser(h) \/ createVerifiedUser(h)
        \/ getAll(h) \/ CountTariffs(h) \/ QueryTariffs(h)
        \/ Fails(h) \/ UnknownColumn(h) \/ ListingAnswered(h)

ListingsSpec == ListingsInit /\ [][ListingsNext]_listingsVars

----------------------------------------------------------------------------
\* Properties.

Builder ==
    [orderBy : DOMAIN Orders \cup DOMAIN TariffOrders, order : Order, limit : Nat, offset : Nat,
     where : [corporate : BOOLEAN, searches : SUBSET SUBSET People, groups : SUBSET Statuses]]

ListingsTypeOK ==
    /\ people \in [People -> Person]
    /\ companies \in [Companies -> Names]
    /\ usersBuilder \in Builder /\ tariffsBuilder \in Builder
    /\ \A h \in Handlers : handler[h].sql \in Builder

ListedUsers(h) == handler[h].at \in {"companies", "answered"} /\ handler[h].query \in scenario.users

ListedTariffs(h) == Is(h, "answered") /\ handler[h].query \in scenario.tariffs

(* Whatever other requests do to the builder between the awaits of one, it  *)
(* lists nobody who is not of its group, its search and, if it asks for     *)
(* companies, of a company.                                                 *)
NobodyElseListed ==
    \A h \in Handlers : ListedUsers(h) =>
        LET q == handler[h].query
        IN  \A i \in DOMAIN handler[h].items :
                LET item == handler[h].items[i]
                IN  /\ item.user \in q.search
                    /\ q.corporate => item.company # Nobody
                    /\ q.group \in Statuses => item.status = q.group

\* The people that a request asks for.
AskedFor(q) ==
    {p \in People : /\ people[p].registered /\ p \in q.search
                    /\ q.corporate => people[p].company # Nobody
                    /\ q.group \in Statuses => people[p].status = q.group}

(* As long as no other condition is left in the builder, and unless users   *)
(* change meanwhile, a request lists its own page in an order by its own    *)
(* column, however other requests overlap it.  By the address, which leaves *)
(* one order only, the pages of all numbers would be everybody it asks for, *)
(* once, those with the lower addresses on the earlier pages or on the      *)
(* later ones.                                                              *)
OwnPageOfUsers ==
    \A h \in Handlers : ListedUsers(h) =>
        LET q == handler[h].query
            items == handler[h].items
            Ahead(p, roster) ==
                {o \in AskedFor(q) : IF q.order = "ASC" THEN Rank(roster, o) < Rank(roster, p)
                                                        ELSE Rank(roster, o) > Rank(roster, p)}
        IN  handler[h].sql.where = andWhere(Unconditional, q) /\ handler[h].unchanged =>
                \E roster \in Orders[q.orderBy] : \A p \in AskedFor(q) :
                    LET position == Cardinality(Ahead(p, roster))
                    IN  position \div PerPage(q) = Page(q) - 1
                            <=> \E i \in DOMAIN items : /\ items[i].user = p
                                                        /\ i = 1 + (position % PerPage(q))

(* The counts and the list come from different queries with different       *)
(* conditions, yet they agree: under the same premise a page has users if   *)
(* and only if its number is among the pages that the answer counts, where  *)
(* it does count them.                                                      *)
PagesMatchTheList ==
    \A h \in Handlers : ListedUsers(h) =>
        LET q == handler[h].query
        IN  handler[h].sql.where = andWhere(Unconditional, q) /\ handler[h].unchanged
            /\ UsersPagesCount(h) # NaN =>
                (handler[h].items # <<>>) <=> Page(q) <= UsersPagesCount(h)

(* A request for tariffs that no other request overlaps has its own order   *)
(* and its own number of rows, from where the request before it was to      *)
(* begin; its own page if that was the same.                                *)
TariffsFromTheOffsetBefore ==
    \A h \in Handlers : ListedTariffs(h) /\ handler[h].alone =>
        LET q == handler[h].query
        IN  \E rows \in TariffOrders[q.orderBy] :
                handler[h].items =
                    Slice(rows, [order |-> q.order, limit |-> PerPage(q),
                                 offset |-> handler[h].offsetBefore])

(* A request for all groups ("all" or none) lists everybody, on a page that *)
(* is large enough.                                                         *)
AllGroupsListed ==
    \A h \in Handlers : ListedUsers(h) =>
        LET q == handler[h].query
        IN  /\ q.group \in {"", "all"} /\ ~q.corporate /\ q.search = People
            /\ Page(q) = 1 /\ PerPage(q) >= Cardinality(People) /\ handler[h].unchanged =>
                {handler[h].items[i].user : i \in DOMAIN handler[h].items} = AskedFor(q)
=============================================================================
