----------------------------- MODULE Statistics -----------------------------
(***************************************************************************)
(* Usage statistics: what a customer, or an admin about one, is shown of   *)
(* the buckets, objects, traffic and storage that filenode records.  The   *)
(* services keep no state of their own, so that one request in flight is   *)
(* enough; filenode goes on writing between its queries.                   *)
(*                                                                         *)
(* Time is counted in instants, SlotsPerDay of them a day; the process,    *)
(* the databases and the dates in the answers use one time zone.           *)
(***************************************************************************)
EXTENDS Integers, Sequences, SequencesExt, FiniteSetsExt, Collections

CONSTANTS
    Users, Buckets, None,
    SlotsPerDay, Now,
    WindowEnds, \* the instants that a query may name
    Situations  \* what filenode has recorded, and what may happen now

\* Now is not on the first day of the calendar.
ASSUME ClockAssumption ==
    /\ SlotsPerDay \in Nat \ {0} /\ WindowEnds \subseteq Nat
    /\ Now \in Nat /\ SlotsPerDay <= Now

ASSUME NamesAssumption ==
    /\ IsFiniteSet(Users) /\ IsFiniteSet(Buckets)
    /\ None \notin Users \cup Nat

VARIABLES
    storage,    \* storage_usage, rows in the order of their writing
    bandwidth,  \* bandwidth_usage
    buckets,    \* buckets, objects and object_versions, per name of a bucket
    users,      \* authnode's users: when created, and their status
    request,    \* the request in flight
    allowance   \* the requests and the writes that may still happen

tables == <<storage, bandwidth, buckets, users>>
statisticsVars == <<tables, request, allowance>>

----------------------------------------------------------------------------
\* The rows of filenode and authnode.

StorageRow == [at : 0..Now, bucket : Buckets, user : Users, size : Nat]

Direction == {"upload", "download"}

BandwidthRow == [at : 0..Now, user : Users, type : Direction, size : Nat]

(* A name of a bucket with what is stored under it.  `id` tells the bucket  *)
(* from those that had the name before; objects are kept by the name of     *)
(* their bucket, files apart from folders, versions by its id.              *)
Contents ==
    {c \in [files : Nat, folders : Nat, versions : Nat, bytes : Nat] :
        c.versions = 0 => c.bytes = 0}

BucketRow == [id : Nat, owner : Users \cup {None}, contents : Contents]

Account == [created : 0..Now, status : {"trial", "active", "payment_required", "suspended"}]

Empty == [files |-> 0, folders |-> 0, versions |-> 0, bytes |-> 0]

\* One column of the contents, summed over some buckets.
Sum(column, names) == SumOver([b \in Buckets |-> buckets[b].contents[column]], names)

----------------------------------------------------------------------------
\* Days and windows.

Day(t) == t \div SlotsPerDay
Midnight(d) == d * SlotsPerDay

\* An end of the window is None when the query leaves it out.
Window == [from : WindowEnds \cup {None}, to : WindowEnds \cup {None}]

InWindow(row, w) ==
    /\ w.from # None => row.at >= w.from
    /\ w.to # None => row.at < w.to

(* The days that the loops over dates fill: they start at an instant, not   *)
(* at midnight, and go on as long as that time of a day is not after `to`.  *)
FilledDays(from, to) ==
    {d \in Day(from)..Day(to) : from + Midnight(d - Day(from)) <= to}

----------------------------------------------------------------------------
\* Bandwidth.

RowsOf(table, u) == {i \in DOMAIN table : table[i].user = u}

Traffic(I) == SumOver([i \in DOMAIN bandwidth |-> bandwidth[i].size], I)

\* SUM over no rows is null, and so are the bytes in the answer.
getBandwidthUsageOfUser(u) ==
    IF RowsOf(bandwidth, u) = {} THEN None ELSE Traffic(RowsOf(bandwidth, u))

NoTraffic(d) == [day |-> d, upload |-> 0, download |-> 0]

\* The rows are grouped by day and type, and ordered by day only.
Groups(u, w, first) ==
    LET found == {i \in RowsOf(bandwidth, u) : InWindow(bandwidth[i], w)}
        keys == {<<Day(bandwidth[i].at), bandwidth[i].type>> : i \in found}
        number == [k \in keys |-> 2 * k[1] + IF k[2] = first THEN 0 ELSE 1]
        Group(k) == [day |-> k[1], type |-> k[2],
                     bandwidth |-> Traffic({i \in found :
                         <<Day(bandwidth[i].at), bandwidth[i].type>> = k})]
        order == InOrder(keys, number)
    IN  [i \in DOMAIN order |-> Group(order[i])]

\* Mutant: the second type of a day replaces the first.
MergeReplaced(result, row) ==
    LET record == [NoTraffic(row.day) EXCEPT ![row.type] = row.bandwidth]
    IN  IF result # <<>> /\ Last(result).day = row.day
        THEN Append(Front(result), record)
        ELSE Append(result, record)

\* A group joins the last record if that is of the same day.
Merge(result, row) ==
    IF result # <<>> /\ Last(result).day = row.day
    THEN Append(Front(result), [Last(result) EXCEPT ![row.type] = row.bandwidth])
    ELSE Append(result, [NoTraffic(row.day) EXCEPT ![row.type] = row.bandwidth])

MergedByDay(groups) ==
    LET result[n \in 0..Len(groups)] ==
            IF n = 0 THEN <<>> ELSE Merge(result[n - 1], groups[n])
    IN  result[Len(groups)]

aggregateByDays(u, w, first) == MergedByDay(Groups(u, w, first))

addDaysWithZeroBandwidth(records, w, created) ==
    LET from == IF w.from # None THEN w.from ELSE created
        to == CASE w.to # None -> w.to
                [] w.to = None /\ records # <<>> -> Midnight(Last(records).day)
                [] OTHER -> from
        found == Range(records)
        days == FilledDays(from, to) \cup {r.day : r \in found}
        Shown(d) == IF \E r \in found : r.day = d
                    THEN CHOOSE r \in found : r.day = d
                    ELSE NoTraffic(d)
        order == Ascending(days)
    IN  [i \in DOMAIN order |-> Shown(order[i])]

----------------------------------------------------------------------------
\* Storage.

Sizes(I) == {storage[i].size : i \in I}

(* A bucket counts with its greatest size at each instant that it has rows  *)
(* of, and a day with the sum over all its instants.                        *)
DayTotal(I) ==
    LET keys == {<<storage[i].at, storage[i].bucket>> : i \in I}
        Greatest(k) == Max(Sizes({i \in I : <<storage[i].at, storage[i].bucket>> = k}))
    IN  SumOver([k \in keys |-> Greatest(k)], keys)

aggregateStorageUsage(u, w) ==
    LET found == {i \in RowsOf(storage, u) : InWindow(storage[i], w)}
        DayOf(i) == Day(storage[i].at)
    IN  [d \in {DayOf(i) : i \in found} |->
            DayTotal({i \in found : DayOf(i) = d})]

\* The last day with rows before an instant, None without rows.
LastDayBefore(before, u) ==
    LET earlier == {i \in RowsOf(storage, u) : storage[i].at < before}
    IN  IF earlier = {} THEN None ELSE Day(Max({storage[i].at : i \in earlier}))

\* The whole of that day: a bucket counts once, with its greatest size.
SizeOfDay(day, u) ==
    LET rows == {i \in RowsOf(storage, u) : Day(storage[i].at) = day}
        measured == {storage[i].bucket : i \in rows}
        Greatest(b) == Max(Sizes({i \in rows : storage[i].bucket = b}))
    IN  SumOver([b \in measured |-> Greatest(b)], measured)

\* The days of the answer, each with its record or one to be filled.
StorageDays(analytics, w) ==
    LET days == DOMAIN analytics
        from == CASE w.from # None -> w.from
                  [] w.from = None /\ days # {} -> Midnight(Min(days))
                  [] OTHER -> Now - SlotsPerDay
        to == CASE w.to # None -> w.to
                [] w.to = None /\ days # {} -> Midnight(Max(days))
                [] OTHER -> Now
    IN  [from |-> from,
         results |-> [d \in FilledDays(from, to) |->
             IF d \in days THEN [used |-> analytics[d], filler |-> FALSE]
                           ELSE [used |-> 0, filler |-> TRUE]]]

NeedsLast(results) ==
    DOMAIN results # {} /\ results[Min(DOMAIN results)].filler

\* Mutant: a day without rows shows nothing stored.
CarriedNot(results, last) ==
    [d \in DOMAIN results |->
        IF NeedsLast(results) /\ d = Min(DOMAIN results) /\ last # None
        THEN last ELSE results[d].used]

\* Mutant: the record before the window is taken to exist.
CarriedUnchecked(results, last) ==
    [d \in DOMAIN results |->
        IF NeedsLast(results) /\ d = Min(DOMAIN results) THEN last ELSE results[d].used]

\* A day that has no size takes that of the day before, the first one `last`.
Carried(results, last) ==
    LET used[d \in DOMAIN results] ==
            IF d # Min(DOMAIN results)
            THEN IF results[d].used = 0 THEN used[d - 1] ELSE results[d].used
            ELSE IF NeedsLast(results) /\ last # None THEN last ELSE results[d].used
    IN  used

----------------------------------------------------------------------------
\* Buckets and objects.

getByOwnerUserId(u) == {b \in Buckets : buckets[b].owner = u}

\* Mutant: without buckets the condition on them is left out.
getOverallObjectsCountAny(names) ==
    Sum("files", IF names = {} THEN Buckets ELSE names)

getOverallObjectsCount(names) == Sum("files", names)

getObjectVersionsSizeSum(ids) ==
    LET names == {b \in Buckets : <<b, buckets[b].id>> \in ids}
    IN  IF ids # {} /\ Sum("versions", names) = 0 THEN None ELSE Sum("bytes", names)

getAllObjectVersionsCountAndSizeSum ==
    [objects |-> Sum("versions", Buckets), bytes |-> Sum("bytes", Buckets)]

----------------------------------------------------------------------------
\* Requests.

NoFigures == [buckets |-> 0, files |-> 0, bytes |-> 0, bandwidth |-> 0,
              objects |-> 0, users |-> 0, active |-> 0, unpaid |-> 0, suspended |-> 0]

(* `found`: the buckets read.  `days`: the days of a storage chart, and     *)
(* `last` the day before them.  `chart` and `figures`: the answer.  The     *)
(* rest is no part of the program: the figures that were true at some time  *)
(* of the request, whether a bucket of the user came or went meanwhile, and *)
(* the storage rows at the first query of a chart and at the second.        *)
NoRequest ==
    [at |-> "idle", kind |-> "none", role |-> "none", user |-> None,
     window |-> [from |-> None, to |-> None], found |-> {},
     days |-> [from |-> 0, results |-> <<>>], last |-> None,
     chart |-> <<>>, figures |-> NoFigures,
     seen |-> {}, moved |-> FALSE, rows |-> <<>>, earlier |-> <<>>]

At(place) == request.at = place
For(role) == request.role = role
Figure(name, value, next) ==
    request' = [request EXCEPT !.figures[name] = value, !.at = next]

Unchanged == UNCHANGED <<tables, allowance>>

\* What the figures of a user are.
FiguresOf(u) ==
    [buckets |-> Cardinality(getByOwnerUserId(u)),
     files |-> Sum("files", getByOwnerUserId(u)),
     bytes |-> Sum("bytes", getByOwnerUserId(u)),
     bandwidth |-> Traffic(RowsOf(bandwidth, u))]

Ask(kind, role, u, w, place) ==
    /\ At("idle") /\ <<role, kind>> \in allowance.requests
    /\ allowance' = [allowance EXCEPT !.requests = @ \ {<<role, kind>>}]
    /\ request' = [NoRequest EXCEPT !.at = place, !.kind = kind, !.role = role,
                      !.user = u, !.window = w, !.seen = {FiguresOf(u)}]
    /\ UNCHANGED tables

\* GET statistics, bandwidth-analytics, storage-analytics, stats-for-landing-page.
CustomerAsks ==
    \/ \E u \in Users : Ask("statistics", "customer", u, NoRequest.window, "buckets")
    \/ \E u \in Users, w \in Window : Ask("bandwidth", "customer", u, w, "bandwidth")
    \/ \E u \in Users, w \in Window : Ask("storage", "customer", u, w, "storage")
    \/ Ask("landing", "customer", None, NoRequest.window, "totals")

\* The same under /admin, with the id of a user, and GET admin/statistics/common.
AdminAsks ==
    \/ \E u \in Users : Ask("statistics", "admin", u, NoRequest.window, "buckets")
    \/ \E u \in Users, w \in Window : Ask("bandwidth", "admin", u, w, "user")
    \/ \E u \in Users, w \in Window : Ask("storage", "admin", u, w, "storage")
    \/ Ask("landing", "admin", None, NoRequest.window, "totals")
    \/ Ask("common", "admin", None, NoRequest.window, "totals")

Answered ==
    /\ At("answered")
    /\ request' = NoRequest
    /\ Unchanged

\* Four queries; the buckets found by the first are the subject of two others.
ReadBuckets ==
    LET found == getByOwnerUserId(request.user)
    IN  /\ At("buckets")
        /\ request' = [request EXCEPT !.at = "objects",
               !.found = {<<b, buckets[b].id>> : b \in found},
               !.figures.buckets = Cardinality(found)]

CountObjects ==
    /\ At("objects")
    /\ Figure("files", getOverallObjectsCount({id[1] : id \in request.found}), "versions")

SumVersions ==
    /\ At("versions")
    /\ Figure("bytes", getObjectVersionsSizeSum(request.found), "traffic")

SumTraffic ==
    /\ At("traffic")
    /\ Figure("bandwidth", getBandwidthUsageOfUser(request.user), "answered")

GetStatistics(role) ==
    /\ For(role)
    /\ ReadBuckets \/ CountObjects \/ SumVersions \/ SumTraffic
    /\ Unchanged

getStatistics == GetStatistics("customer")

Usage(first) == aggregateByDays(request.user, request.window, first)

BandwidthChart(chart) ==
    request' = [request EXCEPT !.at = "answered", !.chart = chart]

\* The customer comes with the request.
getBandwidthAnalytics ==
    /\ At("bandwidth") /\ For("customer")
    /\ \E first \in Direction :
          BandwidthChart(addDaysWithZeroBandwidth(
              Usage(first), request.window, users[request.user].created))
    /\ Unchanged

StorageAnalyticsFormat(used) ==
    LET order == Ascending(DOMAIN used)
    IN  [i \in DOMAIN order |-> [day |-> order[i], used |-> used[order[i]]]]

StorageChart(used) ==
    request' = [request EXCEPT !.at = "answered", !.chart = StorageAnalyticsFormat(used)]

\* The answer needs two more queries if the first day has no record, and one
\* of them if there is no row before it.
AggregateStorage ==
    LET days == StorageDays(aggregateStorageUsage(request.user, request.window),
                            request.window)
    IN  /\ At("storage")
        /\ request' = [request EXCEPT
               !.at = IF NeedsLast(days.results) THEN "lastRow" ELSE "format",
               !.days = days, !.rows = storage]

FindLastRow ==
    LET last == LastDayBefore(request.days.from, request.user)
    IN  /\ At("lastRow")
        /\ request' = [request EXCEPT !.at = IF last = None THEN "format" ELSE "lastDay",
                                      !.last = last, !.earlier = storage]

SumLastDay ==
    /\ At("lastDay")
    /\ StorageChart(Carried(request.days.results, SizeOfDay(request.last, request.user)))

FormatStorage ==
    /\ At("format")
    /\ StorageChart(Carried(request.days.results, None))

GetStorageAnalytics(role) ==
    /\ For(role)
    /\ AggregateStorage \/ FindLastRow \/ SumLastDay \/ FormatStorage
    /\ Unchanged

getStorageAnalytics == GetStorageAnalytics("customer")

SumAllVersions ==
    LET all == getAllObjectVersionsCountAndSizeSum
    IN  /\ At("totals")
        /\ request' = [request EXCEPT !.at = "usersCount",
               !.figures.objects = all.objects, !.figures.bytes = all.bytes]

CountUsers(next) ==
    /\ At("usersCount")
    /\ Figure("users", Cardinality(Users), next)

GetStatsForLandingPage(role) ==
    /\ For(role) /\ request.kind = "landing"
    /\ SumAllVersions \/ CountUsers("answered")
    /\ Unchanged

getStatsForLandingPage == GetStatsForLandingPage("customer")

----------------------------------------------------------------------------
\* admin/statistics/statistics.service.ts: the same methods, for any user.

adminGetStatistics == GetStatistics("admin")

adminGetUser ==
    /\ At("user")
    /\ request' = [request EXCEPT !.at = "bandwidth"]
    /\ Unchanged

adminGetUserFails ==
    /\ At("user")
    /\ request' = NoRequest
    /\ Unchanged

adminAddDaysWithZeroBandwidth(records, w, created) ==
    addDaysWithZeroBandwidth(records, w, created)

adminGetBandwidthAnalytics ==
    /\ At("bandwidth") /\ For("admin")
    /\ \E first \in Direction :
          BandwidthChart(adminAddDaysWithZeroBandwidth(
              Usage(first), request.window, users[request.user].created))
    /\ Unchanged

adminGetStorageAnalytics == GetStorageAnalytics("admin")

adminGetStatsForLandingPage == GetStatsForLandingPage("admin")

CountStatus(place, status, name, next) ==
    /\ At(place)
    /\ Figure(name, Cardinality({u \in Users : users[u].status = status}), next)

getCommonStatistics ==
    /\ request.kind = "common"
    /\ \/ SumAllVersions
       \/ CountUsers("active")
       \/ CountStatus("active", "active", "active", "unpaid")
       \/ CountStatus("unpaid", "payment_required", "unpaid", "suspended")
       \/ CountStatus("suspended", "suspended", "suspended", "answered")
    /\ Unchanged

----------------------------------------------------------------------------
(* Meanwhile filenode records what its users do.  What it records after the *)
(* answer does not matter to it.                                            *)

Write(table) ==
    /\ allowance.writes > 0 /\ table \in allowance.tables /\ ~At("answered")
    /\ allowance' = [allowance EXCEPT !.writes = @ - 1]

\* The figures of the user in question, after the write.
Noted(moved) ==
    \E u \in {request.user} :
        request' = [request EXCEPT !.seen = @ \cup {FiguresOf(u)'}, !.moved = @ \/ moved]

Stores(b, contents) ==
    /\ Write("buckets")
    /\ buckets[b].owner # None
    /\ buckets' = [buckets EXCEPT ![b].contents = contents]
    /\ UNCHANGED <<storage, bandwidth, users>>
    /\ Noted(FALSE)

PutFile(b) ==
    Stores(b, [buckets[b].contents EXCEPT !.files = @ + 1, !.versions = @ + 1, !.bytes = @ + 1])

PutFolder(b) == Stores(b, [buckets[b].contents EXCEPT !.folders = @ + 1])

\* A file is deleted, with one version and some of the bytes.
DeleteFile(b) ==
    LET contents == buckets[b].contents
    IN  /\ contents.files > 0 /\ contents.versions > 0
        /\ \E left \in 0..contents.bytes :
              /\ contents.versions = 1 => left = 0
              /\ Stores(b, [contents EXCEPT !.files = @ - 1, !.versions = @ - 1,
                                            !.bytes = left])

\* The rows of a bucket go with it; the name is free for anybody.
Rehouse(b, from, to) ==
    /\ Write("buckets")
    /\ buckets[b].owner = from
    /\ buckets' = [buckets EXCEPT ![b] =
           [id |-> @.id + 1, owner |-> to, contents |-> Empty]]
    /\ UNCHANGED <<storage, bandwidth, users>>
    /\ Noted(request.user \in {from, to})

CreateBucket(b, u) == Rehouse(b, None, u)
DeleteBucket(b, u) == Rehouse(b, u, None)

MeasureTraffic(u, type) ==
    /\ Write("bandwidth")
    /\ bandwidth' = Append(bandwidth, [at |-> Now, user |-> u, type |-> type, size |-> 1])
    /\ UNCHANGED <<storage, buckets, users>>
    /\ Noted(FALSE)

\* As often as it likes.
MeasureBucket(b) ==
    /\ Write("storage")
    /\ buckets[b].owner # None
    /\ storage' = Append(storage, [at |-> Now, bucket |-> b, user |-> buckets[b].owner,
                                   size |-> buckets[b].contents.bytes])
    /\ UNCHANGED <<bandwidth, buckets, users, request>>

Filenode ==
    \/ \E b \in Buckets : PutFile(b) \/ PutFolder(b) \/ DeleteFile(b) \/ MeasureBucket(b)
    \/ \E b \in Buckets, u \in Users : CreateBucket(b, u) \/ DeleteBucket(b, u)
    \/ \E u \in Users, type \in Direction : MeasureTraffic(u, type)

\* The billing of this program, or authnode.
ChangeStatus(u, status) ==
    /\ Write("users")
    /\ users[u].status # status
    /\ users' = [users EXCEPT ![u].status = status]
    /\ UNCHANGED <<storage, bandwidth, buckets, request>>

----------------------------------------------------------------------------
\* What filenode has recorded, and what may be asked and written.
Situation ==
    [storage : Seq(StorageRow), bandwidth : Seq(BandwidthRow),
     buckets : [Buckets -> BucketRow], users : [Users -> Account],
     requests : SUBSET ({"customer", "admin"}
                        \X {"statistics", "bandwidth", "storage", "landing", "common"}),
     tables : SUBSET {"storage", "bandwidth", "buckets", "users"}, writes : Nat]

\* Nobody has traffic before they have an account.
TrafficOfUsers(table, accounts) ==
    \A i \in DOMAIN table : accounts[table[i].user].created <= table[i].at

ASSUME SituationsAssumption ==
    /\ Situations \subseteq Situation
    /\ \A s \in Situations : TrafficOfUsers(s.bandwidth, s.users)

StatisticsInit ==
    /\ \E s \in Situations :
          /\ storage = s.storage
          /\ bandwidth = s.bandwidth
          /\ buckets = s.buckets
          /\ users = s.users
          /\ allowance = [requests |-> s.requests, tables |-> s.tables, writes |-> s.writes]
    /\ request = NoRequest

StatisticsNext ==
    \/ CustomerAsks \/ getStatistics \/ getBandwidthAnalytics \/ getStorageAnalytics
    \/ getStatsForLandingPage
    \/ AdminAsks \/ adminGetStatistics \/ adminGetUser \/ adminGetUserFails
    \/ adminGetBandwidthAnalytics \/ adminGetStorageAnalytics
    \/ adminGetStatsForLandingPage \/ getCommonStatistics
    \/ Answered
    \/ Filenode
    \/ \E u \in Users, status \in {"active", "payment_required", "suspended"} :
          ChangeStatus(u, status)

StatisticsSpec == StatisticsInit /\ [][StatisticsNext]_statisticsVars

----------------------------------------------------------------------------
\* Properties.

StatisticsTypeOK ==
    /\ storage \in Seq(StorageRow)
    /\ bandwidth \in Seq(BandwidthRow)
    /\ buckets \in [Buckets -> BucketRow]
    /\ users \in [Users -> Account]
    /\ DOMAIN request = DOMAIN NoRequest
    /\ request.window \in Window
    /\ request.figures \in [DOMAIN NoFigures -> Nat \cup {None}]
    /\ request.kind = "bandwidth" =>
          Range(request.chart) \subseteq [day : Nat, upload : Nat, download : Nat]
    /\ request.kind = "storage" =>
          Range(request.chart) \subseteq [day : Nat, used : Nat]
    /\ allowance.writes \in Nat

AnswerTo(kind) == At("answered") /\ request.kind = kind

(* The traffic shown is the traffic measured: the days follow each other    *)
(* without a gap from that of the window's start, each with the sums of its *)
(* uploads and downloads in the window, and no traffic is left out.         *)
BandwidthByDay ==
    AnswerTo("bandwidth") =>
        LET chart == request.chart
            w == request.window
            found == {i \in RowsOf(bandwidth, request.user) : InWindow(bandwidth[i], w)}
            from == IF w.from # None THEN w.from ELSE users[request.user].created
            SumOf(d, type) == Traffic({i \in found : /\ Day(bandwidth[i].at) = d
                                                     /\ bandwidth[i].type = type})
        IN  /\ \A i \in DOMAIN chart :
                  /\ chart[i].day = Day(from) + i - 1
                  /\ \A type \in Direction : chart[i][type] = SumOf(chart[i].day, type)
            /\ \A i \in found : \E k \in DOMAIN chart : chart[k].day = Day(bandwidth[i].at)

\* Of some rows of a table, those of a day.
RowsOn(table, I, d) == {i \in I : Day(table[i].at) = d}

\* All sizes of a day, and the greatest ones of its buckets.
TotalOn(table, I, d) ==
    SumOver([i \in DOMAIN table |-> table[i].size], RowsOn(table, I, d))
PeakOn(table, I, d) ==
    LET rows == RowsOn(table, I, d)
        named == {table[i].bucket : i \in rows}
        Greatest(b) == Max({table[i].size : i \in {k \in rows : table[k].bucket = b}})
    IN  SumOver([b \in named |-> Greatest(b)], named)

\* What the last day with rows before an instant says, 0 without rows.
SizeBefore(table, u, before) ==
    LET days == {Day(table[i].at) : i \in {k \in RowsOf(table, u) : table[k].at < before}}
    IN  IF days = {} THEN 0 ELSE PeakOn(table, RowsOf(table, u), Max(days))

FoundIn(table, u, w) == {i \in RowsOf(table, u) : InWindow(table[i], w)}

Whole(t) == t = None \/ (t # None /\ t % SlotsPerDay = 0)

(* A day of a chart shows the last day of statistics in the window up to    *)
(* it, however often buckets are measured: no less than their greatest      *)
(* sizes that day, no more than all its sizes, which is the same if each is *)
(* measured once.  Days on which all buckets are empty are passed over like *)
(* days without statistics.  Before the first such day nothing is shown if  *)
(* the window begins with a day of statistics, and otherwise what the last  *)
(* day with any before the window says, as of one of the two queries that   *)
(* look for it.  The days of the chart follow each other, and if the window *)
(* is one of whole days, none of its days of statistics is left out.  (The  *)
(* day that `to` begins is shown too, with the size of the day before.)     *)
StorageByDay ==
    LET chart == request.chart
        w == request.window
        rows == request.rows
        found == FoundIn(rows, request.user, w)
        upTo(d) == {e \in {Day(rows[i].at) : i \in found} :
                       e <= d /\ TotalOn(rows, found, e) # 0}
    IN  AnswerTo("storage") =>
            /\ \A i \in DOMAIN chart :
                  /\ chart[i].day = chart[1].day + i - 1
                  /\ IF upTo(chart[i].day) # {}
                     THEN LET last == Max(upTo(chart[i].day))
                          IN  chart[i].used \in
                                  PeakOn(rows, found, last)..TotalOn(rows, found, last)
                     ELSE IF RowsOn(rows, found, chart[1].day) # {}
                     THEN chart[i].used = 0
                     ELSE \E table \in {request.earlier, storage} :
                              chart[i].used =
                                  SizeBefore(table, request.user, request.days.from)
            /\ Whole(w.from) /\ Whole(w.to) =>
                  \A i \in found : \E k \in DOMAIN chart : chart[k].day = Day(rows[i].at)

(* Each figure was the right one at some time of the request, although the  *)
(* queries run one after the other while objects and traffic are added and  *)
(* objects are deleted, unless a bucket of the user came or went meanwhile. *)
FiguresOfTheRequest ==
    AnswerTo("statistics") /\ ~request.moved =>
        \A name \in {"buckets", "files", "bytes", "bandwidth"} :
            LET shown == IF request.figures[name] = None THEN 0 ELSE request.figures[name]
            IN  \E figures \in request.seen : shown = figures[name]
=============================================================================
