--------------------------- MODULE ListingsProofs ---------------------------
(***************************************************************************)
(* Proofs about the admin's listings of users and tariffs (AdminListings), *)
(* for any accounts, queries and number of requests in flight.             *)
(***************************************************************************)
EXTENDS AdminListings, CollectionTheorems, SequenceTheorems

----------------------------------------------------------------------------
\* Rows in the order of a roster.

(* Ranks are the places in a roster: numbers, and different for different   *)
(* people.                                                                  *)
LEMMA RankPlace ==
    ASSUME NEW roster, Roster(roster)
    PROVE  /\ \A p \in People : Rank(roster, p) \in 1..Len(roster) /\ roster[Rank(roster, p)] = p
           /\ \A p, o \in People : Rank(roster, p) = Rank(roster, o) => p = o
<1>1. roster \in Seq(People) /\ Len(roster) \in Nat
  BY DEF Roster
<1>2. DOMAIN roster = 1..Len(roster)
  BY <1>1
<1>3. ASSUME NEW p \in People
      PROVE  Rank(roster, p) \in DOMAIN roster /\ roster[Rank(roster, p)] = p
  <2>1. \E i \in DOMAIN roster : roster[i] = p
    BY DEF Roster, Range
  <2> QED BY <2>1 DEF Rank
<1> QED BY <1>2, <1>3

(* There are finitely many people.                                          *)
LEMMA PeopleFinite == IsFiniteSet(People)
  BY OrdersAssumption

\* Those who come before p in the order of a query.
AheadOf(S, p, order, roster) ==
    {o \in S : IF order = "ASC" THEN Rank(roster, o) < Rank(roster, p)
                               ELSE Rank(roster, o) > Rank(roster, p)}

(* Rows lists some people once each, by their ranks, with as many before    *)
(* and behind each as there are rows.                                       *)
LEMMA RowsListAll ==
    ASSUME NEW roster, Roster(roster), NEW S, S \subseteq People
    PROVE  /\ IsFiniteSet(S) /\ Cardinality(S) \in Nat
           /\ Rows(S, roster) \in [1..Cardinality(S) -> S]
           /\ \A i, j \in 1..Cardinality(S) : i < j => Rank(roster, Rows(S, roster)[i]) < Rank(roster, Rows(S, roster)[j])
           /\ \A p \in S : \E i \in 1..Cardinality(S) : Rows(S, roster)[i] = p
           /\ \A i \in 1..Cardinality(S) :
                 /\ Cardinality(AheadOf(S, Rows(S, roster)[i], "ASC", roster)) = i - 1
                 /\ Cardinality(AheadOf(S, Rows(S, roster)[i], "DESC", roster)) = Cardinality(S) - i
<1>1. IsFiniteSet(S) /\ Cardinality(S) \in Nat
  BY PeopleFinite, FS_Subset, FS_CardinalityType
<1>2. PICK n \in Nat : n = Cardinality(S)
  BY <1>1
<1>3. PICK number : number = [p \in S |-> Rank(roster, p)]
  OBVIOUS
<1>4. PICK rows : rows = Rows(S, roster)
  OBVIOUS
<1>5. Numbered(S, number)
  BY <1>3, RankPlace DEF Numbered
<1>6. IsOrder(S, number, rows)
  BY <1>1, <1>3, <1>4, <1>5, InOrderLists DEF Rows
<1>7. rows \in [1..n -> S] /\ \A i, j \in 1..n : i < j => Rank(roster, rows[i]) < Rank(roster, rows[j])
  BY <1>2, <1>3, <1>6 DEF IsOrder
<1>8. \A p \in S : \E i \in 1..n : rows[i] = p
  BY <1>1, <1>2, <1>5, <1>6, OrderPlaces
<1>9. \A i \in 1..n : /\ Cardinality(Before(S, number, rows[i])) = i - 1
                      /\ Cardinality(Behind(S, number, rows[i])) = n - i
  BY <1>1, <1>2, <1>5, <1>6, OrderPlaces
<1>10. ASSUME NEW i \in 1..n
       PROVE  /\ Cardinality(AheadOf(S, rows[i], "ASC", roster)) = i - 1
              /\ Cardinality(AheadOf(S, rows[i], "DESC", roster)) = n - i
  <2>1. rows[i] \in S
    BY <1>7
  <2>2. Before(S, number, rows[i]) = AheadOf(S, rows[i], "ASC", roster)
    BY <1>3, <2>1 DEF Before, AheadOf
  <2>3. Behind(S, number, rows[i]) = AheadOf(S, rows[i], "DESC", roster)
    BY <1>3, <2>1 DEF Behind, AheadOf
  <2> QED BY <2>2, <2>3, <1>9
<1> QED BY <1>1, <1>2, <1>4, <1>7, <1>8, <1>10

----------------------------------------------------------------------------
\* Pages.

\* The number of the last row that a page may have.
PageEnd(S, sql) ==
    IF sql.offset + sql.limit < Cardinality(S) THEN sql.offset + sql.limit
    ELSE Cardinality(S)

(* A page of the people who meet a condition: which rows it has.            *)
LEMMA SliceRows ==
    ASSUME NEW roster, Roster(roster), NEW S, S \subseteq People, NEW sql, sql.offset \in Nat, sql.limit \in Nat
    PROVE  /\ PageEnd(S, sql) \in Nat /\ Slice(Rows(S, roster), sql) \in Seq(S)
           /\ Len(Slice(Rows(S, roster), sql)) =
                  IF sql.offset < PageEnd(S, sql) THEN PageEnd(S, sql) - sql.offset ELSE 0
           /\ \A i \in 1..(PageEnd(S, sql) - sql.offset) :
                 /\ sql.offset + i \in 1..Cardinality(S)
                 /\ Cardinality(S) - (sql.offset + i) + 1 \in 1..Cardinality(S)
                 /\ Slice(Rows(S, roster), sql)[i] =
                        IF sql.order = "ASC" THEN Rows(S, roster)[sql.offset + i]
                        ELSE Rows(S, roster)[Cardinality(S) - (sql.offset + i) + 1]
<1>0. PICK first \in Nat, size \in Nat : first = sql.offset /\ size = sql.limit
  OBVIOUS
<1>1. PICK rows : rows = Rows(S, roster)
  OBVIOUS
<1>2. PICK n \in Nat : n = Cardinality(S) /\ rows \in [1..n -> S]
  BY <1>1, RowsListAll
<1>13. PICK last : last = PageEnd(S, sql)
  OBVIOUS
<1>3. rows \in Seq(S) /\ Len(rows) = n
  BY <1>2
<1>4. PICK o : o = IF sql.order = "ASC" THEN rows ELSE Reverse(rows)
  OBVIOUS
<1>5. /\ \A i \in 1..n : o[i] \in S
      /\ \A i \in 1..n : o[i] = IF sql.order = "ASC" THEN rows[i] ELSE rows[n - i + 1]
  <2>1. CASE sql.order = "ASC"
    BY <2>1, <1>2, <1>4
  <2>2. CASE sql.order # "ASC"
    <3>1. o = [i \in 1..n |-> rows[(n - i) + 1]]
      BY <2>2, <1>3, <1>4 DEF Reverse
    <3>2. \A i \in 1..n : (n - i) + 1 \in 1..n
      BY <1>2
    <3> QED BY <3>1, <3>2, <1>2, <2>2
  <2> QED BY <2>1, <2>2
<1>6. last \in Nat /\ last <= n /\ last <= first + size
  BY <1>0, <1>2, <1>13 DEF PageEnd
<1>7. PICK m \in Nat : m = first + 1
  OBVIOUS
<1>8. Slice(rows, sql) = SubSeq(o, m, last)
  BY <1>0, <1>2, <1>3, <1>4, <1>7, <1>13 DEF Slice, PageEnd
<1>9. \A i \in m..last : o[i] \in S
  BY <1>5, <1>6, <1>7, <1>2
<1>10. /\ SubSeq(o, m, last) \in Seq(S)
       /\ Len(SubSeq(o, m, last)) = IF m <= last THEN last - m + 1 ELSE 0
       /\ \A i \in 1..(last - m + 1) : SubSeq(o, m, last)[i] = o[m + i - 1]
  BY <1>6, <1>9, SubSeqProperties
<1>11. Len(SubSeq(o, m, last)) = IF first < last THEN last - first ELSE 0
  BY <1>6, <1>7, <1>10
<1>12. ASSUME NEW i \in 1..(last - first)
       PROVE  /\ first + i \in 1..n /\ n - (first + i) + 1 \in 1..n
              /\ Slice(rows, sql)[i] =
                     IF sql.order = "ASC" THEN rows[first + i]
                     ELSE rows[n - (first + i) + 1]
  <2>1. first + i \in 1..n /\ n - (first + i) + 1 \in 1..n
    BY <1>2, <1>6
  <2>2. i \in 1..(last - m + 1) /\ m + i - 1 = first + i
    BY <1>6, <1>7
  <2>3. SubSeq(o, m, last)[i] = o[first + i]
    BY <2>2, <1>10
  <2> QED BY <2>1, <2>3, <1>5, <1>8
<1> QED BY <1>0, <1>1, <1>2, <1>6, <1>8, <1>10, <1>11, <1>12, <1>13

\* The places of a page, and of those that it is a page of.
Places(S, sql, page, roster) ==
    /\ page \in Seq(S)
    /\ \A i \in DOMAIN page :
          i <= sql.limit /\ Cardinality(AheadOf(S, page[i], sql.order, roster)) = sql.offset + i - 1
    /\ \A p \in S :
          /\ Cardinality(AheadOf(S, p, sql.order, roster)) \in 0..(Cardinality(S) - 1)
          /\ \A i \in 1..sql.limit :
                Cardinality(AheadOf(S, p, sql.order, roster)) = sql.offset + i - 1 =>
                    i \in DOMAIN page /\ page[i] = p

(* Row i of a page has offset + i - 1 people before it, and everybody has a *)
(* row at their number, if the page goes that far.                          *)
LEMMA PlaceOnPage ==
    ASSUME NEW roster, Roster(roster), NEW S, S \subseteq People, NEW sql, sql.offset \in Nat, sql.limit \in Nat
    PROVE  Places(S, sql, Slice(Rows(S, roster), sql), roster)
<1>0. PICK first \in Nat, size \in Nat : first = sql.offset /\ size = sql.limit
  OBVIOUS
<1>13. PICK page : page = Slice(Rows(S, roster), sql)
  OBVIOUS
<1>2. PICK rows : rows = Rows(S, roster)
  OBVIOUS
<1>14. PICK n \in Nat : n = Cardinality(S) /\ rows \in [1..n -> S]
  BY <1>2, RowsListAll
<1>15. PICK last : last = PageEnd(S, sql)
  OBVIOUS
<1>1. last = (IF first + size < n THEN first + size ELSE n)
  BY <1>0, <1>14, <1>15 DEF PageEnd
<1>3. /\ n \in Nat /\ last \in Nat /\ page \in Seq(S)
      /\ Len(page) = IF first < last THEN last - first ELSE 0
      /\ \A i \in 1..(last - first) :
            /\ first + i \in 1..n /\ n - (first + i) + 1 \in 1..n
            /\ page[i] = IF sql.order = "ASC" THEN rows[first + i]
                         ELSE rows[n - (first + i) + 1]
  <2>1. /\ PageEnd(S, sql) \in Nat /\ Slice(Rows(S, roster), sql) \in Seq(S)
        /\ Len(Slice(Rows(S, roster), sql)) =
               IF sql.offset < PageEnd(S, sql) THEN PageEnd(S, sql) - sql.offset ELSE 0
        /\ \A i \in 1..(PageEnd(S, sql) - sql.offset) :
              /\ sql.offset + i \in 1..Cardinality(S)
              /\ Cardinality(S) - (sql.offset + i) + 1 \in 1..Cardinality(S)
              /\ Slice(Rows(S, roster), sql)[i] =
                     IF sql.order = "ASC" THEN Rows(S, roster)[sql.offset + i]
                     ELSE Rows(S, roster)[Cardinality(S) - (sql.offset + i) + 1]
    BY SliceRows
  <2> QED BY <2>1, <1>0, <1>2, <1>13, <1>14, <1>15
<1>4. DOMAIN page = 1..(last - first)
  <2>1. DOMAIN page = 1..Len(page)
    BY <1>3
  <2> QED BY <2>1, <1>3
<1>5. ASSUME NEW j \in 1..n
      PROVE  Cardinality(AheadOf(S, rows[j], sql.order, roster)) =
                IF sql.order = "ASC" THEN j - 1 ELSE n - j
  <2>1. /\ Cardinality(AheadOf(S, rows[j], "ASC", roster)) = j - 1
        /\ Cardinality(AheadOf(S, rows[j], "DESC", roster)) = n - j
    BY <1>2, <1>14, RowsListAll
  <2>2. AheadOf(S, rows[j], sql.order, roster) =
            AheadOf(S, rows[j], IF sql.order = "ASC" THEN "ASC" ELSE "DESC", roster)
    BY DEF AheadOf
  <2> QED BY <2>1, <2>2
<1>6. ASSUME NEW i \in DOMAIN page
      PROVE  i <= size /\ Cardinality(AheadOf(S, page[i], sql.order, roster)) = first + i - 1
  <2>1. i \in 1..(last - first)
    BY <1>4
  <2>2. i <= size
    BY <2>1, <1>1, <1>3
  <2>3. CASE sql.order = "ASC"
    <3>1. PICK j \in 1..n : j = first + i /\ page[i] = rows[j]
      BY <2>1, <2>3, <1>3
    <3>2. Cardinality(AheadOf(S, rows[j], sql.order, roster)) = j - 1
      BY <2>3, <1>5
    <3>3. j - 1 = first + i - 1
      BY <3>1, <2>1, <1>3
    <3> QED BY <3>1, <3>2, <3>3, <2>2
  <2>4. CASE sql.order # "ASC"
    <3>1. PICK j \in 1..n : j = n - (first + i) + 1 /\ page[i] = rows[j]
      BY <2>1, <2>4, <1>3
    <3>2. Cardinality(AheadOf(S, rows[j], sql.order, roster)) = n - j
      BY <2>4, <1>5
    <3>3. n - j = first + i - 1
      BY <3>1, <1>3
    <3> QED BY <3>1, <3>2, <3>3, <2>2
  <2> QED BY <2>3, <2>4
<1>7. ASSUME NEW p \in S, NEW position, position = Cardinality(AheadOf(S, p, sql.order, roster))
      PROVE  /\ position \in 0..(n - 1)
             /\ \A i \in 1..size : position = first + i - 1 =>
                   i \in DOMAIN page /\ page[i] = p
  <2>1. PICK j \in 1..n : rows[j] = p
    BY <1>2, <1>14, RowsListAll
  <2>2. position = IF sql.order = "ASC" THEN j - 1 ELSE n - j
    BY <2>1, <1>5, <1>7
  <2>3. position \in 0..(n - 1)
    BY <2>2, <1>3
  <2>4. ASSUME NEW i \in 1..size, position = first + i - 1
        PROVE  i \in DOMAIN page /\ page[i] = p
    <3>1. first + i <= n
      BY <2>3, <2>4, <1>3
    <3>2. i \in 1..(last - first)
      BY <3>1, <1>1, <1>3
    <3>3. CASE sql.order = "ASC"
      <4>1. j = first + i
        BY <3>3, <2>2, <2>4
      <4> QED BY <4>1, <3>2, <3>3, <1>3, <1>4, <2>1
    <3>4. CASE sql.order # "ASC"
      <4>1. n - j = first + i - 1
        BY <3>4, <2>2, <2>4
      <4>3. j = n - (first + i) + 1
        BY <4>1
      <4> QED BY <4>3, <3>2, <3>4, <1>3, <1>4, <2>1
    <3> QED BY <3>3, <3>4
  <2> QED BY <2>3, <2>4
<1>8. ASSUME NEW p \in S
      PROVE  /\ Cardinality(AheadOf(S, p, sql.order, roster)) \in 0..(n - 1)
             /\ \A i \in 1..size : Cardinality(AheadOf(S, p, sql.order, roster)) = first + i - 1 =>
                   i \in DOMAIN page /\ page[i] = p
  BY <1>7
<1>9. Places(S, sql, page, roster)
  BY <1>0, <1>3, <1>6, <1>8, <1>14 DEF Places
<1> QED BY <1>9, <1>13

(* A page is not empty if and only if its number is at most the number of   *)
(* pages.                                                                   *)
LEMMA PageExists ==
    ASSUME NEW k \in Nat, k >= 1, NEW page \in Nat, page >= 1, NEW n \in Nat
    PROVE  (page - 1) * k < n <=> page <= (n + k - 1) \div k
<1>0. n + k - 1 \in Nat
  OBVIOUS
<1>1. PICK d \in Nat : d = (n + k - 1) \div k
  BY <1>0, Division
<1>2. PICK e \in 0..(k - 1) : n + k - 1 = k * d + e
  BY <1>0, <1>1, Division
<1>3. ASSUME page <= d
      PROVE  (page - 1) * k < n
  <2>1. PICK c \in Nat : d = page + c
    <3>1. d - page \in Nat
      BY <1>3
    <3> QED BY <3>1
  <2>2. k * d = k * page + k * c
    BY <2>1
  <2>3. k * c \in Nat /\ k * page \in Nat /\ k * d \in Nat
    OBVIOUS
  <2>4. (page - 1) * k = k * page - k
    OBVIOUS
  <2> QED BY <2>2, <2>3, <2>4, <1>2
<1>4. ASSUME d < page
      PROVE  ~ ((page - 1) * k < n)
  <2>1. PICK c \in Nat : page = d + 1 + c
    <3>1. page - (d + 1) \in Nat
      BY <1>4
    <3> QED BY <3>1
  <2>2. (page - 1) * k = k * d + k * c
    BY <2>1
  <2>3. k * c \in Nat /\ k * d \in Nat
    OBVIOUS
  <2> QED BY <2>2, <2>3, <1>2
<1> QED BY <1>1, <1>3, <1>4

----------------------------------------------------------------------------
\* The types of requests.

\* The conditions of a query.
Where == [corporate : BOOLEAN, searches : SUBSET SUBSET People, groups : SUBSET Statuses]

\* A row of the list; the company is still to be read only if there is one.
ListedRow ==
    {row \in [user : People, status : Statuses, company : Companies \cup {Nobody},
              named : {"none", "unread"} \cup Names] :
        row.named = "unread" => row.company # Nobody}

\* What a request to create a user holds.
Creation == [id : People]

\* A request has these fields and no other.
IsRequest(r) ==
    r = [at |-> r.at, query |-> r.query, counts |-> r.counts, sql |-> r.sql,
         items |-> r.items, offsetBefore |-> r.offsetBefore, alone |-> r.alone,
         unchanged |-> r.unchanged]

\* A request at a place has a query of the kind that passes there.
QueryFits(r) ==
    \/ r.at = "idle"
    \/ r.at \in {"statistics", "users", "companies", "answered"} /\ r.query \in scenario.users
    \/ r.at \in {"count", "tariffs", "answered"} /\ r.query \in scenario.tariffs
    \/ r.at \in {"find", "company", "update", "answered"} /\ r.query \in scenario.updates
    \/ r.at \in {"create", "answered"} /\ r.query \in Creation

\* The types of a request.
RequestFits(r) ==
    /\ IsRequest(r) /\ QueryFits(r)
    /\ DOMAIN r.counts \subseteq Statuses
    /\ \A s \in DOMAIN r.counts : r.counts[s] \in Nat
    /\ r.sql \in Builder /\ r.offsetBefore \in Nat
    /\ r.alone \in BOOLEAN /\ r.unchanged \in BOOLEAN
    /\ r.at = "users" => r.sql.orderBy \in DOMAIN Orders
    /\ r.at = "companies" \/ (r.at = "answered" /\ r.query \in scenario.users)
          => r.items \in Seq(ListedRow)

\* The inductive invariant of the types.
RequestsFit ==
    /\ ListingsTypeOK /\ scenario \in Allowed
    /\ handler = [h \in Handlers |-> handler[h]]
    /\ \A h \in Handlers : RequestFits(handler[h])

\* The steps of one request.
Step(h) ==
    \/ getUsers(h) \/ BuildUsersQuery(h) \/ QueryUsers(h)
    \/ \E status \in Statuses : CountGroup(h, status)
    \/ \E i \in DOMAIN handler[h].items : ReadCompany(h, i)
    \/ updateUser(h) \/ FindUser(h) \/ updateCompany(h) \/ UpdateRow(h)
    \/ createUser(h) \/ createVerifiedUser(h)
    \/ getAll(h) \/ CountTariffs(h) \/ QueryTariffs(h)
    \/ Fails(h) \/ UnknownColumn(h) \/ ListingAnswered(h)

(* A step is a step of one request.                                         *)
LEMMA StepOfOne == ListingsNext <=> \E h \in Handlers : Step(h)
  BY DEF ListingsNext, Step

(* A query is of one kind.                                                  *)
LEMMA QueriesApart ==
    /\ \A q \in UsersQuery : q \notin TariffsQuery /\ q \notin UserUpdate /\ q \notin Creation
    /\ \A q \in TariffsQuery : q \notin UserUpdate /\ q \notin Creation
    /\ \A q \in UserUpdate : q \notin Creation
<1>1. \A q \in UsersQuery : DOMAIN q = {"search", "corporate", "group", "orderBy", "order", "page", "perPage"}
  BY DEF UsersQuery
<1>2. \A q \in TariffsQuery : DOMAIN q = {"orderBy", "order", "page", "perPage"}
  BY DEF TariffsQuery
<1>3. \A q \in UserUpdate : DOMAIN q = {"id", "status", "company"}
  BY DEF UserUpdate
<1>4. \A q \in Creation : DOMAIN q = {"id"}
  BY DEF Creation
<1>5. /\ "search" \notin {"orderBy", "order", "page", "perPage"} /\ "search" \notin {"id", "status", "company"}
      /\ "search" \notin {"id"} /\ "page" \notin {"id", "status", "company"}
      /\ "page" \notin {"id"} /\ "status" \notin {"id"}
  OBVIOUS
<1> QED BY <1>1, <1>2, <1>3, <1>4, <1>5

(* What a query asks for: at least a row on a page, of a number from 1.     *)
LEMMA PageNumbers ==
    ASSUME NEW q, q.page \in Nat, q.perPage \in Nat
    PROVE  /\ Page(q) \in Nat /\ Page(q) >= 1
           /\ PerPage(q) \in Nat /\ PerPage(q) >= 1
           /\ Offset(q) \in Nat /\ Offset(q) = (Page(q) - 1) * PerPage(q)
<1>1. Page(q) \in Nat /\ Page(q) >= 1 /\ PerPage(q) \in Nat /\ PerPage(q) >= 1
  BY DEF Page, PerPage
<1>2. Offset(q) = (Page(q) - 1) * PerPage(q)
  BY DEF Offset
<1>3. \A a, b \in Nat : a >= 1 => (a - 1) * b \in Nat
  OBVIOUS
<1> QED BY <1>1, <1>2, <1>3

(* What may be asked stays the same.                                        *)
LEMMA ScenarioKept ==
    ASSUME RequestsFit, NEW h \in Handlers, Step(h)
    PROVE  /\ scenario' \in Allowed
           /\ scenario'.users = scenario.users /\ scenario'.tariffs = scenario.tariffs
           /\ scenario'.updates = scenario.updates /\ scenario'.creations = scenario.creations
<1> USE DEF RequestsFit, Allowed
<1>1. ASSUME NEW kind, NEW q, Asked(h, kind, q)
      PROVE  /\ scenario' \in Allowed
             /\ scenario'.users = scenario.users /\ scenario'.tariffs = scenario.tariffs
             /\ scenario'.updates = scenario.updates /\ scenario'.creations = scenario.creations
  BY <1>1 DEF Asked
<1>2. ASSUME Fails(h)
      PROVE  /\ scenario' \in Allowed
             /\ scenario'.users = scenario.users /\ scenario'.tariffs = scenario.tariffs
             /\ scenario'.updates = scenario.updates /\ scenario'.creations = scenario.creations
  BY <1>2 DEF Fails
<1>3. CASE getUsers(h) \/ updateUser(h) \/ createUser(h) \/ getAll(h)
  BY <1>3, <1>1 DEF getUsers, updateUser, createUser, getAll
<1>4. CASE UNCHANGED scenario
  BY <1>4
<1> QED BY <1>2, <1>3, <1>4 DEF Step, BuildUsersQuery, QueryUsers, CountGroup, ReadCompany,
      FindUser, updateCompany, UpdateRow, createVerifiedUser, CountTariffs, QueryTariffs,
      UnknownColumn, ListingAnswered

\* What a step of another request may do to a request: it is no longer alone,
\* or users have changed.
Overtaken(r, s) ==
    /\ s.at = r.at /\ s.query = r.query /\ s.counts = r.counts /\ s.sql = r.sql
    /\ s.items = r.items /\ s.offsetBefore = r.offsetBefore
    /\ s.alone \in BOOLEAN /\ s.unchanged \in BOOLEAN
    /\ s.alone => r.alone
    /\ s.unchanged => r.unchanged

(* A step of one request leaves the others as they were, but for that; and  *)
(* who has seen no change of users has the same users still.                *)
LEMMA OthersOvertaken ==
    ASSUME RequestsFit, NEW h \in Handlers, Step(h), NEW g \in Handlers, g # h
    PROVE  /\ IsRequest(handler'[g]) /\ Overtaken(handler[g], handler'[g])
           /\ handler'[g].unchanged => people' = people
           /\ handler' = [k \in Handlers |-> handler'[k]]
<1> DEFINE Goal == /\ IsRequest(handler'[g]) /\ Overtaken(handler[g], handler'[g])
                   /\ handler' = [k \in Handlers |-> handler'[k]]
<1>1. /\ handler = [k \in Handlers |-> handler[k]] /\ IsRequest(handler[g])
      /\ handler[g].alone \in BOOLEAN /\ handler[g].unchanged \in BOOLEAN
  BY DEF RequestsFit, RequestFits
<1>2. ASSUME NEW next, Goes(h, next)
      PROVE  Goal
  BY <1>1, <1>2 DEF Goes, Overtaken
<1>3. ASSUME NEW next, Writes(h, next)
      PROVE  Goal /\ handler'[g].unchanged = FALSE
  BY <1>1, <1>3 DEF Writes, Overtaken, IsRequest
<1>4. ASSUME NEW place, NEW q, Starts(h, place, q)
      PROVE  Goal
  <2>1. PICK busy : busy = {k \in Handlers : ~Is(k, "idle")}
    OBVIOUS
  <2>2. handler' = [k \in Handlers |->
            IF k = h THEN [Idle EXCEPT !.at = place, !.query = q, !.alone = busy = {},
                                       !.offsetBefore = tariffsBuilder.offset]
            ELSE [handler[k] EXCEPT !.alone = @ /\ k \notin busy]]
    BY <1>4, <2>1 DEF Starts
  <2>3. PICK still \in BOOLEAN : still = (handler[g].alone /\ g \notin busy)
    OBVIOUS
  <2>4. handler'[g] = [handler[g] EXCEPT !.alone = still]
    BY <2>2, <2>3
  <2>5. IsRequest(handler'[g]) /\ Overtaken(handler[g], handler'[g])
    BY <2>3, <2>4, <1>1 DEF IsRequest, Overtaken
  <2>6. handler' = [k \in Handlers |-> handler'[k]]
    BY <2>2
  <2> QED BY <2>5, <2>6
<1> HIDE DEF Goal
<1>5. CASE getUsers(h) \/ updateUser(h) \/ createUser(h) \/ getAll(h)
  <2>1. Goal
    BY <1>5, <1>4 DEF getUsers, updateUser, createUser, getAll
  <2>2. people' = people
    BY <1>5 DEF getUsers, updateUser, createUser, getAll
  <2> QED BY <2>1, <2>2 DEF Goal
<1>6. CASE UpdateRow(h)
  BY <1>6, <1>3 DEF UpdateRow, Goal
<1>7. CASE createVerifiedUser(h)
  BY <1>7, <1>2, <1>3 DEF createVerifiedUser, Goal
<1>8. CASE BuildUsersQuery(h) \/ QueryUsers(h) \/ FindUser(h) \/ updateCompany(h)
           \/ CountTariffs(h) \/ QueryTariffs(h) \/ Fails(h) \/ UnknownColumn(h)
           \/ ListingAnswered(h)
  <2>1. Goal /\ people' = people
    BY <1>8, <1>2 DEF BuildUsersQuery, QueryUsers, FindUser, updateCompany,
       CountTariffs, QueryTariffs, Fails, UnknownColumn, ListingAnswered
  <2> QED BY <2>1 DEF Goal
<1>9. CASE (\E status \in Statuses : CountGroup(h, status))
           \/ \E i \in DOMAIN handler[h].items : ReadCompany(h, i)
  <2>1. Goal /\ people' = people
    BY <1>9, <1>2 DEF CountGroup, Counted, ReadCompany
  <2> QED BY <2>1 DEF Goal
<1> QED BY <1>5, <1>6, <1>7, <1>8, <1>9 DEF Step

(* Conditions joined to others are conditions.                              *)
LEMMA ConditionsTyped ==
    ASSUME NEW where \in Where, NEW q \in UsersQuery
    PROVE  andWhere(where, q) \in Where
<1>1. q.search \in SUBSET People /\ q.corporate \in BOOLEAN
  BY DEF UsersQuery
<1>2. where.corporate \in BOOLEAN /\ where.searches \in SUBSET SUBSET People /\ where.groups \in SUBSET Statuses
  BY DEF Where
<1>3. (where.corporate \/ q.corporate) \in BOOLEAN
  BY <1>1, <1>2
<1>4. where.searches \cup {q.search} \in SUBSET SUBSET People
  BY <1>1, <1>2
<1>5. where.groups \cup ({q.group} \cap Statuses) \in SUBSET Statuses
  BY <1>2
<1> QED BY <1>3, <1>4, <1>5 DEF andWhere, Where

(* What a builder consists of.                                              *)
LEMMA BuilderTyped ==
    /\ NewBuilder \in Builder /\ Unconditional \in Where
    /\ \A b \in Builder : /\ b.orderBy \in DOMAIN Orders \cup DOMAIN TariffOrders /\ b.order \in Order /\ b.limit \in Nat /\ b.offset \in Nat
                          /\ b.where \in Where
    /\ \A orderBy \in DOMAIN Orders \cup DOMAIN TariffOrders,
          order \in Order, limit, offset \in Nat, where \in Where :
          [orderBy |-> orderBy, order |-> order, limit |-> limit, offset |-> offset, where |-> where] \in Builder
  BY OrdersAssumption DEF NewBuilder, Builder, Unconditional, Where, Order

(* People can be counted.                                                   *)
LEMMA CardinalityOfPeople ==
    ASSUME NEW S, S \subseteq People
    PROVE  Cardinality(S) \in Nat
  BY PeopleFinite, FS_Subset, FS_CardinalityType

(* A row of the list shows the person it is made of.                        *)
LEMMA ItemTyped ==
    ASSUME people \in [People -> Person], NEW p \in People
    PROVE  /\ Item(p) \in ListedRow
           /\ Item(p).user = p /\ Item(p).status = people[p].status
           /\ Item(p).company = people[p].company
<1>1. people[p].status \in Statuses /\ people[p].company \in Companies \cup {Nobody}
  BY DEF Person
<1> QED BY <1>1 DEF Item, ListedRow

(* The rows that QueryUsers answers with.                                   *)
LEMMA QueriedRows ==
    ASSUME people \in [People -> Person], NEW sql \in Builder, NEW roster, Roster(roster),
           NEW S, S \subseteq People, NEW page, page = Slice(Rows(S, roster), sql),
           NEW items, items = [i \in DOMAIN page |-> Item(page[i])]
    PROVE  /\ items \in Seq(ListedRow) /\ Len(items) = Len(page)
           /\ DOMAIN items = DOMAIN page /\ page \in Seq(S)
           /\ \A i \in DOMAIN items :
                 /\ items[i].user = page[i] /\ page[i] \in S
                 /\ items[i].status = people[page[i]].status
                 /\ items[i].company = people[page[i]].company
<1>1. page \in Seq(S)
  <2>1. sql.offset \in Nat /\ sql.limit \in Nat
    BY BuilderTyped
  <2> QED BY <2>1, SliceRows
<1>2. PICK n \in Nat : n = Len(page) /\ DOMAIN page = 1..n
  BY <1>1
<1>3. \A i \in 1..n : page[i] \in S /\ page[i] \in People
  BY <1>1, <1>2
<1>4. \A i \in 1..n : items[i] = Item(page[i])
  BY <1>2
<1>5. \A i \in 1..n : items[i] \in ListedRow
  BY <1>3, <1>4, ItemTyped
<1>6. items \in Seq(ListedRow) /\ Len(items) = n
  BY <1>2, <1>5
<1>7. \A i \in 1..n : /\ items[i].user = page[i]
                      /\ items[i].status = people[page[i]].status
                      /\ items[i].company = people[page[i]].company
  BY <1>3, <1>4, ItemTyped
<1> QED BY <1>1, <1>2, <1>3, <1>6, <1>7

\* What a query of the users answers.
Queried(h, sql, S, roster, page, items) ==
    /\ roster \in Orders[sql.orderBy] /\ Roster(roster)
    /\ page = Slice(Rows(S, roster), sql)
    /\ items = [i \in DOMAIN page |-> Item(page[i])]
    /\ Goes(h, [handler[h] EXCEPT !.at = After(items), !.items = items])

(* The query of the users is answered in one of the orders of its column.   *)
LEMMA UsersQueried ==
    ASSUME NEW h, QueryUsers(h), RequestFits(handler[h]), NEW sql, sql = handler[h].sql,
           NEW S, S = {p \in People : Satisfies(p, sql.where)}
    PROVE  \E roster, page, items : Queried(h, sql, S, roster, page, items)
<1>1. handler[h].at = "users" /\ sql.orderBy \in DOMAIN Orders
  BY DEF QueryUsers, Is, RequestFits
<1>2. PICK roster \in Orders[sql.orderBy] :
          LET page == Slice(Rows(S, roster), sql)
              items == [i \in DOMAIN page |-> Item(page[i])]
          IN  Goes(h, [handler[h] EXCEPT !.at = After(items), !.items = items])
  BY DEF QueryUsers
<1>3. Roster(roster)
  BY <1>1, OrdersAssumption
<1>4. PICK page : page = Slice(Rows(S, roster), sql)
  OBVIOUS
<1>5. PICK items : items = [i \in DOMAIN page |-> Item(page[i])]
  OBVIOUS
<1>6. Queried(h, sql, S, roster, page, items)
  BY <1>2, <1>3, <1>4, <1>5 DEF Queried
<1> QED BY <1>6

(* Every request keeps its type.                                            *)
LEMMA OwnStepFits ==
    ASSUME RequestsFit, NEW h \in Handlers, Step(h)
    PROVE  /\ people' \in [People -> Person] /\ companies' \in [Companies -> Names]
           /\ usersBuilder' \in Builder /\ tariffsBuilder' \in Builder
           /\ RequestFits(handler[h])'
<1> DEFINE Tables == /\ people' \in [People -> Person] /\ companies' \in [Companies -> Names]
                     /\ usersBuilder' \in Builder /\ tariffsBuilder' \in Builder
<1>0. /\ people \in [People -> Person] /\ companies \in [Companies -> Names]
      /\ usersBuilder \in Builder /\ tariffsBuilder \in Builder
      /\ handler = [k \in Handlers |-> handler[k]]
      /\ RequestFits(handler[h]) /\ scenario \in Allowed
  BY DEF RequestsFit, ListingsTypeOK
<1>1. /\ scenario' \in Allowed
      /\ scenario'.users = scenario.users /\ scenario'.tariffs = scenario.tariffs
      /\ scenario'.updates = scenario.updates /\ scenario'.creations = scenario.creations
  BY ScenarioKept
<1>2. /\ scenario.users \subseteq UsersQuery /\ scenario.tariffs \subseteq TariffsQuery
      /\ scenario.updates \subseteq UserUpdate /\ scenario.creations \subseteq People
  BY <1>0 DEF Allowed
<1>3. Idle.sql \in Builder /\ DOMAIN Idle.counts = {} /\ IsRequest(Idle) /\ Idle.at = "idle"
      /\ Idle.alone \in BOOLEAN /\ Idle.unchanged \in BOOLEAN /\ Idle.offsetBefore \in Nat
  BY BuilderTyped DEF Idle, IsRequest
<1>4. RequestFits(Idle)'
  BY <1>3 DEF RequestFits, QueryFits
<1>5. ASSUME NEW place, NEW q, Starts(h, place, q),
             \/ place = "statistics" /\ q \in scenario.users
             \/ place = "count" /\ q \in scenario.tariffs
             \/ place = "find" /\ q \in scenario.updates
             \/ place = "create" /\ q \in Creation
      PROVE  RequestFits(handler[h])'
  <2>1. PICK busy : busy = {k \in Handlers : ~Is(k, "idle")}
    OBVIOUS
  <2>2. PICK alone \in BOOLEAN : alone = (busy = {})
    OBVIOUS
  <2>3. handler'[h] = [Idle EXCEPT !.at = place, !.query = q, !.alone = alone,
                                   !.offsetBefore = tariffsBuilder.offset]
    BY <1>5, <2>1, <2>2 DEF Starts
  <2>4. tariffsBuilder.offset \in Nat
    BY <1>0, BuilderTyped
  <2>5. PICK r : r = handler'[h]
    OBVIOUS
  <2>7. PICK idle : idle = Idle
    OBVIOUS
  <2>8. IsRequest(idle) /\ r = [idle EXCEPT !.at = place, !.query = q, !.alone = alone,
                                   !.offsetBefore = tariffsBuilder.offset]
    BY <2>3, <2>5, <2>7, <1>3
  <2>9. r = [at |-> place, query |-> q, counts |-> idle.counts, sql |-> idle.sql,
             items |-> idle.items, offsetBefore |-> tariffsBuilder.offset,
             alone |-> alone, unchanged |-> idle.unchanged]
    BY <2>8 DEF IsRequest
  <2>6. /\ IsRequest(r) /\ r.at = place /\ r.query = q /\ DOMAIN r.counts = {}
        /\ r.sql \in Builder /\ r.offsetBefore \in Nat /\ r.alone \in BOOLEAN
        /\ r.unchanged \in BOOLEAN
    BY <2>2, <2>4, <2>7, <2>9, <1>3 DEF IsRequest
  <2> QED BY <2>5, <2>6, <1>1, <1>5 DEF RequestFits, QueryFits
<1>6. CASE getUsers(h) \/ updateUser(h) \/ createUser(h)
  <2>1. Tables
    BY <1>6, <1>0 DEF getUsers, updateUser, createUser, builders
  <2>2. RequestFits(handler[h])'
    BY <1>6, <1>2, <1>5 DEF getUsers, updateUser, createUser, Asked, Creation
  <2> QED BY <2>1, <2>2
<1>7. CASE getAll(h)
  <2>1. PICK q \in scenario.tariffs :
            /\ Starts(h, "count", q)
            /\ tariffsBuilder' = [tariffsBuilder EXCEPT !.orderBy = q.orderBy, !.order = q.order,
                                                        !.limit = PerPage(q)]
            /\ UNCHANGED <<people, companies, usersBuilder>>
    BY <1>7 DEF getAll
  <2>2. q.orderBy \in DOMAIN TariffOrders /\ q.order \in Order /\ PerPage(q) \in Nat
    BY <1>2, PageNumbers DEF TariffsQuery
  <2>3. tariffsBuilder' \in Builder
    BY <2>1, <2>2, <1>0 DEF Builder
  <2> QED BY <2>1, <2>3, <1>0, <1>5
<1>8. CASE \E status \in Statuses : CountGroup(h, status)
  <2>1. PICK status \in Statuses : CountGroup(h, status)
    BY <1>8
  <2>2. PICK S : S = {p \in People : Satisfies(p, andWhere(Unconditional, [handler[h].query EXCEPT !.group = status]))}
    OBVIOUS
  <2>3. PICK n \in Nat : n = Cardinality(S)
    BY <2>2, CardinalityOfPeople
  <2>4. PICK counts : counts = [s \in DOMAIN handler[h].counts \cup {status} |->
                                   IF s = status THEN n ELSE handler[h].counts[s]]
    OBVIOUS
  <2>5. handler'[h] = [handler[h] EXCEPT !.counts = counts] /\ handler[h].at = "statistics"
    BY <2>1, <2>2, <2>3, <2>4, <1>0 DEF CountGroup, Counted, Goes, Is, RequestFits, IsRequest
  <2>6. DOMAIN counts \subseteq Statuses /\ \A s \in DOMAIN counts : counts[s] \in Nat
    BY <2>4, <1>0 DEF RequestFits
  <2>7. RequestFits(handler[h])'
    BY <2>5, <2>6, <1>0, <1>1 DEF RequestFits, QueryFits, IsRequest
  <2> QED BY <2>1, <2>7, <1>0 DEF CountGroup, builders
<1>9. CASE BuildUsersQuery(h)
  <2>1. PICK q \in UsersQuery : q = handler[h].query /\ q \in scenario.users
    BY <1>9, <1>0, <1>2 DEF BuildUsersQuery, Is, RequestFits, QueryFits
  <2>2. PICK set : set = [orderBy |-> q.orderBy, order |-> q.order, limit |-> PerPage(q),
                          offset |-> Offset(q), where |-> andWhere(usersBuilder.where, q)]
    OBVIOUS
  <2>3. q.orderBy \in DOMAIN Orders /\ q.order \in Order /\ PerPage(q) \in Nat /\ Offset(q) \in Nat
    BY PageNumbers DEF UsersQuery
  <2>4. andWhere(usersBuilder.where, q) \in Where
    BY <1>0, BuilderTyped, ConditionsTyped
  <2>5. set \in Builder
    BY <2>2, <2>3, <2>4, BuilderTyped
  <2>6. /\ handler'[h] = [handler[h] EXCEPT !.at = "users", !.sql = set]
        /\ usersBuilder' = set /\ UNCHANGED <<people, companies, tariffsBuilder>>
    BY <1>9, <1>0, <2>1, <2>2 DEF BuildUsersQuery, Goes
  <2>8. set.orderBy \in DOMAIN Orders
    BY <2>2, <2>3
  <2>7. RequestFits(handler[h])'
    BY <2>1, <2>5, <2>6, <2>8, <1>0, <1>1 DEF RequestFits, QueryFits, IsRequest
  <2> QED BY <2>5, <2>6, <2>7, <1>0
<1>10. CASE QueryUsers(h)
  <2>1. PICK sql \in Builder : sql = handler[h].sql
    BY <1>0 DEF RequestFits
  <2>2. PICK S : S = {p \in People : Satisfies(p, sql.where)}
    OBVIOUS
  <2>3. PICK roster, page, items :
            Queried(h, sql, S, roster, page, items)
    BY <1>10, <1>0, <2>1, <2>2, UsersQueried
  <2>5. items \in Seq(ListedRow)
    BY <2>2, <2>3, <1>0, QueriedRows DEF Queried
  <2>6. /\ handler'[h] = [handler[h] EXCEPT !.at = After(items), !.items = items]
        /\ handler[h].at = "users" /\ Tables
    BY <1>10, <1>0, <2>3 DEF Queried, QueryUsers, Goes, Is, builders
  <2>7. After(items) \in {"answered", "companies"}
    BY DEF After
  <2>8. RequestFits(handler[h])'
    BY <2>5, <2>6, <2>7, <1>0, <1>1 DEF RequestFits, QueryFits, IsRequest
  <2> QED BY <2>6, <2>8
<1>11. CASE \E i \in DOMAIN handler[h].items : ReadCompany(h, i)
  <2>1. PICK i \in DOMAIN handler[h].items : ReadCompany(h, i)
    BY <1>11
  <2>2. PICK old : old = handler[h].items
    OBVIOUS
  <2>3. handler[h].at = "companies" /\ old \in Seq(ListedRow) /\ handler[h].query \in scenario.users
    BY <2>1, <2>2, <1>0 DEF ReadCompany, Is, RequestFits, QueryFits
  <2>4. old[i] \in ListedRow /\ i \in DOMAIN old
    BY <2>2, <2>3
  <2>5. PICK named : named = companies[old[i].company]
    OBVIOUS
  <2>6. PICK items : items = [old EXCEPT ![i].named = named]
    OBVIOUS
  <2>7. /\ handler'[h] = [handler[h] EXCEPT !.at = After(items), !.items = items]
        /\ old[i].named = "unread" /\ Tables
    BY <2>1, <2>2, <2>5, <2>6, <1>0 DEF ReadCompany, Goes, builders
  <2>8. After(items) \in {"answered", "companies"}
    BY DEF After
  <2>9. named \in Names
    <3>1. old[i].company \in Companies
      BY <2>4, <2>7 DEF ListedRow
    <3> QED BY <3>1, <1>0, <2>5
  <2>10. items \in Seq(ListedRow)
    <3>1. [old[i] EXCEPT !.named = named] \in ListedRow
      BY <2>4, <2>9 DEF ListedRow, Names
    <3> QED BY <3>1, <2>3, <2>4, <2>6
  <2>11. RequestFits(handler[h])'
    BY <2>3, <2>7, <2>8, <2>10, <1>0, <1>1 DEF RequestFits, QueryFits, IsRequest
  <2> QED BY <2>7, <2>11
<1>12. CASE FindUser(h)
  <2>1. Tables /\ handler[h].at = "find" /\ handler[h].query \in scenario.updates
    BY <1>12, <1>0, <1>2 DEF FindUser, Is, RequestFits, QueryFits, builders
  <2>2. \/ handler'[h] = Idle
        \/ \E place \in {"update", "company"} : handler'[h] = [handler[h] EXCEPT !.at = place]
    BY <1>12, <1>0 DEF FindUser, Goes
  <2>3. RequestFits(handler[h])'
    BY <2>1, <2>2, <1>0, <1>1, <1>4 DEF RequestFits, QueryFits, IsRequest
  <2> QED BY <2>1, <2>3
<1>13. CASE updateCompany(h)
  <2>1. /\ handler[h].at = "company" /\ handler[h].query \in scenario.updates
        /\ handler'[h] = [handler[h] EXCEPT !.at = "update"]
    BY <1>13, <1>0 DEF updateCompany, Is, Goes, RequestFits, QueryFits
  <2>2. Tables
    BY <1>13, <1>0 DEF updateCompany, builders, Names
  <2>3. RequestFits(handler[h])'
    BY <2>1, <1>0, <1>1 DEF RequestFits, QueryFits, IsRequest
  <2> QED BY <2>2, <2>3
<1>14. CASE UpdateRow(h)
  <2>1. /\ handler[h].at = "update" /\ handler[h].query \in scenario.updates
        /\ handler'[h] = [handler[h] EXCEPT !.at = "answered"]
    BY <1>14, <1>0 DEF UpdateRow, Is, Writes, RequestFits, QueryFits
  <2>2. PICK u \in UserUpdate : u = handler[h].query
    BY <2>1, <1>2
  <2>3. people' \in [People -> Person]
    BY <1>14, <1>0, <2>2 DEF UpdateRow, UserUpdate, Person
  <2>4. Tables
    BY <1>14, <1>0, <2>3 DEF UpdateRow, builders
  <2>5. handler[h].query \notin scenario.users
    BY <2>2, <1>2, QueriesApart
  <2>6. RequestFits(handler[h])'
    BY <2>1, <2>5, <1>0, <1>1 DEF RequestFits, QueryFits, IsRequest
  <2> QED BY <2>4, <2>6
<1>15. CASE createVerifiedUser(h)
  <2>1. /\ handler[h].at = "create" /\ handler[h].query \in Creation
        /\ handler'[h] = Idle \/ handler'[h] = [handler[h] EXCEPT !.at = "answered"]
    BY <1>15, <1>0 DEF createVerifiedUser, Is, Writes, Goes, RequestFits, QueryFits
  <2>2. PICK p \in People : p = handler[h].query.id
    BY <2>1 DEF Creation
  <2>3. people' \in [People -> Person]
    BY <1>15, <1>0, <2>2, ZenonT(60) DEF createVerifiedUser, Person
  <2>4. Tables
    BY <1>15, <1>0, <2>3 DEF createVerifiedUser, builders
  <2>5. handler[h].query \notin scenario.users
    BY <2>1, <1>2, QueriesApart
  <2>6. RequestFits(handler[h])'
    BY <2>1, <2>5, <1>0, <1>1, <1>4 DEF RequestFits, QueryFits, IsRequest
  <2> QED BY <2>4, <2>6
<1>16. CASE CountTariffs(h)
  <2>1. /\ handler[h].at = "count" /\ handler[h].query \in scenario.tariffs /\ Tables
        /\ handler'[h] = [handler[h] EXCEPT !.at = "tariffs", !.sql = tariffsBuilder]
    BY <1>16, <1>0 DEF CountTariffs, Is, Goes, RequestFits, QueryFits, builders
  <2>2. RequestFits(handler[h])'
    BY <2>1, <1>0, <1>1 DEF RequestFits, QueryFits, IsRequest
  <2> QED BY <2>1, <2>2
<1>17. CASE QueryTariffs(h)
  <2>1. PICK items : Goes(h, [handler[h] EXCEPT !.at = "answered", !.items = items])
    BY <1>17 DEF QueryTariffs
  <2>2. /\ handler[h].at = "tariffs" /\ handler[h].query \in scenario.tariffs
        /\ handler'[h] = [handler[h] EXCEPT !.at = "answered", !.items = items]
    BY <1>17, <1>0, <2>1 DEF QueryTariffs, Is, Goes, RequestFits, QueryFits
  <2>3. PICK q \in TariffsQuery : q = handler[h].query
    BY <2>2, <1>2
  <2>4. Offset(q) \in Nat
    BY PageNumbers DEF TariffsQuery
  <2>5. Tables
    BY <1>17, <1>0, <2>3, <2>4 DEF QueryTariffs, Builder
  <2>6. q \notin scenario.users
    BY <1>2, QueriesApart
  <2>7. RequestFits(handler[h])'
    BY <2>2, <2>3, <2>6, <1>0, <1>1 DEF RequestFits, QueryFits, IsRequest
  <2> QED BY <2>5, <2>7
<1>18. CASE Fails(h) \/ UnknownColumn(h) \/ ListingAnswered(h)
  <2>1. Tables /\ handler'[h] = Idle
    BY <1>18, <1>0 DEF Fails, UnknownColumn, ListingAnswered, Goes, builders
  <2> QED BY <2>1, <1>4
<1> HIDE DEF Tables
<1> QED BY <1>6, <1>7, <1>8, <1>9, <1>10, <1>11, <1>12, <1>13, <1>14, <1>15, <1>16, <1>17, <1>18
        DEF Step, Tables

(* The types hold at the beginning.                                         *)
LEMMA RequestsFitInit ==
    ASSUME ListingsInit
    PROVE  RequestsFit
<1>1. PICK s \in Scenarios : people = s.people /\ scenario = s.allowed
  BY DEF ListingsInit
<1>2. people \in [People -> Person] /\ scenario \in Allowed
  BY <1>1, ScenariosAssumption
<1>3. /\ companies = [c \in Companies |-> "old"] /\ usersBuilder = NewBuilder
      /\ tariffsBuilder = NewBuilder /\ handler = [h \in Handlers |-> Idle]
  BY DEF ListingsInit
<1>4. PICK idle : idle = Idle
  OBVIOUS
<1>5. /\ IsRequest(idle) /\ idle.at = "idle" /\ DOMAIN idle.counts = {}
      /\ idle.sql \in Builder /\ idle.offsetBefore \in Nat
      /\ idle.alone \in BOOLEAN /\ idle.unchanged \in BOOLEAN
  BY <1>4, BuilderTyped DEF Idle, IsRequest
<1>6. RequestFits(idle)
  BY <1>5 DEF RequestFits, QueryFits
<1>7. ListingsTypeOK
  BY <1>2, <1>3, <1>4, <1>5, BuilderTyped DEF ListingsTypeOK, Names
<1> QED BY <1>2, <1>3, <1>4, <1>6, <1>7 DEF RequestsFit

(* A step keeps the types.                                                  *)
LEMMA RequestsFitNext ==
    ASSUME RequestsFit, [ListingsNext]_listingsVars
    PROVE  RequestsFit'
<1>1. CASE UNCHANGED listingsVars
  BY <1>1 DEF listingsVars, builders, RequestsFit, ListingsTypeOK, RequestFits, QueryFits
<1>2. ASSUME NEW h \in Handlers, Step(h)
      PROVE  RequestsFit'
  <2>1. /\ people' \in [People -> Person] /\ companies' \in [Companies -> Names]
        /\ usersBuilder' \in Builder /\ tariffsBuilder' \in Builder
        /\ RequestFits(handler[h])'
    BY <1>2, OwnStepFits
  <2>2. /\ scenario' \in Allowed
        /\ scenario'.users = scenario.users /\ scenario'.tariffs = scenario.tariffs
        /\ scenario'.updates = scenario.updates
    BY <1>2, ScenarioKept
  <2>3. ASSUME NEW g \in Handlers
        PROVE  RequestFits(handler[g])'
    <3>1. CASE g = h
      BY <3>1, <2>1
    <3>2. CASE g # h
      <4>1. IsRequest(handler'[g]) /\ Overtaken(handler[g], handler'[g])
        BY <3>2, <1>2, OthersOvertaken
      <4>2. RequestFits(handler[g])
        BY DEF RequestsFit
      <4> QED BY <4>1, <4>2, <2>2 DEF RequestFits, QueryFits, Overtaken
    <3> QED BY <3>1, <3>2
  <2>4. handler' = [k \in Handlers |-> handler'[k]]
    <3>1. \A next : Goes(h, next) => handler' = [k \in Handlers |-> handler'[k]]
      BY DEF Goes, RequestsFit
    <3>2. \A next : Writes(h, next) => handler' = [k \in Handlers |-> handler'[k]]
      BY DEF Writes
    <3>3. \A place, q : Starts(h, place, q) => handler' = [k \in Handlers |-> handler'[k]]
      BY DEF Starts
    <3>4. CASE getUsers(h) \/ updateUser(h) \/ createUser(h) \/ getAll(h)
      BY <3>4, <3>3 DEF getUsers, updateUser, createUser, getAll
    <3>5. CASE UpdateRow(h) \/ createVerifiedUser(h)
      BY <3>5, <3>1, <3>2 DEF UpdateRow, createVerifiedUser
    <3>6. CASE \/ BuildUsersQuery(h) \/ QueryUsers(h) \/ FindUser(h) \/ updateCompany(h)
               \/ CountTariffs(h) \/ QueryTariffs(h) \/ Fails(h) \/ UnknownColumn(h)
           \/ ListingAnswered(h)
      BY <3>6, <3>1 DEF BuildUsersQuery, QueryUsers, FindUser, updateCompany,
         CountTariffs, QueryTariffs, Fails, UnknownColumn, ListingAnswered
    <3>7. CASE \/ \E status \in Statuses : CountGroup(h, status)
               \/ \E i \in DOMAIN handler[h].items : ReadCompany(h, i)
      BY <3>7, <3>1 DEF CountGroup, Counted, ReadCompany
    <3> QED BY <1>2, <3>4, <3>5, <3>6, <3>7 DEF Step
  <2>5. ListingsTypeOK'
    <3>1. \A g \in Handlers : handler'[g].sql \in Builder
      BY <2>3 DEF RequestFits
    <3> QED BY <2>1, <3>1 DEF ListingsTypeOK
  <2> QED BY <2>2, <2>3, <2>4, <2>5 DEF RequestsFit
<1> QED BY <1>1, <1>2, StepOfOne

(* The types hold always.                                                   *)
LEMMA RequestsAlwaysFit == ListingsSpec => []RequestsFit
<1> QED BY RequestsFitInit, RequestsFitNext, PTL DEF ListingsSpec

(* Users, companies, builders and requests keep their types.                *)
THEOREM ListingsTypes == ListingsSpec => []ListingsTypeOK
<1>1. RequestsFit => ListingsTypeOK
  BY DEF RequestsFit
<1> QED BY <1>1, RequestsAlwaysFit, PTL

----------------------------------------------------------------------------
\* Tariffs.

\* While a request that is alone is under way no other one is, and the tariffs'
\* builder, or the query built from it, is set as the request asks, but for the
\* offset that it was left at.
AsSet(sql, r) ==
    /\ sql.orderBy = r.query.orderBy /\ sql.order = r.query.order
    /\ sql.limit = PerPage(r.query) /\ sql.offset = r.offsetBefore

\* The settings at each place of a request for tariffs that is alone.
OwnSettings(r) ==
    /\ r.at = "count" => AsSet(tariffsBuilder, r)
    /\ r.at = "tariffs" => AsSet(r.sql, r)
    /\ r.at = "answered" /\ r.query \in scenario.tariffs =>
          \E rows \in TariffOrders[r.query.orderBy] :
              r.items = Slice(rows, [order |-> r.query.order, limit |-> PerPage(r.query),
                                     offset |-> r.offsetBefore])

\* The inductive invariant of the requests that are alone.
AloneFits ==
    \A h \in Handlers : handler[h].alone /\ handler[h].at # "idle" =>
        /\ \A g \in Handlers \ {h} : handler[g].at = "idle"
        /\ OwnSettings(handler[h])

(* At the beginning no request is under way.                                *)
LEMMA AloneFitsInit ==
    ASSUME ListingsInit
    PROVE  AloneFits
  BY DEF ListingsInit, AloneFits, Idle

(* A step keeps the settings of a request that is alone.                    *)
LEMMA AloneFitsNext ==
    ASSUME RequestsFit, AloneFits, [ListingsNext]_listingsVars
    PROVE  AloneFits'
<1>1. CASE UNCHANGED listingsVars
  BY <1>1 DEF listingsVars, builders, AloneFits, OwnSettings, AsSet
<1>2. ASSUME NEW h \in Handlers, Step(h)
      PROVE  AloneFits'
  <2>0. /\ handler = [k \in Handlers |-> handler[k]] /\ RequestFits(handler[h]) /\ IsRequest(handler[h])
        /\ scenario \in Allowed /\ tariffsBuilder \in Builder
    BY DEF RequestsFit, RequestFits, ListingsTypeOK
  <2>1. scenario'.users = scenario.users /\ scenario'.tariffs = scenario.tariffs
    BY <1>2, ScenarioKept
  <2>2. \A g \in Handlers \ {h} : Overtaken(handler[g], handler'[g])
    BY <1>2, OthersOvertaken
  <2>3. /\ scenario.users \subseteq UsersQuery /\ scenario.tariffs \subseteq TariffsQuery
        /\ scenario.updates \subseteq UserUpdate
    BY <2>0 DEF Allowed
  \* A request that starts takes that away from those under way, and does not have it then.
  <2>4. ASSUME NEW place, NEW q, Starts(h, place, q), place # "idle"
        PROVE  /\ \A g \in Handlers \ {h} : handler'[g].at # "idle" => ~ handler'[g].alone
               /\ handler'[h].alone => \A g \in Handlers \ {h} : handler'[g].at = "idle"
               /\ handler'[h].at = place /\ handler'[h].query = q
               /\ handler'[h].offsetBefore = tariffsBuilder.offset
    <3>1. PICK busy : busy = {k \in Handlers : ~Is(k, "idle")}
      OBVIOUS
    <3>2. handler' = [k \in Handlers |->
              IF k = h THEN [Idle EXCEPT !.at = place, !.query = q, !.alone = busy = {},
                                         !.offsetBefore = tariffsBuilder.offset]
              ELSE [handler[k] EXCEPT !.alone = @ /\ k \notin busy]]
      BY <2>4, <3>1 DEF Starts
    <3>3. /\ handler'[h].at = place /\ handler'[h].query = q
          /\ handler'[h].offsetBefore = tariffsBuilder.offset
          /\ handler'[h].alone => busy = {}
      <4>1. PICK alone \in BOOLEAN : alone = (busy = {})
        OBVIOUS
      <4>2. handler'[h] = [Idle EXCEPT !.at = place, !.query = q, !.alone = alone,
                                       !.offsetBefore = tariffsBuilder.offset]
        BY <3>2, <4>1
      <4>3. handler'[h].alone = alone
        BY <4>2 DEF Idle
      <4> QED BY <4>1, <4>2, <4>3 DEF Idle
    <3>4. \A g \in Handlers \ {h} : handler'[g].at = handler[g].at
      BY <2>2 DEF Overtaken
    <3>5. ASSUME NEW g \in Handlers \ {h}, handler'[g].at # "idle"
          PROVE  ~ handler'[g].alone
      <4>1. g \in busy
        BY <3>1, <3>4, <3>5 DEF Is
      <4>2. IsRequest(handler[g])
        BY DEF RequestsFit, RequestFits
      <4>3. PICK still \in BOOLEAN : still = (handler[g].alone /\ g \notin busy)
        OBVIOUS
      <4>4. handler'[g] = [handler[g] EXCEPT !.alone = still]
        BY <3>2, <4>3
      <4>5. handler'[g].alone = still
        BY <4>2, <4>4 DEF IsRequest
      <4> QED BY <4>1, <4>3, <4>5
    <3>6. ASSUME handler'[h].alone, NEW g \in Handlers \ {h}
          PROVE  handler'[g].at = "idle"
      BY <3>1, <3>3, <3>4, <3>6 DEF Is
    <3> QED BY <3>3, <3>5, <3>6
  \* Any other step is one of a request under way: no other one is alone.
  <2>5. ASSUME handler[h].at # "idle",
               handler'[h].alone /\ handler'[h].at # "idle" =>
                   handler[h].alone /\ OwnSettings(handler[h])'
        PROVE  AloneFits'
    <3> SUFFICES ASSUME NEW g \in Handlers, handler'[g].alone, handler'[g].at # "idle"
                 PROVE  /\ \A k \in Handlers \ {g} : handler'[k].at = "idle"
                        /\ OwnSettings(handler[g])'
      BY DEF AloneFits
    <3>1. CASE g = h
      <4>1. \A k \in Handlers \ {h} : handler[k].at = "idle"
        BY <3>1, <2>5 DEF AloneFits
      <4> QED BY <4>1, <3>1, <2>5, <2>2 DEF Overtaken
    <3>2. CASE g # h
      <4>1. Overtaken(handler[g], handler'[g])
        BY <3>2, <2>2
      <4>2. handler[g].alone /\ handler[g].at # "idle"
        BY <4>1 DEF Overtaken
      <4> QED BY <4>2, <3>2, <2>5 DEF AloneFits
    <3> QED BY <3>1, <3>2
  <2>6. ASSUME NEW place, NEW q, Starts(h, place, q), place \notin {"idle", "tariffs", "answered"},
               place = "count" => tariffsBuilder'.orderBy = q.orderBy /\ tariffsBuilder'.order = q.order
                                  /\ tariffsBuilder'.limit = PerPage(q)
                                  /\ tariffsBuilder'.offset = tariffsBuilder.offset
        PROVE  AloneFits'
    <3>1. /\ \A g \in Handlers \ {h} : handler'[g].at # "idle" => ~ handler'[g].alone
          /\ handler'[h].alone => \A g \in Handlers \ {h} : handler'[g].at = "idle"
          /\ handler'[h].at = place /\ handler'[h].query = q
          /\ handler'[h].offsetBefore = tariffsBuilder.offset
      BY <2>4, <2>6
    <3>2. OwnSettings(handler[h])'
      BY <3>1, <2>6 DEF OwnSettings, AsSet
    <3> QED BY <3>1, <3>2 DEF AloneFits
  <2>7. CASE getUsers(h) \/ updateUser(h) \/ createUser(h)
    BY <2>6, <2>7 DEF getUsers, updateUser, createUser
  <2>8. CASE getAll(h)
    <3>1. PICK q : /\ Starts(h, "count", q)
                   /\ tariffsBuilder' = [tariffsBuilder EXCEPT !.orderBy = q.orderBy, !.order = q.order,
                                                        !.limit = PerPage(q)]
      BY <2>8 DEF getAll
    <3>2. /\ tariffsBuilder'.orderBy = q.orderBy /\ tariffsBuilder'.order = q.order /\ tariffsBuilder'.limit = PerPage(q)
          /\ tariffsBuilder'.offset = tariffsBuilder.offset
      BY <3>1, <2>0 DEF Builder
    <3> QED BY <3>1, <3>2, <2>6
  <2>9. CASE CountTariffs(h)
    <3>1. /\ handler[h].at = "count" /\ tariffsBuilder' = tariffsBuilder
          /\ handler'[h] = [handler[h] EXCEPT !.at = "tariffs", !.sql = tariffsBuilder]
      BY <2>9, <2>0 DEF CountTariffs, Is, Goes, builders
    <3>2. /\ handler'[h].at = "tariffs" /\ handler'[h].sql = tariffsBuilder
          /\ handler'[h].alone = handler[h].alone /\ handler'[h].query = handler[h].query
          /\ handler'[h].offsetBefore = handler[h].offsetBefore
      BY <3>1, <2>0 DEF IsRequest
    <3>3. handler[h].alone => OwnSettings(handler[h])
      BY <3>1 DEF AloneFits
    <3> QED BY <3>1, <3>2, <3>3, <2>5 DEF OwnSettings, AsSet
  <2>10. CASE QueryTariffs(h)
    <3>1. PICK rows \in TariffOrders[handler[h].sql.orderBy] :
              Goes(h, [handler[h] EXCEPT !.at = "answered", !.items = Slice(rows, handler[h].sql)])
      BY <2>10 DEF QueryTariffs
    <3>5. PICK items : items = Slice(rows, handler[h].sql)
      OBVIOUS
    <3>2. /\ handler[h].at = "tariffs"
          /\ handler'[h] = [handler[h] EXCEPT !.at = "answered", !.items = items]
      BY <2>10, <2>0, <3>1, <3>5 DEF QueryTariffs, Is, Goes
    <3>3. /\ handler'[h].at = "answered" /\ handler'[h].items = items
          /\ handler'[h].alone = handler[h].alone /\ handler'[h].query = handler[h].query
          /\ handler'[h].offsetBefore = handler[h].offsetBefore
      BY <3>2, <2>0 DEF IsRequest
    <3>4. ASSUME handler[h].alone
          PROVE  OwnSettings(handler[h])'
      <4>1. AsSet(handler[h].sql, handler[h])
        BY <3>2, <3>4 DEF AloneFits, OwnSettings
      <4>2. PICK q : q = handler[h].query
        OBVIOUS
      <4>3. Slice(rows, handler[h].sql) =
                Slice(rows, [order |-> q.order, limit |-> PerPage(q), offset |-> handler[h].offsetBefore])
        BY <4>1, <4>2 DEF Slice, AsSet
      <4>4. rows \in TariffOrders[q.orderBy]
        BY <4>1, <4>2 DEF AsSet
      <4> QED BY <3>3, <3>5, <4>2, <4>3, <4>4 DEF OwnSettings
    <3> QED BY <3>2, <3>3, <3>4, <2>5
  \* The rest are no requests for tariffs.
  <2>11. ASSUME NEW place, handler'[h].at = place, place \notin {"count", "tariffs"},
                handler[h].at \notin {"idle", "count", "tariffs", "answered"},
                handler'[h].query = handler[h].query, handler'[h].alone = handler[h].alone
         PROVE  AloneFits'
    <3>1. handler[h].query \notin scenario.tariffs
      BY <2>0, <2>3, <2>11, QueriesApart DEF RequestFits, QueryFits
    <3>2. OwnSettings(handler[h])'
      BY <3>1, <2>1, <2>11 DEF OwnSettings
    <3> QED BY <3>2, <2>5, <2>11
  <2>12. ASSUME handler[h].at # "idle", handler'[h].at = "idle"
         PROVE  AloneFits'
    BY <2>5, <2>12
  <2>13. CASE \/ BuildUsersQuery(h) \/ QueryUsers(h) \/ updateCompany(h) \/ UpdateRow(h)
              \/ (\E status \in Statuses : CountGroup(h, status))
              \/ (\E i \in DOMAIN handler[h].items : ReadCompany(h, i))
    <3>1. ASSUME NEW next, Goes(h, next) PROVE handler'[h] = next
      BY <3>1, <2>0 DEF Goes
    <3>2. ASSUME NEW next, Writes(h, next) PROVE handler'[h] = next
      BY <3>2 DEF Writes
    <3>3. \A items : After(items) \in {"answered", "companies"}
      BY DEF After
    <3>4. CASE BuildUsersQuery(h)
      <4>1. PICK set : handler'[h] = [handler[h] EXCEPT !.at = "users", !.sql = set]
        BY <3>4, <3>1 DEF BuildUsersQuery
      <4>2. handler[h].at = "statistics"
        BY <3>4 DEF BuildUsersQuery, Is
      <4> QED BY <4>1, <4>2, <2>0, <2>11 DEF IsRequest
    <3>5. CASE QueryUsers(h)
      <4>1. PICK items : handler'[h] = [handler[h] EXCEPT !.at = After(items), !.items = items]
        BY <3>5, <3>1 DEF QueryUsers
      <4>2. handler[h].at = "users"
        BY <3>5 DEF QueryUsers, Is
      <4> QED BY <4>1, <4>2, <3>3, <2>0, <2>11 DEF IsRequest
    <3>6. CASE \E i \in DOMAIN handler[h].items : ReadCompany(h, i)
      <4>1. PICK items : handler'[h] = [handler[h] EXCEPT !.at = After(items), !.items = items]
        BY <3>6, <3>1 DEF ReadCompany
      <4>2. handler[h].at = "companies"
        BY <3>6 DEF ReadCompany, Is
      <4> QED BY <4>1, <4>2, <3>3, <2>0, <2>11 DEF IsRequest
    <3>7. CASE \E status \in Statuses : CountGroup(h, status)
      <4>1. PICK counts : handler'[h] = [handler[h] EXCEPT !.counts = counts]
        BY <3>7, <3>1 DEF CountGroup, Counted
      <4>2. handler[h].at = "statistics"
        BY <3>7 DEF CountGroup, Is
      <4> QED BY <4>1, <4>2, <2>0, <2>11 DEF IsRequest
    <3>8. CASE updateCompany(h)
      <4>1. handler'[h] = [handler[h] EXCEPT !.at = "update"] /\ handler[h].at = "company"
        BY <3>8, <3>1 DEF updateCompany, Is
      <4> QED BY <4>1, <2>0, <2>11 DEF IsRequest
    <3>9. CASE UpdateRow(h)
      <4>1. handler'[h] = [handler[h] EXCEPT !.at = "answered"] /\ handler[h].at = "update"
        BY <3>9, <3>2 DEF UpdateRow, Is
      <4> QED BY <4>1, <2>0, <2>11 DEF IsRequest
    <3> QED BY <2>13, <3>4, <3>5, <3>6, <3>7, <3>8, <3>9
  <2>14. CASE FindUser(h) \/ createVerifiedUser(h)
    <3>1. /\ handler[h].at \in {"find", "create"}
          /\ \/ handler'[h] = Idle
             \/ \E place \in {"update", "company", "answered"} :
                   handler'[h] = [handler[h] EXCEPT !.at = place]
      BY <2>14, <2>0 DEF FindUser, createVerifiedUser, Goes, Writes, Is
    <3>2. CASE handler'[h] = Idle
      BY <3>1, <3>2, <2>12 DEF Idle
    <3>3. CASE \E place \in {"update", "company", "answered"} :
                   handler'[h] = [handler[h] EXCEPT !.at = place]
      BY <3>1, <3>3, <2>0, <2>11 DEF IsRequest
    <3> QED BY <3>1, <3>2, <3>3
  <2>15. CASE Fails(h) \/ UnknownColumn(h) \/ ListingAnswered(h)
    <3>1. handler[h].at # "idle" /\ handler'[h] = Idle
      BY <2>15, <2>0 DEF Fails, UnknownColumn, ListingAnswered, Goes, Is
    <3> QED BY <3>1, <2>12 DEF Idle
  <2> QED BY <1>2, <2>7, <2>8, <2>9, <2>10, <2>13, <2>14, <2>15 DEF Step
<1> QED BY <1>1, <1>2, StepOfOne

(* Without another request meanwhile, the tariffs are listed in the order   *)
(* and the number asked for, from where the request before was to begin.    *)
THEOREM OffsetOfTheOneBefore == ListingsSpec => []TariffsFromTheOffsetBefore
<1>1. ListingsSpec => []AloneFits
  BY AloneFitsInit, AloneFitsNext, RequestsAlwaysFit, PTL DEF ListingsSpec
<1>2. AloneFits => TariffsFromTheOffsetBefore
  BY DEF AloneFits, OwnSettings, TariffsFromTheOffsetBefore, ListedTariffs, Is
<1> QED BY <1>1, <1>2, PTL

(* A step of a request for users is one of four, or begins or ends it.      *)
LEMMA OwnStep ==
    ASSUME RequestsFit, NEW h \in Handlers, Step(h)
    PROVE  \/ BuildUsersQuery(h) \/ QueryUsers(h)
           \/ \E status \in Statuses : CountGroup(h, status)
           \/ \E i \in DOMAIN handler[h].items : ReadCompany(h, i)
           \/ handler'[h].at = "idle"
           \/ handler'[h].query \notin scenario.users
           \/ handler'[h].at = "statistics" /\ DOMAIN handler'[h].counts = {}
<1> DEFINE Other == \/ handler'[h].at = "idle"
                    \/ handler'[h].query \notin scenario.users
                    \/ handler'[h].at = "statistics" /\ DOMAIN handler'[h].counts = {}
<1>1. /\ handler = [k \in Handlers |-> handler[k]] /\ RequestFits(handler[h]) /\ IsRequest(handler[h])
      /\ scenario \in Allowed
  BY DEF RequestsFit, RequestFits
<1>2. /\ scenario.users \subseteq UsersQuery /\ scenario.tariffs \subseteq TariffsQuery
      /\ scenario.updates \subseteq UserUpdate /\ scenario.creations \subseteq People
  BY <1>1 DEF Allowed
<1>3. ASSUME NEW place, NEW q, Starts(h, place, q)
      PROVE  handler'[h].at = place /\ handler'[h].query = q /\ DOMAIN handler'[h].counts = {}
  <2>1. PICK alone, offset : handler'[h] = [Idle EXCEPT !.at = place, !.query = q, !.alone = alone,
                                                       !.offsetBefore = offset]
    BY <1>3 DEF Starts
  <2> QED BY <2>1 DEF Idle
<1>4. ASSUME NEW next, Goes(h, next) \/ Writes(h, next)
      PROVE  handler'[h] = next
  BY <1>1, <1>4 DEF Goes, Writes
<1>5. CASE getUsers(h)
  BY <1>3, <1>5 DEF getUsers
<1>6. CASE updateUser(h) \/ createUser(h) \/ getAll(h)
  <2>1. \E q \in scenario.updates \cup scenario.tariffs \cup Creation, place \in {"find", "create", "count"} :
            Starts(h, place, q)
    BY <1>6, <1>2 DEF updateUser, createUser, getAll, Creation, Asked
  <2> QED BY <2>1, <1>2, <1>3, QueriesApart
<1>7. ASSUME handler[h].at \in {"find", "company", "update", "create", "count", "tariffs"},
             handler'[h].query = handler[h].query
      PROVE  Other
  BY <1>1, <1>2, <1>7, QueriesApart DEF RequestFits, QueryFits
<1>8. CASE FindUser(h) \/ createVerifiedUser(h)
  <2>1. /\ handler[h].at \in {"find", "create"}
        /\ \/ handler'[h] = Idle
           \/ \E place \in {"update", "company", "answered"} :
                 handler'[h] = [handler[h] EXCEPT !.at = place]
    BY <1>8, <1>4 DEF FindUser, createVerifiedUser, Is
  <2> QED BY <2>1, <1>1, <1>7 DEF IsRequest, Idle
<1>9. CASE updateCompany(h) \/ UpdateRow(h)
  <2>1. /\ handler[h].at \in {"company", "update"}
        /\ \E place : handler'[h] = [handler[h] EXCEPT !.at = place]
    BY <1>9, <1>4 DEF updateCompany, UpdateRow, Is
  <2> QED BY <2>1, <1>1, <1>7 DEF IsRequest
<1>10. CASE CountTariffs(h)
  <2>1. /\ handler[h].at = "count"
        /\ handler'[h] = [handler[h] EXCEPT !.at = "tariffs", !.sql = tariffsBuilder]
    BY <1>10, <1>4 DEF CountTariffs, Is
  <2> QED BY <2>1, <1>1, <1>7 DEF IsRequest
<1>11. CASE QueryTariffs(h)
  <2>1. PICK items : /\ handler[h].at = "tariffs"
                     /\ handler'[h] = [handler[h] EXCEPT !.at = "answered", !.items = items]
    BY <1>11, <1>4 DEF QueryTariffs, Is
  <2> QED BY <2>1, <1>1, <1>7 DEF IsRequest
<1>12. CASE Fails(h) \/ UnknownColumn(h) \/ ListingAnswered(h)
  BY <1>12, <1>4 DEF Fails, UnknownColumn, ListingAnswered, Idle
<1> HIDE DEF Other
<1> QED BY <1>5, <1>6, <1>8, <1>9, <1>10, <1>11, <1>12 DEF Step, Other

\* What the query and the rows of a request for users have to do with what it asked.
RowAsked(row, q) ==
    /\ row.user \in q.search
    /\ q.corporate => row.company # Nobody
    /\ q.group \in Statuses => row.status = q.group

\* The query sent has the conditions, the order and the page of its request.
Filters(r) ==
    /\ r.query.search \in r.sql.where.searches
    /\ r.query.corporate => r.sql.where.corporate
    /\ r.query.group \in Statuses => r.query.group \in r.sql.where.groups
    /\ r.sql.orderBy = r.query.orderBy /\ r.sql.order = r.query.order
    /\ r.sql.limit = PerPage(r.query) /\ r.sql.offset = Offset(r.query)

\* From the query on its conditions are the own ones, and so are the rows.
RowsAsked(r) ==
    /\ r.at \in {"users", "companies", "answered"} => Filters(r)
    /\ r.at \in {"companies", "answered"} =>
          \A i \in DOMAIN r.items : RowAsked(r.items[i], r.query)

\* The inductive invariant of the rows.
AllRowsAsked ==
    \A h \in Handlers : handler[h].query \in scenario.users => RowsAsked(handler[h])

(* A step keeps them: the builder is set and read at once.                  *)
LEMMA RowsAskedNext ==
    ASSUME RequestsFit, AllRowsAsked, [ListingsNext]_listingsVars
    PROVE  AllRowsAsked'
<1>1. CASE UNCHANGED listingsVars
  BY <1>1 DEF listingsVars, builders, AllRowsAsked, RowsAsked, Filters
<1>2. ASSUME NEW h \in Handlers, Step(h)
      PROVE  AllRowsAsked'
  <2>0. /\ handler = [k \in Handlers |-> handler[k]] /\ RequestFits(handler[h]) /\ IsRequest(handler[h])
        /\ scenario.users \subseteq UsersQuery /\ people \in [People -> Person]
    BY DEF RequestsFit, RequestFits, Allowed, ListingsTypeOK
  <2>1. scenario'.users = scenario.users
    BY <1>2, ScenarioKept
  <2>2. ASSUME NEW g \in Handlers \ {h}, handler'[g].query \in scenario.users
        PROVE  RowsAsked(handler'[g])
    <3>1. Overtaken(handler[g], handler'[g])
      BY <1>2, OthersOvertaken
    <3>2. RowsAsked(handler[g])
      BY <3>1, <2>2 DEF Overtaken, AllRowsAsked
    <3> QED BY <3>1, <3>2 DEF RowsAsked, Filters, Overtaken
  <2>3. ASSUME NEW next, Goes(h, next)
        PROVE  handler'[h] = next
    BY <2>0, <2>3 DEF Goes
  <2>4. ASSUME handler'[h].query \in scenario.users
        PROVE  RowsAsked(handler'[h])
    <3>1. CASE BuildUsersQuery(h)
      <4>1. PICK q \in UsersQuery : q = handler[h].query
        BY <3>1, <2>0 DEF BuildUsersQuery, Is, RequestFits, QueryFits
      <4>2. PICK set : set = [orderBy |-> q.orderBy, order |-> q.order, limit |-> PerPage(q),
                              offset |-> Offset(q), where |-> andWhere(usersBuilder.where, q)]
        OBVIOUS
      <4>3. handler'[h] = [handler[h] EXCEPT !.at = "users", !.sql = set]
        BY <3>1, <4>1, <4>2, <2>3 DEF BuildUsersQuery
      <4>4. /\ handler'[h].at = "users" /\ handler'[h].sql = set /\ handler'[h].query = q
        BY <4>1, <4>3, <2>0 DEF IsRequest
      <4>5. /\ q.search \in set.where.searches
            /\ q.corporate => set.where.corporate
            /\ q.group \in Statuses => q.group \in set.where.groups
            /\ set.orderBy = q.orderBy /\ set.order = q.order /\ set.limit = PerPage(q) /\ set.offset = Offset(q)
        BY <4>2 DEF andWhere
      <4> QED BY <4>4, <4>5 DEF RowsAsked, Filters
    <3>2. CASE QueryUsers(h)
      <4>1. PICK sql \in Builder : sql = handler[h].sql
        BY <2>0 DEF RequestFits
      <4>2. PICK S : S = {p \in People : Satisfies(p, sql.where)}
        OBVIOUS
      <4>3. PICK roster, page, items :
                Queried(h, sql, S, roster, page, items)
        BY <3>2, <2>0, <4>1, <4>2, UsersQueried
      <4>5. PICK at : at = After(items)
        OBVIOUS
      <4>6. handler'[h] = [handler[h] EXCEPT !.at = at, !.items = items] /\ handler[h].at = "users"
        BY <3>2, <4>3, <4>5, <2>3 DEF Queried, QueryUsers, Is
      <4>7. /\ handler'[h].items = items /\ handler'[h].query = handler[h].query
            /\ handler'[h].sql = sql
        BY <4>1, <4>6, <2>0 DEF IsRequest
      <4>8. Filters(handler[h])
        BY <2>4, <4>6, <4>7 DEF AllRowsAsked, RowsAsked
      <4>9. ASSUME NEW i \in DOMAIN items
            PROVE  RowAsked(items[i], handler[h].query)
        <5>1. /\ items[i].user = page[i] /\ page[i] \in S
              /\ items[i].status = people[page[i]].status
              /\ items[i].company = people[page[i]].company
          BY <2>0, <4>2, <4>3, QueriedRows DEF Queried
        <5>2. Satisfies(page[i], sql.where)
          BY <5>1, <4>2
        <5> QED BY <5>1, <5>2, <4>1, <4>8 DEF Satisfies, Filters, RowAsked
      <4> QED BY <4>1, <4>7, <4>8, <4>9 DEF RowsAsked, Filters
    <3>3. CASE \E i \in DOMAIN handler[h].items : ReadCompany(h, i)
      <4>1. PICK i \in DOMAIN handler[h].items : ReadCompany(h, i)
        BY <3>3
      <4>2. PICK old : old = handler[h].items
        OBVIOUS
      <4>3. PICK named : named = companies[old[i].company]
        OBVIOUS
      <4>4. PICK items : items = [old EXCEPT ![i].named = named]
        OBVIOUS
      <4>5. PICK at : at = After(items)
        OBVIOUS
      <4>6. handler'[h] = [handler[h] EXCEPT !.at = at, !.items = items] /\ handler[h].at = "companies"
        BY <4>1, <4>2, <4>3, <4>4, <4>5, <2>3 DEF ReadCompany, Is
      <4>7. /\ handler'[h].items = items /\ handler'[h].query = handler[h].query
            /\ handler'[h].sql = handler[h].sql
        BY <4>6, <2>0 DEF IsRequest
      <4>8. /\ Filters(handler[h]) /\ \A k \in DOMAIN old : RowAsked(old[k], handler[h].query)
            /\ old \in Seq(ListedRow)
        BY <2>0, <2>4, <4>2, <4>6, <4>7 DEF AllRowsAsked, RowsAsked, RequestFits
      <4>9. ASSUME NEW k \in DOMAIN items
            PROVE  RowAsked(items[k], handler[h].query)
        <5>1. k \in DOMAIN old /\ old[k] \in ListedRow
          BY <4>4, <4>8
        <5>2. /\ items[k].user = old[k].user /\ items[k].company = old[k].company
              /\ items[k].status = old[k].status
          BY <4>4, <5>1 DEF ListedRow
        <5> QED BY <5>1, <5>2, <4>8 DEF RowAsked
      <4> QED BY <4>7, <4>8, <4>9 DEF RowsAsked, Filters
    <3>4. CASE \E status \in Statuses : CountGroup(h, status)
      <4>1. PICK counts : handler'[h] = [handler[h] EXCEPT !.counts = counts] /\ handler[h].at = "statistics"
        BY <3>4, <2>3 DEF CountGroup, Counted, Is
      <4>2. handler'[h].at = "statistics"
        BY <4>1, <2>0 DEF IsRequest
      <4> QED BY <4>2 DEF RowsAsked
    <3>5. CASE handler'[h].at = "idle" \/ handler'[h].at = "statistics"
      BY <3>5 DEF RowsAsked
    <3> QED BY <1>2, <2>4, <3>1, <3>2, <3>3, <3>4, <3>5, OwnStep
  <2> QED BY <2>1, <2>2, <2>4 DEF AllRowsAsked, RowsAsked, Filters
<1> QED BY <1>1, <1>2, StepOfOne

(* The rows are those asked for, always.                                    *)
LEMMA RowsAlwaysAsked == ListingsSpec => []AllRowsAsked
<1>1. ListingsInit => AllRowsAsked
  BY DEF ListingsInit, AllRowsAsked, RowsAsked, Idle
<1> QED BY <1>1, RowsAskedNext, RequestsAlwaysFit, PTL DEF ListingsSpec

(* Nobody is listed who is not of the group, the search and the companies   *)
(* that a request asks for, however other requests use the builder.         *)
THEOREM NobodyElse == ListingsSpec => []NobodyElseListed
<1>1. AllRowsAsked => NobodyElseListed
  BY DEF AllRowsAsked, RowsAsked, RowAsked, NobodyElseListed, ListedUsers
<1> QED BY <1>1, RowsAlwaysAsked, PTL

----------------------------------------------------------------------------
\* Users: counts, rows and pages.

\* Those that a count of a status is of.
OfGroup(q, s) == {p \in People : Satisfies(p, andWhere(Unconditional, [q EXCEPT !.group = s]))}

\* Those who meet the conditions of a query.
Meeting(where) == {p \in People : Satisfies(p, where)}

\* The counts are right as far as they are taken, and complete at the query.
CountsFit(r) ==
    /\ r.at \in {"users", "companies", "answered"} => DOMAIN r.counts = Statuses
    /\ \A s \in DOMAIN r.counts : r.counts[s] = Cardinality(OfGroup(r.query, s))

\* The rows are the page of those who meet the conditions.
PageFits(r) ==
    r.at \in {"companies", "answered"} =>
        \E roster \in Orders[r.sql.orderBy] :
            LET page == Slice(Rows(Meeting(r.sql.where), roster), r.sql)
            IN  /\ Roster(roster) /\ DOMAIN r.items = DOMAIN page
                /\ \A i \in DOMAIN r.items : r.items[i].user = page[i]

\* The inductive invariant of the answers.
AnswersFit ==
    \A h \in Handlers :
        handler[h].at # "idle" /\ handler[h].query \in scenario.users /\ handler[h].unchanged =>
            CountsFit(handler[h]) /\ PageFits(handler[h])

(* A step keeps the answers, or users change with it.                       *)
LEMMA AnswersFitNext ==
    ASSUME RequestsFit, AnswersFit, [ListingsNext]_listingsVars
    PROVE  AnswersFit'
<1>1. CASE UNCHANGED listingsVars
  <2>1. people' = people /\ handler' = handler /\ scenario' = scenario
    BY <1>1 DEF listingsVars
  <2>2. \A q, s : OfGroup(q, s)' = OfGroup(q, s)
    BY <2>1 DEF OfGroup, Satisfies
  <2>3. ASSUME NEW h \in Handlers, CountsFit(handler[h]), PageFits(handler[h])
        PROVE  CountsFit(handler[h])' /\ PageFits(handler[h])'
    <3>1. CountsFit(handler[h])'
      BY <2>1, <2>2, <2>3 DEF CountsFit
    <3>2. Meeting(handler[h].sql.where)' = Meeting(handler[h].sql.where)
      BY <2>1 DEF Meeting, Satisfies
    <3>3. PageFits(handler[h])'
      BY <2>1, <2>3, <3>2 DEF PageFits
    <3> QED BY <3>1, <3>3
  <2> QED BY <2>1, <2>3 DEF AnswersFit
<1>2. ASSUME NEW h \in Handlers, Step(h)
      PROVE  AnswersFit'
  <2>0. /\ handler = [k \in Handlers |-> handler[k]] /\ RequestFits(handler[h]) /\ IsRequest(handler[h])
        /\ scenario.users \subseteq UsersQuery /\ people \in [People -> Person]
    BY DEF RequestsFit, RequestFits, Allowed, ListingsTypeOK
  <2>1. scenario'.users = scenario.users
    BY <1>2, ScenarioKept
  <2>2. ASSUME NEW g \in Handlers \ {h}, handler'[g].at # "idle",
               handler'[g].query \in scenario.users, handler'[g].unchanged
        PROVE  CountsFit(handler[g])' /\ PageFits(handler[g])'
    <3>1. Overtaken(handler[g], handler'[g]) /\ people' = people
      BY <1>2, <2>2, OthersOvertaken
    <3>2. CountsFit(handler[g]) /\ PageFits(handler[g])
      BY <3>1, <2>2 DEF Overtaken, AnswersFit
    <3>3. \A q, s : OfGroup(q, s)' = OfGroup(q, s)
      BY <3>1 DEF OfGroup, Satisfies
    <3>4. Meeting(handler[g].sql.where)' = Meeting(handler[g].sql.where)
      BY <3>1 DEF Meeting, Satisfies, Overtaken
    <3>5. CountsFit(handler[g])'
      BY <3>1, <3>2, <3>3 DEF CountsFit, Overtaken
    <3>6. PageFits(handler[g])'
      BY <3>1, <3>2, <3>4 DEF PageFits, Overtaken
    <3> QED BY <3>5, <3>6
  <2>3. ASSUME NEW next, Goes(h, next)
        PROVE  handler'[h] = next
    BY <2>0, <2>3 DEF Goes
  <2>4. ASSUME handler'[h].at # "idle", handler'[h].query \in scenario.users, handler'[h].unchanged
        PROVE  CountsFit(handler[h])' /\ PageFits(handler[h])'
    <3>1. CASE BuildUsersQuery(h)
      <4>1. PICK set : handler'[h] = [handler[h] EXCEPT !.at = "users", !.sql = set]
        BY <3>1, <2>3 DEF BuildUsersQuery
      <4>2. people' = people /\ handler[h].at = "statistics" /\ DOMAIN handler[h].counts = Statuses
        BY <3>1 DEF BuildUsersQuery, Is
      <4>3. /\ handler'[h].at = "users" /\ handler'[h].counts = handler[h].counts
            /\ handler'[h].query = handler[h].query /\ handler'[h].unchanged = handler[h].unchanged
        BY <4>1, <2>0 DEF IsRequest
      <4>4. CountsFit(handler[h])
        BY <4>2, <4>3, <2>4 DEF AnswersFit
      <4>5. \A q, s : OfGroup(q, s)' = OfGroup(q, s)
        BY <4>2 DEF OfGroup, Satisfies
      <4>6. CountsFit(handler[h])'
        BY <4>2, <4>3, <4>4, <4>5 DEF CountsFit
      <4>7. PageFits(handler[h])'
        BY <4>3 DEF PageFits
      <4> QED BY <4>6, <4>7
    <3>2. CASE QueryUsers(h)
      <4>1. PICK sql \in Builder : sql = handler[h].sql
        BY <2>0 DEF RequestFits
      <4>2. PICK S : S = Meeting(sql.where)
        OBVIOUS
      <4>3. PICK roster, page, items :
                Queried(h, sql, S, roster, page, items)
        BY <3>2, <2>0, <4>1, <4>2, UsersQueried DEF Meeting
      <4>5. PICK at : at = After(items)
        OBVIOUS
      <4>6. /\ handler'[h] = [handler[h] EXCEPT !.at = at, !.items = items]
            /\ handler[h].at = "users" /\ people' = people
        BY <3>2, <4>3, <4>5, <2>3 DEF Queried, QueryUsers, Is
      <4>7. /\ handler'[h].items = items /\ handler'[h].query = handler[h].query
            /\ handler'[h].sql = sql /\ handler'[h].counts = handler[h].counts
            /\ handler'[h].unchanged = handler[h].unchanged
        BY <4>1, <4>6, <2>0 DEF IsRequest
      <4>8. CountsFit(handler[h])
        BY <4>6, <4>7, <2>4 DEF AnswersFit
      <4>9. \A q, s : OfGroup(q, s)' = OfGroup(q, s)
        BY <4>6 DEF OfGroup, Satisfies
      <4>10. CountsFit(handler[h])'
        BY <4>6, <4>7, <4>8, <4>9 DEF CountsFit
      <4>11. /\ DOMAIN items = DOMAIN page /\ \A i \in DOMAIN items : items[i].user = page[i]
        <5>1. S \subseteq People
          BY <4>2 DEF Meeting
        <5> QED BY <5>1, <2>0, <4>1, <4>3, QueriedRows DEF Queried
      <4>12. Meeting(handler[h].sql.where)' = S
        BY <4>1, <4>2, <4>6, <4>7 DEF Meeting, Satisfies
      <4>13. PageFits(handler[h])'
        BY <4>1, <4>3, <4>7, <4>11, <4>12 DEF PageFits, Queried
      <4> QED BY <4>10, <4>13
    <3>3. CASE \E i \in DOMAIN handler[h].items : ReadCompany(h, i)
      <4>1. PICK i \in DOMAIN handler[h].items : ReadCompany(h, i)
        BY <3>3
      <4>2. PICK old : old = handler[h].items
        OBVIOUS
      <4>3. PICK named : named = companies[old[i].company]
        OBVIOUS
      <4>4. PICK items : items = [old EXCEPT ![i].named = named]
        OBVIOUS
      <4>5. PICK at : at = After(items)
        OBVIOUS
      <4>6. /\ handler'[h] = [handler[h] EXCEPT !.at = at, !.items = items]
            /\ handler[h].at = "companies" /\ people' = people
        BY <4>1, <4>2, <4>3, <4>4, <4>5, <2>3 DEF ReadCompany, Is
      <4>7. /\ handler'[h].items = items /\ handler'[h].query = handler[h].query
            /\ handler'[h].sql = handler[h].sql /\ handler'[h].counts = handler[h].counts
            /\ handler'[h].unchanged = handler[h].unchanged
        BY <4>6, <2>0 DEF IsRequest
      <4>8. CountsFit(handler[h]) /\ PageFits(handler[h]) /\ old \in Seq(ListedRow)
        BY <2>0, <2>4, <4>2, <4>6, <4>7 DEF AnswersFit, RequestFits
      <4>9. \A q, s : OfGroup(q, s)' = OfGroup(q, s)
        BY <4>6 DEF OfGroup, Satisfies
      <4>10. CountsFit(handler[h])'
        BY <4>6, <4>7, <4>8, <4>9 DEF CountsFit
      <4>11. DOMAIN items = DOMAIN old /\ \A k \in DOMAIN old : items[k].user = old[k].user
        <5>1. \A k \in DOMAIN old : old[k] \in ListedRow
          BY <4>8
        <5> QED BY <5>1, <4>4 DEF ListedRow
      <4>12. Meeting(handler[h].sql.where)' = Meeting(handler[h].sql.where)
        BY <4>6, <4>7 DEF Meeting, Satisfies
      <4>13. PageFits(handler[h])'
        BY <4>2, <4>6, <4>7, <4>8, <4>11, <4>12 DEF PageFits
      <4> QED BY <4>10, <4>13
    <3>4. CASE \E status \in Statuses : CountGroup(h, status)
      <4>1. PICK status \in Statuses : CountGroup(h, status)
        BY <3>4
      <4>2. PICK old : old = handler[h].counts
        OBVIOUS
      <4>3. PICK q : q = handler[h].query
        OBVIOUS
      <4>4. PICK n : n = Cardinality(OfGroup(q, status))
        OBVIOUS
      <4>5. PICK counts : counts = [s \in DOMAIN old \cup {status} |-> IF s = status THEN n ELSE old[s]]
        OBVIOUS
      <4>6. /\ handler'[h] = [handler[h] EXCEPT !.counts = counts]
            /\ handler[h].at = "statistics" /\ people' = people
        BY <4>1, <4>2, <4>3, <4>4, <4>5, <2>3 DEF CountGroup, Counted, Is, OfGroup
      <4>7. /\ handler'[h].at = "statistics" /\ handler'[h].counts = counts
            /\ handler'[h].query = q /\ handler'[h].unchanged = handler[h].unchanged
        BY <4>3, <4>6, <2>0 DEF IsRequest
      <4>8. CountsFit(handler[h])
        BY <4>3, <4>6, <4>7, <2>4 DEF AnswersFit
      <4>9. \A r, s : OfGroup(r, s)' = OfGroup(r, s)
        BY <4>6 DEF OfGroup, Satisfies
      <4>10. \A s \in DOMAIN counts : counts[s] = Cardinality(OfGroup(q, s))
        BY <4>2, <4>3, <4>4, <4>5, <4>8 DEF CountsFit
      <4>11. CountsFit(handler[h])'
        BY <4>7, <4>9, <4>10 DEF CountsFit
      <4>12. PageFits(handler[h])'
        BY <4>7 DEF PageFits
      <4> QED BY <4>11, <4>12
    <3>5. CASE handler'[h].at = "statistics" /\ DOMAIN handler'[h].counts = {}
      BY <3>5 DEF CountsFit, PageFits
    <3> QED BY <1>2, <2>4, <3>1, <3>2, <3>3, <3>4, <3>5, OwnStep
  <2> QED BY <2>1, <2>2, <2>4 DEF AnswersFit
<1> QED BY <1>1, <1>2, StepOfOne

(* The answers are right, always.                                           *)
LEMMA AnswersAlwaysFit == ListingsSpec => []AnswersFit
<1>1. ListingsInit => AnswersFit
  BY DEF ListingsInit, AnswersFit, Idle
<1> QED BY <1>1, AnswersFitNext, RequestsAlwaysFit, PTL DEF ListingsSpec

(* What a query with conditions of its own only asks for.                   *)
LEMMA MeetingOwn ==
    ASSUME NEW q \in UsersQuery
    PROVE  Meeting(andWhere(Unconditional, q)) = AskedFor(q)
<1>1. PICK where : where = andWhere(Unconditional, q)
  OBVIOUS
<1>2. /\ where.corporate <=> q.corporate
      /\ where.searches = {q.search}
      /\ where.groups = {q.group} \cap Statuses
  BY <1>1 DEF andWhere, Unconditional
<1>3. ASSUME NEW p \in People
      PROVE  Satisfies(p, where) <=>
                /\ people[p].registered /\ p \in q.search
                /\ q.corporate => people[p].company # Nobody
                /\ q.group \in Statuses => people[p].status = q.group
  BY <1>2 DEF Satisfies
<1> QED BY <1>1, <1>3 DEF Meeting, AskedFor

\* The page that a finished request shows, if its conditions are its own.
OwnPage(r, roster) ==
    LET page == Slice(Rows(AskedFor(r.query), roster), r.sql)
    IN  /\ Roster(roster) /\ DOMAIN r.items = DOMAIN page
        /\ \A i \in DOMAIN r.items : r.items[i].user = page[i]

(* What the invariants say of a request that found no other condition in    *)
(* the builder.                                                             *)
LEMMA OwnPageShown ==
    ASSUME RequestsFit, AllRowsAsked, AnswersFit, NEW h \in Handlers, ListedUsers(h),
           handler[h].sql.where = andWhere(Unconditional, handler[h].query), handler[h].unchanged
    PROVE  /\ handler[h].query \in UsersQuery /\ CountsFit(handler[h])
           /\ handler[h].at \in {"companies", "answered"}
           /\ Filters(handler[h])
           /\ \E roster \in Orders[handler[h].query.orderBy] : OwnPage(handler[h], roster)
<1>1. handler[h].query \in UsersQuery /\ handler[h].query \in scenario.users
      /\ handler[h].at \in {"companies", "answered"}
  BY DEF RequestsFit, Allowed, ListedUsers
<1>2. CountsFit(handler[h]) /\ PageFits(handler[h])
  BY <1>1 DEF AnswersFit
<1>3. Filters(handler[h])
  BY <1>1 DEF AllRowsAsked, RowsAsked
<1>4. Meeting(handler[h].sql.where) = AskedFor(handler[h].query)
  BY <1>1, MeetingOwn
<1>5. PICK roster \in Orders[handler[h].sql.orderBy] :
          LET page == Slice(Rows(Meeting(handler[h].sql.where), roster), handler[h].sql)
          IN  /\ Roster(roster) /\ DOMAIN handler[h].items = DOMAIN page
              /\ \A i \in DOMAIN handler[h].items : handler[h].items[i].user = page[i]
  BY <1>1, <1>2 DEF PageFits
<1>6. OwnPage(handler[h], roster)
  BY <1>4, <1>5 DEF OwnPage
<1>7. handler[h].sql.orderBy = handler[h].query.orderBy
  BY <1>3 DEF Filters
<1> QED BY <1>1, <1>2, <1>3, <1>5, <1>6, <1>7

\* Somebody is on the page if and only if it is the page of their place.
OwnPlace(h, p, roster) ==
    LET q == handler[h].query
        position == Cardinality(AheadOf(AskedFor(q), p, q.order, roster))
    IN  position \div PerPage(q) = Page(q) - 1
            <=> \E i \in DOMAIN handler[h].items :
                    /\ handler[h].items[i].user = p
                    /\ i = 1 + (position % PerPage(q))

(* A request lists its own page, in its own order.                          *)
LEMMA OwnPlaces ==
    ASSUME RequestsFit, AllRowsAsked, AnswersFit
    PROVE  OwnPageOfUsers
<1>l. SUFFICES ASSUME NEW h \in Handlers, ListedUsers(h),
                      handler[h].sql.where = andWhere(Unconditional, handler[h].query),
                      handler[h].unchanged
               PROVE  \E roster \in Orders[handler[h].query.orderBy] :
                          \A p \in AskedFor(handler[h].query) : OwnPlace(h, p, roster)
  BY DEF OwnPageOfUsers, OwnPlace, AheadOf
<1>m. PICK roster \in Orders[handler[h].query.orderBy] : OwnPage(handler[h], roster)
  BY <1>l, OwnPageShown
<1>n. Roster(roster)
  BY <1>m DEF OwnPage
<1>a. SUFFICES ASSUME NEW p \in AskedFor(handler[h].query)
               PROVE  OwnPlace(h, p, roster)
  OBVIOUS
<1>b. PICK q : q = handler[h].query
  OBVIOUS
<1>c. PICK items : items = handler[h].items
  OBVIOUS
<1>d. PICK position : position = Cardinality(AheadOf(AskedFor(q), p, q.order, roster))
  OBVIOUS
<1>e. SUFFICES position \div PerPage(q) = Page(q) - 1
                   <=> \E i \in DOMAIN items : /\ items[i].user = p
                                               /\ i = 1 + (position % PerPage(q))
  BY <1>b, <1>c, <1>d DEF OwnPlace
<1>1. q \in UsersQuery /\ Filters(handler[h]) /\ OwnPage(handler[h], roster)
  BY <1>l, <1>m, <1>b, OwnPageShown
<1>2. PICK sql : sql = handler[h].sql
  OBVIOUS
<1>3. /\ Page(q) \in Nat /\ Page(q) >= 1 /\ PerPage(q) \in Nat /\ PerPage(q) >= 1
      /\ Offset(q) \in Nat /\ Offset(q) = (Page(q) - 1) * PerPage(q)
  BY <1>1, PageNumbers DEF UsersQuery
<1>4. PICK size \in Nat, before \in Nat : size = PerPage(q) /\ before = Page(q) - 1 /\ size >= 1
  BY <1>3
<1>5. sql.order = q.order /\ sql.limit = size /\ sql.offset = before * size
  BY <1>1, <1>2, <1>3, <1>4, <1>b DEF Filters
<1>6. PICK S : S = AskedFor(q) /\ S \subseteq People
  BY DEF AskedFor
<1>f. p \in S
  BY <1>6, <1>a, <1>b
<1>7. PICK page : page = Slice(Rows(S, roster), sql)
  OBVIOUS
<1>8. DOMAIN items = DOMAIN page /\ \A i \in DOMAIN items : items[i].user = page[i]
  BY <1>1, <1>2, <1>6, <1>7, <1>b, <1>c DEF OwnPage
<1>9. sql.offset \in Nat /\ sql.limit \in Nat
  BY <1>1, <1>2, <1>3, <1>5 DEF Filters
<1>k. Places(S, sql, page, roster)
  BY <1>6, <1>7, <1>9, <1>n, PlaceOnPage
<1>10. /\ page \in Seq(S)
       /\ \A i \in DOMAIN page :
             i <= sql.limit /\ Cardinality(AheadOf(S, page[i], sql.order, roster)) = sql.offset + i - 1
  BY <1>k DEF Places
<1>g. Cardinality(AheadOf(S, p, sql.order, roster)) = position
  BY <1>d, <1>5, <1>6
<1>h. /\ position \in Nat
      /\ \A i \in 1..size : position = sql.offset + i - 1 =>
            i \in DOMAIN page /\ page[i] = p
  <2>1. /\ Cardinality(AheadOf(S, p, sql.order, roster)) \in 0..(Cardinality(S) - 1)
        /\ \A i \in 1..sql.limit :
              Cardinality(AheadOf(S, p, sql.order, roster)) = sql.offset + i - 1 =>
                  i \in DOMAIN page /\ page[i] = p
    BY <1>k, <1>f DEF Places
  <2>2. Cardinality(S) \in Nat
    BY <1>6, CardinalityOfPeople
  <2>3. position \in Nat
    BY <2>1, <2>2, <1>g
  <2> QED BY <2>1, <2>3, <1>5, <1>7, <1>g
<1>11. ASSUME position \div size = before
       PROVE  \E i \in DOMAIN items : items[i].user = p /\ i = 1 + (position % size)
  <2>1. PICK e : e = (position % size)
    OBVIOUS
  <2>2. e \in 0..(size - 1) /\ position = size * before + e
    <3>1. /\ (position % size) \in 0..(size - 1)
          /\ position = size * (position \div size) + (position % size)
      BY <1>4, <1>h, Division
    <3> QED BY <3>1, <1>11, <2>1
  <2>3. 1 + e \in 1..size /\ position = sql.offset + (1 + e) - 1
    BY <2>2, <1>4, <1>5
  <2>4. 1 + e \in DOMAIN page /\ page[1 + e] = p
    BY <2>3, <1>h
  <2> QED BY <2>1, <2>4, <1>8
<1>12. ASSUME NEW i \in DOMAIN items, items[i].user = p
       PROVE  position \div size = before
  <2>1. i \in DOMAIN page /\ page[i] = p /\ i \in Nat /\ i >= 1
    <3>1. DOMAIN page = 1..Len(page) /\ Len(page) \in Nat
      BY <1>10
    <3> QED BY <3>1, <1>8, <1>12
  <2>2. i <= size /\ position = before * size + (i - 1)
    BY <2>1, <1>5, <1>g, <1>10, <1>4
  <2>3. PICK e \in 0..(size - 1) : e = i - 1
    BY <2>1, <2>2, <1>4
  <2>4. position = size * before + e
    BY <2>2, <2>3, <1>4
  <2> QED BY <2>3, <2>4, <1>4, <1>h, Quotient
<1> QED BY <1>4, <1>11, <1>12

(* With only its own conditions in the builder, a request lists the page of *)
(* its number, in an order by its column, whoever else uses the builder.    *)
THEOREM OwnPages == ListingsSpec => []OwnPageOfUsers
<1> QED BY OwnPlaces, RequestsAlwaysFit, RowsAlwaysAsked, AnswersAlwaysFit, PTL

(* The counts that a request adds up, or the one that it takes, are of      *)
(* those that it asks for.                                                  *)
LEMMA CountOfAll ==
    ASSUME RequestsFit, NEW h \in Handlers, NEW q \in UsersQuery, q = handler[h].query,
           CountsFit(handler[h]), handler[h].at \in {"companies", "answered"},
           UsersPagesCount(h) # NaN
    PROVE  UsersPagesCount(h) = PagesCount(Cardinality(AskedFor(q)), q)
<1>1. PICK counts : counts = handler[h].counts
  OBVIOUS
<1>2. DOMAIN counts = Statuses /\ \A s \in Statuses : counts[s] = Cardinality(OfGroup(q, s))
  BY <1>1 DEF CountsFit
<1>3. people \in [People -> Person]
  BY DEF RequestsFit, ListingsTypeOK
<1>4. CASE q.group = ""
  <2>1. PICK A : A = AskedFor(q)
    OBVIOUS
  <2>2. PICK g : g = [p \in People |-> people[p].status]
    OBVIOUS
  <2>3. IsFiniteSet(A) /\ A \subseteq People
    BY <2>1, PeopleFinite, FS_Subset DEF AskedFor
  <2>4. q.group \notin Statuses
    BY <1>4, ListingAssumption
  <2>5. ASSUME NEW s \in Statuses
        PROVE  OfGroup(q, s) = {a \in A : g[a] = s}
    <3>1. PICK r : r = [q EXCEPT !.group = s]
      OBVIOUS
    <3>2. r \in UsersQuery /\ r.group = s /\ r.search = q.search /\ (r.corporate <=> q.corporate)
      BY <3>1 DEF UsersQuery
    <3>3. OfGroup(q, s) = AskedFor(r)
      BY <3>1, <3>2, MeetingOwn DEF OfGroup, Meeting
    <3> QED BY <3>2, <3>3, <2>1, <2>2, <2>4 DEF AskedFor
  <2>9. \A s \in Statuses : counts[s] = Cardinality(OfKind(A, g, s))
    BY <1>2, <2>5 DEF OfKind
  <2>10. IsFiniteSet(Statuses)
    BY ListingAssumption
  <2>7. \A a \in A : g[a] \in Statuses
    BY <1>3, <2>2, <2>3 DEF Person
  <2>6. SumOver(counts, Statuses) = Cardinality(A)
    BY <2>3, <2>7, <2>9, <2>10, SumOfCounts
  <2>8. TotalCount(counts) = SumOver(counts, Statuses)
    BY <1>2 DEF TotalCount
  <2>11. UsersPagesCount(h) = PagesCount(TotalCount(counts), q)
    BY <1>1, <1>4, <2>4 DEF UsersPagesCount
  <2>12. TotalCount(counts) = Cardinality(A)
    BY <2>6, <2>8
  <2> QED BY <2>1, <2>11, <2>12
<1>5. CASE q.group \in Statuses \ {"payment_required"}
  <2>1. q = [q EXCEPT !.group = q.group]
    BY DEF UsersQuery
  <2>2. OfGroup(q, q.group) = AskedFor(q)
    BY <2>1, MeetingOwn DEF OfGroup, Meeting
  <2>3. q.group # ""
    BY <1>5, ListingAssumption
  <2> QED BY <1>1, <1>2, <1>5, <2>2, <2>3 DEF UsersPagesCount
<1> QED BY <1>4, <1>5 DEF UsersPagesCount

(* The page is empty if and only if there is no page of its number.         *)
LEMMA PageNotEmpty ==
    ASSUME RequestsFit, AllRowsAsked, AnswersFit
    PROVE  PagesMatchTheList
<1> SUFFICES ASSUME NEW h \in Handlers, ListedUsers(h), NEW q, q = handler[h].query,
                    handler[h].sql.where = andWhere(Unconditional, q), handler[h].unchanged,
                    UsersPagesCount(h) # NaN
             PROVE  (handler[h].items # <<>>) <=> Page(q) <= UsersPagesCount(h)
  BY DEF PagesMatchTheList
<1>a. PICK roster \in Orders[q.orderBy] : OwnPage(handler[h], roster)
  BY OwnPageShown
<1>1. /\ q \in UsersQuery /\ Filters(handler[h]) /\ CountsFit(handler[h])
      /\ handler[h].at \in {"companies", "answered"}
  BY OwnPageShown
<1>2. PICK sql : sql = handler[h].sql
  OBVIOUS
<1>3. /\ Page(q) \in Nat /\ Page(q) >= 1 /\ PerPage(q) \in Nat /\ PerPage(q) >= 1
      /\ Offset(q) \in Nat /\ Offset(q) = (Page(q) - 1) * PerPage(q)
  BY <1>1, PageNumbers DEF UsersQuery
<1>4. sql.limit = PerPage(q) /\ sql.offset = Offset(q)
  BY <1>1, <1>2 DEF Filters
<1>5. PICK S : S = AskedFor(q) /\ S \subseteq People
  BY DEF AskedFor
<1>6. PICK n \in Nat : n = Cardinality(S)
  BY <1>5, CardinalityOfPeople
<1>7. PICK page : page = Slice(Rows(S, roster), sql)
  OBVIOUS
<1>8. /\ page \in Seq(S)
      /\ Len(page) = IF sql.offset < PageEnd(S, sql) THEN PageEnd(S, sql) - sql.offset ELSE 0
      /\ PageEnd(S, sql) \in Nat
  BY <1>3, <1>4, <1>5, <1>7, <1>a, SliceRows DEF OwnPage
<1>9. sql.offset < PageEnd(S, sql) <=> Offset(q) < n
  BY <1>3, <1>4, <1>6 DEF PageEnd
<1>10. DOMAIN page # {} <=> Offset(q) < n
  <2>1. DOMAIN page = 1..Len(page)
    BY <1>8
  <2> QED BY <2>1, <1>3, <1>4, <1>8, <1>9, SMTT(30)
<1>11. handler[h].items # <<>> <=> Offset(q) < n
  <2>1. handler[h].items \in Seq(ListedRow)
    BY <1>1 DEF RequestsFit, RequestFits, ListedUsers
  <2>2. DOMAIN handler[h].items = DOMAIN page
    BY <1>a, <1>2, <1>5, <1>7 DEF OwnPage
  <2>4. PICK items \in Seq(ListedRow) : items = handler[h].items
    BY <2>1
  <2>5. items = <<>> <=> DOMAIN items = {}
    <3>1. items = <<>> <=> Len(items) = 0
      BY <2>4, EmptySeq
    <3>2. DOMAIN items = 1..Len(items) /\ Len(items) \in Nat
      BY <2>4
    <3>3. 1..Len(items) = {} <=> Len(items) = 0
      <4>1. \A len \in Nat : 1..len = {} <=> len = 0
        <5>1. ASSUME NEW len \in Nat, len # 0 PROVE 1 \in 1..len
          BY <5>1
        <5>2. 1..0 = {}
          OBVIOUS
        <5> QED BY <5>1, <5>2
      <4> QED BY <3>2, <4>1
    <3> QED BY <3>1, <3>2, <3>3
  <2>3. handler[h].items = <<>> <=> DOMAIN handler[h].items = {}
    BY <2>4, <2>5
  <2> QED BY <2>2, <2>3, <1>10
<1>12. UsersPagesCount(h) = (n + PerPage(q) - 1) \div PerPage(q)
  BY <1>1, <1>5, <1>6, CountOfAll DEF PagesCount
<1>13. Offset(q) < n <=> Page(q) <= (n + PerPage(q) - 1) \div PerPage(q)
  BY <1>3, PageExists
<1> QED BY <1>11, <1>12, <1>13

(* The counts and the list agree on which pages there are.                  *)
THEOREM PagesAgree == ListingsSpec => []PagesMatchTheList
<1> QED BY PageNotEmpty, RequestsAlwaysFit, RowsAlwaysAsked, AnswersAlwaysFit, PTL
=============================================================================
