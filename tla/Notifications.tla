---------------------------- MODULE Notifications ----------------------------
(***************************************************************************)
(* Notifications of users: the table that NotificationsService reads and   *)
(* writes, and the sockets by which NotificationsGateway tells the clients *)
(* of a user.  Requests overlap at every await; what runs between two      *)
(* awaits is one action.  The mail that may go with a notification is left *)
(* out.                                                                    *)
(***************************************************************************)
EXTENDS Naturals, Sequences, FiniteSets

CONSTANTS
    Users, Sockets, Handlers,
    None,                   \* undefined
    PerPage,                \* rows on a page of the listing
    MaxOld,                 \* rows there may be when the model starts
    MaxRows,                \* rows the table has room for
    Budgets                 \* what the environment may do, see Budget

(* Calls that write, listings, connections and restarts there may be.       *)
Budget == [writes : Nat, lists : Nat, connections : Nat, restarts : Nat]

ASSUME BudgetsAssumption == Budgets \subseteq Budget

ASSUME RoomAssumption == MaxOld \in Nat /\ MaxRows \in Nat /\ MaxOld <= MaxRows

ASSUME PageAssumption == PerPage \in Nat \ {0}

VARIABLES
    rows,           \* the table, in the order of ids and of createdAt
    sockets,        \* every connection there ever is, each used once
    connectedSockets,
    handlers,
    left            \* what is left of the budget

vars == <<rows, sockets, connectedSockets, handlers, left>>

----------------------------------------------------------------------------

Ids == 1..MaxRows

\* `read` says whether readAt is a date or null.
Row == [user : Users, read : BOOLEAN]

(* `user` is the one the token belongs to, known once authSocket is done.   *)
(* `from` is the number of rows at that moment; `got` and `told` are the    *)
(* rows that new_notification and notifications_are_read named; `late` are  *)
(* those that only a message {all: true} named, and that were saved after   *)
(* the update it reports (no part of the program).                          *)
Socket == [state : {"unused", "connecting", "left", "open", "closed"},
           user : Users \cup {None}, from : Nat,
           got : SUBSET Ids, told : SUBSET Ids, late : SUBSET Ids]

UnusedSocket == [state |-> "unused", user |-> None, from |-> 0,
                 got |-> {}, told |-> {}, late |-> {}]

\* What a client was told is forgotten with the connection.
ClosedSocket == [UnusedSocket EXCEPT !.state = "closed"]

\* A listing is asked for a page of a group, or for the page on which a
\* notification is; nothing keeps a request from naming all three.
Query == [asked : Ids \cup {None}, group : {"all", "read", "unread"},
          page : {None, 1, 2}]

(* Of a call: `copies` are the entities it has looked up, and whether each  *)
(* has a date; `todo` the users still to be sent a row, or the rows whose   *)
(* save is still to be done; `out` the rows still to be told of.  Of a      *)
(* listing: what its queries found, and the rows as they were at first.     *)
IdleHandler ==
    [at |-> "idle", user |-> None, copies |-> <<>>, todo |-> {}, out |-> {},
     query |-> None, unread |-> None, read |-> None, skip |-> None,
     items |-> {}, before |-> <<>>]

RowsOf(u) == {r \in DOMAIN rows : rows[r].user = u}
ReadRows(u) == {r \in RowsOf(u) : rows[r].read}
InGroup(u, group) ==
    CASE group = "all" -> RowsOf(u)
      [] group = "read" -> ReadRows(u)
      [] group = "unread" -> RowsOf(u) \ ReadRows(u)

At(h, place) == handlers[h].at = place

\* An endpoint is called; the parameters are the locals of the call.
Begin(h, locals) ==
    /\ At(h, "idle")
    /\ handlers' = [handlers EXCEPT ![h] = locals]

Spend(what) ==
    /\ left[what] > 0
    /\ left' = [left EXCEPT ![what] = @ - 1]

\* The call has done one of its parts, and ends with the last one.
Continue(h, locals) ==
    handlers' = [handlers EXCEPT ![h] =
        IF locals.todo = {} /\ locals.out = {} THEN IdleHandler ELSE locals]

----------------------------------------------------------------------------
(* handleConnection and handleDisconnect.  A socket that leaves while       *)
(* authSocket is awaited has no user yet: handleDisconnect does nothing,    *)
(* and handleConnection adds the socket afterwards.                         *)

Connect(s, u) ==
    /\ sockets[s].state = "unused"
    /\ sockets' = [sockets EXCEPT ![s].state = "connecting", ![s].user = u]
    /\ Spend("connections")
    /\ UNCHANGED <<rows, connectedSockets, handlers>>

\* Mutant: the array of the user is always made anew.
AuthenticatedAnew(s) ==
    /\ sockets[s].state \in {"connecting", "left"}
    /\ connectedSockets' = [connectedSockets EXCEPT ![sockets[s].user] = {s}]
    /\ sockets' = IF sockets[s].state = "left" THEN sockets
                  ELSE [sockets EXCEPT ![s].state = "open", ![s].from = Len(rows)]
    /\ UNCHANGED <<rows, handlers, left>>

Authenticated(s) ==
    /\ sockets[s].state \in {"connecting", "left"}
    /\ s \notin connectedSockets[sockets[s].user]
    /\ connectedSockets' = [connectedSockets EXCEPT ![sockets[s].user] = @ \cup {s}]
    /\ sockets' = IF sockets[s].state = "left" THEN sockets
                  ELSE [sockets EXCEPT ![s].state = "open", ![s].from = Len(rows)]
    /\ UNCHANGED <<rows, handlers, left>>

AuthenticationFails(s) ==
    /\ sockets[s].state \in {"connecting", "left"}
    /\ s \notin connectedSockets[sockets[s].user]
    /\ sockets' = [sockets EXCEPT ![s] = ClosedSocket]
    /\ UNCHANGED <<rows, connectedSockets, handlers, left>>

\* Mutant: a socket that closes stays in the array.
DisconnectKept(s) ==
    /\ sockets[s].state = "open"
    /\ sockets' = [sockets EXCEPT ![s] = ClosedSocket]
    /\ UNCHANGED <<rows, connectedSockets, handlers, left>>

Disconnect(s) ==
    /\ sockets[s].state = "open"
    /\ sockets' = [sockets EXCEPT ![s] = ClosedSocket]
    /\ connectedSockets' = [connectedSockets EXCEPT ![sockets[s].user] = @ \ {s}]
    /\ UNCHANGED <<rows, handlers, left>>

DisconnectEarly(s) ==
    /\ sockets[s].state = "connecting"
    /\ sockets' = [sockets EXCEPT ![s].state = "left"]
    /\ UNCHANGED <<rows, connectedSockets, handlers, left>>

\* sendNotification and sendReadStatus of the gateway: only clients that are
\* still there receive what is emitted.
Listening(u) == {s \in connectedSockets[u] : sockets[s].state = "open"}

EmitNew(r) ==
    sockets' = [s \in Sockets |->
        IF s \in Listening(rows[r].user) THEN [sockets[s] EXCEPT !.got = @ \cup {r}]
                                         ELSE sockets[s]]

EmitRead(r) ==
    sockets' = [s \in Sockets |->
        IF s \in Listening(rows[r].user)
        THEN [sockets[s] EXCEPT !.told = @ \cup {r}, !.late = @ \ {r}]
        ELSE sockets[s]]

\* {all: true}: the client takes every notification of the user for read.
EmitAllRead(u, updated) ==
    sockets' = [s \in Sockets |->
        IF s \in Listening(u)
        THEN [sockets[s] EXCEPT
                 !.told = @ \cup RowsOf(u),
                 !.late = (@ \ updated) \cup (RowsOf(u) \ (sockets[s].told \cup updated))]
        ELSE sockets[s]]

----------------------------------------------------------------------------
(* sendNotification, to one user, and sendNotificationToAllUsers, whose     *)
(* callbacks for the users run side by side: a row is saved, then emitted.  *)

Send(h, U) ==
    /\ Spend("writes")
    /\ Begin(h, [IdleHandler EXCEPT !.at = "send", !.todo = U])
    /\ UNCHANGED <<rows, sockets, connectedSockets>>

SaveNew(h, u) ==
    /\ At(h, "send")
    /\ u \in handlers[h].todo
    /\ Len(rows) < MaxRows
    /\ rows' = Append(rows, [user |-> u, read |-> FALSE])
    /\ Continue(h, [handlers[h] EXCEPT !.todo = @ \ {u},
                                       !.out = @ \cup {Len(rows) + 1}])
    /\ UNCHANGED <<sockets, connectedSockets, left>>

TellNew(h, r) ==
    /\ At(h, "send")
    /\ r \in handlers[h].out
    /\ EmitNew(r)
    /\ Continue(h, [handlers[h] EXCEPT !.out = @ \ {r}])
    /\ UNCHANGED <<rows, connectedSockets, left>>

----------------------------------------------------------------------------
(* readNotification and readPageNotifications: the rows are looked up; from *)
(* then on the call has its own copies of them.  readPage looks them up by  *)
(* id alone.  Its callbacks, one for each row, have dated all copies before *)
(* the first save begins; every one saves the whole list, over whatever has *)
(* become of the rows.                                                      *)

LookUp(h, ids) ==
    /\ Spend("writes")
    /\ Begin(h, [IdleHandler EXCEPT !.at = "date",
                                    !.copies = [r \in ids |-> rows[r].read]])
    /\ UNCHANGED <<rows, sockets, connectedSockets>>

ReadOne(h, u, r) ==
    /\ r \in RowsOf(u)
    /\ LookUp(h, {r})

ReadPage(h, ids) ==
    /\ ids # {}
    /\ LookUp(h, ids)

\* Mutant: a save begins when only the row of its callback has its date.
DateOne(h) ==
    /\ At(h, "date")
    /\ \E r \in DOMAIN handlers[h].copies :
          handlers' = [handlers EXCEPT
              ![h].at = "read",
              ![h].copies = [q \in DOMAIN handlers[h].copies |->
                                handlers[h].copies[q] \/ q = r],
              ![h].todo = DOMAIN handlers[h].copies]
    /\ UNCHANGED <<rows, sockets, connectedSockets, left>>

Date(h) ==
    /\ At(h, "date")
    /\ handlers' = [handlers EXCEPT
           ![h].at = "read",
           ![h].copies = [q \in DOMAIN handlers[h].copies |-> TRUE],
           ![h].todo = DOMAIN handlers[h].copies]
    /\ UNCHANGED <<rows, sockets, connectedSockets, left>>

SaveRead(h, r) ==
    /\ At(h, "read")
    /\ r \in handlers[h].todo
    /\ rows' = [q \in DOMAIN rows |->
                   IF q \in DOMAIN handlers[h].copies
                   THEN [rows[q] EXCEPT !.read = handlers[h].copies[q]]
                   ELSE rows[q]]
    /\ Continue(h, [handlers[h] EXCEPT !.todo = @ \ {r}, !.out = @ \cup {r}])
    /\ UNCHANGED <<sockets, connectedSockets, left>>

\* Mutant: the clients are told without waiting for the save.
TellReadEarly(h, r) ==
    /\ At(h, "read")
    /\ r \in handlers[h].todo \cup handlers[h].out
    /\ EmitRead(r)
    /\ Continue(h, [handlers[h] EXCEPT !.out = @ \ {r}])
    /\ UNCHANGED <<rows, connectedSockets, left>>

TellRead(h, r) ==
    /\ At(h, "read")
    /\ r \in handlers[h].out
    /\ EmitRead(r)
    /\ Continue(h, [handlers[h] EXCEPT !.out = @ \ {r}])
    /\ UNCHANGED <<rows, connectedSockets, left>>

(* readAllNotifications: one update of the rows there are, then a message   *)
(* that names none of them.                                                 *)

ReadAll(h, u) ==
    /\ Spend("writes")
    /\ Begin(h, [IdleHandler EXCEPT !.at = "readAll", !.user = u, !.out = RowsOf(u)])
    /\ rows' = [r \in DOMAIN rows |-> IF r \in RowsOf(u)
                                      THEN [rows[r] EXCEPT !.read = TRUE]
                                      ELSE rows[r]]
    /\ UNCHANGED <<sockets, connectedSockets>>

TellAllRead(h) ==
    /\ At(h, "readAll")
    /\ EmitAllRead(handlers[h].user, handlers[h].out)
    /\ handlers' = [handlers EXCEPT ![h] = IdleHandler]
    /\ UNCHANGED <<rows, connectedSockets, left>>

----------------------------------------------------------------------------
(* getNotifications: two counts side by side; for a notification asked for, *)
(* the number of newer ones; then the rows of the page.                     *)

List(h, u, query) ==
    /\ Spend("lists")
    /\ Begin(h, [IdleHandler EXCEPT
           !.at = "count", !.user = u, !.query = query,
           !.before = [r \in RowsOf(u) |-> rows[r].read]])
    /\ UNCHANGED <<rows, sockets, connectedSockets>>

Listing(h, locals) ==
    /\ handlers' = [handlers EXCEPT ![h] = locals]
    /\ UNCHANGED <<rows, sockets, connectedSockets, left>>

CountUnread(h) ==
    /\ At(h, "count")
    /\ handlers[h].unread = None
    /\ Listing(h, [handlers[h] EXCEPT
           !.unread = Cardinality(InGroup(handlers[h].user, "unread")),
           !.at = IF handlers[h].read = None THEN "count" ELSE "skip"])

CountRead(h) ==
    /\ At(h, "count")
    /\ handlers[h].read = None
    /\ Listing(h, [handlers[h] EXCEPT
           !.read = Cardinality(InGroup(handlers[h].user, "read")),
           !.at = IF handlers[h].unread = None THEN "count" ELSE "skip"])

\* The page asked for, by whoever names no notification.
PageAsked(query) == IF query.page = None THEN 1 ELSE query.page

Newer(h) == {r \in RowsOf(handlers[h].user) : r > handlers[h].query.asked}

\* Mutant: the count of the newer ones is taken for the place of the page.
SkipUnaligned(h) ==
    IF handlers[h].query.asked = None
    THEN (PageAsked(handlers[h].query) - 1) * PerPage
    ELSE Cardinality(Newer(h))

\* Mutant: the difference is taken the wrong way round.
SkipSwapped(h) ==
    IF handlers[h].query.asked = None
    THEN (PageAsked(handlers[h].query) - 1) * PerPage
    ELSE (Cardinality(Newer(h)) % PerPage) - Cardinality(Newer(h))

Skip(h) ==
    IF handlers[h].query.asked = None
    THEN (PageAsked(handlers[h].query) - 1) * PerPage
    ELSE Cardinality(Newer(h)) - (Cardinality(Newer(h)) % PerPage)

FindSkip(h) ==
    /\ At(h, "skip")
    /\ Listing(h, [handlers[h] EXCEPT !.at = "find", !.skip = Skip(h)])

\* ORDER BY "createdAt" DESC OFFSET skip LIMIT take
Newest(R, skip, take) ==
    {r \in R : LET newer == Cardinality({q \in R : q > r})
               IN  skip <= newer /\ newer < skip + take}

\* For a notification asked for, the group is not looked at.
Group(h) == IF handlers[h].query.asked = None THEN handlers[h].query.group ELSE "all"

Found(h) == InGroup(handlers[h].user, Group(h))

FindItems(h) ==
    /\ At(h, "find")
    /\ Listing(h, [handlers[h] EXCEPT
           !.at = "answer", !.items = Newest(Found(h), handlers[h].skip, PerPage)])

Answer(h) ==
    /\ At(h, "answer")
    /\ Listing(h, IdleHandler)

Total(h) == handlers[h].read + handlers[h].unread

\* page and pagesCount of the answer: a page that is asked for is repeated,
\* also when the rows are those of the page of a notification.
Ceil(n) == (n + PerPage - 1) \div PerPage
PageOfItems(h) == Ceil(handlers[h].skip) + 1
Page(h) == IF handlers[h].query.page # None \/ handlers[h].query.asked = None
           THEN PageAsked(handlers[h].query)
           ELSE PageOfItems(h)
PagesCount(h) ==
    Ceil(CASE Group(h) = "all" -> Total(h)
           [] Group(h) = "read" -> handlers[h].read
           [] Group(h) = "unread" -> handlers[h].unread)

----------------------------------------------------------------------------

Init ==
    /\ \E n \in 0..MaxOld : rows \in [1..n -> Row]
    /\ sockets = [s \in Sockets |-> UnusedSocket]
    /\ connectedSockets = [u \in Users |-> {}]
    /\ handlers = [h \in Handlers |-> IdleHandler]
    /\ left \in Budgets

\* The process restarts: calls and connections are lost.
Restart ==
    /\ Spend("restarts")
    /\ handlers' = [h \in Handlers |-> IdleHandler]
    /\ connectedSockets' = [u \in Users |-> {}]
    /\ sockets' = [s \in Sockets |->
                      IF sockets[s].state = "unused" THEN sockets[s]
                      ELSE ClosedSocket]
    /\ UNCHANGED rows

SocketStep(s) ==
    \/ \E u \in Users : Connect(s, u)
    \/ Authenticated(s) \/ AuthenticationFails(s)
    \/ Disconnect(s) \/ DisconnectEarly(s)

Request(h) ==
    \/ \E u \in Users :
          \/ Send(h, {u})
          \/ \E r \in DOMAIN rows : ReadOne(h, u, r)
          \/ ReadAll(h, u)
          \/ \E q \in Query : List(h, u, q)
    \/ Send(h, Users)
    \/ \E ids \in SUBSET DOMAIN rows : ReadPage(h, ids)

Step(h) ==
    \/ \E u \in Users : SaveNew(h, u)
    \/ \E r \in DOMAIN rows : TellNew(h, r) \/ SaveRead(h, r) \/ TellRead(h, r)
    \/ Date(h) \/ TellAllRead(h)
    \/ CountUnread(h) \/ CountRead(h) \/ FindSkip(h) \/ FindItems(h) \/ Answer(h)

Next ==
    \/ \E s \in Sockets : SocketStep(s)
    \/ \E h \in Handlers : Request(h) \/ Step(h)
    \/ Restart

Spec == Init /\ [][Next]_vars

----------------------------------------------------------------------------
\* Properties.

Place == {"idle", "send", "date", "read", "readAll", "count", "skip", "find", "answer"}

Counted == Nat \cup {None}

\* A flag for each of some rows.
Flags == UNION {[R -> BOOLEAN] : R \in SUBSET Ids}

Call ==
    [at : Place, user : Users \cup {None}, copies : Flags,
     todo : SUBSET (Users \cup Ids), out : SUBSET Ids,
     query : Query \cup {None}, unread : Counted, read : Counted, skip : Counted,
     items : SUBSET Ids, before : Flags]

TypeOK ==
    /\ rows \in Seq(Row) /\ Len(rows) <= MaxRows
    /\ sockets \in [Sockets -> Socket]
    /\ connectedSockets \in [Users -> SUBSET Sockets]
    /\ handlers \in [Handlers -> Call]
    /\ left \in Budget

\* A client that is told that a notification is read can rely on it: the row
\* is read in the table, whatever else reads, sends or saves it meanwhile.
\* {all: true} is emitted an await later than the update it reports: of the
\* notifications saved in between, and of those alone, it may be wrong.
ToldIsRead ==
    \A s \in Sockets : \A r \in sockets[s].told \ sockets[s].late : rows[r].read

\* Nothing makes a notification unread again: not a list of entities that
\* was looked up, without their dates, before another call read one of them,
\* and is saved over it as many times as it is long.
ReadIsFinal ==
    [][\A r \in DOMAIN rows : rows[r].read => rows'[r].read]_rows

\* A client that stays connected misses nothing: every notification of its
\* user saved since it was registered has been emitted to it, or a call is
\* about to.
NothingMissed ==
    \A s \in Sockets : sockets[s].state = "open" =>
        \A r \in RowsOf(sockets[s].user) :
            r > sockets[s].from =>
                \/ r \in sockets[s].got
                \/ \E h \in Handlers : At(h, "send") /\ r \in handlers[h].out

\* The arrays hold the sockets that are connected, and besides them only such
\* as left before handleDisconnect could know their user.
OnlyEarlyLeaversStay ==
    \A u \in Users : \A s \in connectedSockets[u] :
        /\ sockets[s].user = u
        /\ sockets[s].state \in {"open", "left"}

\* With no row of the user added or read since the call began, the rows of
\* the answer are a page of the group, by the number that the answer gives it,
\* no page is past pagesCount unless it is asked for, and a notification of
\* the user that is asked for is among them.  A request that names both a
\* notification and a page gets the page of the notification, with the number
\* it has named.
RightPage ==
    \A h \in Handlers :
        LET call == handlers[h]
            now == [r \in RowsOf(call.user) |-> rows[r].read]
            both == call.query.asked # None /\ call.query.page # None
            page == IF both THEN PageOfItems(h) ELSE Page(h)
        IN  (At(h, "answer") /\ call.before = now) =>
                /\ Total(h) = Cardinality(RowsOf(call.user))
                /\ \A r \in Found(h) :
                      r \in call.items <=>
                          page = Cardinality({q \in Found(h) : q > r})
                                        \div PerPage + 1
                /\ call.items # {} => page <= PagesCount(h)
                /\ call.query.asked # None /\ call.query.asked \in RowsOf(call.user) =>
                      call.query.asked \in call.items
=============================================================================
