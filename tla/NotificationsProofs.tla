------------------------- MODULE NotificationsProofs -------------------------
(* Proofs about notifications, for any users, sockets, rows and any number   *)
(* of calls in flight.                                                       *)
EXTENDS Notifications, TLAPS, SequenceTheorems, FiniteSetTheorems

(* A call that counts or lists knows what it was asked; one that saves       *)
(* copies has dated them all.                                                *)
Ready(call) ==
    /\ call.at \in {"count", "skip", "find", "answer"} => call.query \in Query
    /\ call.at = "read" => \A r \in DOMAIN call.copies : call.copies[r] = TRUE

CallsReady == \A h \in Handlers : Ready(handlers[h])

TypeInv == TypeOK /\ CallsReady

----------------------------------------------------------------------------
(* The table and its rows.                                                   *)

LEMMA TableOfRows ==
  ASSUME TypeOK
  PROVE  /\ Len(rows) \in 0..MaxRows
         /\ DOMAIN rows = 1..Len(rows)
         /\ DOMAIN rows \subseteq Ids
         /\ IsFiniteSet(DOMAIN rows)
         /\ \A r \in DOMAIN rows : rows[r] \in Row
<1>1. Len(rows) \in Nat /\ DOMAIN rows = 1..Len(rows)
  BY LenProperties DEF TypeOK
<1>2. IsFiniteSet(1..Len(rows))
  BY <1>1, FS_Interval
<1>3. \A r \in DOMAIN rows : rows[r] \in Row
  BY <1>1, ElementOfSeq DEF TypeOK
<1>4. QED
  BY <1>1, <1>2, <1>3, RoomAssumption DEF TypeOK, Ids

LEMMA CountedRows ==
  ASSUME TypeOK, NEW R, R \subseteq DOMAIN rows
  PROVE  IsFiniteSet(R) /\ Cardinality(R) \in Nat
<1>1. IsFiniteSet(R)
  BY TableOfRows, FS_Subset
<1>2. QED
  BY <1>1, FS_CardinalityType

LEMMA GroupsAreRows ==
  ASSUME NEW u, NEW group \in {"all", "read", "unread"}
  PROVE  InGroup(u, group) \subseteq DOMAIN rows
<1>1. CASE group = "all"
  BY <1>1 DEF InGroup, RowsOf
<1>2. CASE group = "read"
  BY <1>2 DEF InGroup, RowsOf, ReadRows
<1>3. CASE group = "unread"
  BY <1>3 DEF InGroup, RowsOf, ReadRows
<1>4. QED
  BY <1>1, <1>2, <1>3

(* A table whose rows are changed in place is a table again.                 *)
LEMMA RowsRewritten ==
  ASSUME TypeOK, NEW f, f = [q \in DOMAIN rows |-> f[q]],
         \A q \in DOMAIN rows : f[q] \in Row
  PROVE  f \in Seq(Row) /\ Len(f) = Len(rows) /\ DOMAIN f = DOMAIN rows
<1>1. DOMAIN rows = 1..Len(rows) /\ Len(rows) \in Nat
  BY TableOfRows
<1>2. f \in [1..Len(rows) -> Row]
  BY <1>1
<1>3. f \in Seq(Row)
  BY <1>1, <1>2, SeqDef
<1>4. QED
  BY <1>1, <1>2, <1>3, LenProperties

LEMMA RowAdded ==
  ASSUME TypeOK, Len(rows) < MaxRows, NEW row \in Row
  PROVE  LET table == Append(rows, row)
         IN  /\ table \in Seq(Row)
             /\ Len(table) = Len(rows) + 1 /\ Len(table) \in Ids
             /\ DOMAIN table = DOMAIN rows \cup {Len(table)}
             /\ \A q \in DOMAIN rows : table[q] = rows[q]
             /\ table[Len(table)] = row
<1> DEFINE table == Append(rows, row)
<1>1. /\ table \in Seq(Row)
      /\ Len(table) = Len(rows) + 1
      /\ \A i \in 1..Len(rows) : table[i] = rows[i]
      /\ table[Len(rows) + 1] = row
  BY AppendProperties DEF TypeOK
<1>2. DOMAIN table = 1..Len(table) /\ Len(rows) \in Nat /\ DOMAIN rows = 1..Len(rows)
  BY <1>1, LenProperties, TableOfRows
<1>3. Len(rows) + 1 \in Ids
  BY <1>2, RoomAssumption DEF Ids
<1>4. 1..(Len(rows) + 1) = 1..Len(rows) \cup {Len(rows) + 1}
  BY <1>2
<1>5. QED
  BY <1>1, <1>2, <1>3, <1>4

----------------------------------------------------------------------------
(* Types.                                                                    *)

LEMMA IdleIsCall == IdleHandler \in Call /\ IdleHandler.at = "idle"
<1>1. <<>> \in [{} -> BOOLEAN]
  OBVIOUS
<1>2. <<>> \in Flags
  BY <1>1 DEF Flags
<1>3. QED
  BY <1>2 DEF IdleHandler, Call, Place, Counted

(* A step of a call: the calls keep their types when the one that moved does. *)
LEMMA CallMoved ==
  ASSUME TypeInv, NEW h \in Handlers, NEW call \in Call,
         Ready(call),
         handlers' = [handlers EXCEPT ![h] = call]
  PROVE  handlers' \in [Handlers -> Call] /\ CallsReady'
BY DEF TypeInv, TypeOK, CallsReady

LEMMA IdleIsReady == Ready(IdleHandler)
BY DEF IdleHandler, Ready

LEMMA ContinuedCall ==
  ASSUME TypeInv, NEW h \in Handlers, NEW call \in Call,
         Ready(call),
         Continue(h, call)
  PROVE  handlers' \in [Handlers -> Call] /\ CallsReady'
<1>1. CASE call.todo = {} /\ call.out = {}
  BY <1>1, IdleIsCall, IdleIsReady, CallMoved DEF Continue
<1>2. CASE ~(call.todo = {} /\ call.out = {})
  BY <1>2, CallMoved DEF Continue
<1>3. QED
  BY <1>1, <1>2

LEMMA Spent ==
  ASSUME TypeOK, NEW what \in {"writes", "lists", "connections", "restarts"},
         Spend(what)
  PROVE  left' \in Budget
<1>1. left[what] \in Nat /\ left[what] > 0
  BY DEF TypeOK, Budget, Spend
<1>2. left[what] - 1 \in Nat
  BY <1>1
<1>3. QED
  BY <1>2 DEF TypeOK, Budget, Spend

LEMMA SocketTypes ==
  ASSUME TypeInv, NEW s \in Sockets, SocketStep(s)
  PROVE  TypeInv'
<1> USE DEF TypeInv, TypeOK
<1>1. Len(rows) \in Nat
  BY TableOfRows
<1>2. ASSUME NEW u \in Users, Connect(s, u) PROVE TypeInv'
  <2>1. [sockets[s] EXCEPT !.state = "connecting", !.user = u] \in Socket
    BY DEF Socket
  <2>2. sockets' \in [Sockets -> Socket]
    BY <1>2, <2>1 DEF Connect
  <2>3. left' \in Budget
    BY <1>2, Spent DEF Connect
  <2>4. QED
    BY <1>2, <2>2, <2>3 DEF Connect, CallsReady, Ready
<1>3. CASE Authenticated(s)
  <2>1. \A u \in Users : connectedSockets[u] \cup {s} \in SUBSET Sockets
    OBVIOUS
  <2>2. connectedSockets' \in [Users -> SUBSET Sockets]
    BY <1>3, <2>1 DEF Authenticated
  <2> DEFINE entered == [sockets[s] EXCEPT !.state = "open", !.from = Len(rows)]
  <2>3. entered \in Socket
    BY <1>1 DEF Socket
  <2>4. sockets' = sockets \/ sockets' = [sockets EXCEPT ![s] = entered]
    BY <1>3 DEF Authenticated
  <2> HIDE DEF entered
  <2>5. sockets' \in [Sockets -> Socket]
    BY <2>3, <2>4
  <2>6. QED
    BY <1>3, <2>2, <2>5 DEF Authenticated, CallsReady, Ready
<1>4. CASE AuthenticationFails(s)
  BY <1>4 DEF AuthenticationFails, Socket, ClosedSocket, UnusedSocket, CallsReady, Ready, Ready
<1>5. CASE Disconnect(s)
  BY <1>5 DEF Disconnect, Socket, ClosedSocket, UnusedSocket, CallsReady, Ready, Ready
<1>6. CASE DisconnectEarly(s)
  BY <1>6 DEF DisconnectEarly, Socket, CallsReady, Ready
<1>7. QED
  BY <1>2, <1>3, <1>4, <1>5, <1>6 DEF SocketStep

LEMMA BegunCall ==
  ASSUME TypeInv, NEW h \in Handlers, NEW call \in Call,
         Ready(call),
         Begin(h, call)
  PROVE  handlers' \in [Handlers -> Call] /\ CallsReady'
BY CallMoved DEF Begin

LEMMA RequestTypes ==
  ASSUME TypeInv, NEW h \in Handlers, Request(h)
  PROVE  TypeInv'
<1>1. ASSUME NEW U \in SUBSET Users, Send(h, U) PROVE TypeInv'
  <2>1. [IdleHandler EXCEPT !.at = "send", !.todo = U] \in Call
    BY IdleIsCall DEF Call, Place
  <2>2. handlers' \in [Handlers -> Call] /\ CallsReady'
    BY <1>1, <2>1, BegunCall DEF Send, IdleHandler, Ready
  <2>3. QED
    BY <1>1, <2>2, Spent DEF Send, TypeInv, TypeOK
<1>2. ASSUME NEW ids \in SUBSET DOMAIN rows, LookUp(h, ids) PROVE TypeInv'
  <2> DEFINE copies == [r \in ids |-> rows[r].read]
             call == [IdleHandler EXCEPT !.at = "date", !.copies = copies]
  <2>1. ids \in SUBSET Ids /\ \A r \in ids : rows[r] \in Row
    BY TableOfRows DEF TypeInv
  <2>2. copies \in [ids -> BOOLEAN]
    BY <2>1 DEF Row
  <2>3. copies \in Flags
    BY <2>1, <2>2 DEF Flags
  <2> HIDE DEF copies
  <2>4. call \in Call /\ call.at = "date"
    BY <2>3, IdleIsCall DEF Call, Place
  <2>5. Begin(h, call) /\ Spend("writes") /\ UNCHANGED <<rows, sockets, connectedSockets>>
    BY <1>2 DEF LookUp, copies
  <2> HIDE DEF call
  <2>6. handlers' \in [Handlers -> Call] /\ CallsReady'
    BY <2>4, <2>5, BegunCall DEF Ready
  <2>7. QED
    BY <2>5, <2>6, Spent DEF TypeInv, TypeOK
<1>3. ASSUME \/ \E u \in Users, r \in DOMAIN rows : ReadOne(h, u, r)
             \/ \E ids \in SUBSET DOMAIN rows : ReadPage(h, ids)
      PROVE  TypeInv'
  <2>1. \A r \in DOMAIN rows : {r} \in SUBSET DOMAIN rows
    OBVIOUS
  <2>2. QED
    BY <1>2, <1>3, <2>1 DEF ReadOne, ReadPage
<1>4. ASSUME NEW u \in Users, ReadAll(h, u) PROVE TypeInv'
  <2> DEFINE call == [IdleHandler EXCEPT !.at = "readAll", !.user = u, !.out = RowsOf(u)]
  <2>1. \A r \in DOMAIN rows : rows[r] \in Row
    BY TableOfRows DEF TypeInv
  <2>2. \A r \in DOMAIN rows : rows'[r] \in Row
    BY <1>4, <2>1 DEF ReadAll, Row
  <2>3. rows' \in Seq(Row) /\ Len(rows') = Len(rows)
    BY <1>4, <2>2, RowsRewritten DEF ReadAll, TypeInv
  <2>4. RowsOf(u) \in SUBSET Ids
    BY TableOfRows DEF TypeInv, RowsOf
  <2>5. call \in Call /\ call.at = "readAll"
    BY <2>4, IdleIsCall DEF Call, Place
  <2>6. Begin(h, call)
    BY <1>4 DEF ReadAll
  <2> HIDE DEF call
  <2>7. handlers' \in [Handlers -> Call] /\ CallsReady'
    BY <2>5, <2>6, BegunCall DEF Ready
  <2>8. QED
    BY <1>4, <2>3, <2>7, Spent DEF ReadAll, TypeInv, TypeOK
<1>5. ASSUME NEW u \in Users, NEW q \in Query, List(h, u, q) PROVE TypeInv'
  <2> DEFINE before == [r \in RowsOf(u) |-> rows[r].read]
             call == [IdleHandler EXCEPT !.at = "count", !.user = u, !.query = q,
                                         !.before = before]
  <2>1. RowsOf(u) \in SUBSET Ids /\ \A r \in RowsOf(u) : rows[r] \in Row
    BY TableOfRows DEF TypeInv, RowsOf
  <2>2. before \in [RowsOf(u) -> BOOLEAN]
    BY <2>1 DEF Row
  <2>3. before \in Flags
    BY <2>1, <2>2 DEF Flags
  <2> HIDE DEF before
  <2>4. call \in Call /\ call.query \in Query /\ call.at = "count"
    BY <2>3, IdleIsCall DEF Call, Place
  <2>5. Begin(h, call) /\ Spend("lists") /\ UNCHANGED <<rows, sockets, connectedSockets>>
    BY <1>5 DEF List, before
  <2> HIDE DEF call
  <2>6. handlers' \in [Handlers -> Call] /\ CallsReady'
    BY <2>4, <2>5, BegunCall DEF Ready
  <2>7. QED
    BY <2>5, <2>6, Spent DEF TypeInv, TypeOK
<1>6. QED
  BY <1>1, <1>2, <1>3, <1>4, <1>5 DEF Request

(* A message leaves a socket one of the sockets.                             *)
LEMMA Emitted ==
  ASSUME TypeOK, NEW r \in Ids, EmitNew(r) \/ EmitRead(r)
  PROVE  sockets' \in [Sockets -> Socket]
<1>1. CASE EmitNew(r)
  <2>1. \A s \in Sockets : [sockets[s] EXCEPT !.got = @ \cup {r}] \in Socket
    BY DEF TypeOK, Socket
  <2>2. QED
    BY <1>1, <2>1 DEF TypeOK, EmitNew
<1>2. CASE EmitRead(r)
  <2>1. \A s \in Sockets : [sockets[s] EXCEPT !.told = @ \cup {r}, !.late = @ \ {r}] \in Socket
    BY DEF TypeOK, Socket
  <2>2. QED
    BY <1>2, <2>1 DEF TypeOK, EmitRead
<1>3. QED
  BY <1>1, <1>2

(* What {all: true} leaves of a socket.                                      *)
LEMMA AllEmitted ==
  ASSUME TypeOK, NEW u, NEW updated, EmitAllRead(u, updated)
  PROVE  /\ sockets' \in [Sockets -> Socket]
         /\ \A s \in Sockets :
               /\ sockets'[s].state = sockets[s].state /\ sockets'[s].user = sockets[s].user
               /\ sockets'[s].from = sockets[s].from /\ sockets'[s].got = sockets[s].got
               /\ sockets'[s].told \subseteq sockets[s].told \cup RowsOf(u)
               /\ sockets'[s].told \ sockets'[s].late
                     \subseteq (sockets[s].told \ sockets[s].late) \cup updated
<1> DEFINE told(s) == sockets[s].told \cup RowsOf(u)
           late(s) == (sockets[s].late \ updated)
                          \cup (RowsOf(u) \ (sockets[s].told \cup updated))
           heard(s) == [sockets[s] EXCEPT !.told = told(s), !.late = late(s)]
<1>1. \A s \in Sockets : sockets[s] \in Socket
  BY DEF TypeOK
<1>2. RowsOf(u) \subseteq Ids
  BY TableOfRows DEF RowsOf
<1>3. \A s \in Sockets : told(s) \in SUBSET Ids /\ late(s) \in SUBSET Ids
  BY <1>1, <1>2 DEF Socket
<1>4. \A s \in Sockets : told(s) \ late(s) \subseteq (sockets[s].told \ sockets[s].late) \cup updated
  OBVIOUS
<1>5. \A s \in Sockets : sockets'[s] = sockets[s] \/ sockets'[s] = heard(s)
  BY DEF EmitAllRead
<1>6. \A s \in Sockets : sockets[s].told \subseteq told(s)
  OBVIOUS
<1>7. DOMAIN sockets' = Sockets /\ sockets' = [s \in Sockets |-> sockets'[s]]
  BY DEF EmitAllRead
<1> HIDE DEF told, late
<1>8. \A s \in Sockets :
         /\ heard(s) \in Socket /\ heard(s).state = sockets[s].state
         /\ heard(s).user = sockets[s].user /\ heard(s).from = sockets[s].from
         /\ heard(s).got = sockets[s].got /\ heard(s).told = told(s)
         /\ heard(s).late = late(s)
  BY <1>1, <1>3 DEF Socket
<1> HIDE DEF heard
<1>9. \A s \in Sockets : sockets'[s] \in Socket
  BY <1>1, <1>5, <1>8
<1>10. sockets' \in [Sockets -> Socket]
  BY <1>7, <1>9
<1>11. ASSUME NEW s \in Sockets
       PROVE  /\ sockets'[s].told \subseteq sockets[s].told \cup RowsOf(u)
              /\ sockets'[s].told \ sockets'[s].late
                    \subseteq (sockets[s].told \ sockets[s].late) \cup updated
  <2>1. CASE sockets'[s] = sockets[s]
    BY <2>1
  <2>2. CASE sockets'[s] = heard(s)
    BY <1>4, <1>8, <2>2 DEF told
  <2>3. QED
    BY <1>5, <2>1, <2>2
<1>12. QED
  BY <1>5, <1>8, <1>10, <1>11

LEMMA WriteTypes ==
  ASSUME TypeInv, NEW h \in Handlers,
         \/ \E u \in Users : SaveNew(h, u)
         \/ \E r \in DOMAIN rows : TellNew(h, r) \/ SaveRead(h, r) \/ TellRead(h, r)
         \/ Date(h) \/ TellAllRead(h)
  PROVE  TypeInv'
<1>1. handlers[h] \in Call /\ Ready(handlers[h])
  BY DEF TypeInv, TypeOK, CallsReady
<1>2. ASSUME NEW u \in Users, SaveNew(h, u) PROVE TypeInv'
  <2> DEFINE row == [user |-> u, read |-> FALSE]
             call == [handlers[h] EXCEPT !.todo = @ \ {u}, !.out = @ \cup {Len(rows) + 1}]
  <2>1. row \in Row
    BY DEF Row
  <2>2. rows' \in Seq(Row) /\ Len(rows') = Len(rows) + 1 /\ Len(rows') \in Ids
    BY <1>2, <2>1, RowAdded DEF SaveNew, TypeInv
  <2>3. call \in Call /\ call.at = "send"
    BY <1>1, <1>2, <2>2 DEF SaveNew, At, Call
  <2>4. Continue(h, call)
    BY <1>2 DEF SaveNew
  <2> HIDE DEF call
  <2>5. handlers' \in [Handlers -> Call] /\ CallsReady'
    BY <2>3, <2>4, ContinuedCall DEF Ready
  <2>6. Len(rows') <= MaxRows
    BY <2>2, RoomAssumption DEF Ids
  <2>7. QED
    BY <1>2, <2>2, <2>5, <2>6 DEF SaveNew, TypeInv, TypeOK
<1>3. ASSUME NEW r \in DOMAIN rows, TellNew(h, r) \/ TellRead(h, r) PROVE TypeInv'
  <2> DEFINE call == [handlers[h] EXCEPT !.out = @ \ {r}]
  <2>1. call \in Call /\ call.at = handlers[h].at /\ call.copies = handlers[h].copies
        /\ call.at \in {"send", "read"}
    BY <1>1, <1>3 DEF TellNew, TellRead, At, Call
  <2>2. Continue(h, call)
    BY <1>3 DEF TellNew, TellRead
  <2> HIDE DEF call
  <2>3. handlers' \in [Handlers -> Call] /\ CallsReady'
    BY <1>1, <2>1, <2>2, ContinuedCall DEF Ready
  <2>4. r \in Ids
    BY TableOfRows DEF TypeInv
  <2>5. sockets' \in [Sockets -> Socket]
    BY <1>3, <2>4, Emitted DEF TellNew, TellRead, TypeInv
  <2>6. QED
    BY <1>3, <2>3, <2>5 DEF TellNew, TellRead, TypeInv, TypeOK
<1>4. ASSUME NEW r \in DOMAIN rows, SaveRead(h, r) PROVE TypeInv'
  <2> DEFINE call == [handlers[h] EXCEPT !.todo = @ \ {r}, !.out = @ \cup {r}]
  <2>1. r \in Ids /\ \A q \in DOMAIN rows : rows[q] \in Row
    BY TableOfRows DEF TypeInv
  <2>2. \A q \in DOMAIN handlers[h].copies : handlers[h].copies[q] = TRUE
    BY <1>1, <1>4 DEF SaveRead, At, Ready
  <2>3. \A q \in DOMAIN rows : rows'[q] \in Row
    BY <1>4, <2>1, <2>2 DEF SaveRead, Row
  <2>4. rows' \in Seq(Row) /\ Len(rows') = Len(rows)
    BY <1>4, <2>3, RowsRewritten DEF SaveRead, TypeInv
  <2>5. call \in Call /\ call.at = "read" /\ call.copies = handlers[h].copies
    BY <1>1, <1>4, <2>1 DEF SaveRead, At, Call
  <2>6. Continue(h, call)
    BY <1>4 DEF SaveRead
  <2> HIDE DEF call
  <2>7. handlers' \in [Handlers -> Call] /\ CallsReady'
    BY <2>2, <2>5, <2>6, ContinuedCall DEF Ready
  <2>8. QED
    BY <1>4, <2>4, <2>7 DEF SaveRead, TypeInv, TypeOK
<1>5. CASE Date(h)
  <2> DEFINE dated == [q \in DOMAIN handlers[h].copies |-> TRUE]
             todo == DOMAIN handlers[h].copies
             call == [handlers[h] EXCEPT !.at = "read", !.copies = dated, !.todo = todo]
  <2>1. PICK R \in SUBSET Ids : handlers[h].copies \in [R -> BOOLEAN]
    BY <1>1 DEF Call, Flags
  <2>2. todo \in SUBSET Ids /\ dated \in [R -> BOOLEAN]
    BY <2>1
  <2>3. dated \in Flags /\ \A q \in DOMAIN dated : dated[q] = TRUE
    BY <2>2 DEF Flags
  <2>4. handlers' = [handlers EXCEPT ![h].at = "read", ![h].copies = dated, ![h].todo = todo]
        /\ UNCHANGED <<rows, sockets, connectedSockets, left>>
    BY <1>5 DEF Date
  <2> HIDE DEF dated, todo
  <2>5. call \in Call /\ call.at = "read" /\ call.copies = dated
    BY <1>1, <2>2, <2>3 DEF Call, Place
  <2>6. handlers' = [handlers EXCEPT ![h] = call]
    BY <2>4 DEF TypeInv, TypeOK
  <2> HIDE DEF call
  <2>7. handlers' \in [Handlers -> Call] /\ CallsReady'
    BY <2>3, <2>5, <2>6, CallMoved DEF Ready
  <2>8. QED
    BY <2>4, <2>7 DEF TypeInv, TypeOK
<1>6. CASE TellAllRead(h)
  <2>1. handlers' \in [Handlers -> Call] /\ CallsReady'
    BY <1>6, IdleIsCall, IdleIsReady, CallMoved DEF TellAllRead
  <2>2. sockets' \in [Sockets -> Socket]
    BY <1>6, AllEmitted DEF TellAllRead, TypeInv
  <2>3. QED
    BY <1>6, <2>1, <2>2 DEF TellAllRead, TypeInv, TypeOK
<1>7. QED
  BY <1>2, <1>3, <1>4, <1>5, <1>6

(* The rows skipped for a notification asked for are whole pages.            *)
LEMMA WholePages ==
  ASSUME NEW n \in Nat
  PROVE  n - (n % PerPage) \in Nat
<1>1. PerPage \in Nat /\ PerPage > 0
  BY PageAssumption
<1>2. n % PerPage \in 0..(PerPage - 1) /\ n = PerPage * (n \div PerPage) + (n % PerPage)
  BY <1>1
<1>3. n \div PerPage \in Nat
  BY <1>1
<1>4. PerPage * (n \div PerPage) \in Nat
  BY <1>1, <1>3
<1>5. QED
  BY <1>2, <1>4

LEMMA AskedPage ==
  ASSUME NEW query \in Query
  PROVE  PageAsked(query) \in 1..2
BY DEF Query, PageAsked

LEMMA SkipCounts ==
  ASSUME TypeInv, NEW h \in Handlers, handlers[h].query \in Query
  PROVE  Skip(h) \in Nat
<1>1. CASE handlers[h].query.asked = None
  <2>1. PICK page : page = PageAsked(handlers[h].query)
    OBVIOUS
  <2>2. page \in 1..2
    BY <2>1, AskedPage
  <2>3. page - 1 \in Nat /\ PerPage \in Nat
    BY <2>2, PageAssumption
  <2>4. (page - 1) * PerPage \in Nat
    BY <2>3
  <2>5. QED
    BY <1>1, <2>1, <2>4 DEF Skip
<1>2. CASE handlers[h].query.asked # None
  <2>1. Newer(h) \subseteq DOMAIN rows
    BY DEF Newer, RowsOf
  <2>2. Cardinality(Newer(h)) \in Nat
    BY <2>1, CountedRows DEF TypeInv
  <2>3. QED
    BY <1>2, <2>2, WholePages DEF Skip
<1>3. QED
  BY <1>1, <1>2

LEMMA ListTypes ==
  ASSUME TypeInv, NEW h \in Handlers,
         CountUnread(h) \/ CountRead(h) \/ FindSkip(h) \/ FindItems(h) \/ Answer(h)
  PROVE  TypeInv'
<1>1. /\ handlers[h] \in Call
      /\ handlers[h].at \in {"count", "skip", "find", "answer"} => handlers[h].query \in Query
  BY DEF TypeInv, TypeOK, CallsReady, Ready
<1>2. ASSUME NEW call \in Call, Listing(h, call), call.at # "read",
             call.at \in {"count", "skip", "find", "answer"} => call.query \in Query
      PROVE  TypeInv'
  <2>1. handlers' \in [Handlers -> Call] /\ CallsReady'
    BY <1>2, CallMoved DEF Listing, Ready
  <2>2. QED
    BY <1>2, <2>1 DEF Listing, TypeInv, TypeOK
<1>3. CASE CountUnread(h)
  <2> DEFINE n == Cardinality(InGroup(handlers[h].user, "unread"))
             next == IF handlers[h].read = None THEN "count" ELSE "skip"
             call == [handlers[h] EXCEPT !.unread = n, !.at = next]
  <2>1. n \in Nat
    BY GroupsAreRows, CountedRows DEF TypeInv
  <2> HIDE DEF n
  <2>2. call \in Call /\ call.query = handlers[h].query /\ call.at \in {"count", "skip"}
    BY <1>1, <2>1 DEF Call, Place, Counted
  <2>3. Listing(h, call) /\ handlers[h].at = "count"
    BY <1>3 DEF CountUnread, At, n
  <2> HIDE DEF call
  <2>4. QED
    BY <1>1, <1>2, <2>2, <2>3
<1>4. CASE CountRead(h)
  <2> DEFINE n == Cardinality(InGroup(handlers[h].user, "read"))
             next == IF handlers[h].unread = None THEN "count" ELSE "skip"
             call == [handlers[h] EXCEPT !.read = n, !.at = next]
  <2>1. n \in Nat
    BY GroupsAreRows, CountedRows DEF TypeInv
  <2> HIDE DEF n
  <2>2. call \in Call /\ call.query = handlers[h].query /\ call.at \in {"count", "skip"}
    BY <1>1, <2>1 DEF Call, Place, Counted
  <2>3. Listing(h, call) /\ handlers[h].at = "count"
    BY <1>4 DEF CountRead, At, n
  <2> HIDE DEF call
  <2>4. QED
    BY <1>1, <1>2, <2>2, <2>3
<1>5. CASE FindSkip(h)
  <2> DEFINE skip == Skip(h)
             call == [handlers[h] EXCEPT !.at = "find", !.skip = skip]
  <2>1. skip \in Nat
    BY <1>1, <1>5, SkipCounts DEF FindSkip, At
  <2>2. Listing(h, [handlers[h] EXCEPT !.at = "find", !.skip = Skip(h)])
        /\ handlers[h].at = "skip"
    BY <1>5 DEF FindSkip, At
  <2>3. Listing(h, call)
    BY <2>2
  <2> HIDE DEF skip
  <2>4. call \in Call /\ call.query = handlers[h].query /\ call.at = "find"
    BY <1>1, <2>1 DEF Call, Place, Counted
  <2> HIDE DEF call
  <2>5. QED
    BY <1>1, <1>2, <2>2, <2>3, <2>4
<1>6. CASE FindItems(h)
  <2> DEFINE items == Newest(Found(h), handlers[h].skip, PerPage)
             call == [handlers[h] EXCEPT !.at = "answer", !.items = items]
  <2>1. Group(h) \in {"all", "read", "unread"}
    BY <1>1, <1>6 DEF FindItems, At, Query, Group
  <2>2. items \subseteq Ids
    BY <2>1, GroupsAreRows, TableOfRows DEF Newest, Found, TypeInv
  <2>3. Listing(h, call) /\ handlers[h].at = "find"
    BY <1>6 DEF FindItems, At
  <2> HIDE DEF items
  <2>4. call \in Call /\ call.query = handlers[h].query /\ call.at = "answer"
    BY <1>1, <2>2 DEF Call, Place, Counted
  <2> HIDE DEF call
  <2>5. QED
    BY <1>1, <1>2, <2>3, <2>4
<1>7. CASE Answer(h)
  BY <1>2, <1>7, IdleIsCall DEF Answer
<1>8. QED
  BY <1>3, <1>4, <1>5, <1>6, <1>7

LEMMA RestartTypes ==
  ASSUME TypeInv, Restart
  PROVE  TypeInv'
<1>1. handlers' \in [Handlers -> Call] /\ CallsReady'
  BY IdleIsCall, IdleIsReady DEF Restart, CallsReady, Ready
<1>2. ClosedSocket \in Socket
  BY DEF ClosedSocket, UnusedSocket, Socket
<1>3. QED
  BY <1>1, <1>2, Spent DEF Restart, TypeInv, TypeOK

LEMMA NextTypes ==
  ASSUME TypeInv, [Next]_vars
  PROVE  TypeInv'
<1>1. ASSUME NEW s \in Sockets, SocketStep(s) PROVE TypeInv'
  BY <1>1, SocketTypes
<1>2. ASSUME NEW h \in Handlers, Request(h) PROVE TypeInv'
  BY <1>2, RequestTypes
<1>3. ASSUME NEW h \in Handlers, Step(h) PROVE TypeInv'
  BY <1>3, WriteTypes, ListTypes DEF Step
<1>4. CASE Restart
  BY <1>4, RestartTypes
<1>5. CASE UNCHANGED vars
  BY <1>5 DEF vars, TypeInv, TypeOK, CallsReady, Ready
<1>6. QED
  BY <1>1, <1>2, <1>3, <1>4, <1>5 DEF Next

LEMMA InitTypes == Init => TypeInv
<1> SUFFICES ASSUME Init PROVE TypeInv
  OBVIOUS
<1>1. PICK n \in 0..MaxOld : rows \in [1..n -> Row]
  BY DEF Init
<1>2. n \in Nat /\ n <= MaxRows
  BY <1>1, RoomAssumption
<1>3. rows \in Seq(Row) /\ Len(rows) = n
  BY <1>1, <1>2, SeqDef, LenProperties
<1>4. UnusedSocket \in Socket
  BY DEF UnusedSocket, Socket
<1>5. QED
  BY <1>2, <1>3, <1>4, IdleIsCall, IdleIsReady, BudgetsAssumption
     DEF Init, TypeInv, TypeOK, CallsReady

(* Rows, sockets and calls keep their types, for any users, connections,     *)
(* calls in flight and tables of any size; a page is never counted from      *)
(* before the first row.                                                     *)
THEOREM NotificationTypes == Spec => []TypeOK
<1>1. TypeInv => TypeOK
  BY DEF TypeInv
<1>2. QED
  BY InitTypes, NextTypes, <1>1, PTL DEF Spec

----------------------------------------------------------------------------
(* What clients are told.                                                    *)

SocketsRegistered ==
    \A s \in Sockets :
        /\ sockets[s].state \in {"connecting", "left", "open"} => sockets[s].user \in Users
        /\ sockets[s].state = "open" => s \in connectedSockets[sockets[s].user]
        /\ sockets[s].told \subseteq DOMAIN rows

(* The rows a call has to tell of are in the table, and read if that is what *)
(* it tells.                                                                 *)
CallKnows(call) ==
    /\ call.out \subseteq DOMAIN rows
    /\ call.at \in {"date", "read"} => DOMAIN call.copies \subseteq DOMAIN rows
    /\ call.at = "date" => call.out = {}
    /\ call.at = "read" => call.todo \subseteq DOMAIN call.copies
    /\ call.at \in {"read", "readAll"} => \A r \in call.out : rows[r].read

CallsKnowRows == \A h \in Handlers : CallKnows(handlers[h])

ToldInv == TypeInv /\ SocketsRegistered /\ CallsKnowRows /\ ToldIsRead

ClientInv == ToldInv /\ OnlyEarlyLeaversStay /\ NothingMissed

(* Rows stay in the table, belong to the same user, and stay read.           *)
RowsKept ==
    /\ DOMAIN rows \subseteq DOMAIN rows'
    /\ \A r \in DOMAIN rows :
          /\ rows'[r].user = rows[r].user
          /\ rows[r].read => rows'[r].read

LEMMA SavedNew ==
  ASSUME TypeInv, NEW h \in Handlers, NEW u \in Users, SaveNew(h, u)
  PROVE  /\ DOMAIN rows' = DOMAIN rows \cup {Len(rows) + 1}
         /\ \A r \in DOMAIN rows : rows'[r] = rows[r]
<1> DEFINE row == [user |-> u, read |-> FALSE]
<1>1. row \in Row
  BY DEF Row
<1>2. QED
  BY <1>1, RowAdded DEF SaveNew, TypeInv

LEMMA SavedRead ==
  ASSUME TypeInv, NEW h \in Handlers, NEW r, SaveRead(h, r)
  PROVE  /\ DOMAIN rows' = DOMAIN rows
         /\ \A q \in DOMAIN rows :
               /\ rows'[q].user = rows[q].user
               /\ rows[q].read \/ q \in DOMAIN handlers[h].copies => rows'[q].read
<1>1. \A q \in DOMAIN rows : rows[q] \in Row
  BY TableOfRows DEF TypeInv
<1>2. \A q \in DOMAIN handlers[h].copies : handlers[h].copies[q] = TRUE
  BY DEF SaveRead, At, TypeInv, CallsReady, Ready
<1>3. QED
  BY <1>1, <1>2 DEF SaveRead, Row

LEMMA AllRead ==
  ASSUME TypeInv, NEW h \in Handlers, NEW u \in Users, ReadAll(h, u)
  PROVE  /\ DOMAIN rows' = DOMAIN rows
         /\ \A q \in DOMAIN rows :
               /\ rows'[q].user = rows[q].user
               /\ rows[q].read \/ q \in RowsOf(u) => rows'[q].read
<1>1. \A q \in DOMAIN rows : rows[q] \in Row
  BY TableOfRows DEF TypeInv
<1>2. QED
  BY <1>1 DEF ReadAll, Row

LEMMA RowsStay ==
  ASSUME TypeInv, [Next]_vars
  PROVE  RowsKept
<1>1. CASE UNCHANGED rows
  BY <1>1 DEF RowsKept
<1>2. ASSUME NEW s \in Sockets, SocketStep(s) PROVE UNCHANGED rows
  BY <1>2 DEF SocketStep, Connect, Authenticated, AuthenticationFails, Disconnect, DisconnectEarly
<1>3. ASSUME NEW h \in Handlers, Request(h) PROVE RowsKept
  <2>1. ASSUME NEW u \in Users, ReadAll(h, u) PROVE RowsKept
    BY <2>1, AllRead DEF RowsKept
  <2>2. CASE UNCHANGED rows
    BY <2>2 DEF RowsKept
  <2>3. QED
    BY <1>3, <2>1, <2>2 DEF Request, Send, ReadOne, ReadPage, LookUp, List
<1>4. ASSUME NEW h \in Handlers, Step(h) PROVE RowsKept
  <2>1. ASSUME NEW u \in Users, SaveNew(h, u) PROVE RowsKept
    BY <2>1, SavedNew DEF RowsKept
  <2>2. ASSUME NEW r \in DOMAIN rows, SaveRead(h, r) PROVE RowsKept
    BY <2>2, SavedRead DEF RowsKept
  <2>3. CASE UNCHANGED rows
    BY <2>3 DEF RowsKept
  <2>4. QED
    BY <1>4, <2>1, <2>2, <2>3
       DEF Step, TellNew, TellRead, Date, TellAllRead, CountUnread, CountRead, FindSkip, FindItems, Answer, Listing
<1>5. QED
  BY <1>1, <1>2, <1>3, <1>4 DEF Next, Restart, vars

(* A notification that is read never becomes unread, although lists of       *)
(* entities looked up while it was unread are saved over it.                 *)
THEOREM ReadStays == Spec => ReadIsFinal
<1>1. TypeInv /\ [Next]_vars => [\A r \in DOMAIN rows : rows[r].read => rows'[r].read]_rows
  <2> SUFFICES ASSUME TypeInv, [Next]_vars
               PROVE  \A r \in DOMAIN rows : rows[r].read => rows'[r].read
    OBVIOUS
  <2>1. RowsKept
    BY RowsStay
  <2>2. QED
    BY <2>1 DEF RowsKept
<1>2. QED
  BY InitTypes, NextTypes, <1>1, PTL DEF Spec, ReadIsFinal

(* No other call moves.                                                      *)
Moved(h) == \A g \in Handlers \ {h} : handlers'[g] = handlers[g]

(* What the other calls know of their rows stays so.                         *)
LEMMA OneCallMoved ==
  ASSUME ClientInv, RowsKept, NEW h \in Handlers, Moved(h), CallKnows(handlers[h])'
  PROVE  CallsKnowRows'
<1>1. ASSUME NEW g \in Handlers, g # h PROVE CallKnows(handlers[g])'
  <2>1. handlers'[g] = handlers[g] /\ CallKnows(handlers[g])
    BY <1>1 DEF Moved, ClientInv, ToldInv, CallsKnowRows
  <2>2. QED
    BY <2>1 DEF CallKnows, RowsKept
<1>2. QED
  BY <1>1 DEF CallsKnowRows

(* Steps of a call that send nothing.                                        *)
LEMMA QuietSteps ==
  ASSUME ClientInv, NEW h \in Handlers, Moved(h), RowsKept, TypeInv',
         UNCHANGED <<sockets, connectedSockets>>, DOMAIN rows' = DOMAIN rows,
         ~At(h, "send"), CallKnows(handlers[h])'
  PROVE  ClientInv'
<1> USE DEF ClientInv, ToldInv
<1>1. SocketsRegistered' /\ OnlyEarlyLeaversStay'
  BY DEF SocketsRegistered, OnlyEarlyLeaversStay
<1>2. CallsKnowRows'
  BY OneCallMoved
<1>3. ToldIsRead'
  BY DEF SocketsRegistered, ToldIsRead, RowsKept
<1>4. NothingMissed'
  BY DEF Moved, NothingMissed, RowsOf, At, RowsKept
<1>5. QED
  BY <1>1, <1>2, <1>3, <1>4

LEMMA RequestKeepsClients ==
  ASSUME ClientInv, NEW h \in Handlers, Request(h), RowsKept, TypeInv'
  PROVE  ClientInv'
<1> USE DEF ClientInv, ToldInv
<1>1. Moved(h) /\ ~At(h, "send")
  BY DEF Request, Send, ReadOne, ReadPage, LookUp, ReadAll, List, Begin, At, Moved,
     TypeInv, TypeOK
<1>2. ASSUME NEW U \in SUBSET Users, Send(h, U) PROVE ClientInv'
  <2>1. handlers'[h].at = "send" /\ handlers'[h].out = {}
    BY <1>2 DEF Send, Begin, IdleHandler, TypeInv, TypeOK
  <2>2. CallKnows(handlers[h])'
    BY <2>1 DEF CallKnows
  <2>3. QED
    BY <1>1, <1>2, <2>2, QuietSteps DEF Send
<1>3. ASSUME NEW ids \in SUBSET DOMAIN rows, LookUp(h, ids) PROVE ClientInv'
  <2>1. /\ handlers'[h].out = {} /\ handlers'[h].at = "date"
        /\ DOMAIN handlers'[h].copies = ids /\ UNCHANGED rows
    BY <1>3 DEF LookUp, Begin, IdleHandler, TypeInv, TypeOK
  <2>2. CallKnows(handlers[h])'
    BY <2>1 DEF CallKnows
  <2>3. QED
    BY <1>1, <1>3, <2>2, QuietSteps DEF LookUp
<1>4. ASSUME \/ \E u \in Users, r \in DOMAIN rows : ReadOne(h, u, r)
             \/ \E ids \in SUBSET DOMAIN rows : ReadPage(h, ids)
      PROVE  ClientInv'
  <2>1. \A r \in DOMAIN rows : {r} \in SUBSET DOMAIN rows
    OBVIOUS
  <2>2. QED
    BY <1>3, <1>4, <2>1 DEF ReadOne, ReadPage
<1>5. ASSUME NEW u \in Users, ReadAll(h, u) PROVE ClientInv'
  <2>1. handlers'[h].out = RowsOf(u) /\ handlers'[h].at = "readAll"
    BY <1>5 DEF ReadAll, Begin, IdleHandler, TypeInv, TypeOK
  <2>2. /\ DOMAIN rows' = DOMAIN rows
        /\ \A q \in RowsOf(u) : q \in DOMAIN rows /\ rows'[q].read
    BY <1>5, AllRead DEF RowsOf
  <2>3. CallKnows(handlers[h])'
    BY <2>1, <2>2 DEF CallKnows
  <2>4. QED
    BY <1>1, <1>5, <2>2, <2>3, QuietSteps DEF ReadAll
<1>6. ASSUME NEW u \in Users, NEW q \in Query, List(h, u, q) PROVE ClientInv'
  <2>1. handlers'[h].out = {} /\ handlers'[h].at = "count"
    BY <1>6 DEF List, Begin, IdleHandler, TypeInv, TypeOK
  <2>2. CallKnows(handlers[h])'
    BY <2>1 DEF CallKnows
  <2>3. QED
    BY <1>1, <1>6, <2>2, QuietSteps DEF List
<1>7. QED
  BY <1>2, <1>4, <1>5, <1>6 DEF Request

LEMMA ListKeepsClients ==
  ASSUME ClientInv, NEW h \in Handlers, RowsKept, TypeInv',
         CountUnread(h) \/ CountRead(h) \/ FindSkip(h) \/ FindItems(h) \/ Answer(h)
  PROVE  ClientInv'
<1> USE DEF ClientInv, ToldInv
<1>1. handlers[h] \in Call
  BY DEF TypeInv, TypeOK
<1>2. Moved(h) /\ ~At(h, "send") /\ UNCHANGED <<rows, sockets, connectedSockets>>
  BY DEF CountUnread, CountRead, FindSkip, FindItems, Answer, Listing, At, Moved, TypeInv, TypeOK
<1>3. handlers'[h].out \subseteq handlers[h].out
      /\ handlers'[h].at \notin {"date", "read", "readAll"}
  <2>1. CASE CountUnread(h)
    BY <1>1, <2>1 DEF CountUnread, Listing, Call, TypeInv, TypeOK
  <2>2. CASE CountRead(h)
    BY <1>1, <2>2 DEF CountRead, Listing, Call, TypeInv, TypeOK
  <2>3. CASE FindSkip(h)
    BY <1>1, <2>3 DEF FindSkip, Listing, Call, TypeInv, TypeOK
  <2>4. CASE FindItems(h)
    BY <1>1, <2>4 DEF FindItems, Listing, Call, TypeInv, TypeOK
  <2>5. CASE Answer(h)
    BY <1>1, <2>5 DEF Answer, Listing, IdleHandler, TypeInv, TypeOK
  <2>6. QED
    BY <2>1, <2>2, <2>3, <2>4, <2>5
<1>4. CallKnows(handlers[h])'
  BY <1>2, <1>3 DEF CallKnows, CallsKnowRows
<1>5. QED
  BY <1>2, <1>4, QuietSteps

LEMMA DateKeepsClients ==
  ASSUME ClientInv, NEW h \in Handlers, RowsKept, TypeInv', Date(h)
  PROVE  ClientInv'
<1> USE DEF ClientInv, ToldInv
<1>1. PICK call : call = handlers'[h]
  OBVIOUS
<1>2. /\ handlers[h] \in Call /\ handlers[h].at = "date"
      /\ UNCHANGED <<rows, sockets, connectedSockets>> /\ Moved(h) /\ ~At(h, "send")
  BY DEF Date, At, Moved, TypeInv, TypeOK
<1>3. /\ call.at = "read" /\ call.out = handlers[h].out
      /\ call.todo = DOMAIN handlers[h].copies /\ DOMAIN call.copies = DOMAIN handlers[h].copies
  BY <1>1, <1>2 DEF Date, Call, TypeInv, TypeOK
<1>4. handlers[h].out = {} /\ DOMAIN handlers[h].copies \subseteq DOMAIN rows
  BY <1>2 DEF CallsKnowRows, CallKnows
<1>5. CallKnows(handlers[h])'
  BY <1>1, <1>2, <1>3, <1>4 DEF CallKnows
<1>6. QED
  BY <1>2, <1>5, QuietSteps

LEMMA SocketsKeepClients ==
  ASSUME ClientInv, NEW s \in Sockets, SocketStep(s), TypeInv'
  PROVE  ClientInv'
<1> USE DEF ClientInv, ToldInv
<1>1. UNCHANGED <<rows, handlers>>
  BY DEF SocketStep, Connect, Authenticated, AuthenticationFails, Disconnect, DisconnectEarly
<1>2. CallsKnowRows'
  BY <1>1 DEF CallsKnowRows, CallKnows
<1>3. sockets[s] \in Socket
  BY DEF TypeInv, TypeOK
<1>4. ASSUME NEW u \in Users, Connect(s, u) PROVE ClientInv'
  <2>1. /\ sockets' = [sockets EXCEPT ![s] = [sockets[s] EXCEPT !.state = "connecting", !.user = u]]
        /\ sockets[s].state = "unused" /\ UNCHANGED connectedSockets
    BY <1>4 DEF Connect
  <2>2. SocketsRegistered'
    BY <1>1, <1>3, <2>1 DEF SocketsRegistered, Socket, TypeInv, TypeOK
  <2>3. OnlyEarlyLeaversStay'
    BY <1>3, <2>1 DEF OnlyEarlyLeaversStay, Socket, TypeInv, TypeOK
  <2>4. ToldIsRead'
    BY <1>1, <1>3, <2>1 DEF ToldIsRead, Socket, TypeInv, TypeOK
  <2>5. NothingMissed'
    BY <1>1, <1>3, <2>1 DEF NothingMissed, RowsOf, At, Socket, TypeInv, TypeOK
  <2>6. QED
    BY <1>2, <2>2, <2>3, <2>4, <2>5
<1>5. CASE Authenticated(s)
  <2> DEFINE entered == [sockets[s] EXCEPT !.state = "open", !.from = Len(rows)]
  <2>1. /\ sockets' = IF sockets[s].state = "left" THEN sockets
                      ELSE [sockets EXCEPT ![s] = entered]
        /\ sockets[s].state \in {"connecting", "left"}
        /\ connectedSockets' = [connectedSockets EXCEPT ![sockets[s].user] = @ \cup {s}]
    BY <1>5 DEF Authenticated
  <2>2. entered.state = "open" /\ entered.from = Len(rows)
        /\ entered.user = sockets[s].user /\ entered.told = sockets[s].told
        /\ entered.late = sockets[s].late
    BY <1>3 DEF Socket
  <2>3. sockets[s].user \in Users
    BY <2>1 DEF SocketsRegistered
  <2> HIDE DEF entered
  <2>4. SocketsRegistered'
    BY <1>1, <2>1, <2>2, <2>3 DEF SocketsRegistered, TypeInv, TypeOK
  <2>5. OnlyEarlyLeaversStay'
    BY <2>1, <2>2, <2>3 DEF OnlyEarlyLeaversStay, TypeInv, TypeOK
  <2>6. ToldIsRead'
    BY <1>1, <2>1, <2>2 DEF ToldIsRead, TypeInv, TypeOK
  <2>7. \A r \in DOMAIN rows : ~(r > Len(rows))
    BY TableOfRows
  <2>8. NothingMissed'
    BY <1>1, <2>1, <2>2, <2>7 DEF NothingMissed, RowsOf, At, TypeInv, TypeOK
  <2>9. QED
    BY <1>2, <2>4, <2>5, <2>6, <2>8
<1>6. CASE AuthenticationFails(s) \/ Disconnect(s)
  <2>1. /\ sockets' = [sockets EXCEPT ![s] = ClosedSocket]
        /\ \/ UNCHANGED connectedSockets /\ s \notin connectedSockets[sockets[s].user]
           \/ connectedSockets' = [connectedSockets EXCEPT ![sockets[s].user] = @ \ {s}]
        /\ sockets[s].state \in {"connecting", "left", "open"}
    BY <1>6 DEF AuthenticationFails, Disconnect
  <2>2. ClosedSocket.state = "closed" /\ ClosedSocket.told = {}
    BY DEF ClosedSocket, UnusedSocket
  <2>3. sockets[s].user \in Users
    BY <2>1 DEF SocketsRegistered
  <2>4. SocketsRegistered'
    BY <1>1, <2>1, <2>2, <2>3 DEF SocketsRegistered, TypeInv, TypeOK
  <2>5. OnlyEarlyLeaversStay'
    BY <2>1, <2>2, <2>3 DEF OnlyEarlyLeaversStay, TypeInv, TypeOK
  <2>6. ToldIsRead'
    BY <1>1, <2>1, <2>2 DEF ToldIsRead, TypeInv, TypeOK
  <2>7. NothingMissed'
    BY <1>1, <2>1, <2>2 DEF NothingMissed, RowsOf, At, TypeInv, TypeOK
  <2>8. QED
    BY <1>2, <2>4, <2>5, <2>6, <2>7
<1>7. CASE DisconnectEarly(s)
  <2>1. /\ sockets' = [sockets EXCEPT ![s] = [sockets[s] EXCEPT !.state = "left"]]
        /\ sockets[s].state = "connecting" /\ UNCHANGED connectedSockets
    BY <1>7 DEF DisconnectEarly
  <2>2. SocketsRegistered'
    BY <1>1, <1>3, <2>1 DEF SocketsRegistered, Socket, TypeInv, TypeOK
  <2>3. OnlyEarlyLeaversStay'
    BY <1>3, <2>1 DEF OnlyEarlyLeaversStay, Socket, TypeInv, TypeOK
  <2>4. ToldIsRead'
    BY <1>1, <1>3, <2>1 DEF ToldIsRead, Socket, TypeInv, TypeOK
  <2>5. NothingMissed'
    BY <1>1, <1>3, <2>1 DEF NothingMissed, RowsOf, At, Socket, TypeInv, TypeOK
  <2>6. QED
    BY <1>2, <2>2, <2>3, <2>4, <2>5
<1>8. QED
  BY <1>4, <1>5, <1>6, <1>7 DEF SocketStep

(* A call goes on, or has ended and told of everything.                      *)
LEMMA Continued ==
  ASSUME TypeInv, NEW h \in Handlers, NEW call \in Call, Continue(h, call)
  PROVE  /\ Moved(h)
         /\ handlers'[h].out = call.out
         /\ \/ handlers'[h].at = "idle" /\ call.out = {}
            \/ handlers'[h] = call
<1>1. handlers'[h] = IF call.todo = {} /\ call.out = {} THEN IdleHandler ELSE call
  BY DEF Continue, TypeInv, TypeOK
<1>2. Moved(h)
  BY DEF Continue, Moved, TypeInv, TypeOK
<1>3. IdleHandler.at = "idle" /\ IdleHandler.out = {}
  BY DEF IdleHandler
<1> HIDE DEF IdleHandler
<1>4. QED
  BY <1>1, <1>2, <1>3

LEMMA SaveNewKeepsClients ==
  ASSUME ClientInv, NEW h \in Handlers, NEW u \in Users, SaveNew(h, u), TypeInv', RowsKept
  PROVE  ClientInv'
<1> USE DEF ClientInv, ToldInv
<1> DEFINE new == Len(rows) + 1
           call == [handlers[h] EXCEPT !.todo = @ \ {u}, !.out = @ \cup {new}]
<1>1. handlers[h] \in Call /\ handlers[h].at = "send" /\ UNCHANGED <<sockets, connectedSockets>>
  BY DEF TypeInv, TypeOK, SaveNew, At
<1>2. new \in Ids
  BY RowAdded, TableOfRows, RoomAssumption DEF SaveNew, Ids, TypeInv
<1>3. /\ DOMAIN rows' = DOMAIN rows \cup {new}
      /\ \A r \in DOMAIN rows : rows'[r] = rows[r]
  BY SavedNew
<1>4. call \in Call /\ call.at = "send" /\ call.out = handlers[h].out \cup {new}
  BY <1>1, <1>2 DEF Call
<1>5. Continue(h, call)
  BY DEF SaveNew
<1> HIDE DEF new, call
<1>6. Moved(h) /\ handlers'[h].at = "send" /\ handlers'[h].out = handlers[h].out \cup {new}
  BY <1>4, <1>5, Continued
<1>7. SocketsRegistered' /\ OnlyEarlyLeaversStay' /\ ToldIsRead'
  BY <1>1, <1>3 DEF SocketsRegistered, OnlyEarlyLeaversStay, ToldIsRead
<1>8. CallsKnowRows'
  <2>1. CallKnows(handlers[h])'
    BY <1>3, <1>6 DEF CallsKnowRows, CallKnows
  <2>2. QED
    BY <1>6, <2>1, OneCallMoved
<1>9. NothingMissed'
  BY <1>1, <1>3, <1>6 DEF NothingMissed, RowsOf, At, Moved
<1>10. QED
  BY <1>7, <1>8, <1>9

LEMMA TellNewKeepsClients ==
  ASSUME ClientInv, NEW h \in Handlers, NEW r \in DOMAIN rows, TellNew(h, r), TypeInv', RowsKept
  PROVE  ClientInv'
<1> USE DEF ClientInv, ToldInv
<1> DEFINE call == [handlers[h] EXCEPT !.out = @ \ {r}]
<1>1. /\ handlers[h] \in Call /\ handlers[h].at = "send"
      /\ UNCHANGED <<rows, connectedSockets>>
  BY DEF TypeInv, TypeOK, TellNew, At
<1>2. call \in Call /\ call.at = "send" /\ call.out = handlers[h].out \ {r}
  BY <1>1 DEF Call
<1>3. Continue(h, call)
  BY DEF TellNew
<1> HIDE DEF call
<1>4. /\ Moved(h) /\ handlers'[h].out = handlers[h].out \ {r}
      /\ handlers'[h].at \in {"idle", "send"}
      /\ handlers'[h].out = {} \/ handlers'[h].at = "send"
  BY <1>2, <1>3, Continued
<1>5. \A s \in Sockets :
         /\ sockets'[s].state = sockets[s].state /\ sockets'[s].user = sockets[s].user
         /\ sockets'[s].from = sockets[s].from /\ sockets'[s].told = sockets[s].told
         /\ sockets'[s].late = sockets[s].late
         /\ sockets[s].got \subseteq sockets'[s].got
         /\ s \in Listening(rows[r].user) => r \in sockets'[s].got
  BY DEF TellNew, EmitNew, TypeInv, TypeOK, Socket
<1>6. SocketsRegistered' /\ OnlyEarlyLeaversStay' /\ ToldIsRead'
  BY <1>1, <1>5 DEF SocketsRegistered, OnlyEarlyLeaversStay, ToldIsRead, TypeInv, TypeOK
<1>7. CallsKnowRows'
  <2>1. CallKnows(handlers[h])'
    BY <1>1, <1>4 DEF CallsKnowRows, CallKnows
  <2>2. QED
    BY <1>4, <2>1, OneCallMoved
<1>8. ASSUME NEW s \in Sockets, sockets[s].state = "open", sockets[s].user = rows[r].user
      PROVE  r \in sockets'[s].got
  BY <1>5, <1>8 DEF SocketsRegistered, Listening
<1>9. NothingMissed'
  BY <1>1, <1>4, <1>5, <1>8 DEF NothingMissed, RowsOf, At, Moved
<1>10. QED
  BY <1>6, <1>7, <1>9

LEMMA SaveReadKeepsClients ==
  ASSUME ClientInv, NEW h \in Handlers, NEW r \in DOMAIN rows, SaveRead(h, r), TypeInv', RowsKept
  PROVE  ClientInv'
<1> USE DEF ClientInv, ToldInv
<1> DEFINE call == [handlers[h] EXCEPT !.todo = @ \ {r}, !.out = @ \cup {r}]
<1>1. /\ handlers[h] \in Call /\ handlers[h].at = "read" /\ r \in handlers[h].todo
      /\ UNCHANGED <<sockets, connectedSockets>>
  BY DEF TypeInv, TypeOK, SaveRead, At
<1>2. r \in Ids
  BY TableOfRows DEF TypeInv
<1>3. /\ call \in Call /\ call.at = "read" /\ call.copies = handlers[h].copies
      /\ call.todo = handlers[h].todo \ {r} /\ call.out = handlers[h].out \cup {r}
  BY <1>1, <1>2 DEF Call
<1>4. Continue(h, call)
  BY DEF SaveRead
<1> HIDE DEF call
<1>5. Moved(h) /\ handlers'[h] = call
  BY <1>3, <1>4, Continued
<1>6. /\ DOMAIN rows' = DOMAIN rows
      /\ \A q \in DOMAIN rows :
            /\ rows'[q].user = rows[q].user
            /\ rows[q].read \/ q \in DOMAIN handlers[h].copies => rows'[q].read
  BY SavedRead
<1>7. SocketsRegistered' /\ OnlyEarlyLeaversStay'
  BY <1>1, <1>6 DEF SocketsRegistered, OnlyEarlyLeaversStay
<1>8. ToldIsRead'
  BY <1>1, <1>6 DEF ToldIsRead, SocketsRegistered
<1>9. CallsKnowRows'
  <2>1. CallKnows(handlers[h])
    BY DEF CallsKnowRows
  <2>2. r \in DOMAIN handlers[h].copies
    BY <1>1, <2>1 DEF CallKnows
  <2>3. \A q \in call.out : q \in DOMAIN rows' /\ rows'[q].read
    BY <1>1, <1>3, <1>6, <2>1, <2>2 DEF CallKnows
  <2>4. CallKnows(handlers[h])'
    BY <1>1, <1>3, <1>5, <1>6, <2>1, <2>3 DEF CallKnows
  <2>5. QED
    BY <1>5, <2>4, OneCallMoved
<1>10. NothingMissed'
  BY <1>1, <1>5, <1>6 DEF NothingMissed, RowsOf, At, Moved
<1>11. QED
  BY <1>7, <1>8, <1>9, <1>10

LEMMA TellReadKeepsClients ==
  ASSUME ClientInv, NEW h \in Handlers, NEW r \in DOMAIN rows, TellRead(h, r), TypeInv', RowsKept
  PROVE  ClientInv'
<1> USE DEF ClientInv, ToldInv
<1> DEFINE call == [handlers[h] EXCEPT !.out = @ \ {r}]
<1>1. /\ handlers[h] \in Call /\ handlers[h].at = "read" /\ r \in handlers[h].out
      /\ UNCHANGED <<rows, connectedSockets>>
  BY DEF TypeInv, TypeOK, TellRead, At
<1>2. /\ call \in Call /\ call.at = "read" /\ call.out = handlers[h].out \ {r}
      /\ call.copies = handlers[h].copies /\ call.todo = handlers[h].todo
  BY <1>1 DEF Call
<1>3. Continue(h, call)
  BY DEF TellRead
<1> HIDE DEF call
<1>4. /\ Moved(h) /\ handlers'[h].out = call.out
      /\ handlers'[h].at = "idle" \/ handlers'[h] = call
  BY <1>2, <1>3, Continued
<1>5. \A s \in Sockets :
         /\ sockets'[s].state = sockets[s].state /\ sockets'[s].user = sockets[s].user
         /\ sockets'[s].from = sockets[s].from /\ sockets'[s].got = sockets[s].got
         /\ sockets'[s].told \subseteq sockets[s].told \cup {r}
         /\ sockets'[s].told \ sockets'[s].late \subseteq (sockets[s].told \ sockets[s].late) \cup {r}
  <2> DEFINE told(s) == sockets[s].told \cup {r}
             late(s) == sockets[s].late \ {r}
             heard(s) == [sockets[s] EXCEPT !.told = told(s), !.late = late(s)]
  <2>1. \A s \in Sockets : /\ sockets[s] \in Socket
                           /\ sockets'[s] = sockets[s] \/ sockets'[s] = heard(s)
    BY DEF TellRead, EmitRead, TypeInv, TypeOK
  <2>2. \A s \in Sockets : told(s) \ late(s) \subseteq (sockets[s].told \ sockets[s].late) \cup {r}
    OBVIOUS
  <2> HIDE DEF told, late
  <2>3. \A s \in Sockets :
           /\ heard(s).state = sockets[s].state /\ heard(s).user = sockets[s].user
           /\ heard(s).from = sockets[s].from /\ heard(s).got = sockets[s].got
           /\ heard(s).told = told(s) /\ heard(s).late = late(s)
    BY <2>1 DEF Socket
  <2> HIDE DEF heard
  <2>4. ASSUME NEW s \in Sockets, sockets'[s] = heard(s)
        PROVE  /\ sockets'[s].told \subseteq sockets[s].told \cup {r}
               /\ sockets'[s].told \ sockets'[s].late
                     \subseteq (sockets[s].told \ sockets[s].late) \cup {r}
    BY <2>2, <2>3, <2>4 DEF told
  <2>5. QED
    BY <2>1, <2>3, <2>4
<1>6. rows[r].read
  BY <1>1 DEF CallsKnowRows, CallKnows
<1>7. SocketsRegistered' /\ OnlyEarlyLeaversStay'
  BY <1>1, <1>5 DEF SocketsRegistered, OnlyEarlyLeaversStay, TypeInv, TypeOK
<1>8. ToldIsRead'
  BY <1>1, <1>5, <1>6 DEF ToldIsRead
<1>9. CallsKnowRows'
  <2>1. CallKnows(handlers[h])'
    BY <1>1, <1>2, <1>4 DEF CallsKnowRows, CallKnows
  <2>2. QED
    BY <1>4, <2>1, OneCallMoved
<1>10. NothingMissed'
  BY <1>1, <1>2, <1>4, <1>5 DEF NothingMissed, RowsOf, At, Moved
<1>11. QED
  BY <1>7, <1>8, <1>9, <1>10

LEMMA TellAllKeepsClients ==
  ASSUME ClientInv, NEW h \in Handlers, TellAllRead(h), TypeInv', RowsKept
  PROVE  ClientInv'
<1> USE DEF ClientInv, ToldInv
<1>1. PICK u, updated : u = handlers[h].user /\ updated = handlers[h].out
  OBVIOUS
<1>2. /\ handlers[h].at = "readAll" /\ UNCHANGED <<rows, connectedSockets>>
      /\ EmitAllRead(u, updated) /\ Moved(h) /\ handlers'[h] = IdleHandler
  BY <1>1 DEF TellAllRead, At, Moved, TypeInv, TypeOK
<1>3. \A s \in Sockets :
         /\ sockets'[s].state = sockets[s].state /\ sockets'[s].user = sockets[s].user
         /\ sockets'[s].from = sockets[s].from /\ sockets'[s].got = sockets[s].got
         /\ sockets'[s].told \subseteq sockets[s].told \cup RowsOf(u)
         /\ sockets'[s].told \ sockets'[s].late
               \subseteq (sockets[s].told \ sockets[s].late) \cup updated
  BY <1>2, AllEmitted DEF TypeInv
<1>4. \A r \in updated : rows[r].read
  BY <1>1, <1>2 DEF CallsKnowRows, CallKnows
<1>5. RowsOf(u) \subseteq DOMAIN rows
  BY DEF RowsOf
<1>6. SocketsRegistered' /\ OnlyEarlyLeaversStay'
  BY <1>2, <1>3, <1>5 DEF SocketsRegistered, OnlyEarlyLeaversStay, TypeInv, TypeOK
<1>7. ToldIsRead'
  BY <1>2, <1>3, <1>4 DEF ToldIsRead
<1>8. handlers'[h].at = "idle" /\ handlers'[h].out = {}
  BY <1>2 DEF IdleHandler
<1>9. CallsKnowRows'
  <2>1. CallKnows(handlers[h])'
    BY <1>8 DEF CallKnows
  <2>2. QED
    BY <1>2, <2>1, OneCallMoved
<1>10. NothingMissed'
  BY <1>2, <1>3 DEF NothingMissed, RowsOf, At, Moved
<1>11. QED
  BY <1>6, <1>7, <1>9, <1>10

LEMMA RestartKeepsClients ==
  ASSUME ClientInv, Restart, TypeInv'
  PROVE  ClientInv'
<1> USE DEF ClientInv, ToldInv
<1>1. /\ UNCHANGED rows
      /\ \A u \in Users : connectedSockets'[u] = {}
      /\ \A h \in Handlers : handlers'[h].at = "idle" /\ handlers'[h].out = {}
  BY DEF Restart, IdleHandler
<1>2. \A s \in Sockets : /\ sockets'[s].state \in {"unused", "closed"}
                         /\ sockets'[s] = sockets[s] \/ sockets'[s].told = {}
  BY DEF Restart, ClosedSocket, UnusedSocket
<1>3. OnlyEarlyLeaversStay' /\ NothingMissed'
  BY <1>1, <1>2 DEF OnlyEarlyLeaversStay, NothingMissed
<1>7. SocketsRegistered'
  <2>1. ASSUME NEW s \in Sockets PROVE sockets'[s].told \subseteq DOMAIN rows'
    BY <1>1, <1>2, <2>1 DEF SocketsRegistered
  <2>2. QED
    BY <1>1, <1>2, <2>1 DEF SocketsRegistered
<1>4. CallsKnowRows'
  BY <1>1 DEF CallsKnowRows, CallKnows
<1>5. ToldIsRead'
  BY <1>1, <1>2 DEF ToldIsRead
<1>6. QED
  BY <1>3, <1>4, <1>5, <1>7

LEMMA ClientsAreServed ==
  Spec => [](ToldIsRead /\ OnlyEarlyLeaversStay /\ NothingMissed)
<1>1. Init => ClientInv
  <2> SUFFICES ASSUME Init PROVE ClientInv
    OBVIOUS
  <2>1. TypeInv
    BY InitTypes
  <2>2. /\ \A s \in Sockets : sockets[s].state = "unused" /\ sockets[s].told = {}
        /\ \A u \in Users : connectedSockets[u] = {}
        /\ \A h \in Handlers : handlers[h].at = "idle" /\ handlers[h].out = {}
    BY DEF Init, UnusedSocket, IdleHandler
  <2>3. QED
    BY <2>1, <2>2 DEF ClientInv, ToldInv, SocketsRegistered, CallsKnowRows, CallKnows, At,
                      OnlyEarlyLeaversStay, ToldIsRead, NothingMissed
<1>2. ClientInv /\ [Next]_vars => ClientInv'
  <2> SUFFICES ASSUME ClientInv, [Next]_vars PROVE ClientInv'
    OBVIOUS
  <2>1. TypeInv' /\ RowsKept
    BY NextTypes, RowsStay DEF ClientInv, ToldInv
  <2>2. ASSUME NEW s \in Sockets, SocketStep(s) PROVE ClientInv'
    BY <2>1, <2>2, SocketsKeepClients
  <2>3. ASSUME NEW h \in Handlers, Request(h) PROVE ClientInv'
    BY <2>1, <2>3, RequestKeepsClients
  <2>4. ASSUME NEW h \in Handlers, Step(h) PROVE ClientInv'
    BY <2>1, <2>4, SaveNewKeepsClients, TellNewKeepsClients, SaveReadKeepsClients,
       TellReadKeepsClients, DateKeepsClients, TellAllKeepsClients, ListKeepsClients DEF Step
  <2>5. CASE Restart
    BY <2>1, <2>5, RestartKeepsClients
  <2>6. CASE UNCHANGED vars
    BY <2>1, <2>6 DEF vars, ClientInv, ToldInv, SocketsRegistered, CallsKnowRows, CallKnows, At,
                      OnlyEarlyLeaversStay, ToldIsRead, NothingMissed, RowsOf
  <2>7. QED
    BY <2>2, <2>3, <2>4, <2>5, <2>6 DEF Next
<1>3. ClientInv => ToldIsRead /\ OnlyEarlyLeaversStay /\ NothingMissed
  BY DEF ClientInv, ToldInv
<1>4. QED
  BY <1>1, <1>2, <1>3, PTL DEF Spec

(* A client is told that a notification is read only when it is, however     *)
(* reads, sends and restarts interleave; {all: true} is wrong of those alone *)
(* that were saved after the update it reports.                              *)
THEOREM ToldTheTruth == Spec => []ToldIsRead
BY ClientsAreServed, PTL

(* A client that stays connected gets every notification saved since it was  *)
(* registered, or a call is about to emit it, whatever other clients do.     *)
THEOREM NoneMissed == Spec => []NothingMissed
BY ClientsAreServed, PTL

(* The arrays of sockets hold those of their user that are connected, or     *)
(* left while they were being authenticated.                                 *)
THEOREM ArraysInOrder == Spec => []OnlyEarlyLeaversStay
BY ClientsAreServed, PTL

----------------------------------------------------------------------------
(* The pages of a listing.                                                   *)

Now(u) == [r \in RowsOf(u) |-> rows[r].read]

(* The rows of the user are those there were when the call began, or more    *)
(* of them, or more of them read.                                            *)
BeganEarlier(call) ==
    /\ call.user \in Users
    /\ DOMAIN call.before \subseteq RowsOf(call.user)
    /\ \A r \in DOMAIN call.before : call.before[r] => rows[r].read

\* Newer, Skip and Group of the model, of the call itself.
NewerOf(call) == {r \in RowsOf(call.user) : r > call.query.asked}

SkipOf(call) ==
    IF call.query.asked = None THEN (PageAsked(call.query) - 1) * PerPage
    ELSE Cardinality(NewerOf(call)) - (Cardinality(NewerOf(call)) % PerPage)

GroupOf(call) == IF call.query.asked = None THEN call.query.group ELSE "all"

\* What the queries of the call have found is what they would find now.
UpToDate(call) ==
    /\ call.unread # None \/ call.at # "count" =>
          call.unread = Cardinality(InGroup(call.user, "unread"))
    /\ call.read # None \/ call.at # "count" =>
          call.read = Cardinality(InGroup(call.user, "read"))
    /\ call.at \in {"find", "answer"} => call.skip = SkipOf(call)
    /\ call.at = "answer" =>
          call.items = Newest(InGroup(call.user, GroupOf(call)), call.skip, PerPage)

ListingFits(call) ==
    call.at \in {"count", "skip", "find", "answer"} =>
        /\ BeganEarlier(call)
        /\ call.before = Now(call.user) => UpToDate(call)

ListingsFit == \A h \in Handlers : ListingFits(handlers[h])

PagesInv == TypeInv /\ ListingsFit

\* If the rows are those that a call began with, they were so before this step.
LEMMA UnchangedSince ==
  ASSUME TypeInv, TypeInv', RowsKept, NEW call, BeganEarlier(call),
         call.before = Now(call.user)'
  PROVE  /\ RowsOf(call.user)' = RowsOf(call.user)
         /\ \A r \in RowsOf(call.user) : rows'[r].read = rows[r].read
         /\ call.before = Now(call.user)
<1> DEFINE u == call.user
<1>1. RowsOf(u) \subseteq RowsOf(u)'
  BY DEF RowsOf, RowsKept
<1>2. DOMAIN call.before = RowsOf(u)' /\ \A r \in RowsOf(u)' : call.before[r] = rows'[r].read
  BY DEF Now
<1>3. RowsOf(u)' = RowsOf(u)
  BY <1>1, <1>2 DEF BeganEarlier
<1>4. \A r \in RowsOf(u) : r \in DOMAIN rows
  BY DEF RowsOf
<1>5. \A r \in RowsOf(u) : rows[r].read \in BOOLEAN /\ rows'[r].read \in BOOLEAN
  <2>1. \A r \in DOMAIN rows : rows[r] \in Row
    BY TableOfRows DEF TypeInv
  <2>2. \A r \in DOMAIN rows : rows[r].read \in BOOLEAN
    BY <2>1 DEF Row
  <2>3. \A r \in DOMAIN rows' : rows'[r] \in Row
    BY LenProperties, ElementOfSeq DEF TypeInv, TypeOK
  <2>4. \A r \in DOMAIN rows' : rows'[r].read \in BOOLEAN
    BY <2>3 DEF Row
  <2>5. QED
    BY <1>4, <2>2, <2>4 DEF RowsKept
<1>6. \A r \in RowsOf(u) : rows'[r].read = rows[r].read
  BY <1>2, <1>3, <1>4, <1>5 DEF BeganEarlier, RowsKept
<1>7. call.before = Now(u)
  <2>1. Now(u)' = [r \in RowsOf(u)' |-> rows'[r].read]
    BY DEF Now
  <2>2. QED
    BY <2>1, <1>3, <1>6 DEF Now
<1>8. QED
  BY <1>3, <1>6, <1>7

LEMMA SameGroups ==
  ASSUME NEW u, RowsOf(u)' = RowsOf(u),
         \A r \in RowsOf(u) : rows'[r].read = rows[r].read
  PROVE  \A group : InGroup(u, group)' = InGroup(u, group)
<1>1. ReadRows(u)' = ReadRows(u)
  BY DEF ReadRows
<1>2. QED
  BY <1>1 DEF InGroup

\* A call that does not move keeps what it found, or its rows have changed.
LEMMA ListingStays ==
  ASSUME TypeInv, TypeInv', RowsKept, NEW call, ListingFits(call)
  PROVE  ListingFits(call)'
<1>1. SUFFICES ASSUME call.at \in {"count", "skip", "find", "answer"}
               PROVE  /\ BeganEarlier(call)'
                      /\ call.before = Now(call.user)' => UpToDate(call)'
  BY DEF ListingFits
<1>2. BeganEarlier(call)
  BY <1>1 DEF ListingFits
<1>3. BeganEarlier(call)'
  BY <1>2 DEF BeganEarlier, RowsOf, RowsKept
<1>4. ASSUME call.before = Now(call.user)' PROVE UpToDate(call)'
  <2>1. /\ RowsOf(call.user)' = RowsOf(call.user)
        /\ \A r \in RowsOf(call.user) : rows'[r].read = rows[r].read
        /\ call.before = Now(call.user)
    BY <1>2, <1>4, UnchangedSince
  <2>2. UpToDate(call)
    BY <1>1, <2>1 DEF ListingFits
  <2>3. \A group : InGroup(call.user, group)' = InGroup(call.user, group)
    BY <2>1, SameGroups
  <2>4. SkipOf(call)' = SkipOf(call)
    BY <2>1 DEF SkipOf, NewerOf
  <2>5. QED
    BY <2>2, <2>3, <2>4 DEF UpToDate, Newest
<1>5. QED
  BY <1>3, <1>4

\* A step in which only call h moves, to one that fits the new table.
LEMMA OneListingMoved ==
  ASSUME PagesInv, TypeInv', RowsKept, NEW h \in Handlers, Moved(h),
         NEW call, call = handlers'[h], ListingFits(call)'
  PROVE  ListingsFit'
<1>1. ASSUME NEW g \in Handlers, g # h PROVE ListingFits(handlers[g])'
  <2>1. PICK c : c = handlers[g]
    OBVIOUS
  <2>2. handlers'[g] = c
    BY <1>1, <2>1 DEF Moved
  <2>3. ListingFits(c)
    BY <2>1 DEF PagesInv, ListingsFit
  <2>4. ListingFits(c)'
    BY <2>3, ListingStays DEF PagesInv
  <2>5. QED
    BY <2>2, <2>4
<1>2. ListingFits(handlers[h])'
  OBVIOUS
<1>3. QED
  BY <1>1, <1>2 DEF ListingsFit

LEMMA RequestKeepsPages ==
  ASSUME PagesInv, NEW h \in Handlers, Request(h), RowsKept, TypeInv'
  PROVE  ListingsFit'
<1>1. Moved(h)
  BY DEF Request, Send, ReadOne, ReadPage, LookUp, ReadAll, List, Begin, Moved,
     PagesInv, TypeInv, TypeOK
<1>2. PICK call : call = handlers'[h]
  OBVIOUS
<1>3. CASE call.at \notin {"count", "skip", "find", "answer"}
  BY <1>1, <1>2, <1>3, OneListingMoved DEF ListingFits
<1>4. ASSUME NEW u \in Users, NEW q \in Query, List(h, u, q)
      PROVE  ListingsFit'
  <2>1. UNCHANGED rows
    BY <1>4 DEF List
  <2>2. /\ call.at = "count" /\ call.user = u /\ call.query = q
        /\ call.unread = None /\ call.read = None
        /\ call.before = Now(u)
    BY <1>2, <1>4 DEF List, Begin, Now, IdleHandler, PagesInv, TypeInv, TypeOK
  <2>3. BeganEarlier(call)
    BY <1>4, <2>2 DEF BeganEarlier, Now
  <2>4. UpToDate(call)
    BY <2>2 DEF UpToDate
  <2>5. ListingFits(call)
    BY <2>2, <2>3, <2>4 DEF ListingFits
  <2>6. ListingFits(call)'
    BY <2>5, ListingStays DEF PagesInv
  <2>7. QED
    BY <1>1, <1>2, <2>6, OneListingMoved
<1>5. QED
  <2>1. ASSUME NEW U, Send(h, U) PROVE call.at = "send"
    BY <1>2, <2>1 DEF Send, Begin, IdleHandler, PagesInv, TypeInv, TypeOK
  <2>2. ASSUME NEW ids, LookUp(h, ids) PROVE call.at = "date"
    BY <1>2, <2>2 DEF LookUp, Begin, IdleHandler, PagesInv, TypeInv, TypeOK
  <2>3. ASSUME NEW u, ReadAll(h, u) PROVE call.at = "readAll"
    BY <1>2, <2>3 DEF ReadAll, Begin, IdleHandler, PagesInv, TypeInv, TypeOK
  <2>4. QED
    BY <1>3, <1>4, <2>1, <2>2, <2>3 DEF Request, ReadOne, ReadPage

LEMMA WriteKeepsPages ==
  ASSUME PagesInv, NEW h \in Handlers, RowsKept, TypeInv',
         \/ \E u \in Users : SaveNew(h, u)
         \/ \E r \in DOMAIN rows : TellNew(h, r) \/ SaveRead(h, r) \/ TellRead(h, r)
  PROVE  ListingsFit'
<1>1. handlers[h].at \in {"send", "read"}
  BY DEF SaveNew, TellNew, SaveRead, TellRead, At
<1>2. PICK locals : locals.at = handlers[h].at /\ Continue(h, locals)
  <2>1. handlers[h] \in Call
    BY DEF PagesInv, TypeInv, TypeOK
  <2>2. \A T, O : [handlers[h] EXCEPT !.todo = T, !.out = O].at = handlers[h].at
    BY <2>1 DEF Call
  <2>3. \A O : [handlers[h] EXCEPT !.out = O].at = handlers[h].at
    BY <2>1 DEF Call
  <2>4. ASSUME NEW u \in Users, SaveNew(h, u)
        PROVE  \E locals : locals.at = handlers[h].at /\ Continue(h, locals)
    BY <2>2, <2>4 DEF SaveNew
  <2>5. ASSUME NEW r \in DOMAIN rows, TellNew(h, r) \/ TellRead(h, r)
        PROVE  \E locals : locals.at = handlers[h].at /\ Continue(h, locals)
    BY <2>3, <2>5 DEF TellNew, TellRead
  <2>6. ASSUME NEW r \in DOMAIN rows, SaveRead(h, r)
        PROVE  \E locals : locals.at = handlers[h].at /\ Continue(h, locals)
    BY <2>2, <2>6 DEF SaveRead
  <2>7. QED
    BY <2>4, <2>5, <2>6
<1>3. Moved(h) /\ handlers'[h].at \in {"send", "read", "idle"}
  BY <1>1, <1>2 DEF Continue, Moved, IdleHandler, PagesInv, TypeInv, TypeOK
<1>4. QED
  BY <1>3, OneListingMoved DEF ListingFits

LEMMA EndKeepsPages ==
  ASSUME PagesInv, NEW h \in Handlers, RowsKept, TypeInv',
         Date(h) \/ TellAllRead(h)
  PROVE  ListingsFit'
<1>1. Moved(h)
  BY DEF Date, TellAllRead, Moved, PagesInv, TypeInv, TypeOK
<1>2. CASE Date(h)
  <2>1. PICK q \in Call : q = handlers[h]
    BY DEF PagesInv, TypeInv, TypeOK
  <2>2. \A C, T : [q EXCEPT !.at = "read", !.copies = C, !.todo = T].at = "read"
    BY <2>1 DEF Call
  <2>3. handlers'[h].at = "read"
    BY <1>2, <2>1, <2>2 DEF Date, PagesInv, TypeInv, TypeOK
  <2>4. QED
    BY <1>1, <2>3, OneListingMoved DEF ListingFits
<1>3. CASE TellAllRead(h)
  <2>1. handlers'[h].at = "idle"
    BY <1>3 DEF TellAllRead, IdleHandler, PagesInv, TypeInv, TypeOK
  <2>2. QED
    BY <1>1, <2>1, OneListingMoved DEF ListingFits
<1>4. QED
  BY <1>2, <1>3

LEMMA ListKeepsPages ==
  ASSUME PagesInv, NEW h \in Handlers, RowsKept, TypeInv',
         CountUnread(h) \/ CountRead(h) \/ FindSkip(h) \/ FindItems(h) \/ Answer(h)
  PROVE  ListingsFit'
<1>1. PICK c : c = handlers[h]
  OBVIOUS
<1>2. PICK call : call = handlers'[h]
  OBVIOUS
<1>3. c \in Call /\ c.at \in {"count", "skip", "find", "answer"} /\ ListingFits(c)
  BY <1>1 DEF CountUnread, CountRead, FindSkip, FindItems, Answer, At,
              PagesInv, TypeInv, TypeOK, ListingsFit
<1>4. Moved(h) /\ UNCHANGED rows
  BY DEF CountUnread, CountRead, FindSkip, FindItems, Answer, Listing, Moved,
         PagesInv, TypeInv, TypeOK
<1>5. \A locals : Listing(h, locals) => call = locals
  BY <1>2 DEF Listing, PagesInv, TypeInv, TypeOK
<1>6. SUFFICES ListingFits(call)
  BY <1>2, <1>4, ListingStays, OneListingMoved DEF PagesInv
<1>7. BeganEarlier(c)
  BY <1>3 DEF ListingFits
<1>8. CASE CountUnread(h)
  <2>1. /\ c.at = "count" /\ c.unread = None
        /\ call = [c EXCEPT !.unread = Cardinality(InGroup(c.user, "unread")),
                            !.at = IF c.read = None THEN "count" ELSE "skip"]
    BY <1>1, <1>5, <1>8 DEF CountUnread, At
  <2> DEFINE n == Cardinality(InGroup(c.user, "unread"))
  <2> HIDE DEF n
  <2>2. /\ call.unread = n /\ call.at \in {"count", "skip"}
        /\ call.at = "skip" => c.read # None
        /\ call.user = c.user /\ call.query = c.query /\ call.read = c.read
        /\ call.before = c.before
    BY <1>3, <2>1 DEF Call, n
  <2>3. QED
    BY <1>3, <1>7, <2>1, <2>2 DEF ListingFits, BeganEarlier, UpToDate, n
<1>9. CASE CountRead(h)
  <2>1. /\ c.at = "count" /\ c.read = None
        /\ call = [c EXCEPT !.read = Cardinality(InGroup(c.user, "read")),
                            !.at = IF c.unread = None THEN "count" ELSE "skip"]
    BY <1>1, <1>5, <1>9 DEF CountRead, At
  <2> DEFINE n == Cardinality(InGroup(c.user, "read"))
  <2> HIDE DEF n
  <2>2. /\ call.read = n /\ call.at \in {"count", "skip"}
        /\ call.at = "skip" => c.unread # None
        /\ call.user = c.user /\ call.query = c.query /\ call.unread = c.unread
        /\ call.before = c.before
    BY <1>3, <2>1 DEF Call, n
  <2>3. QED
    BY <1>3, <1>7, <2>1, <2>2 DEF ListingFits, BeganEarlier, UpToDate, n
<1>10. CASE FindSkip(h)
  <2>1. c.at = "skip" /\ call = [c EXCEPT !.at = "find", !.skip = SkipOf(c)]
    BY <1>1, <1>5, <1>10 DEF FindSkip, At, Skip, SkipOf, Newer, NewerOf
  <2>2. SkipOf(call) = SkipOf(c)
    BY <1>3, <2>1 DEF Call, SkipOf, NewerOf
  <2>3. QED
    BY <1>3, <1>7, <2>1, <2>2 DEF Call, ListingFits, BeganEarlier, UpToDate
<1>11. CASE FindItems(h)
  <2> DEFINE items == Newest(InGroup(c.user, GroupOf(c)), c.skip, PerPage)
  <2>1. c.at = "find" /\ call = [c EXCEPT !.at = "answer", !.items = items]
    BY <1>1, <1>5, <1>11 DEF FindItems, At, Found, Group, GroupOf
  <2> HIDE DEF items
  <2>2. /\ call.at = "answer" /\ call.items = items
        /\ call.user = c.user /\ call.query = c.query /\ call.skip = c.skip
        /\ call.unread = c.unread /\ call.read = c.read /\ call.before = c.before
    BY <1>3, <2>1 DEF Call
  <2>3. SkipOf(call) = SkipOf(c)
    BY <2>2 DEF SkipOf, NewerOf
  <2>4. QED
    BY <1>3, <1>7, <2>1, <2>2, <2>3 DEF ListingFits, BeganEarlier, UpToDate, GroupOf, items
<1>12. CASE Answer(h)
  BY <1>5, <1>12 DEF Answer, IdleHandler, ListingFits
<1>13. QED
  BY <1>8, <1>9, <1>10, <1>11, <1>12

LEMMA PagesKept == PagesInv /\ [Next]_vars => PagesInv'
<1> SUFFICES ASSUME PagesInv, [Next]_vars PROVE PagesInv'
  OBVIOUS
<1>1. TypeInv' /\ RowsKept
  BY NextTypes, RowsStay DEF PagesInv
<1>2. CASE UNCHANGED <<rows, handlers>>
  <2>1. ASSUME NEW g \in Handlers PROVE ListingFits(handlers[g])'
    <3>1. PICK c : c = handlers[g]
      OBVIOUS
    <3>2. ListingFits(c)'
      BY <1>1, <3>1, ListingStays DEF PagesInv, ListingsFit
    <3>3. QED
      BY <1>2, <3>1, <3>2
  <2>2. QED
    BY <1>1, <2>1 DEF PagesInv, ListingsFit
<1>3. ASSUME NEW s \in Sockets, SocketStep(s) PROVE UNCHANGED <<rows, handlers>>
  BY <1>3 DEF SocketStep, Connect, Authenticated, AuthenticationFails, Disconnect,
              DisconnectEarly
<1>4. ASSUME NEW h \in Handlers, Request(h) PROVE PagesInv'
  BY <1>1, <1>4, RequestKeepsPages DEF PagesInv
<1>5. ASSUME NEW h \in Handlers, Step(h) PROVE PagesInv'
  BY <1>1, <1>5, WriteKeepsPages, EndKeepsPages, ListKeepsPages DEF Step, PagesInv
<1>6. CASE Restart
  BY <1>1, <1>6 DEF Restart, IdleHandler, PagesInv, ListingsFit, ListingFits
<1>7. QED
  BY <1>2, <1>3, <1>4, <1>5, <1>6 DEF Next, vars

----------------------------------------------------------------------------
(* The answer of a listing whose rows did not change.                        *)

LEMMA Quotients ==
  ASSUME NEW a \in Nat
  PROVE  /\ a \div PerPage \in Nat
         /\ PerPage * (a \div PerPage) <= a
         /\ a < PerPage * (a \div PerPage) + PerPage
         /\ a - (a % PerPage) = PerPage * (a \div PerPage)
BY PageAssumption

LEMMA QuotientBounds ==
  ASSUME NEW a \in Nat, NEW q \in Nat, NEW r \in Nat,
         PerPage * q <= a, a < PerPage * r + PerPage
  PROVE  q <= r
<1>1. SUFFICES ASSUME q >= r + 1
               PROVE  FALSE
  OBVIOUS
<1>2. PICK d \in Nat : q = r + 1 + d
  <2>1. q - (r + 1) \in Nat
    BY <1>1
  <2>2. q = r + 1 + (q - (r + 1))
    OBVIOUS
  <2>3. QED
    BY <2>1, <2>2
<1>3. PerPage \in Nat
  BY PageAssumption
<1>4. PerPage * q = PerPage * r + PerPage + PerPage * d
  BY <1>2, <1>3
<1>5. PerPage * d >= 0 /\ PerPage * d \in Int /\ PerPage * r \in Int /\ PerPage * q \in Int
  BY <1>3
<1>6. QED
  BY <1>3, <1>4, <1>5

\* Rows skip..skip + PerPage - 1 of a group are a page of it, if skip is a
\* number of whole pages.
LEMMA PageOfPlace ==
  ASSUME NEW skipped \in Nat, NEW n \in Nat
  PROVE  PerPage * skipped <= n /\ n < PerPage * skipped + PerPage
            <=> n \div PerPage = skipped
<1>1. /\ n \div PerPage \in Nat
      /\ PerPage * (n \div PerPage) <= n
      /\ n < PerPage * (n \div PerPage) + PerPage
  BY Quotients
<1>2. ASSUME PerPage * skipped <= n, n < PerPage * skipped + PerPage
      PROVE  n \div PerPage = skipped
  <2>1. n \div PerPage <= skipped /\ skipped <= n \div PerPage
    BY <1>1, <1>2, QuotientBounds
  <2>2. QED
    BY <1>1, <2>1
<1>3. QED
  BY <1>1, <1>2

LEMMA LastPage ==
  ASSUME NEW c \in Nat, NEW n \in Nat, n < c
  PROVE  n \div PerPage + 1 <= Ceil(c)
<1> DEFINE q == n \div PerPage
<1>1. PerPage \in Nat /\ PerPage >= 1 /\ c + PerPage - 1 \in Nat
  BY PageAssumption
<1>2. q \in Nat /\ PerPage * q <= n
  BY Quotients
<1>3. Ceil(c) \in Nat /\ c + PerPage - 1 < PerPage * Ceil(c) + PerPage
  BY <1>1, Quotients DEF Ceil
<1> HIDE DEF q
<1>4. PerPage * (q + 1) = PerPage * q + PerPage /\ PerPage * q \in Int
  BY <1>1, <1>2
<1>5. PerPage * (q + 1) <= c + PerPage - 1
  BY <1>1, <1>2, <1>4
<1>6. q + 1 <= Ceil(c)
  BY <1>1, <1>2, <1>3, <1>5, QuotientBounds
<1>7. QED
  BY <1>6 DEF q

LEMMA WholePagesCounted ==
  ASSUME NEW q \in Nat
  PROVE  Ceil(PerPage * q) = q
<1>1. PerPage \in Nat /\ PerPage >= 1
  BY PageAssumption
<1>2. PerPage * q \in Nat
  BY <1>1
<1>3. PerPage * q + PerPage - 1 \in Nat
  BY <1>1, <1>2
<1>4. (PerPage * q + PerPage - 1) \div PerPage = q
  <2> DEFINE n == PerPage * q + PerPage - 1
  <2>1. PerPage * q <= n /\ n < PerPage * q + PerPage
    BY <1>1, <1>2
  <2>2. n \in Nat
    BY <1>3
  <2> HIDE DEF n
  <2>3. n \div PerPage = q
    BY <2>1, <2>2, PageOfPlace
  <2>4. QED
    BY <2>3 DEF n
<1>5. QED
  BY <1>4 DEF Ceil

\* The number that RightPage compares with the place of the rows.
NumberOf(h) ==
    IF handlers[h].query.asked # None /\ handlers[h].query.page # None
    THEN PageOfItems(h) ELSE Page(h)

\* The rows a call skips are whole pages, and the page its answer names, or
\* the page of the notification, is the next one.
LEMMA SkippedPages ==
  ASSUME PagesInv, NEW h \in Handlers, handlers[h].query \in Query,
         handlers[h].skip = SkipOf(handlers[h])
  PROVE  \E q \in Nat : handlers[h].skip = PerPage * q /\ NumberOf(h) = q + 1
<1> DEFINE query == handlers[h].query
<1>1. PerPage \in Nat
  BY PageAssumption
<1>2. CASE query.asked = None
  <2>1. PageAsked(query) \in 1..2
    BY DEF Query, PageAsked
  <2>6. NumberOf(h) = PageAsked(query)
    BY <1>2 DEF NumberOf, Page
  <2> DEFINE p == PageAsked(query)
  <2> HIDE DEF p
  <2>2. p - 1 \in Nat /\ p = (p - 1) + 1
    BY <2>1 DEF p
  <2>3. (p - 1) * PerPage = PerPage * (p - 1)
    BY <1>1, <2>2
  <2>4. handlers[h].skip = (p - 1) * PerPage
    BY <1>2 DEF SkipOf, p
  <2>5. QED
    BY <2>2, <2>3, <2>4, <2>6 DEF p
<1>3. CASE query.asked # None
  <2> DEFINE n == Cardinality(NewerOf(handlers[h]))
  <2>1. n \in Nat
    BY CountedRows DEF NewerOf, RowsOf, PagesInv, TypeInv
  <2>2. handlers[h].skip = n - (n % PerPage)
    BY <1>3 DEF SkipOf
  <2> HIDE DEF n
  <2>3. n \div PerPage \in Nat /\ handlers[h].skip = PerPage * (n \div PerPage)
    BY <2>1, <2>2, Quotients
  <2>4. NumberOf(h) = PageOfItems(h)
    BY <1>3 DEF NumberOf, Page
  <2>5. PageOfItems(h) = (n \div PerPage) + 1
    BY <2>3, WholePagesCounted DEF PageOfItems
  <2>6. QED
    BY <2>3, <2>4, <2>5
<1>4. QED
  BY <1>2, <1>3

\* Read and unread rows are all rows of the user.
LEMMA BothCounts ==
  ASSUME TypeOK, NEW u
  PROVE  /\ Cardinality(ReadRows(u)) + Cardinality(RowsOf(u) \ ReadRows(u))
              = Cardinality(RowsOf(u))
         /\ Cardinality(RowsOf(u)) \in Nat
<1>1. ReadRows(u) \subseteq RowsOf(u) /\ RowsOf(u) \subseteq DOMAIN rows
  BY DEF ReadRows, RowsOf
<1>2. /\ IsFiniteSet(RowsOf(u)) /\ IsFiniteSet(ReadRows(u))
      /\ Cardinality(RowsOf(u)) \in Nat /\ Cardinality(ReadRows(u)) \in Nat
  BY <1>1, CountedRows
<1>3. Cardinality(RowsOf(u) \ ReadRows(u))
         = Cardinality(RowsOf(u)) - Cardinality(RowsOf(u) \cap ReadRows(u))
  BY <1>2, FS_Difference
<1>4. RowsOf(u) \cap ReadRows(u) = ReadRows(u)
  BY <1>1
<1>5. Cardinality(RowsOf(u) \ ReadRows(u)) = Cardinality(RowsOf(u)) - Cardinality(ReadRows(u))
  BY <1>3, <1>4
<1>6. \A a, b \in Nat : b + (a - b) = a
  OBVIOUS
<1>7. QED
  BY <1>2, <1>5, <1>6

\* A row of a finite group has fewer newer rows in it than the group has rows.
LEMMA FewerAreNewer ==
  ASSUME NEW R, IsFiniteSet(R), R \subseteq Ids, NEW r \in R
  PROVE  /\ Cardinality({q \in R : q > r}) \in Nat
         /\ Cardinality(R) \in Nat
         /\ Cardinality({q \in R : q > r}) < Cardinality(R)
<1> DEFINE newer == {q \in R : q > r}
<1>1. newer \subseteq R /\ r \notin newer
  BY RoomAssumption DEF Ids
<1>2. IsFiniteSet(newer) /\ Cardinality(newer) <= Cardinality(R)
  BY <1>1, FS_Subset
<1>3. Cardinality(newer) \in Nat /\ Cardinality(R) \in Nat
  BY <1>2, FS_CardinalityType
<1>4. Cardinality(newer) # Cardinality(R)
  BY <1>1, FS_Subset
<1>5. QED
  BY <1>2, <1>3, <1>4

LEMMA AnswerIsRight ==
  ASSUME PagesInv, NEW h \in Handlers, At(h, "answer"),
         handlers[h].before = Now(handlers[h].user)
  PROVE  /\ Total(h) = Cardinality(RowsOf(handlers[h].user))
         /\ \A r \in Found(h) :
               r \in handlers[h].items <=>
                   NumberOf(h) = Cardinality({q \in Found(h) : q > r}) \div PerPage + 1
         /\ handlers[h].items # {} => NumberOf(h) <= PagesCount(h)
         /\ handlers[h].query.asked # None
              /\ handlers[h].query.asked \in RowsOf(handlers[h].user) =>
                   handlers[h].query.asked \in handlers[h].items
<1>1. PICK call : call = handlers[h]
  OBVIOUS
<1>2. call.at = "answer" /\ call.query \in Query /\ call \in Call
  BY <1>1 DEF At, PagesInv, TypeInv, TypeOK, CallsReady, Ready
<1>3. BeganEarlier(call) /\ UpToDate(call)
  BY <1>1, <1>2 DEF PagesInv, ListingsFit, ListingFits
<1>4. PICK skipped \in Nat : call.skip = PerPage * skipped /\ NumberOf(h) = skipped + 1
  BY <1>1, <1>2, <1>3, SkippedPages DEF UpToDate
<1> DEFINE R == Found(h)
           place(r) == Cardinality({q \in R : q > r})
<1>5. GroupOf(call) \in {"all", "read", "unread"} /\ Group(h) = GroupOf(call)
  BY <1>1, <1>2 DEF Query, Group, GroupOf
<1>6. R \subseteq DOMAIN rows /\ R \subseteq Ids /\ IsFiniteSet(R)
  BY <1>1, <1>5, GroupsAreRows, CountedRows, TableOfRows DEF Found, PagesInv, TypeInv
<1>7. \A r \in R : place(r) \in Nat /\ Cardinality(R) \in Nat /\ place(r) < Cardinality(R)
  BY <1>6, FewerAreNewer
<1>8. call.items = {r \in R : call.skip <= place(r) /\ place(r) < call.skip + PerPage}
  BY <1>1, <1>2, <1>3, <1>5 DEF UpToDate, Newest, Found
<1>9. Total(h) = Cardinality(RowsOf(call.user)) /\ PagesCount(h) = Ceil(Cardinality(R))
  <2>1. /\ call.read = Cardinality(ReadRows(call.user))
        /\ call.unread = Cardinality(RowsOf(call.user) \ ReadRows(call.user))
    BY <1>2, <1>3 DEF UpToDate, InGroup
  <2>2. Total(h) = Cardinality(RowsOf(call.user))
    BY <1>1, <2>1, BothCounts DEF Total, PagesInv, TypeInv
  <2>3. QED
    BY <1>1, <1>5, <2>1, <2>2 DEF PagesCount, Found, InGroup
<1>10. \A r \in R : r \in call.items <=> place(r) \div PerPage = skipped
  BY <1>4, <1>7, <1>8, PageOfPlace
<1>11. \A r \in R : r \in call.items <=> NumberOf(h) = place(r) \div PerPage + 1
  <2>1. \A r \in R : place(r) \div PerPage \in Nat
    BY <1>7, Quotients
  <2> HIDE DEF R, place
  <2>2. QED
    BY <1>4, <1>10, <2>1
<1>12. ASSUME call.items # {} PROVE NumberOf(h) <= PagesCount(h)
  <2>1. PICK r \in R : r \in call.items
    BY <1>8, <1>12
  <2>2. place(r) \div PerPage + 1 <= Ceil(Cardinality(R))
    BY <1>7, LastPage
  <2>3. QED
    BY <1>9, <1>11, <2>1, <2>2
<1>13. ASSUME call.query.asked # None, call.query.asked \in RowsOf(call.user)
       PROVE  call.query.asked \in call.items
  <2> DEFINE asked == call.query.asked
  <2>1. asked \in RowsOf(call.user) /\ Group(h) = "all"
    BY <1>1, <1>13 DEF Group
  <2>2. R = RowsOf(call.user)
    BY <1>1, <2>1 DEF Found, InGroup
  <2>3. place(asked) = Cardinality(NewerOf(call))
    BY <2>2 DEF NewerOf
  <2>4. call.skip = place(asked) - (place(asked) % PerPage)
    BY <1>2, <1>3, <1>13, <2>3 DEF UpToDate, SkipOf
  <2>5. place(asked) \in Nat
    BY <1>7, <2>1, <2>2
  <2>6. PerPage * (place(asked) \div PerPage) = PerPage * skipped
    BY <1>4, <2>4, <2>5, Quotients
  <2>7. PerPage * skipped <= place(asked) /\ place(asked) < PerPage * skipped + PerPage
    BY <2>5, <2>6, Quotients
  <2>8. QED
    BY <1>4, <1>8, <2>1, <2>2, <2>7
<1>14. QED
  BY <1>1, <1>9, <1>11, <1>12, <1>13

(* A listing answers with the page its number says, of the rows in the order *)
(* asked for, and the page of a notification asked for holds it, unless the  *)
(* rows of the user changed while it counted, skipped and looked up.         *)
THEOREM PagesAreRight == Spec => []RightPage
<1>1. Init => PagesInv
  BY InitTypes DEF Init, IdleHandler, PagesInv, ListingsFit, ListingFits
<1>2. PagesInv => RightPage
  BY AnswerIsRight DEF RightPage, Now, NumberOf
<1>3. QED
  BY <1>1, <1>2, PagesKept, PTL DEF Spec
============================================================================
