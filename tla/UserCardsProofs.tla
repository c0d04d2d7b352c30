-------------------------- MODULE UserCardsProofs --------------------------
(* Proofs about the table of cards, for any sets of users, cards, rows and   *)
(* concurrent operations.                                                    *)
EXTENDS UserCards, TLAPS

LEMMA BlankTypes ==
  /\ UnusedRow \in Row /\ UnusedRow.state = "unused"
  /\ IdleHandler \in Handler /\ IdleHandler.at = "idle"
  BY UsersAssumption, DetailsAssumption, CardIdsAssumption
     DEF UnusedRow, IdleHandler, Row, Handler, Place

LEMMA TypeInit == Init => TypeOK
  BY BlankTypes DEF Init, TypeOK, History

LEMMA TypeNext == TypeOK /\ [Next]_vars => TypeOK'
<1> SUFFICES ASSUME TypeOK, [Next]_vars PROVE TypeOK'
  OBVIOUS
<1> USE DEF TypeOK
<1>1. CASE UNCHANGED vars
  BY <1>1 DEF vars
<1>2. ASSUME NEW h \in Handlers, NEW u \in Users, NEW c \in CardIds,
             DeleteBegin(h, u, c)
      PROVE  TypeOK'
  BY <1>2, BlankTypes DEF DeleteBegin, Begin, Meeting, Handler, Place, History
<1>3. ASSUME NEW h \in Handlers, DeleteMark(h) PROVE TypeOK'
  BY <1>3, BlankTypes DEF DeleteMark, Finish, Row, Handler
<1>4. ASSUME NEW h \in Handlers, NEW u \in Users, NEW c \in CardIds,
             MakeDefaultBegin(h, u, c)
      PROVE  TypeOK'
  BY <1>4, BlankTypes DEF MakeDefaultBegin, Begin, Meeting, Handler, Place, History
<1>5. ASSUME NEW h \in Handlers, MakeDefaultClear(h) PROVE TypeOK'
  <2>1. \A c \in CardIds : [cards[c] EXCEPT !.default = FALSE] \in Row
    BY DEF Row
  <2>2. cards' \in [CardIds -> Row]
    BY <1>5, <2>1 DEF MakeDefaultClear
  <2>3. QED
    BY <1>5, <2>2 DEF MakeDefaultClear, Goto, Handler, Place
<1>6. ASSUME NEW h \in Handlers, MakeDefaultSet(h) PROVE TypeOK'
  BY <1>6, BlankTypes DEF MakeDefaultSet, Finish, Row, Handler
<1>7. ASSUME NEW h \in Handlers, NEW u \in Users, NEW d \in Details,
             SaveBegin(h, u, d)
      PROVE  TypeOK'
  BY <1>7, BlankTypes DEF SaveBegin, Begin, Meeting, Handler, Place, History
<1>8. ASSUME NEW h \in Handlers, SaveLookForAny(h) PROVE TypeOK'
  <2> DEFINE isFirst == OwnedBy(handlers[h].user) = {}
  <2>1. handlers' = [handlers EXCEPT ![h].at = "insert", ![h].first = isFirst]
    BY <1>8 DEF SaveLookForAny
  <2>2. isFirst \in BOOLEAN /\ UNCHANGED <<cards, history>>
    BY <1>8 DEF SaveLookForAny
  <2> HIDE DEF isFirst
  <2>3. QED
    BY <2>1, <2>2 DEF Handler, Place
<1>9. ASSUME NEW h \in Handlers, NEW c \in CardIds, SaveInsert(h, c)
      PROVE  TypeOK'
  BY <1>9, BlankTypes DEF SaveInsert, Finish, Row, Handler
<1>10. ASSUME NEW h \in Handlers, Interrupt(h) PROVE TypeOK'
  BY <1>10, BlankTypes DEF Interrupt, History
<1>11. QED
  BY <1>1, <1>2, <1>3, <1>4, <1>5, <1>6, <1>7, <1>8, <1>9, <1>10 DEF Next

\* The table and the handlers hold what the code puts there, and nothing else.
THEOREM TypeCorrect == Spec => []TypeOK
  BY TypeInit, TypeNext, PTL DEF Spec

----------------------------------------------------------------------------
(* A default card is never lost while no deletion contends with a choice of  *)
(* the same card.  DefaultCardKept is not inductive: the card a deletion is  *)
(* about to mark must not have become the default one, the card a choice is  *)
(* about to flag must not have been deleted, and a saveCard that found       *)
(* another row must not have lost it since.                                  *)

Calm == history \in {"serial", "overlapping"}

Uncontended ==
    \A g, h \in Handlers : ~Contend(handlers[g], handlers[h])

Knows(h) ==
    LET me == handlers[h]
    IN  /\ me.at = "markDeleted" => me.card \in OwnedBy(me.user) /\ ~cards[me.card].default
        /\ me.at \in {"clearDefaults", "setDefault"} => me.card \in Visible(me.user)
        /\ me.at = "insert" /\ ~me.first => OwnedBy(me.user) # {}

Kept(u) == OwnedBy(u) # {} => Defaults(u) # {} \/ SettingDefault(u)

CalmInv ==
    Calm => /\ Uncontended
            /\ \A h \in Handlers : Knows(h)
            /\ \A u \in Users : Kept(u)

\* A step that is still calm has not been anything else before.
LEMMA CalmBefore ==
  ASSUME TypeOK, [Next]_vars, Calm' PROVE Calm
  BY DEF Calm, TypeOK, History, Next, vars, DeleteBegin, DeleteMark,
         MakeDefaultBegin, MakeDefaultClear, MakeDefaultSet, SaveBegin,
         SaveLookForAny, SaveInsert, Interrupt, Begin, Meeting, Goto, Finish

\* An operation that moves on to a place where it contends with nobody.
LEMMA UncontendedStep ==
  ASSUME TypeOK, Uncontended, NEW h \in Handlers,
         \A g \in Handlers \ {h} : handlers'[g] = handlers[g],
         \/ handlers'[h].at \notin {"markDeleted", "clearDefaults", "setDefault"}
         \/ /\ handlers'[h].at \in {"clearDefaults", "setDefault"}
            /\ handlers[h].at \in {"clearDefaults", "setDefault"}
            /\ handlers'[h].card = handlers[h].card
  PROVE  Uncontended'
  BY DEF Uncontended, Contend

\* A user whose rows stay keeps the default card, or the setting of it.
LEMMA KeptSame ==
  ASSUME TypeOK, NEW u \in Users, Kept(u),
         OwnedBy(u)' = OwnedBy(u), \A c \in OwnedBy(u) : cards'[c] = cards[c],
         SettingDefault(u) => SettingDefault(u)'
  PROVE  Kept(u)'
<1>1. Visible(u)' = Visible(u)
  BY DEF Visible
<1>2. Defaults(u)' = Defaults(u)
  BY <1>1 DEF Defaults, Visible
<1>3. QED
  BY <1>2 DEF Kept

LEMMA CalmBegins ==
  ASSUME TypeOK, TypeOK', CalmInv, Calm, Calm', NEW h \in Handlers,
         NEW u \in Users,
         \/ \E c \in CardIds : DeleteBegin(h, u, c) \/ MakeDefaultBegin(h, u, c)
         \/ \E d \in Details : SaveBegin(h, u, d)
  PROVE  CalmInv'
<1> USE DEF TypeOK, Handler
<1>1. PICK locals \in Handler : Begin(h, locals)
  <2>1. \A c \in CardIds : /\ [IdleHandler EXCEPT !.at = "markDeleted", !.user = u, !.card = c] \in Handler
                           /\ [IdleHandler EXCEPT !.at = "clearDefaults", !.user = u, !.card = c] \in Handler
    BY BlankTypes DEF Place
  <2>2. \A d \in Details : [IdleHandler EXCEPT !.at = "lookForAny", !.user = u, !.details = d] \in Handler
    BY BlankTypes DEF Place
  <2>3. QED
    BY <2>1, <2>2 DEF DeleteBegin, MakeDefaultBegin, SaveBegin
<1>2. /\ UNCHANGED cards /\ ~Busy(h) /\ handlers'[h] = locals
      /\ \A g \in Handlers \ {h} : handlers'[g] = handlers[g]
  BY <1>1 DEF DeleteBegin, MakeDefaultBegin, SaveBegin, Begin
<1>3. /\ \A v \in Users : OwnedBy(v)' = OwnedBy(v) /\ Visible(v)' = Visible(v)
      /\ \A v \in Users : Defaults(v)' = Defaults(v)
  BY <1>2 DEF OwnedBy, Visible, Defaults, Stored
<1>4. Uncontended'
  <2>1. history' = Meeting(locals)
    BY <1>1 DEF Begin
  <2>2. \A g \in Handlers : ~Contend(handlers[g], locals) /\ ~Contend(locals, handlers[g])
    BY <2>1 DEF Meeting, Calm
  <2>3. ~Contend(locals, locals)
    BY DEF Contend
  <2>4. \A f, g \in Handlers : ~Contend(handlers'[f], handlers'[g])
    BY <1>2, <2>2, <2>3 DEF CalmInv, Uncontended
  <2>5. QED
    BY <2>4 DEF Uncontended, Contend
<1>5. Knows(h)'
  <2>1. ASSUME NEW c \in CardIds, DeleteBegin(h, u, c) PROVE Knows(h)'
    <3>1. handlers'[h] = [IdleHandler EXCEPT !.at = "markDeleted", !.user = u, !.card = c]
      BY <2>1 DEF DeleteBegin, Begin
    <3>2. c \in OwnedBy(u)' /\ ~cards'[c].default
      BY <1>2, <1>3, <2>1 DEF DeleteBegin, Visible
    <3>3. QED
      BY <3>1, <3>2, BlankTypes DEF Knows
  <2>2. ASSUME NEW c \in CardIds, MakeDefaultBegin(h, u, c) PROVE Knows(h)'
    <3>1. handlers'[h] = [IdleHandler EXCEPT !.at = "clearDefaults", !.user = u, !.card = c]
      BY <2>2 DEF MakeDefaultBegin, Begin
    <3>2. c \in Visible(u)'
      BY <1>3, <2>2 DEF MakeDefaultBegin
    <3>3. QED
      BY <3>1, <3>2, BlankTypes DEF Knows
  <2>3. ASSUME NEW d \in Details, SaveBegin(h, u, d) PROVE Knows(h)'
    <3>1. handlers'[h].at = "lookForAny"
      BY <2>3, BlankTypes DEF SaveBegin, Begin
    <3>2. QED
      BY <3>1 DEF Knows
  <2>4. QED
    BY <2>1, <2>2, <2>3
<1>6. ASSUME NEW g \in Handlers PROVE Knows(g)'
  <2>1. CASE g = h
    BY <1>5, <2>1
  <2>2. CASE g # h
    <3>1. /\ handlers'[g] = handlers[g] /\ Knows(g) /\ UNCHANGED cards
          /\ handlers[g].user \in Users
      BY <1>2, <2>2 DEF CalmInv
    <3>2. QED
      BY <1>3, <3>1 DEF Knows
  <2>3. QED
    BY <2>1, <2>2
<1>7. ASSUME NEW v \in Users PROVE Kept(v)'
  <2>1. SettingDefault(v) => SettingDefault(v)'
    BY <1>2 DEF SettingDefault, Busy
  <2>2. QED
    BY <1>3, <2>1 DEF CalmInv, Kept
<1>8. QED
  BY <1>4, <1>6, <1>7 DEF CalmInv

LEMMA CalmDeletes ==
  ASSUME TypeOK, TypeOK', CalmInv, Calm, NEW h \in Handlers, DeleteMark(h)
  PROVE  CalmInv'
<1> USE DEF TypeOK, Handler
<1> DEFINE c == handlers[h].card
<1>1. /\ handlers' = [handlers EXCEPT ![h] = IdleHandler]
      /\ cards' = [cards EXCEPT ![c].state = "deleted"]
      /\ c \in CardIds /\ handlers[h].at = "markDeleted"
  BY DEF DeleteMark, Finish
<1>2. c \in OwnedBy(handlers[h].user) /\ ~cards[c].default
  BY <1>1 DEF CalmInv, Knows
<1>3. /\ \A d \in CardIds : /\ Stored(d)' = Stored(d) /\ cards'[d].user = cards[d].user
                            /\ cards'[d].default = cards[d].default
                            /\ d # c => cards'[d] = cards[d]
  BY <1>1, <1>2 DEF Stored, OwnedBy, Row
<1>4. \A u \in Users : /\ OwnedBy(u)' = OwnedBy(u)
                       /\ Visible(u) \ {c} \subseteq Visible(u)'
  BY <1>3 DEF OwnedBy, Visible
<1>5. Uncontended'
  BY <1>1, BlankTypes, UncontendedStep DEF CalmInv
<1>6. ASSUME NEW g \in Handlers PROVE Knows(g)'
  <2>1. CASE g = h
    BY <1>1, <2>1, BlankTypes DEF Knows
  <2>2. CASE g # h
    <3>1. handlers'[g] = handlers[g] /\ Knows(g) /\ ~Contend(handlers[h], handlers[g])
      BY <1>1, <2>2 DEF CalmInv, Uncontended
    <3>2. QED
      BY <1>1, <1>3, <1>4, <3>1 DEF Knows, Contend
  <2>3. QED
    BY <2>1, <2>2
<1>7. ASSUME NEW u \in Users PROVE Kept(u)'
  <2>1. Defaults(u) \subseteq Defaults(u)'
    BY <1>2, <1>3, <1>4 DEF Defaults, Visible, OwnedBy
  <2>2. SettingDefault(u) => SettingDefault(u)'
    BY <1>1 DEF SettingDefault
  <2>3. QED
    BY <1>4, <2>1, <2>2 DEF CalmInv, Kept
<1>8. QED
  BY <1>5, <1>6, <1>7 DEF CalmInv

LEMMA CalmClears ==
  ASSUME TypeOK, TypeOK', CalmInv, Calm, NEW h \in Handlers, MakeDefaultClear(h)
  PROVE  CalmInv'
<1> USE DEF TypeOK, Handler
<1> DEFINE me == handlers[h]
<1>1. /\ handlers' = [handlers EXCEPT ![h].at = "setDefault"]
      /\ cards' = [c \in CardIds |-> IF c \in Visible(me.user)
                                     THEN [cards[c] EXCEPT !.default = FALSE]
                                     ELSE cards[c]]
      /\ me.at = "clearDefaults"
  BY DEF MakeDefaultClear, Goto
<1>2. \A c \in CardIds : /\ cards'[c].state = cards[c].state
                         /\ cards'[c].user = cards[c].user
                         /\ cards'[c].default => cards[c].default
                         /\ c \notin Visible(me.user) => cards'[c] = cards[c]
  BY <1>1 DEF Row
<1>3. ASSUME NEW u \in Users PROVE OwnedBy(u)' = OwnedBy(u) /\ Visible(u)' = Visible(u)
  BY <1>2 DEF OwnedBy, Stored, Visible
<1>4. /\ handlers'[h].at = "setDefault" /\ handlers'[h].user = me.user
      /\ handlers'[h].card = me.card
      /\ \A g \in Handlers \ {h} : handlers'[g] = handlers[g]
  BY <1>1
<1>5. Uncontended'
  BY <1>1, <1>4, UncontendedStep DEF CalmInv
<1>6. ASSUME NEW g \in Handlers PROVE Knows(g)'
  <2>1. Knows(g) /\ handlers'[g].user = handlers[g].user
                 /\ handlers'[g].card = handlers[g].card
    BY <1>4 DEF CalmInv
  <2>2. CASE g = h
    BY <1>1, <1>3, <1>4, <2>1, <2>2 DEF Knows
  <2>3. CASE g # h
    BY <1>2, <1>3, <1>4, <2>1, <2>3 DEF Knows
  <2>4. QED
    BY <2>2, <2>3
<1>7. ASSUME NEW u \in Users PROVE Kept(u)'
  <2>1. CASE u = me.user
    BY <1>4, <2>1 DEF Kept, SettingDefault
  <2>2. CASE u # me.user
    <3>1. Kept(u)
      BY DEF CalmInv
    <3>2. \A c \in OwnedBy(u) : cards'[c] = cards[c]
      BY <1>2, <2>2 DEF OwnedBy, Visible
    <3>3. SettingDefault(u) => SettingDefault(u)'
      BY <1>4 DEF SettingDefault
    <3>4. QED
      BY <1>3, <3>1, <3>2, <3>3, KeptSame
  <2>3. QED
    BY <2>1, <2>2
<1>8. QED
  BY <1>5, <1>6, <1>7 DEF CalmInv

LEMMA CalmSets ==
  ASSUME TypeOK, TypeOK', CalmInv, Calm, NEW h \in Handlers, MakeDefaultSet(h)
  PROVE  CalmInv'
<1> USE DEF TypeOK, Handler
<1> DEFINE me == handlers[h]
<1>1. /\ handlers' = [handlers EXCEPT ![h] = IdleHandler]
      /\ cards' = [cards EXCEPT ![me.card].default = TRUE]
      /\ me.at = "setDefault" /\ me.card \in CardIds
  BY DEF MakeDefaultSet, Finish
<1>2. me.card \in Visible(me.user)
  BY <1>1 DEF CalmInv, Knows
<1>3. \A c \in CardIds : /\ cards'[c].state = cards[c].state
                         /\ cards'[c].user = cards[c].user
                         /\ cards[c].default \/ c = me.card => cards'[c].default
  BY <1>1 DEF Row
<1>4. \A u \in Users : /\ OwnedBy(u)' = OwnedBy(u) /\ Visible(u)' = Visible(u)
                       /\ Defaults(u) \subseteq Defaults(u)'
  BY <1>3 DEF OwnedBy, Stored, Visible, Defaults
<1>5. Uncontended'
  BY <1>1, BlankTypes, UncontendedStep DEF CalmInv
<1>6. ASSUME NEW g \in Handlers PROVE Knows(g)'
  <2>1. CASE g = h
    BY <1>1, <2>1, BlankTypes DEF Knows
  <2>2. CASE g # h
    <3>1. handlers'[g] = handlers[g] /\ Knows(g) /\ ~Contend(handlers[g], handlers[h])
      BY <1>1, <2>2 DEF CalmInv, Uncontended
    <3>2. PICK q \in Handler : q = handlers[g]
      OBVIOUS
    <3>3. q.user \in Users /\ q.card \in CardIds
      BY DEF Handler
    <3>4. q.at = "markDeleted" => /\ q.card \in OwnedBy(q.user)'
                                 /\ ~cards[q.card].default /\ q.card # me.card
      BY <1>1, <1>4, <3>1, <3>2, <3>3 DEF Knows, Contend
    <3>5. q.at = "markDeleted" => ~cards'[q.card].default
      BY <1>1, <1>3, <3>3, <3>4 DEF Row
    <3>6. q.at \in {"clearDefaults", "setDefault"} => q.card \in Visible(q.user)'
      BY <1>4, <3>1, <3>2, <3>3 DEF Knows
    <3>7. q.at = "insert" /\ ~q.first => OwnedBy(q.user)' # {}
      BY <1>4, <3>1, <3>2, <3>3 DEF Knows
    <3>8. handlers'[g] = q
      BY <3>1, <3>2
    <3>9. QED
      BY <3>4, <3>5, <3>6, <3>7, <3>8 DEF Knows
  <2>3. QED
    BY <2>1, <2>2
<1>7. ASSUME NEW u \in Users PROVE Kept(u)'
  <2>1. CASE u = me.user
    BY <1>2, <1>3, <1>4, <2>1 DEF Kept, Defaults, Visible, OwnedBy
  <2>2. CASE u # me.user
    <3>1. SettingDefault(u) => SettingDefault(u)'
      BY <1>1, <2>2 DEF SettingDefault
    <3>2. QED
      BY <1>4, <3>1 DEF CalmInv, Kept
  <2>3. QED
    BY <2>1, <2>2
<1>8. QED
  BY <1>5, <1>6, <1>7 DEF CalmInv

LEMMA CalmLooks ==
  ASSUME TypeOK, TypeOK', CalmInv, Calm, NEW h \in Handlers, SaveLookForAny(h)
  PROVE  CalmInv'
<1> USE DEF TypeOK, Handler
<1> DEFINE none == OwnedBy(handlers[h].user) = {}
<1>1. handlers' = [handlers EXCEPT ![h].at = "insert", ![h].first = none]
      /\ UNCHANGED cards /\ handlers[h].at = "lookForAny"
  BY DEF SaveLookForAny
<1>2. none \in BOOLEAN
  OBVIOUS
<1> HIDE DEF none
<1>3. /\ handlers'[h].at = "insert" /\ handlers'[h].user = handlers[h].user
      /\ handlers'[h].first = none
      /\ \A g \in Handlers \ {h} : handlers'[g] = handlers[g]
  BY <1>1, <1>2
<1>4. /\ \A v \in Users : OwnedBy(v)' = OwnedBy(v) /\ Visible(v)' = Visible(v)
      /\ \A v \in Users : Defaults(v)' = Defaults(v)
  BY <1>1 DEF OwnedBy, Visible, Defaults, Stored
<1>5. Uncontended'
  BY <1>3, UncontendedStep DEF CalmInv
<1>6. ASSUME NEW g \in Handlers PROVE Knows(g)'
  <2>1. CASE g = h
    <3>1. ~none => OwnedBy(handlers[h].user) # {}
      BY DEF none
    <3>2. handlers[h].user \in Users
      OBVIOUS
    <3>3. QED
      BY <1>3, <1>4, <2>1, <3>1, <3>2 DEF Knows
  <2>2. CASE g # h
    <3>1. /\ handlers'[g] = handlers[g] /\ Knows(g) /\ UNCHANGED cards
          /\ handlers[g].user \in Users
      BY <1>1, <1>3, <2>2 DEF CalmInv
    <3>2. QED
      BY <1>4, <3>1 DEF Knows
  <2>3. QED
    BY <2>1, <2>2
<1>7. ASSUME NEW u \in Users PROVE Kept(u)'
  <2>1. SettingDefault(u) => SettingDefault(u)'
    BY <1>1, <1>3 DEF SettingDefault
  <2>2. QED
    BY <1>4, <2>1 DEF CalmInv, Kept
<1>8. QED
  BY <1>5, <1>6, <1>7 DEF CalmInv

LEMMA CalmInserts ==
  ASSUME TypeOK, TypeOK', CalmInv, Calm, NEW h \in Handlers, NEW c \in CardIds,
         SaveInsert(h, c)
  PROVE  CalmInv'
<1> USE DEF TypeOK, Handler
<1> DEFINE me == handlers[h]
<1>1. /\ handlers' = [handlers EXCEPT ![h] = IdleHandler]
      /\ cards' = [cards EXCEPT ![c] = [state |-> "live", user |-> me.user,
                      details |-> me.details, default |-> me.first]]
      /\ ~Stored(c) /\ me.at = "insert"
  BY DEF SaveInsert, Finish
<1>2. /\ cards'[c].state = "live" /\ cards'[c].user = me.user
      /\ cards'[c].default = me.first
      /\ \A d \in CardIds \ {c} : cards'[d] = cards[d]
  BY <1>1
<1>3. \A u \in Users : /\ OwnedBy(u) \subseteq OwnedBy(u)' /\ Visible(u) \subseteq Visible(u)'
                       /\ Defaults(u) \subseteq Defaults(u)'
                       /\ c \notin OwnedBy(u)
                       /\ u # me.user => OwnedBy(u)' = OwnedBy(u)
  BY <1>1, <1>2 DEF OwnedBy, Stored, Visible, Defaults
<1>4. Uncontended'
  BY <1>1, BlankTypes, UncontendedStep DEF CalmInv
<1>5. ASSUME NEW g \in Handlers PROVE Knows(g)'
  <2>1. CASE g = h
    BY <1>1, <2>1, BlankTypes DEF Knows
  <2>2. CASE g # h
    <3>1. handlers'[g] = handlers[g] /\ Knows(g) /\ handlers[g].user \in Users
      BY <1>1, <2>2 DEF CalmInv
    <3>2. QED
      BY <1>2, <1>3, <3>1 DEF Knows
  <2>3. QED
    BY <2>1, <2>2
<1>6. ASSUME NEW u \in Users PROVE Kept(u)'
  <2>1. SettingDefault(u) => SettingDefault(u)'
    BY <1>1 DEF SettingDefault
  <2>2. Kept(u) /\ Knows(h)
    BY DEF CalmInv
  <2>3. CASE OwnedBy(u) # {}
    BY <1>3, <2>1, <2>2, <2>3 DEF Kept
  <2>4. CASE OwnedBy(u) = {} /\ u = me.user
    <3>1. me.first
      BY <1>1, <2>2, <2>4 DEF Knows
    <3>2. c \in Defaults(u)'
      BY <1>2, <2>4, <3>1 DEF Defaults, Visible, OwnedBy, Stored
    <3>3. QED
      BY <3>2 DEF Kept
  <2>5. CASE OwnedBy(u) = {} /\ u # me.user
    BY <1>3, <2>5 DEF Kept
  <2>6. QED
    BY <2>3, <2>4, <2>5
<1>7. QED
  BY <1>4, <1>5, <1>6 DEF CalmInv

LEMMA CalmNext ==
  ASSUME TypeOK, CalmInv, [Next]_vars, TypeOK' PROVE CalmInv'
<1> SUFFICES ASSUME Calm' PROVE CalmInv'
  BY DEF CalmInv
<1>1. Calm
  BY CalmBefore
<1>2. CASE UNCHANGED vars
  <2>1. UNCHANGED <<cards, handlers, history>>
    BY <1>2 DEF vars
  <2>2. QED
    BY <2>1 DEF CalmInv, Calm, Uncontended, Contend, Knows, Kept, SettingDefault,
               Visible, Defaults, OwnedBy, Stored
<1>3. CASE Next
  <2>1. PICK h \in Handlers :
           \/ \E u \in Users, c \in CardIds :
                 DeleteBegin(h, u, c) \/ MakeDefaultBegin(h, u, c)
           \/ \E u \in Users, d \in Details : SaveBegin(h, u, d)
           \/ DeleteMark(h) \/ MakeDefaultClear(h) \/ MakeDefaultSet(h)
           \/ SaveLookForAny(h) \/ \E c \in CardIds : SaveInsert(h, c)
    BY <1>3 DEF Next, Interrupt, Calm
  <2>2. QED
    BY <1>1, <2>1, CalmBegins, CalmDeletes, CalmClears, CalmSets, CalmLooks, CalmInserts
<1>4. QED
  BY <1>2, <1>3

\* For any users, cards and number of requests: overlapping operations leave a
\* user without a card to charge only if one deletes the card another chooses,
\* or if one is cut short.
THEOREM CardKept == Spec => []DefaultCardKept
<1>1. Init => CalmInv
  <2>1. Init => \A u \in Users : OwnedBy(u) = {}
    BY BlankTypes DEF Init, OwnedBy, Stored
  <2>2. Init => \A h \in Handlers : handlers[h].at = "idle"
    BY BlankTypes DEF Init
  <2>3. QED
    BY <2>1, <2>2 DEF CalmInv, Uncontended, Contend, Knows, Kept
<1>2. TypeOK /\ CalmInv /\ [Next]_vars => CalmInv'
  BY TypeNext, CalmNext
<1>3. CalmInv => DefaultCardKept
  BY DEF CalmInv, DefaultCardKept, Calm, Kept
<1>4. QED
  BY <1>1, <1>2, <1>3, TypeInit, TypeNext, PTL DEF Spec
----------------------------------------------------------------------------
(* One default card, as long as operations are serial.  Between operations   *)
(* the flag is on one live row; the invariant adds what the one operation    *)
(* in flight knows: its card is live, and not the default one if it is to be *)
(* deleted; no row has the flag when it is about to be set; and saveCard is  *)
(* right about whether the user has a card.                                  *)

OneDefault(u) == \E c \in Visible(u) : Defaults(u) = {c}

Alone == \A g, h \in Handlers : Busy(g) /\ Busy(h) => g = h

KnowsCards(h) ==
    LET me == handlers[h]
    IN  /\ me.at \in {"markDeleted", "clearDefaults", "setDefault"} =>
              me.card \in Visible(me.user)
        /\ me.at = "markDeleted" => ~cards[me.card].default
        /\ me.at = "setDefault" => Defaults(me.user) = {}
        /\ me.at = "insert" => (me.first <=> OwnedBy(me.user) = {})

Served(u) == OwnedBy(u) # {} => OneDefault(u) \/ SettingDefault(u)

SerialInv ==
    history = "serial" =>
        Alone /\ (\A h \in Handlers : KnowsCards(h)) /\ (\A u \in Users : Served(u))

(* The step of an operation that is alone: what it knows next is for it to   *)
(* say, and of the users only its own is concerned.                          *)
LEMMA StepAlone ==
  ASSUME TypeOK, TypeOK', SerialInv, history = "serial", NEW h \in Handlers,
         \A g \in Handlers \ {h} : ~Busy(g) /\ handlers'[g] = handlers[g],
         KnowsCards(h)', \A u \in Users : Served(u)'
  PROVE  SerialInv'
<1>1. \A g \in Handlers \ {h} : ~Busy(g)' /\ KnowsCards(g)'
  BY DEF Busy, KnowsCards
<1>2. QED
  BY <1>1 DEF SerialInv, Alone

\* A user whose rows stay has one default card as before, or its setting.
LEMMA SameRows ==
  ASSUME TypeOK, NEW u \in Users, Served(u),
         OwnedBy(u)' = OwnedBy(u), \A c \in OwnedBy(u) : cards'[c] = cards[c],
         SettingDefault(u) => SettingDefault(u)'
  PROVE  Served(u)'
<1>1. Visible(u)' = Visible(u) /\ Defaults(u)' = Defaults(u)
  BY DEF Visible, Defaults
<1>2. QED
  BY <1>1 DEF Served, OneDefault

LEMMA SerialBegins ==
  ASSUME TypeOK, TypeOK', SerialInv, history' = "serial", NEW h \in Handlers,
         NEW u \in Users,
         \/ \E c \in CardIds : DeleteBegin(h, u, c) \/ MakeDefaultBegin(h, u, c)
         \/ \E d \in Details : SaveBegin(h, u, d)
  PROVE  SerialInv'
<1> USE DEF TypeOK, Handler
<1>1. /\ history = "serial" /\ UNCHANGED cards /\ ~Busy(h)
      /\ \A g \in Handlers \ {h} : ~Busy(g) /\ handlers'[g] = handlers[g]
  BY DEF DeleteBegin, MakeDefaultBegin, SaveBegin, Begin, Meeting, AllIdle, Busy
<1>2. KnowsCards(h)'
  <2>1. ASSUME NEW c \in CardIds, DeleteBegin(h, u, c) PROVE KnowsCards(h)'
    <3>1. handlers'[h] = [IdleHandler EXCEPT !.at = "markDeleted", !.user = u, !.card = c]
      BY <2>1 DEF DeleteBegin, Begin
    <3>2. c \in Visible(u)' /\ ~cards'[c].default
      BY <1>1, <2>1 DEF DeleteBegin, Visible, OwnedBy, Stored
    <3>3. QED
      BY <3>1, <3>2, BlankTypes DEF KnowsCards
  <2>2. ASSUME NEW c \in CardIds, MakeDefaultBegin(h, u, c) PROVE KnowsCards(h)'
    <3>1. handlers'[h] = [IdleHandler EXCEPT !.at = "clearDefaults", !.user = u, !.card = c]
      BY <2>2 DEF MakeDefaultBegin, Begin
    <3>2. c \in Visible(u)'
      BY <1>1, <2>2 DEF MakeDefaultBegin, Visible, OwnedBy, Stored
    <3>3. QED
      BY <3>1, <3>2, BlankTypes DEF KnowsCards
  <2>3. ASSUME NEW d \in Details, SaveBegin(h, u, d) PROVE KnowsCards(h)'
    <3>1. handlers'[h].at = "lookForAny"
      BY <2>3, BlankTypes DEF SaveBegin, Begin
    <3>2. QED
      BY <3>1 DEF KnowsCards
  <2>4. QED
    BY <2>1, <2>2, <2>3
<1>3. ASSUME NEW v \in Users PROVE Served(v)'
  <2>1. Served(v)
    BY <1>1 DEF SerialInv
  <2>2. OwnedBy(v)' = OwnedBy(v) /\ ~SettingDefault(v)
    BY <1>1 DEF OwnedBy, Stored, SettingDefault, Busy
  <2>3. QED
    BY <1>1, <2>1, <2>2, SameRows
<1>4. QED
  BY <1>1, <1>2, <1>3, StepAlone

\* An operation that goes on while the history stays serial is alone.
LEMMA AloneGoesOn ==
  ASSUME TypeOK, SerialInv, history = "serial", NEW h \in Handlers, Busy(h)
  PROVE  /\ KnowsCards(h)
         /\ \A g \in Handlers \ {h} : ~Busy(g)
         /\ \A u \in Users : Served(u)
         /\ \A u \in Users :
               SettingDefault(u) => handlers[h].at = "setDefault" /\ handlers[h].user = u
  BY DEF SerialInv, Alone, SettingDefault, Busy

LEMMA SerialDeletes ==
  ASSUME TypeOK, TypeOK', SerialInv, history = "serial", NEW h \in Handlers,
         DeleteMark(h)
  PROVE  SerialInv'
<1> USE DEF TypeOK, Handler
<1>1. Busy(h)
  BY DEF DeleteMark, Busy
<1> DEFINE c == handlers[h].card
<1>2. c \in Visible(handlers[h].user) /\ ~cards[c].default
  BY <1>1, AloneGoesOn DEF KnowsCards, DeleteMark
<1>3. /\ handlers' = [handlers EXCEPT ![h] = IdleHandler]
      /\ cards' = [cards EXCEPT ![c].state = "deleted"]
  BY DEF DeleteMark, Finish
<1>4. ASSUME NEW u \in Users PROVE Served(u)'
  <2>1. OwnedBy(u)' = OwnedBy(u)
    BY <1>2, <1>3 DEF OwnedBy, Stored, Visible, Row
  <2>2. Defaults(u)' = Defaults(u)
    BY <1>2, <1>3, <2>1 DEF Defaults, Visible, OwnedBy, Row
  <2>3. Served(u) /\ ~SettingDefault(u)
    BY <1>1, AloneGoesOn DEF DeleteMark
  <2>4. CASE OwnedBy(u) # {}
    <3>1. PICK d \in Visible(u) : Defaults(u) = {d}
      BY <2>3, <2>4 DEF Served, OneDefault
    <3>2. d # c
      BY <1>2, <3>1 DEF Defaults
    <3>3. d \in Visible(u)'
      BY <1>3, <2>1, <3>1, <3>2 DEF Visible, OwnedBy
    <3>4. QED
      BY <2>2, <3>1, <3>3 DEF Served, OneDefault
  <2>5. QED
    BY <2>1, <2>4 DEF Served
<1>5. KnowsCards(h)'
  BY <1>3, BlankTypes DEF KnowsCards
<1>6. QED
  BY <1>1, <1>3, <1>4, <1>5, AloneGoesOn, StepAlone

LEMMA SerialClears ==
  ASSUME TypeOK, TypeOK', SerialInv, history = "serial", NEW h \in Handlers,
         MakeDefaultClear(h)
  PROVE  SerialInv'
<1> USE DEF TypeOK, Handler
<1> DEFINE me == handlers[h]
<1>1. Busy(h)
  BY DEF MakeDefaultClear, Busy
<1>2. me.card \in Visible(me.user)
  BY <1>1, AloneGoesOn DEF KnowsCards, MakeDefaultClear
<1>3. /\ handlers' = [handlers EXCEPT ![h].at = "setDefault"]
      /\ cards' = [c \in CardIds |-> IF c \in Visible(me.user)
                                     THEN [cards[c] EXCEPT !.default = FALSE]
                                     ELSE cards[c]]
  BY DEF MakeDefaultClear, Goto
<1>4. ASSUME NEW u \in Users PROVE OwnedBy(u)' = OwnedBy(u) /\ Visible(u)' = Visible(u)
  BY <1>3 DEF OwnedBy, Stored, Visible, Row
<1>5. handlers'[h].at = "setDefault" /\ handlers'[h].user = me.user
      /\ handlers'[h].card = me.card
  BY <1>3
<1>6. Defaults(me.user)' = {}
  <2>1. \A c \in Visible(me.user) : ~cards'[c].default
    BY <1>3 DEF Visible, OwnedBy, Row
  <2>2. me.user \in Users /\ me'.user = me.user
    BY <1>5
  <2>3. \A c \in Visible(me.user)' : ~cards'[c].default
    BY <1>4, <2>1, <2>2
  <2>4. QED
    BY <2>3 DEF Defaults
<1>7. KnowsCards(h)'
  BY <1>2, <1>4, <1>5, <1>6 DEF KnowsCards
<1>8. ASSUME NEW u \in Users PROVE Served(u)'
  <2>1. CASE u = me.user
    BY <1>5, <2>1 DEF Served, SettingDefault
  <2>2. CASE u # me.user
    <3>1. Served(u) /\ ~SettingDefault(u)
      BY <1>1, AloneGoesOn DEF MakeDefaultClear
    <3>2. \A c \in OwnedBy(u) : cards'[c] = cards[c]
      BY <1>3, <2>2 DEF OwnedBy, Visible
    <3>3. QED
      BY <1>4, <3>1, <3>2, SameRows
  <2>3. QED
    BY <2>1, <2>2
<1>9. QED
  BY <1>1, <1>3, <1>7, <1>8, AloneGoesOn, StepAlone

LEMMA SerialSets ==
  ASSUME TypeOK, TypeOK', SerialInv, history = "serial", NEW h \in Handlers,
         MakeDefaultSet(h)
  PROVE  SerialInv'
<1> USE DEF TypeOK, Handler
<1> DEFINE me == handlers[h]
<1>1. Busy(h)
  BY DEF MakeDefaultSet, Busy
<1>2. me.card \in Visible(me.user) /\ Defaults(me.user) = {}
  BY <1>1, AloneGoesOn DEF KnowsCards, MakeDefaultSet
<1>3. /\ handlers' = [handlers EXCEPT ![h] = IdleHandler]
      /\ cards' = [cards EXCEPT ![me.card].default = TRUE]
  BY DEF MakeDefaultSet, Finish
<1>4. ASSUME NEW u \in Users PROVE OwnedBy(u)' = OwnedBy(u) /\ Visible(u)' = Visible(u)
  BY <1>3 DEF OwnedBy, Stored, Visible, Row
<1>5. ASSUME NEW u \in Users PROVE Served(u)'
  <2>1. CASE u = me.user
    <3>1. Defaults(u)' = {me.card}
      BY <1>2, <1>3, <1>4, <2>1 DEF Defaults, Visible, Row
    <3>2. QED
      BY <1>2, <1>4, <2>1, <3>1 DEF Served, OneDefault
  <2>2. CASE u # me.user
    <3>1. Served(u) /\ ~SettingDefault(u)
      BY <1>1, <2>2, AloneGoesOn
    <3>2. \A c \in OwnedBy(u) : cards'[c] = cards[c]
      BY <1>2, <1>3, <2>2 DEF OwnedBy, Visible
    <3>3. QED
      BY <1>4, <3>1, <3>2, SameRows
  <2>3. QED
    BY <2>1, <2>2
<1>6. KnowsCards(h)'
  BY <1>3, BlankTypes DEF KnowsCards
<1>7. QED
  BY <1>1, <1>3, <1>5, <1>6, AloneGoesOn, StepAlone

LEMMA SerialLooks ==
  ASSUME TypeOK, TypeOK', SerialInv, history = "serial", NEW h \in Handlers,
         SaveLookForAny(h)
  PROVE  SerialInv'
<1> USE DEF TypeOK, Handler
<1> DEFINE none == OwnedBy(handlers[h].user) = {}
<1>1. Busy(h) /\ ~(handlers[h].at = "setDefault") /\ UNCHANGED cards
  BY DEF SaveLookForAny, Busy
<1>2. handlers' = [handlers EXCEPT ![h].at = "insert", ![h].first = none]
  BY DEF SaveLookForAny
<1>3. none \in BOOLEAN
  OBVIOUS
<1> HIDE DEF none
<1>4. /\ handlers'[h].at = "insert" /\ handlers'[h].user = handlers[h].user
      /\ handlers'[h].first = none
  BY <1>2, <1>3
<1>5. ASSUME NEW u \in Users PROVE OwnedBy(u)' = OwnedBy(u)
  BY <1>1 DEF OwnedBy, Stored
<1>6. KnowsCards(h)'
  <2>1. OwnedBy(handlers[h].user)' = OwnedBy(handlers[h].user)
    BY <1>1, <1>4 DEF OwnedBy, Stored
  <2>2. handlers'[h].first <=> (OwnedBy(handlers[h].user) = {})'
    BY <1>4, <2>1, Zenon DEF none
  <2>3. QED
    BY <1>4, <2>2 DEF KnowsCards
<1>7. ASSUME NEW u \in Users PROVE Served(u)'
  <2>1. Served(u) /\ ~SettingDefault(u)
    BY <1>1, AloneGoesOn
  <2>2. QED
    BY <1>1, <1>5, <2>1, SameRows
<1>8. QED
  BY <1>1, <1>2, <1>6, <1>7, AloneGoesOn, StepAlone

LEMMA SerialInserts ==
  ASSUME TypeOK, TypeOK', SerialInv, history = "serial", NEW h \in Handlers,
         NEW c \in CardIds, SaveInsert(h, c)
  PROVE  SerialInv'
<1> USE DEF TypeOK, Handler
<1> DEFINE me == handlers[h]
<1>1. Busy(h) /\ ~(me.at = "setDefault")
  BY DEF SaveInsert, Busy
<1>2. me.first <=> OwnedBy(me.user) = {}
  BY <1>1, AloneGoesOn DEF KnowsCards, SaveInsert
<1>3. /\ handlers' = [handlers EXCEPT ![h] = IdleHandler]
      /\ cards' = [cards EXCEPT ![c] = [state |-> "live", user |-> me.user,
                      details |-> me.details, default |-> me.first]]
      /\ ~Stored(c)
  BY DEF SaveInsert, Finish
<1>4. ASSUME NEW u \in Users PROVE Served(u)'
  <2>0. Served(u) /\ ~SettingDefault(u)
    BY <1>1, AloneGoesOn
  <2>1. CASE u # me.user
    <3>1. OwnedBy(u)' = OwnedBy(u) /\ c \notin OwnedBy(u)
      BY <1>3, <2>1 DEF OwnedBy, Stored
    <3>2. QED
      BY <1>3, <2>0, <3>1, SameRows DEF OwnedBy
  <2>2. CASE u = me.user
    <3>1. /\ OwnedBy(u)' = OwnedBy(u) \cup {c} /\ c \notin OwnedBy(u)
          /\ Visible(u)' = Visible(u) \cup {c}
      BY <1>3, <2>2 DEF OwnedBy, Stored, Visible
    <3>2. CASE me.first
      <4>1. Defaults(u)' = {c}
        BY <1>2, <1>3, <2>2, <3>1, <3>2 DEF Defaults, Visible
      <4>2. QED
        BY <3>1, <4>1 DEF Served, OneDefault
    <3>3. CASE ~me.first
      <4>1. Defaults(u)' = Defaults(u)
        BY <1>3, <3>1, <3>3 DEF Defaults, Visible, OwnedBy
      <4>2. OneDefault(u)
        BY <1>2, <2>0, <2>2, <3>3 DEF Served
      <4>3. QED
        BY <3>1, <4>1, <4>2 DEF Served, OneDefault
    <3>4. QED
      BY <3>2, <3>3
  <2>3. QED
    BY <2>1, <2>2
<1>5. KnowsCards(h)'
  BY <1>3, BlankTypes DEF KnowsCards
<1>6. QED
  BY <1>1, <1>3, <1>4, <1>5, AloneGoesOn, StepAlone

LEMMA SerialNext ==
  ASSUME TypeOK, SerialInv, [Next]_vars, TypeOK' PROVE SerialInv'
<1> SUFFICES ASSUME history' = "serial" PROVE SerialInv'
  BY DEF SerialInv
<1>1. CASE UNCHANGED vars
  <2>1. UNCHANGED <<cards, handlers, history>>
    BY <1>1 DEF vars
  <2>2. QED
    BY <2>1 DEF SerialInv, Alone, Busy, KnowsCards, Served, OneDefault,
               SettingDefault, Visible, Defaults, OwnedBy, Stored
<1>2. CASE Next
  <2>1. PICK h \in Handlers :
           \/ \E u \in Users, c \in CardIds :
                 DeleteBegin(h, u, c) \/ MakeDefaultBegin(h, u, c)
           \/ \E u \in Users, d \in Details : SaveBegin(h, u, d)
           \/ /\ history = "serial"
              /\ \/ DeleteMark(h) \/ MakeDefaultClear(h) \/ MakeDefaultSet(h)
                 \/ SaveLookForAny(h) \/ \E c \in CardIds : SaveInsert(h, c)
    BY <1>2 DEF Next, DeleteMark, MakeDefaultClear, MakeDefaultSet, SaveLookForAny,
               SaveInsert, Goto, Finish, Interrupt
  <2>2. QED
    BY <2>1, SerialBegins, SerialDeletes, SerialClears, SerialSets, SerialLooks,
       SerialInserts
<1>3. QED
  BY <1>1, <1>2

(* While operations follow one another, a user with cards has one default    *)
(* card between them, and it is not deleted: getDefaultCardForUser finds one.*)
THEOREM OneDefaultCard == Spec => []OneDefaultWhenSerial
<1>1. Init => SerialInv
  <2>1. Init => \A u \in Users : OwnedBy(u) = {}
    BY BlankTypes DEF Init, OwnedBy, Stored
  <2>2. Init => \A h \in Handlers : handlers[h].at = "idle"
    BY BlankTypes DEF Init
  <2>3. QED
    BY <2>1, <2>2 DEF SerialInv, Alone, Busy, KnowsCards, Served
<1>2. TypeOK /\ SerialInv /\ [Next]_vars => SerialInv'
  BY TypeNext, SerialNext
<1>3. SerialInv => OneDefaultWhenSerial
  BY DEF SerialInv, OneDefaultWhenSerial, AllIdle, Busy, Served, OneDefault,
         SettingDefault
<1>4. QED
  BY <1>1, <1>2, <1>3, TypeInit, TypeNext, PTL DEF Spec
============================================================================
