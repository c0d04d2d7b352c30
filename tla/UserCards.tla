----------------------------- MODULE UserCards -----------------------------
(***************************************************************************)
(* The table user_cards and the three operations that write it, run by     *)
(* concurrent requests of one Node.js process:                             *)
(*                                                                         *)
(*   - CardsService.deleteUserCard and CardsService.updateDefaultCard, two *)
(*     endpoints of the dashboard, and                                     *)
(*   - UserCardRepository.saveCard, which the handler of Stripe's          *)
(*     payment_intent.succeeded runs for the card the customer paid with.  *)
(*                                                                         *)
(* No operation opens a transaction.  Every awaited query is a step, and   *)
(* what an operation read before an await is a field of its handler.       *)
(***************************************************************************)
EXTENDS Naturals

CONSTANTS
    Users,      \* the owners of cards
    Details,    \* brand, expiry, last4 ...: what tells two real cards apart
    CardIds,    \* the primary keys that rows may get (bounds the table)
    Handlers    \* the operations that may be in flight at once

ASSUME UsersAssumption == Users # {}
ASSUME DetailsAssumption == Details # {}
ASSUME CardIdsAssumption == CardIds # {}

VARIABLES
    cards,      \* the table: for each primary key the row, or an unused one
    handlers,   \* for each handler its place in the code and its locals
    history     \* how the operations met so far (no part of the program)

vars == <<cards, handlers, history>>

Row == [state : {"unused", "live", "deleted"}, user : Users,
        details : Details, default : BOOLEAN]

Place == {"idle", "markDeleted", "clearDefaults", "setDefault",
          "lookForAny", "insert"}

Handler == [at : Place, user : Users, card : CardIds, details : Details,
            first : BOOLEAN]

(* Operations are serial until one begins while another is in flight,       *)
(* overlapping until a deletion and a choice of the same card are in flight *)
(* together, and contending until one is cut short between two queries.     *)
History == {"serial", "overlapping", "contending", "interrupted"}

----------------------------------------------------------------------------
\* The rows of the table, and the filters the code uses on them.

Stored(c) == cards[c].state # "unused"
OwnedBy(u) == {c \in CardIds : Stored(c) /\ cards[c].user = u}
Visible(u) == {c \in OwnedBy(u) : cards[c].state = "live"}
Defaults(u) == {c \in Visible(u) : cards[c].default}

UnusedRow == [state |-> "unused", user |-> CHOOSE u \in Users : TRUE,
              details |-> CHOOSE d \in Details : TRUE, default |-> FALSE]

IdleHandler == [at |-> "idle", user |-> CHOOSE u \in Users : TRUE,
                card |-> CHOOSE c \in CardIds : TRUE,
                details |-> CHOOSE d \in Details : TRUE, first |-> FALSE]

Busy(h) == handlers[h].at # "idle"
AllIdle == \A h \in Handlers : ~Busy(h)

\* One operation is to delete the card that the other is to make the default.
Contend(deletion, choice) ==
    /\ deletion.card = choice.card
    /\ deletion.at = "markDeleted"
    /\ choice.at \in {"clearDefaults", "setDefault"}

\* How the operations have met once one begins with these locals.
Meeting(locals) ==
    IF history = "interrupted" THEN history
    ELSE IF \E g \in Handlers : \/ Contend(handlers[g], locals)
                                \/ Contend(locals, handlers[g])
    THEN "contending"
    ELSE IF history = "serial" /\ ~AllIdle THEN "overlapping" ELSE history

\* The first query of an operation, with the locals it has after it.
Begin(h, locals) ==
    /\ ~Busy(h)
    /\ handlers' = [handlers EXCEPT ![h] = locals]
    /\ history' = Meeting(locals)

Goto(h, place) ==
    /\ handlers' = [handlers EXCEPT ![h].at = place]
    /\ UNCHANGED history

Finish(h) ==
    /\ handlers' = [handlers EXCEPT ![h] = IdleHandler]
    /\ UNCHANGED history

Init ==
    /\ cards = [c \in CardIds |-> UnusedRow]
    /\ handlers = [h \in Handlers |-> IdleHandler]
    /\ history = "serial"

----------------------------------------------------------------------------
\* Mutant: deleteUserCard without its check of the default flag.
DeleteBeginUnchecked(h, u, c) ==
    /\ c \in Visible(u)
    /\ Begin(h, [IdleHandler EXCEPT !.at = "markDeleted",
                                   !.user = u, !.card = c])
    /\ UNCHANGED cards

(* deleteUserCard: look the card up, refuse a default one, mark it deleted. *)

DeleteBegin(h, u, c) ==
    /\ c \in Visible(u)
    /\ ~cards[c].default
    /\ Begin(h, [IdleHandler EXCEPT !.at = "markDeleted",
                                   !.user = u, !.card = c])
    /\ UNCHANGED cards

\* Mutant: a mark that the filters on deleted cards do not know.
DeleteMarkRemoved(h) ==
    /\ handlers[h].at = "markDeleted"
    /\ cards' = [cards EXCEPT ![handlers[h].card].state = "removed"]
    /\ Finish(h)

DeleteMark(h) ==
    /\ handlers[h].at = "markDeleted"
    /\ cards' = [cards EXCEPT ![handlers[h].card].state = "deleted"]
    /\ Finish(h)

(* updateDefaultCard: look the card up, clear the flag on every visible     *)
(* card of the user, set it on the chosen row whatever has become of it.    *)

MakeDefaultBegin(h, u, c) ==
    /\ c \in Visible(u)
    /\ Begin(h, [IdleHandler EXCEPT !.at = "clearDefaults",
                                   !.user = u, !.card = c])
    /\ UNCHANGED cards

\* Mutant: the clearing update also ends the operation.
MakeDefaultClearOnly(h) ==
    /\ handlers[h].at = "clearDefaults"
    /\ cards' = [c \in CardIds |->
                    IF c \in Visible(handlers[h].user)
                    THEN [cards[c] EXCEPT !.default = FALSE]
                    ELSE cards[c]]
    /\ Finish(h)

MakeDefaultClear(h) ==
    /\ handlers[h].at = "clearDefaults"
    /\ cards' = [c \in CardIds |->
                    IF c \in Visible(handlers[h].user)
                    THEN [cards[c] EXCEPT !.default = FALSE]
                    ELSE cards[c]]
    /\ Goto(h, "setDefault")

MakeDefaultSet(h) ==
    /\ handlers[h].at = "setDefault"
    /\ cards' = [cards EXCEPT ![handlers[h].card].default = TRUE]
    /\ Finish(h)

(* saveCard: a row with the same details is returned as it is, deleted or   *)
(* not; otherwise a row is added, the default one if the user has no other. *)

SaveBegin(h, u, d) ==
    /\ \A c \in OwnedBy(u) : cards[c].details # d
    /\ Begin(h, [IdleHandler EXCEPT !.at = "lookForAny",
                                   !.user = u, !.details = d])
    /\ UNCHANGED cards

\* Mutant: saveCard makes every card but the first one the default.
SaveLookForAnyNegated(h) ==
    /\ handlers[h].at = "lookForAny"
    /\ handlers' = [handlers EXCEPT
                       ![h].at = "insert",
                       ![h].first = (OwnedBy(handlers[h].user) # {})]
    /\ UNCHANGED <<cards, history>>

SaveLookForAny(h) ==
    /\ handlers[h].at = "lookForAny"
    /\ handlers' = [handlers EXCEPT
                       ![h].at = "insert",
                       ![h].first = (OwnedBy(handlers[h].user) = {})]
    /\ UNCHANGED <<cards, history>>

SaveInsert(h, c) ==
    /\ handlers[h].at = "insert"
    /\ ~Stored(c)
    /\ cards' = [cards EXCEPT ![c] =
                    [state |-> "live", user |-> handlers[h].user,
                     details |-> handlers[h].details,
                     default |-> handlers[h].first]]
    /\ Finish(h)

(* The process dies, or a query fails, between two awaits of an operation.  *)
Interrupt(h) ==
    /\ Busy(h)
    /\ handlers' = [handlers EXCEPT ![h] = IdleHandler]
    /\ history' = "interrupted"
    /\ UNCHANGED cards

----------------------------------------------------------------------------

Next ==
    \E h \in Handlers :
        \/ \E u \in Users, c \in CardIds : DeleteBegin(h, u, c)
        \/ DeleteMark(h)
        \/ \E u \in Users, c \in CardIds : MakeDefaultBegin(h, u, c)
        \/ MakeDefaultClear(h)
        \/ MakeDefaultSet(h)
        \/ \E u \in Users, d \in Details : SaveBegin(h, u, d)
        \/ SaveLookForAny(h)
        \/ \E c \in CardIds : SaveInsert(h, c)
        \/ Interrupt(h)

Spec == Init /\ [][Next]_vars

----------------------------------------------------------------------------
\* Properties.

TypeOK ==
    /\ cards \in [CardIds -> Row]
    /\ handlers \in [Handlers -> Handler]
    /\ history \in History

\* As long as operations follow one another, a user who has stored a card has
\* exactly one default card between operations, and it is one that can be
\* charged: the three operations together keep subscribe's lookup of the
\* default card (getDefaultCardForUser) answering with one row.
OneDefaultWhenSerial ==
    history = "serial" /\ AllIdle =>
        \A u \in Users : OwnedBy(u) # {} => \E c \in Visible(u) : Defaults(u) = {c}

SettingDefault(u) ==
    \E h \in Handlers : handlers[h].at = "setDefault" /\ handlers[h].user = u

\* Overlapping operations leave a user with cards without a default card that
\* getDefaultCardForUser finds (flagged and not deleted) only while an
\* updateDefaultCard stands between its two updates.  The one exception is a
\* deletion in flight together with a choice of that very card.  Two choices,
\* a choice and the deletion of another card, two first cards saved at once, or
\* a card saved while another is chosen may leave two defaults, never none.
DefaultCardKept ==
    history \in {"serial", "overlapping"} =>
        \A u \in Users : OwnedBy(u) # {} => Defaults(u) # {} \/ SettingDefault(u)

\* deleteUserCard refuses with 'You cannot delete default card.' and
\* updateDefaultCard with 'Cannot set deleted card as default': no row is both.
DefaultCardNeverDeleted ==
    \A c \in CardIds : ~(cards[c].state = "deleted" /\ cards[c].default)

============================================================================
