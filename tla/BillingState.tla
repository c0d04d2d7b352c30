---------------------------- MODULE BillingState ----------------------------
(***************************************************************************)
(* What the billing code of the dashboard reads and writes: the tables     *)
(* user_plan, billing_transactions and user_cards, the user records that   *)
(* the authnode service keeps, and the objects and events of Stripe.       *)
(*                                                                         *)
(* Requests, webhooks and cron callbacks run interleaved in one Node.js    *)
(* process.  A handler is one of them in flight; it can be overtaken at    *)
(* every await, so every awaited read or write is an action, and what was  *)
(* read before is a field of the handler.  Tariffs never change, and a     *)
(* lookup of one is no step of its own.                                    *)
(***************************************************************************)
EXTENDS Naturals, Sequences, FiniteSets

CONSTANTS
    Users, Tariffs,
    Cards,                  \* payment cards, told apart by their last4
    Handlers,               \* the calls that may be in flight at once
    None,                   \* null, undefined and "not read yet"
    MaxPlans, MaxTxs, MaxIntents, MaxSubs, MaxCustomers,  \* table sizes
    Scenarios               \* what may happen in a behaviour, see Budget

ASSUME UsersAssumption == IsFiniteSet(Users)

ASSUME CardsAssumption == Cards # {}

(* The tables have room for the rows that the users may start with.         *)
ASSUME RoomAssumption ==
    /\ {MaxPlans, MaxTxs, MaxIntents, MaxSubs, MaxCustomers} \subseteq Nat
    /\ \A room \in {MaxPlans, MaxIntents, MaxSubs, MaxCustomers} :
          Cardinality(Users) <= room
    /\ 2 * Cardinality(Users) <= MaxTxs

VARIABLES
    users,      \* authnode: status, tariff, next tariff, Stripe customer
    cards,      \* user_cards: the cards of each user and the default one
    plans,      \* user_plan: one row per id, in the order of the ids
    txs,        \* billing_transactions
    intents,    \* Stripe: payment intents
    subs,       \* Stripe: subscriptions
    customers,  \* Stripe: customers, each with the user it was made for
    events,     \* Stripe: events not yet acknowledged, and acknowledged ones
    handlers,
    now,        \* the current billing period
    budget      \* the requests and faults that may still happen

vars == <<users, cards, plans, txs, intents, subs, customers, events,
          handlers, now, budget>>

(* Groups of variables that most actions leave alone.                       *)
stripe == <<intents, subs, customers>>
world == <<cards, now, budget>>

----------------------------------------------------------------------------
\* Rows and records.

Maybe(S) == S \cup {None}

Status == {"trial", "active", "expired", "payment_required", "unsubscribed"}

ASSUME NoneAssumption == None \notin Users \cup Tariffs \cup Cards \cup Nat \cup Status

User == [status : Status, tariff : Tariffs, next : Maybe(Tariffs),
         customer : Maybe(1..MaxCustomers)]

Wallet == [stored : SUBSET Cards, default : Maybe(Cards)]

(* A plan runs from the beginning of period `start` to its end, so end_at   *)
(* is start + 1; created_at is `start`, too.  A deleted row is never read.  *)
Plan == [user : Users, tariff : Tariffs, start : Nat,
         state : {"inactive", "active", "deleted"}]

TxType == {"SUBSCRIPTION", "DELAYED_SUBSCRIPTION", "CARD_VALIDATION",
           "PRE_SUBSCRIPTION_PAYMENT"}

(* intent, newIntent and sub are the fields of the JSON payment_payload.    *)
Tx == [user : Users, type : TxType,
       status : {"PENDING", "SUCCESS", "FAILED", "CANCELED"},
       tariff : Maybe(Tariffs), plan : Maybe(1..MaxPlans),
       intent : Maybe(1..MaxIntents), newIntent : Maybe(1..MaxIntents),
       sub : Maybe(1..MaxSubs)]

(* `origin` is the intent whose failure led to this one, or itself, and     *)
(* `shown` whether the client has been given its secret.                    *)
Intent == [state : {"open", "paid", "canceled"}, customer : 1..MaxCustomers,
           card : Maybe(Cards), refunded : BOOLEAN, shown : BOOLEAN,
           origin : 1..MaxIntents]

Sub == [live : BOOLEAN, customer : 1..MaxCustomers]

EventType == {"payment_intent.succeeded", "payment_intent.payment_failed",
              "payment_intent.canceled", "customer.subscription.created"}

Event == [type : EventType, about : Nat]

ASSUME EventAssumption == None \notin Event

(* What may happen in a behaviour: how far the users have come, which         *)
(* endpoints are called, and how many requests, faults (crashes, repeated   *)
(* events, declined and canceled payments) and billing periods are left.    *)
Budget == [profile : {"new", "trial", "active", "lapsed"},
           endpoints : SUBSET {"subscribe", "switch", "setTrial", "secret",
                               "validate", "cancelNext", "unsubscribe",
                               "renovate", "initialize", "cron"},
           requests : Nat, faults : Nat, periods : Nat]

ASSUME ScenariosAssumption == Scenarios \subseteq Budget

(* A handler: its place in the code, the call it serves and its locals.     *)
IdleHandler ==
    [at |-> "idle", task |-> "none", user |-> None, me |-> None,
     tariff |-> None, type |-> None, card |-> None, customer |-> None,
     plan |-> None, other |-> None, tx |-> None, intent |-> None,
     listed |-> {}, event |-> None, replaces |-> FALSE, outcome |-> "SUCCESS",
     round |-> 1]

----------------------------------------------------------------------------
\* Queries.  An unordered findOne may answer with any row that matches.

PlansOf(u) == {p \in DOMAIN plans : plans[p].user = u /\ plans[p].state # "deleted"}
ActivePlans(u) == {p \in PlansOf(u) : plans[p].state = "active"}

\* getActiveForUser: the active row, if it is of the tariff of the user record
\* that the caller read, or None.
ActiveForUser(u, tariff) ==
    LET found == {p \in ActivePlans(u) : plans[p].tariff = tariff}
    IN  IF found = {} THEN {None} ELSE found

\* getLastForUser: the row with the greatest id.
LastForUser(u) ==
    IF PlansOf(u) = {} THEN None
    ELSE CHOOSE p \in PlansOf(u) : \A q \in PlansOf(u) : q <= p

TxsOf(u) == {t \in DOMAIN txs : txs[t].user = u}

\* Mutant: a query of the pending rows without the filter on the status.
PendingTxsAny(u, types) == {t \in TxsOf(u) : txs[t].type \in types}

PendingTxs(u, types) ==
    {t \in TxsOf(u) : txs[t].status = "PENDING" /\ txs[t].type \in types}

\* getByPaymentIntentId: either field of the payload may hold the intent.
TxsByIntent(i) == {t \in DOMAIN txs : i \in {txs[t].intent, txs[t].newIntent}}

\* getUserByStripeCustomerId: fails when no user record names the customer.
UsersByCustomer(c) == {u \in Users : users[u].customer = c}

LiveSubs(c) == {s \in DOMAIN subs : subs[s].live /\ subs[s].customer = c}

\* paymentMethods.list: the cards that paid an intent of the customer.
PaymentMethods(c) ==
    {intents[i].card : i \in {j \in DOMAIN intents :
                                 intents[j].state = "paid"
                                 /\ intents[j].customer = c}}

----------------------------------------------------------------------------
\* Writes that several operations share.

NewPlan(u, tariff, start, state) ==
    [user |-> u, tariff |-> tariff, start |-> start, state |-> state]

NewTx(u, type, tariff, plan, intent) ==
    [user |-> u, type |-> type, status |-> "PENDING", tariff |-> tariff,
     plan |-> plan, intent |-> intent, newIntent |-> None, sub |-> None]

NewIntent(c, origin) ==
    [state |-> "open", customer |-> c, card |-> None, refunded |-> FALSE,
     shown |-> FALSE, origin |-> origin]

\* UPDATE billing_transactions SET status = ... of the rows in T.
TxsWithStatus(T, status) ==
    [t \in DOMAIN txs |-> IF t \in T THEN [txs[t] EXCEPT !.status = status]
                                     ELSE txs[t]]

----------------------------------------------------------------------------
\* Handlers.

At(h, place) == handlers[h].at = place

Goto(h, place) == handlers' = [handlers EXCEPT ![h].at = place]

Continue(h, locals) == handlers' = [handlers EXCEPT ![h] = locals]

\* The call ends; a webhook ends with Reject or Acknowledge instead.
End(h) == handlers' = [handlers EXCEPT ![h] = IdleHandler]

InFlight == {handlers[h].event : h \in Handlers} \ {None}

\* The webhook endpoint answers 200, or 400 and Stripe will deliver again.
Acknowledge(h) ==
    /\ End(h)
    /\ events' = [events EXCEPT !.acked = @ \cup {handlers[h].event}]

Reject(h) ==
    /\ End(h)
    /\ events' = [events EXCEPT !.pending = @ \cup {handlers[h].event}]

\* The process dies: every call in flight is lost, and Stripe will deliver again
\* the events among them that it never got an answer to.
Restart ==
    /\ handlers' = [h \in Handlers |-> IdleHandler]
    /\ events' = [events EXCEPT !.pending = @ \cup (InFlight \ events.acked)]
=============================================================================
