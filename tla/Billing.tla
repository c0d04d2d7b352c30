------------------------------- MODULE Billing -------------------------------
(***************************************************************************)
(* The billing of the dashboard: requests, webhooks and the cron over the  *)
(* shared tables, with what users do at Stripe, time, duplicate events and *)
(* crashes of the process.                                                 *)
(***************************************************************************)
EXTENDS Requests, Webhooks, PlanCron

(* "new": signed up at authnode.  "trial": initialize-user has run.         *)
(* "active": has validated a card and subscribed, all events handled.       *)
(* "lapsed": as active, and unsubscribed since.                             *)
StartStatus(profile) == CASE profile = "active" -> "active"
                          [] profile = "lapsed" -> "unsubscribed"
                          [] OTHER -> "trial"

(* Every user starts alike, with the rows and Stripe objects of user k      *)
(* numbered k; `user` numbers the users.                                    *)
Start(profile, tariff, user) ==
    LET n == Cardinality(Users)
        known == profile # "new"
        subscribed == profile \in {"active", "lapsed"}
        card == CHOOSE c \in Cards : TRUE
        number(u) == CHOOSE k \in 1..n : user[k] = u
        rows(has, row(_)) == IF has THEN [k \in 1..n |-> row(k)] ELSE <<>>
        plan(k) == NewPlan(user[k], tariff, 0, "active")
        intent(k) == [NewIntent(k, k) EXCEPT !.state = "paid", !.card = card,
                                             !.refunded = TRUE, !.shown = TRUE]
        sub(k) == [live |-> profile = "active", customer |-> k]
        validation(k) == [NewTx(user[k], "CARD_VALIDATION", None, k, k)
                             EXCEPT !.status = "SUCCESS"]
        subscription(k) == [NewTx(user[k], "SUBSCRIPTION", tariff, k, None)
                               EXCEPT !.status = "SUCCESS", !.sub = k]
    IN  /\ users = [u \in Users |->
              [status |-> StartStatus(profile), tariff |-> tariff, next |-> None,
               customer |-> IF known THEN number(u) ELSE None]]
        /\ cards = [u \in Users |->
              IF subscribed THEN [stored |-> {card}, default |-> card]
                            ELSE [stored |-> {}, default |-> None]]
        /\ customers = IF known THEN user ELSE <<>>
        /\ plans = rows(known, plan)
        /\ intents = rows(subscribed, intent)
        /\ subs = rows(subscribed, sub)
        /\ txs = rows(subscribed, validation) \o rows(subscribed, subscription)

Init ==
    /\ budget \in Scenarios
    /\ \E tariff \in Tariffs, user \in [1..Cardinality(Users) -> Users] :
          /\ \A j, k \in DOMAIN user : user[j] = user[k] => j = k
          /\ Start(budget.profile, tariff, user)
    /\ events = [pending |-> {}, acked |-> {}]
    /\ handlers = [h \in Handlers |-> IdleHandler]
    /\ now = 0

----------------------------------------------------------------------------
(* Outside the program: users at Stripe's payment form, time, and faults.   *)

\* The client knows the secret from getSecret, or, for a replacement, from the
\* row of the failed payment (payment-status and user-plan show it).
Payable(i) ==
    /\ intents[i].state = "open"
    /\ intents[i].shown \/ \E t \in DOMAIN txs : txs[t].newIntent = i

Report(type, i) ==
    events' = [events EXCEPT !.pending = @ \cup {[type |-> type, about |-> i]}]

Fault ==
    /\ budget.faults > 0
    /\ budget' = [budget EXCEPT !.faults = @ - 1]

Pay(i, card) ==
    /\ Payable(i)
    /\ intents' = [intents EXCEPT ![i].state = "paid", ![i].card = card]
    /\ Report("payment_intent.succeeded", i)
    /\ UNCHANGED <<users, plans, txs, subs, customers, handlers, world>>

Decline(i) ==
    /\ Payable(i)
    /\ Fault
    /\ Report("payment_intent.payment_failed", i)
    /\ UNCHANGED <<users, plans, txs, stripe, handlers, cards, now>>

CancelIntent(i) ==
    /\ Payable(i)
    /\ Fault
    /\ intents' = [intents EXCEPT ![i].state = "canceled"]
    /\ Report("payment_intent.canceled", i)
    /\ UNCHANGED <<users, plans, txs, subs, customers, handlers, cards, now>>

DeliverAgain(e) ==
    /\ e \in events.acked \cup InFlight
    /\ e \notin events.pending
    /\ Fault
    /\ Report(e.type, e.about)
    /\ UNCHANGED <<users, plans, txs, stripe, handlers, cards, now>>

Crash ==
    /\ \E h \in Handlers : ~At(h, "idle")
    /\ Fault
    /\ Restart
    /\ UNCHANGED <<users, plans, txs, stripe, cards, now>>

\* A call that the try block of paymentIntentSucceeded awaits fails, of the
\* tables, of Stripe or of authnode: the catch block goes on to write FAILED, and
\* the answer will be 200 all the same.
CallFails(h) ==
    /\ handlers[h].task = "intentSucceeded"
    /\ handlers[h].outcome = "SUCCESS"
    /\ handlers[h].at \notin {"findTx", "findPayer", "saveCard"}
    /\ Fault
    /\ Continue(h, [handlers[h] EXCEPT !.at = "settle", !.outcome = "FAILED",
                                       !.listed = {}])
    /\ UNCHANGED <<users, plans, txs, stripe, events, cards, now>>

Tick ==
    /\ now < budget.periods
    /\ now' = now + 1
    /\ UNCHANGED <<users, plans, txs, stripe, events, handlers, cards, budget>>

----------------------------------------------------------------------------

Step(h) == SharedStep(h) \/ RequestStep(h) \/ WebhookStep(h) \/ CronStep(h)

Next ==
    \/ \E h \in Handlers :
          \/ Request(h)
          \/ \E e \in events.pending : Deliver(h, e)
          \/ \E u \in Users : CronBegin(h, u)
          \/ Step(h)
          \/ CallFails(h)
    \/ \E i \in DOMAIN intents :
          \/ \E card \in Cards : Pay(i, card)
          \/ Decline(i)
          \/ CancelIntent(i)
    \/ \E e \in events.acked \cup InFlight : DeliverAgain(e)
    \/ Crash
    \/ Tick

Spec == Init /\ [][Next]_vars

(* Every awaited call returns some time, the cron runs again and again, and *)
(* Stripe delivers a report until it is acknowledged.  Nothing is assumed   *)
(* of requests, payments, faults and the clock.                             *)
Fairness ==
    /\ \A h \in Handlers : WF_vars(Step(h))
    /\ \A u \in Users : SF_vars(\E h \in Handlers : CronBegin(h, u))
    /\ \A s \in 1..MaxSubs :
          SF_vars(\E h \in Handlers :
              Deliver(h, [type |-> "customer.subscription.created", about |-> s]))

FairSpec == Spec /\ Fairness

----------------------------------------------------------------------------
\* Properties.

Place == {"idle", "listSubs", "deleteSubs", "createSub", "setStatus",
          "dropNext", "deactivate", "activate", "findPlans", "findTrialCard",
          "findCurrent", "findLast", "deletePlan", "findCard", "findPlan",
          "createPlan", "attachCard", "supersede", "saveTx", "savePrePayment",
          "findValidation", "findCustomer", "createCustomer", "storeCustomer",
          "findIntent", "createIntent", "findIntentPlan", "saveIntentTx",
          "findNextPlan", "countPlans", "createFirstPlan", "findTx",
          "findPayer", "saveCard", "refund", "createPaidPlan", "setActive",
          "storeTariff", "settle", "settleRows", "findFailedTx",
          "failValidation", "failValidationRow", "findDebtor", "replaceIntent",
          "failTx", "failTxRow",
          "findSubscriber", "findPendingTx", "readPlan", "storeNext", "linkTx",
          "cronUser", "cronPlan", "cronRequire", "cronExpire", "cronLast",
          "cronCreate", "cronTariff"}

Task == {"none", "subscribe", "getSecret", "cancelNext", "unsubscribe",
         "renovate", "initialize", "intentSucceeded", "intentFailed",
         "subscriptionCreated", "cron"}

Handler ==
    [at : Place, task : Task, user : Maybe(Users), me : Maybe(User),
     tariff : Maybe(Tariffs), type : Maybe(TxType), card : Maybe(Cards),
     customer : Maybe(1..MaxCustomers), plan : Maybe(1..MaxPlans),
     other : Maybe(1..MaxPlans), tx : Maybe(1..MaxTxs),
     intent : Maybe(1..MaxIntents), listed : SUBSET (1..MaxSubs),
     event : Maybe(Event), replaces : BOOLEAN,
     outcome : {"SUCCESS", "FAILED"}, round : 1..2]

TypeOK ==
    /\ users \in [Users -> User]
    /\ cards \in [Users -> Wallet]
    /\ plans \in Seq(Plan) /\ Len(plans) <= MaxPlans
    /\ txs \in Seq(Tx) /\ Len(txs) <= MaxTxs
    /\ intents \in Seq(Intent) /\ Len(intents) <= MaxIntents
    /\ subs \in Seq(Sub) /\ Len(subs) <= MaxSubs
    /\ customers \in Seq(Users) /\ Len(customers) <= MaxCustomers
    /\ events \in [pending : SUBSET Event, acked : SUBSET Event]
    /\ handlers \in [Handlers -> Handler]
    /\ now \in Nat
    /\ budget \in Budget

\* A user has at most one active plan, whatever activations and initialisations
\* interleave and whichever of them the unique index turns down.
OneActivePlan ==
    \A u \in Users : \A p, q \in ActivePlans(u) : p = q

\* A transaction that names a payment intent and reads SUCCESS was paid: by
\* that intent or by one that replaced it after a failure.  Events may come
\* late, twice or out of order, and handlers may be cut short.
PaidBeforeSuccess ==
    \A t \in DOMAIN txs :
        (txs[t].status = "SUCCESS" /\ txs[t].intent # None) =>
            \E i \in DOMAIN intents :
                /\ intents[i].state = "paid"
                /\ intents[i].origin = intents[txs[t].intent].origin

\* Once Stripe's report of a payment is acknowledged, the transaction the
\* payment was made for is no longer pending.  (A subscribe without card may
\* add its own row for a payment that is settled already; that row is exempt.)
SettledWhenAcknowledged ==
    \A e \in events.acked : \A t \in DOMAIN txs :
        (/\ e.type = "payment_intent.succeeded"
         /\ txs[t].intent = e.about
         /\ txs[t].type # "PRE_SUBSCRIPTION_PAYMENT") =>
            txs[t].status # "PENDING"

\* The charge that validates a card is given back before the validation reads
\* SUCCESS, unless a subscribe without card used the same intent for its own
\* row: the webhook may then find that row, which is not refundable.
ValidationRefunded ==
    \A t \in DOMAIN txs :
        (/\ txs[t].type = "CARD_VALIDATION"
         /\ txs[t].status = "SUCCESS"
         /\ ~\E s \in DOMAIN txs : /\ txs[s].type = "PRE_SUBSCRIPTION_PAYMENT"
                                   /\ txs[s].intent = txs[t].intent) =>
            intents[txs[t].intent].refunded

\* The outcome of a subscription is final: once a transaction names the
\* subscription that fulfilled it and reads SUCCESS, no later event, request
\* or retry changes its status or takes the link away.
SubscriptionOutcomeFinal ==
    [][\A t \in DOMAIN txs :
          (txs[t].status = "SUCCESS" /\ txs[t].sub # None) =>
              txs'[t].status = "SUCCESS" /\ txs'[t].sub # None]_txs

\* A row of the transactions in the terms of PaymentLedger: what it waits for is
\* the payment that its intent and the replacements of it stand for.
LedgerRow(t) ==
    [user |-> txs[t].user, type |-> txs[t].type, status |-> txs[t].status,
     payment |-> IF txs[t].intent = None THEN None
                 ELSE intents[txs[t].intent].origin,
     linked |-> txs[t].sub # None]

LedgerRows == [t \in DOMAIN txs |-> LedgerRow(t)]

LedgerPaid ==
    {intents[i].origin : i \in {j \in DOMAIN intents : intents[j].state = "paid"}}

Ledger == INSTANCE PaymentLedger WITH
    rows <- LedgerRows, paid <- LedgerPaid, Payments <- 1..MaxIntents

(* The requests, the webhooks and Stripe together implement PaymentLedger:  *)
(* whatever overlaps, is repeated or is cut short, each step enters a       *)
(* transaction, sweeps pending ones, settles or fails those of one payment, *)
(* settles those of subscriptions, links one, or touches none of them.      *)
KeepsLedger == Ledger!Spec

Created(s) == [type |-> "customer.subscription.created", about |-> s]

OnItsWay(e) == e \in events.pending \cup InFlight

\* The report of a subscription is over and done with only when every
\* transaction that names the subscription reads SUCCESS: neither a rejection or
\* a crash on the way, nor the sweep that cancels the user's pending rows, nor
\* another event leaves one behind.  Only a repeated report may get lost after
\* Stripe got an answer to the first one, when the process dies.
LinkedSubscriptionSucceeds ==
    [][\A s \in DOMAIN subs :
          (OnItsWay(Created(s)) /\ ~OnItsWay(Created(s))') =>
              \/ \A t \in DOMAIN txs' :
                    txs'[t].sub = s => txs'[t].status = "SUCCESS"
              \/ /\ Created(s) \in events.acked
                 /\ \A h \in Handlers : At(h, "idle")']_vars

\* A user gets out of the trial into `active` only for something: a payment
\* of a customer of theirs, or a subscription that Stripe created for them.
NoFreeActivation ==
    \A u \in Users :
        users[u].status = "active" =>
            \/ \E i \in DOMAIN intents : /\ intents[i].state = "paid"
                                         /\ customers[intents[i].customer] = u
            \/ \E s \in DOMAIN subs : customers[subs[s].customer] = u

\* UserStatus.Active is documented as: everything is in order with the user,
\* who has a confirmed card.
ActiveHasCard ==
    \A u \in Users : users[u].status = "active" => cards[u].stored # {}

\* Nothing but the cron goes on, and there is room for the plan it creates.
Quiet ==
    /\ events.pending = {}
    /\ \A h \in Handlers :
          /\ handlers[h].task \in {"none", "cron"}
          /\ At(h, "cronCreate") => Len(plans) < MaxPlans

\* A crash, a race or a failed call may leave an active user without an active
\* plan of the tariff in the user record, and no webhook comes back to it.  Once
\* requests and reports leave the user alone, the nightly cron repairs that.
\* (While they do not, a report that is delivered again and the cron may turn
\* one another's activation down night after night.)
PlanRestored ==
    \A u \in Users :
        <>[](Quiet /\ users[u].status = "active") =>
            []<>(ActiveForUser(u, users[u].tariff) # {None})

Outstanding(u) ==
    \E e \in events.pending :
        /\ e.type = "customer.subscription.created"
        /\ customers[subs[e.about].customer] = u

PendingSubscriptions ==
    {t \in DOMAIN txs : txs[t].status = "PENDING" /\ txs[t].type \in Subscription}

\* A pending subscription gets an outcome once the report of a subscription
\* of its user is on its way, in spite of a crash or a report that is repeated.
SubscriptionSettles ==
    \A t \in 1..MaxTxs :
        (\E r \in PendingSubscriptions : r = t /\ Outstanding(txs[r].user))
            ~> t \notin PendingSubscriptions

\* switch-to refuses with 'You cannot switch to the existing tariff': no delayed
\* subscription gets under way for the tariff that the request found.
SwitchesToAnotherTariff ==
    \A h \in Handlers : handlers[h].type = "DELAYED_SUBSCRIPTION" =>
        handlers[h].tariff \notin {handlers[h].me.tariff, handlers[h].me.next}

AtRest == events.pending = {} /\ \A h \in Handlers : At(h, "idle")

\* UserStatus.Unsubscribed is documented as: the user has unsubscribed from the
\* tariff.  With nothing in flight, no subscription goes on charging the card.
UnsubscribedIsNotCharged ==
    AtRest => \A u \in Users : users[u].status = "unsubscribed" =>
        \A s \in DOMAIN subs : subs[s].live => customers[subs[s].customer] # u
=============================================================================
