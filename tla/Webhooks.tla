------------------------------ MODULE Webhooks ------------------------------
(***************************************************************************)
(* The handlers of Stripe's events: StripeApiService.webhook and the three *)
(* methods of StripeApiWebhooksService.  Stripe delivers an event at least *)
(* once, in any order, and again while the answer is not 200.              *)
(***************************************************************************)
EXTENDS SharedSteps

About(h) == handlers[h].event.about

Handling(e) ==
    CASE e.type = "payment_intent.succeeded" ->
             [IdleHandler EXCEPT !.task = "intentSucceeded", !.at = "findTx",
                                 !.event = e]
      [] e.type \in {"payment_intent.payment_failed", "payment_intent.canceled"} ->
             [IdleHandler EXCEPT !.task = "intentFailed", !.at = "findFailedTx",
                                 !.event = e]
      [] e.type = "customer.subscription.created" ->
             [IdleHandler EXCEPT !.task = "subscriptionCreated",
                                 !.at = "findSubscriber", !.event = e]

\* Mutant: the answer goes out before the event is handled.
DeliverAnswered(h, e) ==
    /\ At(h, "idle")
    /\ e \in events.pending
    /\ events' = [pending |-> events.pending \ {e},
                  acked |-> events.acked \cup {e}]
    /\ Continue(h, Handling(e))
    /\ UNCHANGED <<users, plans, txs, stripe, world>>

(* The copy of the event that webhook stores without waiting is left out.   *)
Deliver(h, e) ==
    /\ At(h, "idle")
    /\ e \in events.pending
    /\ events' = [events EXCEPT !.pending = @ \ {e}]
    /\ Continue(h, Handling(e))
    /\ UNCHANGED <<users, plans, txs, stripe, world>>

\* getUserByStripeCustomerId fails for a customer that no user record names.
FindUser(h, customer, next) ==
    /\ \/ \E u \in UsersByCustomer(customer) :
             /\ Continue(h, [handlers[h] EXCEPT !.at = next, !.user = u,
                                                !.me = users[u]])
             /\ UNCHANGED events
       \/ UsersByCustomer(customer) = {} /\ Reject(h)
    /\ UNCHANGED <<users, plans, txs, stripe, world>>

----------------------------------------------------------------------------
(* paymentIntentSucceeded                                                   *)

\* `replaces`: the intent is the newPaymentIntentId of the row.
FindTx(h) ==
    /\ At(h, "findTx")
    /\ \/ \E t \in TxsByIntent(About(h)) :
             /\ Continue(h, [handlers[h] EXCEPT
                    !.at = "findPayer", !.tx = t, !.plan = txs[t].plan,
                    !.replaces = (txs[t].newIntent = About(h))])
             /\ UNCHANGED events
       \/ TxsByIntent(About(h)) = {} /\ Reject(h)
    /\ UNCHANGED <<users, plans, txs, stripe, world>>

FindPayer(h) ==
    /\ At(h, "findPayer")
    /\ FindUser(h, intents[About(h)].customer, "saveCard")

IsValidation(h) == txs[handlers[h].tx].type = "CARD_VALIDATION"

\* Mutant: a user on trial gets a plan for every payment.
AfterRefundAny(h) ==
    IF handlers[h].me.status = "trial" THEN "createPaidPlan" ELSE "settle"

AfterRefund(h) ==
    IF handlers[h].me.status = "trial" /\ ~IsValidation(h) THEN "createPaidPlan"
                                                           ELSE "settle"

\* saveCard in one step (module UserCards has its queries one by one): the
\* first card of the user becomes the default.
SaveCard(h) ==
    /\ At(h, "saveCard")
    /\ LET u == handlers[h].user
           card == intents[About(h)].card
       IN  cards' = [cards EXCEPT
               ![u].stored = @ \cup {card},
               ![u].default = IF cards[u].stored = {} THEN card ELSE @]
    /\ Goto(h, IF IsValidation(h) THEN "refund" ELSE AfterRefund(h))
    /\ UNCHANGED <<users, plans, txs, stripe, events, now, budget>>

\* Mutant: the refund of a card validation is forgotten.
RefundForgotten(h) ==
    /\ At(h, "refund")
    /\ Goto(h, AfterRefund(h))
    /\ UNCHANGED <<users, plans, txs, stripe, events, world>>

\* The rows of card validations are the refundable ones.  Stripe refuses to
\* refund an intent again, which the catch block answers with FAILED.
Refund(h) ==
    /\ At(h, "refund")
    /\ intents' = [intents EXCEPT ![About(h)].refunded = TRUE]
    /\ IF intents[About(h)].refunded
       THEN Continue(h, [handlers[h] EXCEPT !.at = "settle",
                                            !.outcome = "FAILED"])
       ELSE Goto(h, AfterRefund(h))
    /\ UNCHANGED <<users, plans, txs, subs, customers, events, world>>

CreatePaidPlan(h) ==
    /\ At(h, "createPaidPlan")
    /\ Len(plans) < MaxPlans
    /\ plans' = Append(plans, NewPlan(handlers[h].user,
                                      txs[handlers[h].tx].tariff, now,
                                      "inactive"))
    /\ Continue(h, [handlers[h] EXCEPT !.at = "setActive",
                                       !.plan = Len(plans) + 1])
    /\ UNCHANGED <<users, txs, stripe, events, world>>

\* updateUserStatus(Active): followed by the activation of the plan in
\* paymentIntentSucceeded, preceded by it in subscriptionCreated.
SetActive(h) ==
    /\ At(h, "setActive")
    /\ users' = [users EXCEPT ![handlers[h].user].status = "active"]
    /\ Goto(h, IF handlers[h].task = "intentSucceeded" THEN "deactivate"
                                                       ELSE "linkTx")
    /\ UNCHANGED <<plans, txs, stripe, events, world>>

AfterTariff(h) ==
    CASE handlers[h].task = "intentSucceeded" -> "listSubs"
      [] handlers[h].task = "subscriptionCreated" ->
             IF handlers[h].me.status = "active" THEN "linkTx" ELSE "setActive"

\* updateUserTariffId, after the plan is active.
StoreTariff(h) ==
    /\ At(h, "storeTariff")
    /\ users' = [users EXCEPT ![handlers[h].user].tariff =
                    plans[handlers[h].plan].tariff]
    /\ Goto(h, AfterTariff(h))
    /\ UNCHANGED <<plans, txs, stripe, events, world>>

----------------------------------------------------------------------------
(* finishTransaction_Old, the end of two webhooks: first every pending row  *)
(* of the user but card validations is canceled, then the rows whose        *)
(* payload names the intent or the subscription get their status.  A row    *)
(* found by its replacement intent is updated by its id instead.            *)

UpdatesByIdOnly(h) == handlers[h].replaces /\ handlers[h].outcome = "SUCCESS"

SettleById(h) ==
    /\ At(h, "settle")
    /\ UpdatesByIdOnly(h)
    /\ txs' = TxsWithStatus({handlers[h].tx}, "SUCCESS")
    /\ Acknowledge(h)
    /\ UNCHANGED <<users, plans, stripe, world>>

CancelOthers(h) ==
    /\ At(h, "settle")
    /\ ~UpdatesByIdOnly(h)
    /\ txs' = TxsWithStatus(PendingTxs(handlers[h].user,
                                       TxType \ {"CARD_VALIDATION"}),
                            "CANCELED")
    /\ Goto(h, "settleRows")
    /\ UNCHANGED <<users, plans, stripe, events, world>>

\* Mutant: the second update reaches pending rows only, which the first one
\* has just canceled.
RowsToSettlePending(h) ==
    {t \in TxsOf(handlers[h].user) : txs[t].status = "PENDING"}

\* Mutant: the second update forgets to filter by the payload.
RowsToSettleAll(h) == TxsOf(handlers[h].user)

RowsToSettle(h) ==
    {t \in TxsOf(handlers[h].user) :
        IF handlers[h].task = "subscriptionCreated" THEN txs[t].sub = About(h)
                                                    ELSE txs[t].intent = About(h)}

\* Only the SUCCESS of paymentIntentSucceeded passes a plan id.
SettleRows(h) ==
    /\ At(h, "settleRows")
    /\ txs' = [t \in DOMAIN txs |->
                  IF t \notin RowsToSettle(h) THEN txs[t]
                  ELSE [txs[t] EXCEPT
                           !.status = handlers[h].outcome,
                           !.plan = IF /\ handlers[h].task = "intentSucceeded"
                                       /\ handlers[h].outcome = "SUCCESS"
                                       /\ handlers[h].plan # None
                                    THEN handlers[h].plan ELSE @]]
    /\ Acknowledge(h)
    /\ UNCHANGED <<users, plans, stripe, world>>

----------------------------------------------------------------------------
(* paymentIntentFailed, for failed and for canceled intents.  The branch    *)
(* for failed ones has no break and falls through into the other: the       *)
(* handler runs twice for them.                                             *)

FailedOnce(h) ==
    IF handlers[h].event.type = "payment_intent.payment_failed"
       /\ handlers[h].round = 1
    THEN /\ Continue(h, [IdleHandler EXCEPT
                            !.task = "intentFailed", !.at = "findFailedTx",
                            !.event = handlers[h].event, !.round = 2])
         /\ UNCHANGED events
    ELSE Acknowledge(h)

FindFailedTx(h) ==
    /\ At(h, "findFailedTx")
    /\ \/ \E t \in TxsByIntent(About(h)) :
             /\ Goto(h, IF txs[t].type = "CARD_VALIDATION"
                        THEN "failValidation" ELSE "findDebtor")
             /\ UNCHANGED events
       \/ TxsByIntent(About(h)) = {} /\ Reject(h)
    /\ UNCHANGED <<users, plans, txs, stripe, world>>

\* finishTransaction looks the row up again, and may find another one, before
\* it updates the row by its id.
FindRowToFail(h) ==
    /\ At(h, "failTx") \/ At(h, "failValidation")
    /\ \/ \E t \in TxsByIntent(About(h)) :
             /\ Continue(h, [handlers[h] EXCEPT
                    !.tx = t,
                    !.at = IF At(h, "failTx") THEN "failTxRow"
                                              ELSE "failValidationRow"])
             /\ UNCHANGED events
       \/ TxsByIntent(About(h)) = {} /\ Reject(h)
    /\ UNCHANGED <<users, plans, txs, stripe, world>>

FailValidation(h) ==
    /\ At(h, "failValidationRow")
    /\ txs' = TxsWithStatus({handlers[h].tx}, "FAILED")
    /\ FailedOnce(h)
    /\ UNCHANGED <<users, plans, stripe, world>>

FindDebtor(h) ==
    /\ At(h, "findDebtor")
    /\ FindUser(h, intents[About(h)].customer, "replaceIntent")

\* Stripe creates an intent of the same amount for the user's customer.
ReplaceIntent(h) ==
    /\ At(h, "replaceIntent")
    /\ Len(intents) < MaxIntents
    /\ intents' = Append(intents, NewIntent(handlers[h].me.customer,
                                            intents[About(h)].origin))
    /\ Continue(h, [handlers[h] EXCEPT !.at = "failTx",
                                       !.intent = Len(intents) + 1])
    /\ UNCHANGED <<users, plans, txs, subs, customers, events, world>>

\* The payload is a copy of that of the row found first, plus the new intent.
\* Rows found by one intent name the same first intent, and a row that names
\* one never loses it, so that the copy changes the new intent only.
FailTx(h) ==
    /\ At(h, "failTxRow")
    /\ txs' = [txs EXCEPT ![handlers[h].tx].status = "FAILED",
                          ![handlers[h].tx].user = handlers[h].user,
                          ![handlers[h].tx].newIntent = handlers[h].intent]
    /\ FailedOnce(h)
    /\ UNCHANGED <<users, plans, stripe, world>>

----------------------------------------------------------------------------
(* subscriptionCreated                                                      *)

FindSubscriber(h) ==
    /\ At(h, "findSubscriber")
    /\ FindUser(h, subs[About(h)].customer, "findPendingTx")

Subscription == {"SUBSCRIPTION", "DELAYED_SUBSCRIPTION"}

FindPendingTx(h) ==
    /\ At(h, "findPendingTx")
    /\ LET found == PendingTxs(handlers[h].user, Subscription)
       IN  \/ \E t \in found :
                 /\ Continue(h, [handlers[h] EXCEPT !.at = "readPlan", !.tx = t,
                                                    !.plan = txs[t].plan])
                 /\ UNCHANGED events
           \/ found = {} /\ Reject(h)
    /\ UNCHANGED <<users, plans, txs, stripe, world>>

\* A row without a plan, or whose plan was deleted, makes findOneOrFail fail.
ReadPlan(h) ==
    /\ At(h, "readPlan")
    /\ LET p == handlers[h].plan
       IN  CASE p = None -> Reject(h)
             [] p # None /\ plans[p].state = "deleted" -> Reject(h)
             [] p # None /\ plans[p].state # "deleted" ->
                    /\ Goto(h, IF plans[p].start <= now THEN "deactivate"
                                                        ELSE "storeNext")
                    /\ UNCHANGED events
    /\ UNCHANGED <<users, plans, txs, stripe, world>>

\* Mutant: the plan is stored in the place of its tariff.
StoreNextPlan(h) ==
    /\ At(h, "storeNext")
    /\ users' = [users EXCEPT ![handlers[h].user].next = handlers[h].plan]
    /\ Goto(h, AfterTariff(h))
    /\ UNCHANGED <<plans, txs, stripe, events, world>>

StoreNext(h) ==
    /\ At(h, "storeNext")
    /\ users' = [users EXCEPT ![handlers[h].user].next =
                    plans[handlers[h].plan].tariff]
    /\ Goto(h, AfterTariff(h))
    /\ UNCHANGED <<plans, txs, stripe, events, world>>

\* The payload is replaced by the subscription: an intent in it is forgotten.
LinkTx(h) ==
    /\ At(h, "linkTx")
    /\ txs' = [txs EXCEPT ![handlers[h].tx].intent = None,
                          ![handlers[h].tx].newIntent = None,
                          ![handlers[h].tx].sub = About(h)]
    /\ Goto(h, "settle")
    /\ UNCHANGED <<users, plans, stripe, events, world>>

----------------------------------------------------------------------------

WebhookStep(h) ==
    \/ FindTx(h) \/ FindPayer(h) \/ SaveCard(h) \/ Refund(h)
    \/ CreatePaidPlan(h) \/ SetActive(h) \/ StoreTariff(h)
    \/ SettleById(h) \/ CancelOthers(h) \/ SettleRows(h)
    \/ FindFailedTx(h) \/ FailValidation(h) \/ FindDebtor(h)
    \/ ReplaceIntent(h) \/ FindRowToFail(h) \/ FailTx(h)
    \/ FindSubscriber(h) \/ FindPendingTx(h) \/ ReadPlan(h) \/ StoreNext(h)
    \/ LinkTx(h)
=============================================================================
