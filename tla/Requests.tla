------------------------------ MODULE Requests ------------------------------
(***************************************************************************)
(* The endpoints of the dashboard that change a user's billing: subscribe, *)
(* switch-to, setTrialUserPlan, secret, cancel-next, subscriptions and     *)
(* subscription/renovate, initialize-user, down to the service methods     *)
(* they call.                                                              *)
(***************************************************************************)
EXTENDS SharedSteps

(* A request reads the user record once, in the auth guard or, for          *)
(* setTrialUserPlan, first thing; it keeps that copy to its end.            *)
Call(h, u, endpoint, locals) ==
    /\ endpoint \in budget.endpoints
    /\ At(h, "idle")
    /\ budget.requests > 0
    /\ budget' = [budget EXCEPT !.requests = @ - 1]
    /\ Continue(h, [locals EXCEPT !.user = u, !.me = users[u]])
    /\ UNCHANGED <<users, plans, txs, stripe, events, cards, now>>

SubscribeRequest(h, u) ==
    Call(h, u, "subscribe", [IdleHandler EXCEPT
        !.task = "subscribe", !.at = "findCard", !.type = "SUBSCRIPTION",
        !.tariff = users[u].tariff])

(* Nest passes a path parameter on as the string it is, no pipe converts    *)
(* it, and the ids of the user record are numbers.                          *)
PathParam(id) == [string |-> id]

SwitchRequest(h, u, tariff) ==
    /\ PathParam(tariff) \notin {users[u].tariff, users[u].next}
    /\ Call(h, u, "switch", [IdleHandler EXCEPT
           !.task = "subscribe", !.at = "findPlans", !.type = "SUBSCRIPTION",
           !.tariff = tariff])

SetTrialRequest(h, u) ==
    Call(h, u, "setTrial", [IdleHandler EXCEPT
        !.task = "subscribe", !.at = "findTrialCard", !.type = "SUBSCRIPTION",
        !.tariff = users[u].tariff])

SecretRequest(h, u, tariff) ==
    Call(h, u, "secret", [IdleHandler EXCEPT
        !.task = "getSecret", !.at = "findCustomer", !.type = "SUBSCRIPTION",
        !.tariff = tariff])

ValidationRequest(h, u) ==
    Call(h, u, "validate", [IdleHandler EXCEPT
        !.task = "getSecret", !.at = "findValidation",
        !.type = "CARD_VALIDATION"])

CancelNextRequest(h, u) ==
    /\ users[u].next \notin {None, users[u].tariff}
    /\ Call(h, u, "cancelNext", [IdleHandler EXCEPT
           !.task = "cancelNext", !.at = "findNextPlan"])

UnsubscribeRequest(h, u) ==
    /\ users[u].next = None
    /\ Call(h, u, "unsubscribe", [IdleHandler EXCEPT
           !.task = "unsubscribe", !.at = "listSubs"])

\* Mutant: the status changes and no subscription is created.
RenovateUnbacked(h, u) ==
    Call(h, u, "renovate", [IdleHandler EXCEPT
        !.task = "renovate", !.at = "setStatus"])

RenovateRequest(h, u) ==
    Call(h, u, "renovate", [IdleHandler EXCEPT
        !.task = "renovate", !.at = "createSub"])

InitializeRequest(h, u) ==
    Call(h, u, "initialize", [IdleHandler EXCEPT
        !.task = "initialize", !.at = "countPlans"])

----------------------------------------------------------------------------
(* changeUserPlan and setTrialUserPlan: what comes before subscribe.        *)

FindPlans(h) ==
    /\ At(h, "findPlans")
    /\ Goto(h, CASE PlansOf(handlers[h].user) = {} -> "findCard"
                 [] handlers[h].me.status = "trial"
                    /\ PlansOf(handlers[h].user) # {} -> "findTrialCard"
                 [] OTHER -> "findCurrent")
    /\ UNCHANGED <<users, plans, txs, stripe, events, world>>

FindTrialCard(h) ==
    /\ At(h, "findTrialCard")
    /\ IF cards[handlers[h].user].default = None THEN End(h)
                                                 ELSE Goto(h, "findCard")
    /\ UNCHANGED <<users, plans, txs, stripe, events, world>>

\* switchToANewPlan; without a current plan it fails on the missing row.
FindCurrent(h) ==
    /\ At(h, "findCurrent")
    /\ \E p \in ActiveForUser(handlers[h].user, handlers[h].me.tariff) :
          IF p = None THEN End(h)
          ELSE Continue(h, [handlers[h] EXCEPT !.at = "findLast", !.plan = p])
    /\ UNCHANGED <<users, plans, txs, stripe, events, world>>

FindLast(h) ==
    /\ At(h, "findLast")
    /\ LET last == LastForUser(handlers[h].user)
           locals == [handlers[h] EXCEPT !.plan = None,
                                         !.type = "DELAYED_SUBSCRIPTION"]
       IN  CASE last = None -> End(h)
             [] last = handlers[h].plan ->
                    Continue(h, [locals EXCEPT !.at = "findCard"])
             [] last \notin {None, handlers[h].plan} ->
                    Continue(h, [locals EXCEPT !.at = "deletePlan",
                                               !.other = last])
    /\ UNCHANGED <<users, plans, txs, stripe, events, world>>

\* Deletes the plan to come: of switchToANewPlan and of cancelNextTariff.
DeletePlan(h) ==
    /\ At(h, "deletePlan")
    /\ plans' = [plans EXCEPT ![handlers[h].other].state = "deleted"]
    /\ Continue(h, [handlers[h] EXCEPT !.other = None,
           !.at = IF handlers[h].task = "cancelNext" THEN "listSubs"
                                                     ELSE "findCard"])
    /\ UNCHANGED <<users, txs, stripe, events, world>>

----------------------------------------------------------------------------
(* subscribe                                                                *)

FindCard(h) ==
    /\ At(h, "findCard")
    /\ Continue(h, [handlers[h] EXCEPT
                       !.at = "findPlan",
                       !.card = cards[handlers[h].user].default])
    /\ UNCHANGED <<users, plans, txs, stripe, events, world>>

FindPlan(h) ==
    /\ At(h, "findPlan")
    /\ \E p \in ActiveForUser(handlers[h].user, handlers[h].me.tariff) :
          Continue(h, [handlers[h] EXCEPT !.at = "createPlan", !.plan = p])
    /\ UNCHANGED <<users, plans, txs, stripe, events, world>>

\* The new plan follows the current one, unless there is none or the user is
\* in the trial period.
CreatePlan(h) ==
    /\ At(h, "createPlan")
    /\ Len(plans) < MaxPlans
    /\ LET current == handlers[h].plan
           start == IF handlers[h].me.status = "trial" \/ current = None
                    THEN now ELSE plans[current].start + 1
       IN  plans' = Append(plans, NewPlan(handlers[h].user, handlers[h].tariff,
                                          start, "inactive"))
    /\ Continue(h, [handlers[h] EXCEPT
           !.plan = Len(plans) + 1,
           !.at = IF handlers[h].card = None THEN "findIntent" ELSE "attachCard"])
    /\ UNCHANGED <<users, txs, stripe, events, world>>

\* The default card must be among the payment methods of the customer that
\* the request knows, or the call fails with the new plan left behind.
AttachCard(h) ==
    /\ At(h, "attachCard")
    /\ IF handlers[h].card \in PaymentMethods(handlers[h].me.customer)
       THEN Goto(h, "supersede")
       ELSE End(h)
    /\ UNCHANGED <<users, plans, txs, stripe, events, world>>

\* cancelPendingDelayedSubscriptions cancels rows of type SUBSCRIPTION only.
Supersede(h) ==
    /\ At(h, "supersede")
    /\ txs' = TxsWithStatus(PendingTxs(handlers[h].user, {"SUBSCRIPTION"}),
                            "CANCELED")
    /\ Goto(h, "saveTx")
    /\ UNCHANGED <<users, plans, stripe, events, world>>

SaveTx(h) ==
    /\ At(h, "saveTx")
    /\ Len(txs) < MaxTxs
    /\ txs' = Append(txs, NewTx(handlers[h].user, handlers[h].type,
                                handlers[h].tariff, handlers[h].plan, None))
    /\ Goto(h, "listSubs")
    /\ UNCHANGED <<users, plans, stripe, events, world>>

\* Without a card: a row of its own for the payment that validates one.
SavePrePayment(h) ==
    /\ At(h, "savePrePayment")
    /\ Len(txs) < MaxTxs
    /\ txs' = Append(txs, NewTx(handlers[h].user, "PRE_SUBSCRIPTION_PAYMENT",
                                handlers[h].tariff, handlers[h].plan,
                                handlers[h].intent))
    /\ Goto(h, "supersede")
    /\ UNCHANGED <<users, plans, stripe, events, world>>

----------------------------------------------------------------------------
(* getSecret and getOrCreateUserCustomerId                                  *)

\* The client gets the secret of an intent and can pay it from now on.
Show(h, i) ==
    /\ intents' = [intents EXCEPT ![i].shown = TRUE]
    /\ End(h)

\* getPending with tariffId null: TypeORM may match the rows without a tariff
\* or none at all.  (With a tariff, the other case in which getSecret makes this
\* query, it finds nothing: rows of card validations have no tariff.)
FindValidation(h) ==
    /\ At(h, "findValidation")
    /\ \/ \E t \in PendingTxs(handlers[h].user, {"CARD_VALIDATION"}) :
             Show(h, txs[t].intent)
       \/ Goto(h, "findCustomer") /\ UNCHANGED intents
    /\ UNCHANGED <<users, plans, txs, subs, customers, events, world>>

FindCustomer(h) ==
    /\ At(h, "findCustomer")
    /\ LET c == users[handlers[h].user].customer
       IN  Continue(h, [handlers[h] EXCEPT !.customer = c,
               !.at = IF c = None THEN "createCustomer" ELSE "findIntent"])
    /\ UNCHANGED <<users, plans, txs, stripe, events, world>>

CreateCustomer(h) ==
    /\ At(h, "createCustomer")
    /\ Len(customers) < MaxCustomers
    /\ customers' = Append(customers, handlers[h].user)
    /\ Continue(h, [handlers[h] EXCEPT !.at = "storeCustomer",
                                       !.customer = Len(customers) + 1])
    /\ UNCHANGED <<users, plans, txs, intents, subs, events, world>>

StoreCustomer(h) ==
    /\ At(h, "storeCustomer")
    /\ users' = [users EXCEPT ![handlers[h].user].customer =
                    handlers[h].customer]
    /\ Goto(h, IF handlers[h].task = "initialize" THEN "createFirstPlan"
                                                  ELSE "findIntent")
    /\ UNCHANGED <<plans, txs, stripe, events, world>>

----------------------------------------------------------------------------
(* getOrCreatePaymentIntent, for getSecret and for a subscribe without card *)

ForValidation(h) ==
    handlers[h].task = "subscribe" \/ handlers[h].type = "CARD_VALIDATION"

CustomerOf(h) == IF handlers[h].task = "subscribe" THEN handlers[h].me.customer
                                                   ELSE handlers[h].customer

\* getUnfinishedByType.  subscribe passes no tariff (again TypeORM may ignore
\* the filter or match nothing); getSecret passes one, which the rows of card
\* validations do not have.
Unfinished(h) ==
    CASE handlers[h].task = "subscribe" ->
             PendingTxs(handlers[h].user, {"CARD_VALIDATION"})
      [] handlers[h].task = "getSecret" ->
             {t \in PendingTxs(handlers[h].user, {handlers[h].type}) :
                 handlers[h].type = "SUBSCRIPTION"
                 /\ txs[t].tariff = handlers[h].tariff}

\* A pending row without a payment intent, as subscribe writes them, makes the
\* call fail on its missing payload.
ReuseIntent(h) ==
    /\ At(h, "findIntent")
    /\ \E t \in Unfinished(h) :
          CASE txs[t].intent = None -> End(h) /\ UNCHANGED intents
            [] txs[t].intent # None /\ handlers[h].task = "getSecret" ->
                   Show(h, txs[t].intent)
            [] txs[t].intent # None /\ handlers[h].task = "subscribe" ->
                   /\ Continue(h, [handlers[h] EXCEPT !.at = "savePrePayment",
                                                      !.intent = txs[t].intent])
                   /\ UNCHANGED intents
    /\ UNCHANGED <<users, plans, txs, subs, customers, events, world>>

NoIntentFound(h) ==
    /\ At(h, "findIntent")
    /\ handlers[h].task = "getSecret" => Unfinished(h) = {}
    /\ IF CustomerOf(h) = None THEN End(h) ELSE Goto(h, "createIntent")
    /\ UNCHANGED <<users, plans, txs, stripe, events, world>>

CreateIntent(h) ==
    /\ At(h, "createIntent")
    /\ Len(intents) < MaxIntents
    /\ intents' = Append(intents, NewIntent(CustomerOf(h), Len(intents) + 1))
    /\ Continue(h, [handlers[h] EXCEPT
           !.intent = Len(intents) + 1,
           !.at = IF ForValidation(h) THEN "findIntentPlan" ELSE "saveIntentTx"])
    /\ UNCHANGED <<users, plans, txs, subs, customers, events, world>>

FindIntentPlan(h) ==
    /\ At(h, "findIntentPlan")
    /\ \E p \in ActiveForUser(handlers[h].user, handlers[h].me.tariff) :
          Continue(h, [handlers[h] EXCEPT !.at = "saveIntentTx", !.other = p])
    /\ UNCHANGED <<users, plans, txs, stripe, events, world>>

SaveIntentTx(h) ==
    /\ At(h, "saveIntentTx")
    /\ Len(txs) < MaxTxs
    /\ txs' = Append(txs,
           IF ForValidation(h)
           THEN NewTx(handlers[h].user, "CARD_VALIDATION", None,
                      handlers[h].other, handlers[h].intent)
           ELSE NewTx(handlers[h].user, "SUBSCRIPTION", handlers[h].tariff,
                      None, handlers[h].intent))
    /\ IF handlers[h].task = "getSecret"
       THEN Show(h, handlers[h].intent)
       ELSE /\ Continue(h, [handlers[h] EXCEPT !.at = "savePrePayment",
                                               !.other = None])
            /\ UNCHANGED intents
    /\ UNCHANGED <<users, plans, subs, customers, events, world>>

----------------------------------------------------------------------------
(* cancelNextTariff, with ListSubs to DropNext, and initializeUser          *)

FindNextPlan(h) ==
    /\ At(h, "findNextPlan")
    /\ LET found == {p \in PlansOf(handlers[h].user) :
                        /\ plans[p].tariff = handlers[h].me.next
                        /\ plans[p].state = "inactive"
                        /\ plans[p].start > now}
       IN  IF found = {} THEN End(h)
           ELSE \E p \in found :
                   /\ \A q \in found : q <= p
                   /\ Continue(h, [handlers[h] EXCEPT !.at = "deletePlan",
                                                      !.other = p])
    /\ UNCHANGED <<users, plans, txs, stripe, events, world>>

CountPlans(h) ==
    /\ At(h, "countPlans")
    /\ IF PlansOf(handlers[h].user) # {} THEN End(h)
                                         ELSE Goto(h, "createCustomer")
    /\ UNCHANGED <<users, plans, txs, stripe, events, world>>

\* createForUser swallows the error when the user got an active plan meanwhile.
CreateFirstPlan(h) ==
    /\ At(h, "createFirstPlan")
    /\ Len(plans) < MaxPlans
    /\ plans' = IF ActivePlans(handlers[h].user) # {} THEN plans
                ELSE Append(plans, NewPlan(handlers[h].user,
                                           handlers[h].me.tariff, now, "active"))
    /\ End(h)
    /\ UNCHANGED <<users, txs, stripe, events, world>>

----------------------------------------------------------------------------

Request(h) ==
    \E u \in Users :
        \/ SubscribeRequest(h, u)
        \/ \E t \in Tariffs : SwitchRequest(h, u, t)
        \/ SetTrialRequest(h, u)
        \/ \E t \in Tariffs : SecretRequest(h, u, t)
        \/ ValidationRequest(h, u)
        \/ CancelNextRequest(h, u)
        \/ UnsubscribeRequest(h, u)
        \/ RenovateRequest(h, u)
        \/ InitializeRequest(h, u)

RequestStep(h) ==
    \/ FindPlans(h) \/ FindTrialCard(h) \/ FindCurrent(h) \/ FindLast(h)
    \/ DeletePlan(h) \/ FindCard(h) \/ FindPlan(h) \/ CreatePlan(h)
    \/ AttachCard(h) \/ Supersede(h) \/ SaveTx(h) \/ SavePrePayment(h)
    \/ FindValidation(h) \/ FindCustomer(h) \/ CreateCustomer(h)
    \/ StoreCustomer(h) \/ ReuseIntent(h) \/ NoIntentFound(h)
    \/ CreateIntent(h) \/ FindIntentPlan(h) \/ SaveIntentTx(h)
    \/ FindNextPlan(h) \/ CountPlans(h) \/ CreateFirstPlan(h)
=============================================================================
