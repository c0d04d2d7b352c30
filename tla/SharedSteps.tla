----------------------------- MODULE SharedSteps -----------------------------
(***************************************************************************)
(* The steps that calls of several kinds go through: replacing the         *)
(* subscriptions of a Stripe customer, and activating a plan.  What comes  *)
(* after such a step depends on the call.                                  *)
(***************************************************************************)
EXTENDS BillingState

\* The place a call goes on from once its subscriptions are deleted, and once
\* a new one is created; "end" is the end of the call.
AfterDelete(task) == IF task = "unsubscribe" THEN "setStatus" ELSE "createSub"

AfterCreate(task) ==
    CASE task = "cancelNext" -> "dropNext"
      [] task = "renovate" -> "setStatus"
      [] task = "intentSucceeded" -> "settle"
      [] OTHER -> "end"

----------------------------------------------------------------------------
(* deleteSubscriptions, also inlined in paymentIntentSucceeded: the live    *)
(* subscriptions are listed, then all of the list are deleted at once.      *)
(* Stripe answers a call for no customer, and the deletion of one that is   *)
(* already deleted, with an error; the other deletions still happen.        *)

ListSubs(h) ==
    /\ At(h, "listSubs")
    /\ IF handlers[h].me.customer = None
       THEN End(h)
       ELSE Continue(h, [handlers[h] EXCEPT
                            !.at = "deleteSubs",
                            !.listed = LiveSubs(handlers[h].me.customer)])
    /\ UNCHANGED <<users, plans, txs, stripe, events, world>>

DeleteSubs(h) ==
    /\ At(h, "deleteSubs")
    /\ subs' = [s \in DOMAIN subs |->
                   IF s \in handlers[h].listed THEN [subs[s] EXCEPT !.live = FALSE]
                                               ELSE subs[s]]
    /\ LET failed == \E s \in handlers[h].listed : ~subs[s].live
           next == [handlers[h] EXCEPT !.listed = {}]
       IN  CASE ~failed ->
                    Continue(h, [next EXCEPT !.at = AfterDelete(handlers[h].task)])
             [] failed /\ handlers[h].task = "intentSucceeded" ->
                    Continue(h, [next EXCEPT !.at = "settle", !.outcome = "FAILED"])
             [] OTHER -> End(h)
    /\ UNCHANGED <<users, plans, txs, intents, customers, events, world>>

\* createSubscriptionForTariff, renovateSubscription and the inlined copy in
\* paymentIntentSucceeded: Stripe reports the new subscription by an event.
CreateSub(h) ==
    /\ At(h, "createSub")
    /\ LET c == handlers[h].me.customer
           after == AfterCreate(handlers[h].task)
       IN  IF c = None
           THEN End(h) /\ UNCHANGED <<subs, events>>
           ELSE /\ Len(subs) < MaxSubs
                /\ subs' = Append(subs, [live |-> TRUE, customer |-> c])
                /\ events' = [events EXCEPT !.pending = @ \cup
                      {[type |-> "customer.subscription.created",
                        about |-> Len(subs) + 1]}]
                /\ IF after = "end" THEN End(h) ELSE Goto(h, after)
    /\ UNCHANGED <<users, plans, txs, intents, customers, world>>

\* The last step of the calls that stop or resume a subscription.
SetStatus(h) ==
    /\ At(h, "setStatus")
    /\ users' = [users EXCEPT ![handlers[h].user].status =
                    IF handlers[h].task = "renovate" THEN "active"
                                                     ELSE "unsubscribed"]
    /\ End(h)
    /\ UNCHANGED <<plans, txs, stripe, events, world>>

\* deleteUserNextTariffId, the last step of cancelNextTariff and of the cron.
DropNext(h) ==
    /\ At(h, "dropNext")
    /\ users' = [users EXCEPT ![handlers[h].user].next = None]
    /\ End(h)
    /\ UNCHANGED <<plans, txs, stripe, events, world>>

----------------------------------------------------------------------------
(* activatePlan: two updates, the second under the partial unique index     *)
(* user_plan (user_id) WHERE active.  An id that is gone updates nothing.   *)

Deactivate(h) ==
    /\ At(h, "deactivate")
    /\ plans' = [p \in DOMAIN plans |->
                    IF p \in ActivePlans(handlers[h].user)
                    THEN [plans[p] EXCEPT !.state = "inactive"]
                    ELSE plans[p]]
    /\ Goto(h, "activate")
    /\ UNCHANGED <<users, txs, stripe, events, world>>

ActivationConflicts(h) ==
    /\ handlers[h].plan \in PlansOf(handlers[h].user)
    /\ ActivePlans(handlers[h].user) \ {handlers[h].plan} # {}

\* Mutant: a table without the partial unique index.
ActivateAnyway(h) ==
    /\ At(h, "activate")
    /\ plans' = [p \in DOMAIN plans |->
                    IF p = handlers[h].plan /\ p \in PlansOf(handlers[h].user)
                    THEN [plans[p] EXCEPT !.state = "active"]
                    ELSE plans[p]]
    /\ IF handlers[h].task = "cron" THEN End(h) ELSE Goto(h, "storeTariff")
    /\ UNCHANGED <<users, txs, stripe, events, world>>

Activate(h) ==
    /\ At(h, "activate")
    /\ ~ActivationConflicts(h)
    /\ plans' = [p \in DOMAIN plans |->
                    IF p = handlers[h].plan /\ p \in PlansOf(handlers[h].user)
                    THEN [plans[p] EXCEPT !.state = "active"]
                    ELSE plans[p]]
    /\ IF handlers[h].task = "cron" THEN End(h) ELSE Goto(h, "storeTariff")
    /\ UNCHANGED <<users, txs, stripe, events, world>>

\* The update violates the index: the catch block of paymentIntentSucceeded
\* writes FAILED, subscriptionCreated answers 400, and in the cron callback
\* nothing handles the rejection, which ends the process.
ActivateFails(h) ==
    /\ At(h, "activate")
    /\ ActivationConflicts(h)
    /\ CASE handlers[h].task = "intentSucceeded" ->
                /\ Continue(h, [handlers[h] EXCEPT !.at = "settle",
                                                   !.outcome = "FAILED"])
                /\ UNCHANGED events
         [] handlers[h].task = "subscriptionCreated" -> Reject(h)
         [] handlers[h].task = "cron" -> Restart
    /\ UNCHANGED <<users, plans, txs, stripe, world>>

SharedStep(h) ==
    \/ ListSubs(h) \/ DeleteSubs(h) \/ CreateSub(h)
    \/ SetStatus(h) \/ DropNext(h)
    \/ Deactivate(h) \/ Activate(h) \/ ActivateFails(h)
=============================================================================
