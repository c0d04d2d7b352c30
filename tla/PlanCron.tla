------------------------------ MODULE PlanCron ------------------------------
(***************************************************************************)
(* BillingSevice.checkUserPlan, the nightly cron: for every user that      *)
(* authnode lists as active an async callback, none of them awaited.  A    *)
(* callback renews a plan that is not there, or changes the status near    *)
(* the end of the plan.                                                    *)
(***************************************************************************)
EXTENDS SharedSteps, Integers

\* The list holds the active users, with their tariffs as they were when the
\* list was made.  A callback of the night before is over by then.
CronBegin(h, u) ==
    /\ "cron" \in budget.endpoints
    /\ users[u].status = "active"
    /\ At(h, "idle")
    /\ \A g \in Handlers : ~(handlers[g].task = "cron" /\ handlers[g].user = u)
    /\ Continue(h, [IdleHandler EXCEPT !.task = "cron", !.at = "cronUser",
                                       !.user = u, !.tariff = users[u].tariff])
    /\ UNCHANGED <<users, plans, txs, stripe, events, world>>

CronUser(h) ==
    /\ At(h, "cronUser")
    /\ Continue(h, [handlers[h] EXCEPT !.at = "cronPlan",
                                       !.me = users[handlers[h].user]])
    /\ UNCHANGED <<users, plans, txs, stripe, events, world>>

\* The time is counted in periods of thirty days, so hours is a multiple of 720
\* here; the two operators below are the code's for any number of hours.
HoursPerPeriod == 720
HoursLeft(p) == (plans[p].start + 1 - now) * HoursPerPeriod

\* The difference in days drops the fraction, towards zero on both sides.
DaysDifference(hours) ==
    IF hours >= 0 THEN hours \div 24 ELSE -((-hours) \div 24)

\* The branches in the order of the code, as the places they lead to.  The
\* last one is never reached: what it asks for, the first one takes.
AfterDays(d) ==
    IF d <= 7 /\ d < 0 THEN "cronRequire"
    ELSE IF d = 0 THEN "cronExpire"
    ELSE IF d < 0 /\ d <= -7 THEN "cronSuspend"
    ELSE "cronTariff"

AfterPlan(p) == AfterDays(DaysDifference(HoursLeft(p)))

\* Mutant: a user without an active plan is passed over.
CronPlanSkips(h) ==
    /\ At(h, "cronPlan")
    /\ \E p \in ActiveForUser(handlers[h].user, handlers[h].me.tariff) :
          IF p = None THEN End(h)
          ELSE Continue(h, [handlers[h] EXCEPT !.plan = p, !.at = AfterPlan(p)])
    /\ UNCHANGED <<users, plans, txs, stripe, events, world>>

CronPlan(h) ==
    /\ At(h, "cronPlan")
    /\ \E p \in ActiveForUser(handlers[h].user, handlers[h].me.tariff) :
          Continue(h, [handlers[h] EXCEPT
              !.plan = p,
              !.at = IF p = None THEN "cronLast" ELSE AfterPlan(p)])
    /\ UNCHANGED <<users, plans, txs, stripe, events, world>>

\* The status was chosen when the plan was read.
Chosen == [cronRequire |-> "payment_required", cronExpire |-> "expired",
           cronSuspend |-> "suspended"]

CronStatus(h) ==
    /\ handlers[h].at \in DOMAIN Chosen
    /\ users' = [users EXCEPT ![handlers[h].user].status = Chosen[handlers[h].at]]
    /\ Goto(h, "cronTariff")
    /\ UNCHANGED <<plans, txs, stripe, events, world>>

\* A user without any plan makes the callback fail on the missing row, and
\* the unhandled rejection ends the process.
CronLast(h) ==
    /\ At(h, "cronLast")
    /\ LET last == LastForUser(handlers[h].user)
       IN  IF last = None THEN Restart
           ELSE /\ Continue(h, [handlers[h] EXCEPT !.at = "cronCreate",
                                                   !.other = last])
                /\ UNCHANGED events
    /\ UNCHANGED <<users, plans, txs, stripe, world>>

\* The renewed plan starts where the last one ends, whenever that is.
CronCreate(h) ==
    /\ At(h, "cronCreate")
    /\ Len(plans) < MaxPlans
    /\ plans' = Append(plans, NewPlan(handlers[h].user, handlers[h].tariff,
                                      plans[handlers[h].other].start + 1,
                                      "inactive"))
    /\ Continue(h, [handlers[h] EXCEPT !.at = "deactivate", !.other = None,
                                       !.plan = Len(plans) + 1])
    /\ UNCHANGED <<users, txs, stripe, events, world>>

\* The listed tariff is out of date when it differs from that of the plan.
CronTariff(h) ==
    /\ At(h, "cronTariff")
    /\ LET tariff == plans[handlers[h].plan].tariff
       IN  IF handlers[h].tariff = tariff
           THEN End(h) /\ UNCHANGED users
           ELSE /\ users' = [users EXCEPT ![handlers[h].user].tariff = tariff]
                /\ IF tariff = handlers[h].me.next THEN Goto(h, "dropNext")
                                                   ELSE End(h)
    /\ UNCHANGED <<plans, txs, stripe, events, world>>

CronStep(h) ==
    \/ CronUser(h) \/ CronPlan(h) \/ CronStatus(h)
    \/ CronLast(h) \/ CronCreate(h) \/ CronTariff(h)
=============================================================================
