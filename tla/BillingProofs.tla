---------------------------- MODULE BillingProofs ----------------------------
(***************************************************************************)
(* Proofs about Billing, for any number of users and of calls in flight,   *)
(* and tables of any size.                                                 *)
(*                                                                         *)
(* The first part is about the plans: no user has two active ones.  The    *)
(* second is about what transactions and statuses say of payments and      *)
(* subscriptions: the invariant, and that the tables and the objects of    *)
(* Stripe keep to it.  The third is its other half, what every call in     *)
(* flight knows of the rows and objects that it has found or created, the  *)
(* steps put together, and the theorems about the outcome of payments and  *)
(* subscriptions.                                                          *)
(***************************************************************************)
EXTENDS Billing, TLAPS, SequenceTheorems, FiniteSetTheorems

----------------------------------------------------------------------------
\* Plans.

(* A table is a sequence of rows; their fields may hold anything.           *)
IsTable(s) == Len(s) \in Nat /\ s = [k \in 1..Len(s) |-> s[k]]

IsRow(row) ==
    row = [user |-> row.user, tariff |-> row.tariff, start |-> row.start,
           state |-> row.state]

PlanRows == IsTable(plans) /\ \A p \in DOMAIN plans : IsRow(plans[p])

PlanInv == PlanRows /\ OneActivePlan

LEMMA LengthOfTable ==
  ASSUME NEW n \in Nat, NEW s, s = [p \in 1..n |-> s[p]]
  PROVE  Len(s) = n
<1> DEFINE S == {s[p] : p \in 1..n}
<1>1. s \in [1..n -> S]
  OBVIOUS
<1>2. s \in Seq(S)
  BY <1>1, SeqDef
<1> HIDE DEF S
<1>3. Len(s) \in Nat /\ 1..n = 1..Len(s)
  BY <1>1, <1>2, LenProperties
<1>4. QED
  BY <1>3

LEMMA AppendedRow ==
  ASSUME NEW s, IsTable(s), NEW row
  PROVE  Append(s, row) = [k \in 1..(Len(s) + 1) |->
             IF k = Len(s) + 1 THEN row ELSE s[k]]
<1> DEFINE S == {s[k] : k \in 1..Len(s)} \cup {row}
<1>1. s \in [1..Len(s) -> S]
  BY DEF IsTable
<1>2. s \in Seq(S)
  BY <1>1, SeqDef DEF IsTable
<1>3. row \in S
  OBVIOUS
<1> HIDE DEF S
<1>4. /\ Append(s, row) \in Seq(S)
      /\ Len(Append(s, row)) = Len(s) + 1
      /\ \A k \in 1..Len(s) : Append(s, row)[k] = s[k]
      /\ Append(s, row)[Len(s) + 1] = row
  BY <1>2, <1>3, AppendProperties
<1>5. Append(s, row) = [k \in 1..(Len(s) + 1) |-> Append(s, row)[k]]
  BY <1>4, LenProperties
<1>6. QED
  BY <1>4, <1>5 DEF IsTable

(* A row that is not active, or the only active one of its user, may be      *)
(* added.                                                                    *)
LEMMA AppendKeeps ==
  ASSUME PlanInv, NEW row, IsRow(row), plans' = Append(plans, row),
         row.state = "active" => ActivePlans(row.user) = {}
  PROVE  PlanInv'
<1> DEFINE n == Len(plans) + 1
<1>1. /\ n \in Nat
      /\ plans' = [p \in 1..n |-> IF p = n THEN row ELSE plans[p]]
      /\ plans' = [p \in 1..n |-> plans'[p]]
      /\ DOMAIN plans = 1..(n - 1)
  BY AppendedRow DEF PlanInv, PlanRows, IsTable
<1>2. Len(plans') = n
  BY <1>1, LengthOfTable
<1> HIDE DEF n
<1>3. PlanRows'
  BY <1>1, <1>2 DEF PlanInv, PlanRows, IsTable
<1>4. ASSUME NEW u \in Users PROVE \A p, q \in ActivePlans(u)' : p = q
  <2>1. CASE row.state = "active" /\ row.user = u
    BY <1>1, <2>1 DEF ActivePlans, PlansOf
  <2>2. CASE ~(row.state = "active" /\ row.user = u)
    <3>1. ActivePlans(u)' \subseteq ActivePlans(u)
      BY <1>1, <2>2 DEF ActivePlans, PlansOf
    <3>2. QED
      BY <3>1 DEF PlanInv, OneActivePlan
  <2>3. QED
    BY <2>1, <2>2
<1>5. QED
  BY <1>3, <1>4 DEF PlanInv, OneActivePlan

(* The state of some rows may change; one that becomes active must be the    *)
(* only active one of its user.                                              *)
LEMMA UpdateKeeps ==
  ASSUME PlanInv, NEW P, NEW state,
         plans' = [p \in DOMAIN plans |->
                      IF p \in P THEN [plans[p] EXCEPT !.state = state]
                                 ELSE plans[p]],
         state = "active" =>
             \A p \in P \cap DOMAIN plans :
                 \A q \in ActivePlans(plans[p].user) \cup P : q = p
  PROVE  PlanInv'
<1> DEFINE n == Len(plans)
<1>1. /\ n \in Nat
      /\ DOMAIN plans = 1..n
      /\ plans' = [p \in 1..n |-> plans'[p]]
  BY DEF PlanInv, PlanRows, IsTable
<1>2. Len(plans') = n
  BY <1>1, LengthOfTable
<1>3. \A p \in 1..n :
         plans'[p] = [user |-> plans[p].user, tariff |-> plans[p].tariff,
                      start |-> plans[p].start,
                      state |-> IF p \in P THEN state ELSE plans[p].state]
  BY <1>1 DEF PlanInv, PlanRows, IsRow
<1>4. PlanRows'
  BY <1>1, <1>2, <1>3 DEF PlanRows, IsTable, IsRow
<1>5. ASSUME NEW u \in Users, NEW p \in ActivePlans(u)', NEW q \in ActivePlans(u)'
      PROVE  p = q
  BY <1>1, <1>3, <1>5 DEF ActivePlans, PlansOf, PlanInv, OneActivePlan
<1>6. QED
  BY <1>4, <1>5 DEF PlanInv, OneActivePlan

LEMMA OtherwiseKeeps ==
  ASSUME PlanInv, UNCHANGED plans PROVE PlanInv'
  BY DEF PlanInv, PlanRows, IsTable, OneActivePlan, ActivePlans, PlansOf

(* The steps of activatePlan are the ones that make a plan active; the second *)
(* runs under the unique index.                                              *)
LEMMA SharedStepKeeps ==
  ASSUME PlanInv, NEW h \in Handlers, SharedStep(h)
  PROVE  PlanInv'
<1>1. CASE Deactivate(h)
  <2> DEFINE P == ActivePlans(handlers[h].user)
  <2>1. plans' = [p \in DOMAIN plans |->
                     IF p \in P THEN [plans[p] EXCEPT !.state = "inactive"]
                                ELSE plans[p]]
    BY <1>1 DEF Deactivate
  <2>2. QED
    BY <2>1, UpdateKeeps
<1>2. CASE Activate(h)
  <2> DEFINE P == {p \in PlansOf(handlers[h].user) : p = handlers[h].plan}
  <2>1. plans' = [p \in DOMAIN plans |->
                     IF p \in P THEN [plans[p] EXCEPT !.state = "active"]
                                ELSE plans[p]]
    BY <1>2 DEF Activate
  <2>2. \A p \in P : \A q \in ActivePlans(plans[p].user) \cup P : q = p
    BY <1>2 DEF Activate, ActivationConflicts, PlansOf
  <2>3. QED
    BY <2>1, <2>2, UpdateKeeps
<1>3. CASE ListSubs(h) \/ DeleteSubs(h) \/ CreateSub(h) \/ SetStatus(h)
  BY <1>3, OtherwiseKeeps
     DEF ListSubs, DeleteSubs, CreateSub, SetStatus, stripe
<1>4. CASE DropNext(h) \/ ActivateFails(h)
  BY <1>4, OtherwiseKeeps
     DEF DropNext, ActivateFails, stripe
<1>5. QED
  BY <1>1, <1>2, <1>3, <1>4 DEF SharedStep

(* Of the steps of a request, initialize-user alone inserts an active plan.  *)
LEMMA RequestStepKeeps ==
  ASSUME PlanInv, NEW h \in Handlers, RequestStep(h)
  PROVE  PlanInv'
<1>1. CASE DeletePlan(h)
  <2> DEFINE P == {handlers[h].other}
  <2>1. plans' = [p \in DOMAIN plans |->
                     IF p \in P THEN [plans[p] EXCEPT !.state = "deleted"]
                                ELSE plans[p]]
    BY <1>1 DEF DeletePlan
  <2>2. QED
    BY <2>1, UpdateKeeps
<1>2. CASE CreatePlan(h)
  <2>1. PICK start : plans' = Append(plans,
            NewPlan(handlers[h].user, handlers[h].tariff, start, "inactive"))
    BY <1>2 DEF CreatePlan
  <2>2. QED
    BY <2>1, AppendKeeps DEF NewPlan, IsRow
<1>3. CASE CreateFirstPlan(h)
  <2>1. CASE ActivePlans(handlers[h].user) # {}
    BY <1>3, <2>1, OtherwiseKeeps DEF CreateFirstPlan
  <2>2. CASE ActivePlans(handlers[h].user) = {}
    BY <1>3, <2>2, AppendKeeps DEF CreateFirstPlan, NewPlan, IsRow
  <2>3. QED
    BY <2>1, <2>2
<1>4. CASE FindPlans(h) \/ FindTrialCard(h) \/ FindCurrent(h) \/ FindLast(h)
  BY <1>4, OtherwiseKeeps, ZenonT(30)
     DEF FindPlans, FindTrialCard, FindCurrent, FindLast, stripe
<1>5. CASE FindCard(h) \/ FindPlan(h) \/ AttachCard(h) \/ Supersede(h)
  BY <1>5, OtherwiseKeeps, ZenonT(30)
     DEF FindCard, FindPlan, AttachCard, Supersede, stripe
<1>6. CASE SaveTx(h) \/ SavePrePayment(h) \/ FindValidation(h) \/ FindCustomer(h)
  BY <1>6, OtherwiseKeeps
     DEF SaveTx, SavePrePayment, FindValidation, FindCustomer, stripe
<1>7. CASE CreateCustomer(h) \/ StoreCustomer(h) \/ ReuseIntent(h) \/ NoIntentFound(h)
  BY <1>7, OtherwiseKeeps, ZenonT(30)
     DEF CreateCustomer, StoreCustomer, ReuseIntent, NoIntentFound, stripe
<1>8. CASE CreateIntent(h) \/ FindIntentPlan(h) \/ SaveIntentTx(h) \/ FindNextPlan(h)
  BY <1>8, OtherwiseKeeps, ZenonT(30)
     DEF CreateIntent, FindIntentPlan, SaveIntentTx, FindNextPlan, stripe
<1>9. CASE CountPlans(h)
  BY <1>9, OtherwiseKeeps
     DEF CountPlans, stripe
<1>10. QED
  BY <1>1, <1>2, <1>3, <1>4, <1>5, <1>6, <1>7, <1>8, <1>9 DEF RequestStep

(* A webhook inserts inactive plans only.                                    *)
LEMMA WebhookStepKeeps ==
  ASSUME PlanInv, NEW h \in Handlers, WebhookStep(h)
  PROVE  PlanInv'
<1>1. CASE CreatePaidPlan(h)
  BY <1>1, AppendKeeps DEF CreatePaidPlan, NewPlan, IsRow
<1>2. CASE FindTx(h) \/ FindPayer(h) \/ SaveCard(h) \/ Refund(h)
  BY <1>2, OtherwiseKeeps, ZenonT(30)
     DEF FindTx, FindPayer, SaveCard, Refund, FindUser, stripe
<1>3. CASE SetActive(h) \/ StoreTariff(h) \/ SettleById(h) \/ CancelOthers(h)
  BY <1>3, OtherwiseKeeps
     DEF SetActive, StoreTariff, SettleById, CancelOthers, stripe
<1>4. CASE SettleRows(h) \/ FindFailedTx(h) \/ FailValidation(h) \/ FindDebtor(h)
  BY <1>4, OtherwiseKeeps, ZenonT(30)
     DEF SettleRows, FindFailedTx, FailValidation, FindDebtor, FindUser, stripe
<1>5. CASE ReplaceIntent(h) \/ FailTx(h) \/ FindSubscriber(h) \/ FindPendingTx(h)
  BY <1>5, OtherwiseKeeps, ZenonT(30)
     DEF ReplaceIntent, FailTx, FindSubscriber, FindPendingTx, FindUser, stripe
<1>6. CASE ReadPlan(h) \/ StoreNext(h) \/ LinkTx(h)
  BY <1>6, OtherwiseKeeps
     DEF ReadPlan, StoreNext, LinkTx, stripe
<1>7. CASE FindRowToFail(h)
  BY <1>7, OtherwiseKeeps, ZenonT(30) DEF FindRowToFail
<1>8. QED
  BY <1>1, <1>2, <1>3, <1>4, <1>5, <1>6, <1>7 DEF WebhookStep

(* So does the cron.                                                         *)
LEMMA CronStepKeeps ==
  ASSUME PlanInv, NEW h \in Handlers, CronStep(h)
  PROVE  PlanInv'
<1>1. CASE CronCreate(h)
  BY <1>1, AppendKeeps DEF CronCreate, NewPlan, IsRow
<1>2. CASE CronUser(h) \/ CronPlan(h) \/ CronStatus(h) \/ CronLast(h)
  BY <1>2, OtherwiseKeeps, ZenonT(30)
     DEF CronUser, CronPlan, CronStatus, CronLast, stripe
<1>3. CASE CronTariff(h)
  BY <1>3, OtherwiseKeeps
     DEF CronTariff, stripe
<1>4. QED
  BY <1>1, <1>2, <1>3 DEF CronStep

(* What an event or a request starts with, and what happens elsewhere,       *)
(* leaves the plans alone.                                                   *)
LEMMA RequestKeeps ==
  ASSUME PlanInv, NEW h \in Handlers, Request(h)
  PROVE  PlanInv'
<1>1. UNCHANGED plans
  BY ZenonT(30) DEF Request, Call, SubscribeRequest, SwitchRequest, SetTrialRequest,
         SecretRequest, ValidationRequest, CancelNextRequest,
         UnsubscribeRequest, RenovateRequest, InitializeRequest
<1>2. QED
  BY <1>1, OtherwiseKeeps

LEMMA InitialPlans == Init => PlanInv
<1> SUFFICES ASSUME Init PROVE PlanInv
  OBVIOUS
<1> DEFINE n == Cardinality(Users)
<1>1. n \in Nat
  BY UsersAssumption, FS_CardinalityType
<1>2. PICK tariff \in Tariffs, user \in [1..n -> Users] :
         /\ \A j, k \in DOMAIN user : user[j] = user[k] => j = k
         /\ Start(budget.profile, tariff, user)
  BY DEF Init
<1> DEFINE table == [k \in 1..n |-> NewPlan(user[k], tariff, 0, "active")]
<1>3. plans = <<>> \/ plans = table
  BY <1>2, ZenonT(30) DEF Start
<1>4. CASE plans = <<>>
  BY <1>4 DEF PlanInv, PlanRows, IsTable, OneActivePlan, ActivePlans, PlansOf
<1>5. CASE plans = table
  <2>1. table = [k \in 1..n |-> table[k]]
    OBVIOUS
  <2>2. Len(plans) = n
    BY <1>1, <1>5, <2>1, LengthOfTable
  <2>3. PlanRows
    BY <1>1, <1>5, <2>2 DEF PlanRows, IsTable, IsRow, NewPlan
  <2>4. OneActivePlan
    BY <1>2, <1>5 DEF OneActivePlan, ActivePlans, PlansOf, NewPlan
  <2>5. QED
    BY <2>3, <2>4 DEF PlanInv
<1>6. QED
  BY <1>3, <1>4, <1>5

(* The branches of checkUserPlan for every distance to the end of a plan: a   *)
(* whole day after the end the user has to pay, within a day of it, on either *)
(* side, the status is expired, and before that no status is written.  The    *)
(* branch that suspends the user seven days after the end is never taken.     *)
THEOREM NeverSuspended ==
  ASSUME NEW hours \in Int
  PROVE  /\ hours <= -24 => AfterDays(DaysDifference(hours)) = "cronRequire"
         /\ (-24 < hours /\ hours < 24) => AfterDays(DaysDifference(hours)) = "cronExpire"
         /\ hours >= 24 => AfterDays(DaysDifference(hours)) = "cronTariff"
<1>1. CASE hours <= -24
  <2>1. DaysDifference(hours) \in Int /\ DaysDifference(hours) < 0
    BY <1>1 DEF DaysDifference
  <2>2. QED
    BY <1>1, <2>1 DEF AfterDays
<1>2. CASE -24 < hours /\ hours < 24
  <2>1. DaysDifference(hours) = 0
    BY <1>2 DEF DaysDifference
  <2>2. QED
    BY <1>2, <2>1 DEF AfterDays
<1>3. CASE hours >= 24
  <2>1. DaysDifference(hours) \in Int /\ DaysDifference(hours) > 0
    BY <1>3 DEF DaysDifference
  <2>2. QED
    BY <1>3, <2>1 DEF AfterDays
<1>4. QED
  BY <1>1, <1>2, <1>3

\* Every step, of a call or of the world outside, keeps the plans fine.
LEMMA PlanStep ==
  ASSUME PlanInv, [Next]_vars PROVE PlanInv'
<1>1. ASSUME NEW h \in Handlers, Request(h) PROVE PlanInv'
  BY <1>1, RequestKeeps
<1>2. ASSUME NEW h \in Handlers, NEW e \in events.pending, Deliver(h, e)
      PROVE  PlanInv'
  BY <1>2, OtherwiseKeeps DEF Deliver
<1>3. ASSUME NEW h \in Handlers, NEW u \in Users, CronBegin(h, u)
      PROVE  PlanInv'
  BY <1>3, OtherwiseKeeps DEF CronBegin
<1>4. ASSUME NEW h \in Handlers, Step(h) \/ CallFails(h) PROVE PlanInv'
  BY <1>4, SharedStepKeeps, RequestStepKeeps, WebhookStepKeeps, CronStepKeeps,
     OtherwiseKeeps DEF Step, CallFails
<1>5. ASSUME NEW i \in DOMAIN intents,
             (\E card \in Cards : Pay(i, card)) \/ Decline(i) \/ CancelIntent(i)
      PROVE  PlanInv'
  BY <1>5, OtherwiseKeeps, ZenonT(30) DEF Pay, Decline, CancelIntent
<1>6. CASE \E e \in events.acked \cup InFlight : DeliverAgain(e)
  BY <1>6, OtherwiseKeeps DEF DeliverAgain
<1>7. CASE Crash \/ Tick \/ UNCHANGED vars
  BY <1>7, OtherwiseKeeps DEF Crash, Tick, vars
<1>8. QED
  BY <1>1, <1>2, <1>3, <1>4, <1>5, <1>6, <1>7 DEF Next

LEMMA PlansAlways == Spec => []PlanInv
  BY InitialPlans, PlanStep, PTL DEF Spec

(* No user has two active plans: for any users, any number of calls in       *)
(* flight, and any interleaving of activations, initialisations, crashes     *)
(* and repeated events.                                                      *)
THEOREM OneActive == Spec => []OneActivePlan
<1>1. PlanInv => OneActivePlan
  BY DEF PlanInv
<1>2. QED
  BY <1>1, PlansAlways, PTL

----------------------------------------------------------------------------
(* The invariant.  Fields that it does not speak of may hold anything, and   *)
(* so does the shape of a record: it has its fields, and nothing more.       *)

IsUser(r) == r = [status |-> r.status, tariff |-> r.tariff, next |-> r.next,
                  customer |-> r.customer]

IsTx(r) == r = [user |-> r.user, type |-> r.type, status |-> r.status,
                tariff |-> r.tariff, plan |-> r.plan, intent |-> r.intent,
                newIntent |-> r.newIntent, sub |-> r.sub]

IsIntent(r) == r = [state |-> r.state, customer |-> r.customer, card |-> r.card,
                    refunded |-> r.refunded, shown |-> r.shown, origin |-> r.origin]

IsSub(r) == r = [live |-> r.live, customer |-> r.customer]

IsHandler(r) ==
    r = [at |-> r.at, task |-> r.task, user |-> r.user, me |-> r.me,
         tariff |-> r.tariff, type |-> r.type, card |-> r.card,
         customer |-> r.customer, plan |-> r.plan, other |-> r.other,
         tx |-> r.tx, intent |-> r.intent, listed |-> r.listed,
         event |-> r.event, replaces |-> r.replaces, outcome |-> r.outcome,
         round |-> r.round]

Owns(u, c) == c \in DOMAIN customers /\ customers[c] = u

(* A user record names no customer but one made for the user.                *)
UserRows ==
    /\ users = [u \in Users |-> users[u]]
    /\ \A u \in Users :
          /\ IsUser(users[u])
          /\ users[u].customer # None => Owns(u, users[u].customer)

(* The intents of a row exist and stem from one origin, and the payload of a *)
(* row that names a subscription has forgotten its intents: of the pending   *)
(* rows that such a payload is written to, those with a plan, none has any.  *)
TxRows ==
    /\ IsTable(txs)
    /\ \A t \in DOMAIN txs :
          /\ IsTx(txs[t])
          /\ txs[t].intent # None => txs[t].intent \in DOMAIN intents
          /\ txs[t].newIntent # None =>
                /\ txs[t].intent # None /\ txs[t].newIntent \in DOMAIN intents
                /\ intents[txs[t].newIntent].origin = intents[txs[t].intent].origin
          /\ txs[t].sub # None => txs[t].intent = None /\ txs[t].newIntent = None
          /\ /\ txs[t].type \in Subscription /\ txs[t].status = "PENDING"
             /\ txs[t].plan # None
             => txs[t].intent = None

StripeRows ==
    /\ IsTable(intents) /\ IsTable(subs) /\ IsTable(customers)
    /\ \A i \in DOMAIN intents : IsIntent(intents[i]) /\ intents[i].customer # None
    /\ \A s \in DOMAIN subs : IsSub(subs[s]) /\ subs[s].customer # None

(* What Stripe reports is so, and stays so.                                  *)
Reported(e) ==
    /\ e.type \in EventType /\ e.about \in Nat
    /\ e.type \in {"payment_intent.payment_failed", "payment_intent.canceled"} =>
          e.about \in DOMAIN intents
    /\ e.type = "payment_intent.succeeded" =>
          e.about \in DOMAIN intents /\ intents[e.about].state = "paid"
    /\ e.type = "customer.subscription.created" => e.about \in DOMAIN subs

EventsReported ==
    /\ events = [pending |-> events.pending, acked |-> events.acked]
    /\ \A e \in events.pending \cup events.acked : Reported(e)

(* A subscription that was created is put down at the end of these places.   *)
LinksLater == {"deactivate", "activate", "storeTariff", "setActive", "storeNext",
               "linkTx"}

(* The places of a call tell what it serves.                                 *)
PlaceFits(r) ==
    /\ r.at \in LinksLater /\ r.task = "subscriptionCreated" => r.plan # None
    /\ r.at \in {"findPlans", "findTrialCard", "findCurrent", "findLast", "findCard",
                 "findPlan", "createPlan", "attachCard", "supersede", "saveTx",
                 "savePrePayment"} => r.task = "subscribe"
    /\ r.at \in {"findValidation", "findCustomer"} => r.task = "getSecret"
    /\ r.at \in {"createCustomer", "storeCustomer"} => r.task \in {"getSecret", "initialize"}
    /\ r.at \in {"findIntent", "createIntent", "findIntentPlan", "saveIntentTx"} =>
          r.task \in {"subscribe", "getSecret"}
    /\ r.at = "deletePlan" => r.task \in {"subscribe", "cancelNext"}
    /\ r.at = "findNextPlan" => r.task = "cancelNext"
    /\ r.at = "countPlans" => r.task = "initialize"
    /\ r.at \in {"findTx", "findPayer", "saveCard", "refund", "createPaidPlan"} =>
          r.task = "intentSucceeded"
    /\ r.at \in {"findFailedTx", "failValidation", "failValidationRow", "findDebtor",
                 "replaceIntent", "failTx", "failTxRow"} => r.task = "intentFailed"
    /\ r.at \in {"findSubscriber", "findPendingTx", "readPlan", "storeNext",
                 "linkTx"} => r.task = "subscriptionCreated"
    /\ r.at \in {"setActive", "storeTariff", "settle", "settleRows"} =>
          r.task \in {"intentSucceeded", "subscriptionCreated"}
    /\ r.at \in {"deactivate", "activate"} =>
          r.task \in {"intentSucceeded", "subscriptionCreated", "cron"}
    /\ r.at \in {"cronUser", "cronPlan", "cronRequire", "cronExpire", "cronSuspend",
                 "cronLast", "cronCreate", "cronTariff"} => r.task = "cron"

(* A webhook has its event, and a created subscription settles as SUCCESS.   *)
EventFits(r) ==
    /\ r.outcome # "PENDING"
    /\ r.event # None => Reported(r.event)
    /\ r.task = "intentSucceeded" =>
          Reported(r.event) /\ r.event.type = "payment_intent.succeeded"
    /\ r.task = "intentFailed" =>
          /\ Reported(r.event)
          /\ r.event.type \in {"payment_intent.payment_failed", "payment_intent.canceled"}
    /\ r.task = "subscriptionCreated" =>
          /\ Reported(r.event) /\ r.event.type = "customer.subscription.created"
          /\ r.outcome = "SUCCESS"

(* What a call knows at a place: the intent and the customer that it holds   *)
(* exist, and who they are of.                                               *)
AtFits(r) ==
    /\ r.at \in {"findIntentPlan", "saveIntentTx", "savePrePayment", "failTx",
                 "failTxRow"} => r.intent \in DOMAIN intents
    /\ r.at \in {"failTx", "failTxRow"} =>
          intents[r.intent].origin = intents[r.event.about].origin
    /\ r.at \in {"failTxRow", "failValidationRow"} =>
          /\ r.tx \in DOMAIN txs /\ txs[r.tx].intent # None
          /\ intents[txs[r.tx].intent].origin = intents[r.event.about].origin
    /\ r.at = "storeCustomer" => Owns(r.user, r.customer)
    /\ r.at = "createIntent" =>
          IF r.task = "subscribe" THEN r.me.customer # None ELSE r.customer # None
    /\ r.at = "replaceIntent" => r.me.customer # None
    /\ r.at = "setStatus" /\ r.task = "renovate" /\ r.user \in Users =>
          \E s \in DOMAIN subs : Owns(r.user, subs[s].customer)

(* What a call knows from its beginning on: a row that was found by its      *)
(* replacement intent stems from the intent that was paid, and the customers *)
(* that it deals with were made for its user.                                *)
CallFits(r) ==
    /\ r.replaces =>
          /\ r.task = "intentSucceeded" /\ r.tx \in DOMAIN txs
          /\ txs[r.tx].intent # None =>
                intents[txs[r.tx].intent].origin = intents[r.event.about].origin
    /\ r.task # "cron" /\ r.user \in Users /\ r.me.customer # None =>
          Owns(r.user, r.me.customer)
    /\ r.task = "intentSucceeded" /\ r.user \in Users =>
          Owns(r.user, intents[r.event.about].customer)
    /\ r.task = "subscriptionCreated" /\ r.user \in Users =>
          Owns(r.user, subs[r.event.about].customer)
    /\ r.task = "subscriptionCreated" /\ r.plan # None =>
          r.tx \in DOMAIN txs /\ txs[r.tx].intent = None

Fits(r) == PlaceFits(r) /\ EventFits(r) /\ AtFits(r) /\ CallFits(r)

HandlersFit ==
    /\ handlers = [h \in Handlers |-> handlers[h]]
    /\ \A h \in Handlers : IsHandler(handlers[h]) /\ Fits(handlers[h])

(* NoFreeActivation, for customers that exist.                               *)
ActiveEarned ==
    \A u \in Users : users[u].status = "active" =>
        \/ \E i \in DOMAIN intents : /\ intents[i].state = "paid"
                                     /\ Owns(u, intents[i].customer)
        \/ \E s \in DOMAIN subs : Owns(u, subs[s].customer)

RowsInv == UserRows /\ TxRows /\ StripeRows

OutcomeInv ==
    RowsInv /\ EventsReported /\ HandlersFit /\ ActiveEarned /\ PaidBeforeSuccess

(* A table with one more row.                                                *)
Grown(s, row, table) ==
    /\ IsTable(table)
    /\ DOMAIN s = 1..Len(s)
    /\ DOMAIN table = 1..(Len(s) + 1)
    /\ \A k \in DOMAIN s : k \in DOMAIN table /\ table[k] = s[k]
    /\ Len(s) + 1 \in DOMAIN table /\ table[Len(s) + 1] = row

\* An appended row comes after the ones that were there.
LEMMA AppendedTable ==
  ASSUME NEW s, IsTable(s), NEW row, NEW table, table = Append(s, row)
  PROVE  Grown(s, row, table)
<1> DEFINE n == Len(s) + 1
<1>1. /\ n \in Nat
      /\ table = [k \in 1..n |-> IF k = n THEN row ELSE s[k]]
      /\ DOMAIN s = 1..Len(s)
  BY AppendedRow DEF IsTable
<1>2. table = [k \in 1..n |-> table[k]]
  BY <1>1
<1>3. Len(table) = n
  BY <1>1, <1>2, LengthOfTable
<1>4. QED
  BY <1>1, <1>2, <1>3 DEF IsTable, Grown

\* Rewriting rows makes a table of the same size.
LEMMA RewrittenTable ==
  ASSUME NEW s, IsTable(s), NEW table, table = [k \in DOMAIN s |-> table[k]]
  PROVE  IsTable(table) /\ DOMAIN table = DOMAIN s
<1>1. DOMAIN s = 1..Len(s) /\ Len(s) \in Nat
  BY DEF IsTable
<1>2. table = [k \in 1..Len(s) |-> table[k]]
  BY <1>1
<1>3. Len(table) = Len(s)
  BY <1>1, <1>2, LengthOfTable
<1>4. QED
  BY <1>1, <1>2, <1>3 DEF IsTable

(* What stays, whatever happens: rows and Stripe objects keep their numbers, *)
(* their customers, and the origin of their payment; what is paid stays so.  *)
Kept ==
    /\ \A t \in DOMAIN txs :
          t \in DOMAIN txs' /\ txs'[t].intent = txs[t].intent
    /\ \A i \in DOMAIN intents :
          /\ i \in DOMAIN intents'
          /\ intents'[i].customer = intents[i].customer
          /\ intents'[i].origin = intents[i].origin
          /\ intents[i].state = "paid" => intents'[i].state = "paid"
    /\ \A s \in DOMAIN subs : s \in DOMAIN subs' /\ subs'[s].customer = subs[s].customer
    /\ \A c \in DOMAIN customers : c \in DOMAIN customers' /\ customers'[c] = customers[c]

\* A customer stays with its user.
LEMMA OwnsKept == ASSUME Kept, NEW u, NEW c, Owns(u, c) PROVE Owns(u, c)'
  BY DEF Kept, Owns

\* What has been reported stays so.
LEMMA ReportedKept == ASSUME Kept, NEW e, Reported(e) PROVE Reported(e)'
  BY DEF Kept, Reported

\* The event of a call stays true.
LEMMA EventFitsKept ==
  ASSUME Kept, NEW r, EventFits(r) PROVE EventFits(r)'
  BY ReportedKept DEF EventFits

\* What a call knows at its place stays true.
LEMMA AtFitsKept ==
  ASSUME Kept, NEW r, TxRows, PlaceFits(r), EventFits(r), AtFits(r)
  PROVE  AtFits(r)'
<1>1. r.at \in {"findIntentPlan", "saveIntentTx", "savePrePayment", "failTx",
                "failTxRow"} => r.intent \in DOMAIN intents'
  BY DEF Kept, AtFits
<1>2. r.at \in {"failTx", "failTxRow"} =>
         intents'[r.intent].origin = intents'[r.event.about].origin
  BY DEF Kept, AtFits, PlaceFits, EventFits, Reported
<1>3. r.at = "storeCustomer" => Owns(r.user, r.customer)'
  BY OwnsKept DEF AtFits
<1>4. r.at = "setStatus" /\ r.task = "renovate" /\ r.user \in Users =>
         \E s \in DOMAIN subs' : Owns(r.user, subs[s].customer)'
  BY DEF Kept, AtFits, Owns
<1>5. r.at \in {"failTxRow", "failValidationRow"} =>
         /\ r.tx \in DOMAIN txs' /\ txs'[r.tx].intent # None
         /\ intents'[txs'[r.tx].intent].origin = intents'[r.event.about].origin
  BY DEF Kept, AtFits, PlaceFits, EventFits, Reported, TxRows
<1>6. QED
  BY <1>1, <1>2, <1>3, <1>4, <1>5 DEF AtFits

\* What a call knows from its beginning on stays true.
LEMMA CallFitsKept ==
  ASSUME Kept, NEW r, TxRows, EventFits(r), CallFits(r)
  PROVE  CallFits(r)'
<1>1. r.replaces =>
         /\ r.tx \in DOMAIN txs'
         /\ txs'[r.tx].intent # None =>
               intents'[txs'[r.tx].intent].origin = intents'[r.event.about].origin
  BY DEF Kept, CallFits, EventFits, Reported, TxRows
<1>2. r.task # "cron" /\ r.user \in Users /\ r.me.customer # None =>
         Owns(r.user, r.me.customer)'
  BY OwnsKept DEF CallFits
<1>3. r.task = "intentSucceeded" /\ r.user \in Users =>
         Owns(r.user, intents[r.event.about].customer)'
  BY DEF Kept, CallFits, EventFits, Reported, Owns
<1>4. r.task = "subscriptionCreated" /\ r.user \in Users =>
         Owns(r.user, subs[r.event.about].customer)'
  BY DEF Kept, CallFits, EventFits, Reported, Owns
<1>5. r.task = "subscriptionCreated" /\ r.plan # None =>
         r.tx \in DOMAIN txs' /\ txs'[r.tx].intent = None
  BY DEF Kept, CallFits
<1>6. QED
  BY <1>1, <1>2, <1>3, <1>4, <1>5 DEF CallFits

(* A call that is left alone knows what it knew.                             *)
LEMMA FitsKept ==
  ASSUME Kept, TxRows, NEW r, Fits(r) PROVE Fits(r)'
  BY EventFitsKept, AtFitsKept, CallFitsKept DEF Fits, PlaceFits

----------------------------------------------------------------------------
(* The rows.                                                                 *)

tables == <<txs, intents, subs, customers>>

\* Tables that nobody writes stay fine.
LEMMA TablesStay ==
  ASSUME TxRows, StripeRows, UNCHANGED tables
  PROVE  Kept /\ TxRows' /\ StripeRows'
  BY DEF tables, Kept, TxRows, StripeRows, IsTable, IsTx, IsIntent, IsSub

\* So do the records of the users.
LEMMA UsersStay ==
  ASSUME UserRows, Kept, UNCHANGED users PROVE UserRows'
  BY OwnsKept DEF UserRows, IsUser

\* Who has earned a status keeps what it was earned with.
LEMMA EarnedStays ==
  ASSUME ActiveEarned, Kept,
         \A u \in Users : users'[u].status = "active" => users[u].status = "active"
  PROVE  ActiveEarned'
<1> SUFFICES ASSUME NEW u \in Users, users'[u].status = "active"
             PROVE  \/ \E i \in DOMAIN intents' : /\ intents'[i].state = "paid"
                                                  /\ Owns(u, intents[i].customer)'
                    \/ \E s \in DOMAIN subs' : Owns(u, subs[s].customer)'
  BY DEF ActiveEarned
<1>1. CASE \E i \in DOMAIN intents : /\ intents[i].state = "paid"
                                     /\ Owns(u, intents[i].customer)
  BY <1>1 DEF Kept, Owns
<1>2. CASE \E s \in DOMAIN subs : Owns(u, subs[s].customer)
  BY <1>2 DEF Kept, Owns
<1>3. QED
  BY <1>1, <1>2 DEF ActiveEarned

UserStep(h) ==
    \/ SetStatus(h) \/ DropNext(h) \/ StoreCustomer(h) \/ SetActive(h)
    \/ StoreTariff(h) \/ StoreNext(h) \/ CronStatus(h) \/ CronTariff(h)

\* A step that writes a user record names no customer but one of the user.
LEMMA UserStepRows ==
  ASSUME UserRows, TxRows, StripeRows, HandlersFit, NEW h \in Handlers, UserStep(h)
  PROVE  Kept /\ TxRows' /\ StripeRows' /\ UserRows'
<1>1. UNCHANGED tables
  BY DEF UserStep, SetStatus, DropNext, StoreCustomer, SetActive, StoreTariff,
         StoreNext, CronStatus, CronTariff, tables, stripe
<1>2. Kept /\ TxRows' /\ StripeRows'
  BY <1>1, TablesStay
<1>3. CASE StoreCustomer(h)
  <2> DEFINE me == handlers[h]
  <2>1. users' = [users EXCEPT ![me.user].customer = me.customer]
    BY <1>3 DEF StoreCustomer
  <2>2. Owns(me.user, me.customer)
    BY <1>3 DEF StoreCustomer, At, HandlersFit, Fits, AtFits
  <2>3. ASSUME NEW u \in Users
        PROVE  /\ IsUser(users'[u])
               /\ users'[u].customer # None => Owns(u, users'[u].customer)
    BY <2>1, <2>2 DEF UserRows, IsUser
  <2>4. users' = [u \in Users |-> users'[u]]
    BY <2>1 DEF UserRows
  <2>5. ASSUME NEW u \in Users, users'[u].customer # None
        PROVE  Owns(u, users[u].customer)'
    BY <1>2, <2>3, <2>5 DEF Kept, Owns
  <2>6. QED
    BY <1>2, <2>3, <2>4, <2>5 DEF UserRows
<1>4. CASE ~StoreCustomer(h)
  <2>1. PICK u, v :
           \/ users' = [users EXCEPT ![u].status = v]
           \/ users' = [users EXCEPT ![u].tariff = v]
           \/ users' = [users EXCEPT ![u].next = v]
           \/ users' = users
    BY <1>4 DEF UserStep, SetStatus, DropNext, SetActive, StoreTariff, StoreNext,
               CronStatus, CronTariff
  <2>2. /\ users' = [w \in Users |-> users'[w]]
        /\ \A w \in Users : IsUser(users'[w]) /\ users'[w].customer = users[w].customer
    BY <2>1 DEF UserRows, IsUser
  <2>3. QED
    BY <1>2, <2>2, OwnsKept DEF UserRows
<1>5. QED
  BY <1>2, <1>3, <1>4

\* Of these, two write the status active, and both follow a payment or a
\* subscription.
LEMMA UserStepEarned ==
  ASSUME UserRows, TxRows, StripeRows, HandlersFit, ActiveEarned, Kept,
         NEW h \in Handlers, UserStep(h)
  PROVE  ActiveEarned'
<1> DEFINE me == handlers[h]
<1>0. UNCHANGED tables
  BY DEF UserStep, SetStatus, DropNext, StoreCustomer, SetActive, StoreTariff,
         StoreNext, CronStatus, CronTariff, tables, stripe
<1>1. CASE SetActive(h) \/ (SetStatus(h) /\ me.task = "renovate")
  <2>1. users' = [users EXCEPT ![me.user].status = "active"]
    BY <1>1 DEF SetActive, SetStatus
  <2>2. me.user \in Users =>
          \/ \E i \in DOMAIN intents : /\ intents[i].state = "paid"
                                       /\ Owns(me.user, intents[i].customer)
          \/ \E s \in DOMAIN subs : Owns(me.user, subs[s].customer)
    BY <1>1 DEF SetActive, SetStatus, At, HandlersFit, Fits, PlaceFits, EventFits,
               AtFits, CallFits, Reported
  <2>3. ASSUME NEW u \in Users, users'[u].status = "active"
        PROVE  \/ \E i \in DOMAIN intents : /\ intents[i].state = "paid"
                                            /\ Owns(u, intents[i].customer)
               \/ \E s \in DOMAIN subs : Owns(u, subs[s].customer)
    BY <2>1, <2>2, <2>3 DEF UserRows, IsUser, ActiveEarned
  <2>4. QED
    BY <1>0, <2>3 DEF ActiveEarned, tables, Owns
<1>2. CASE CronStatus(h)
  <2>1. PICK chosen : chosen = Chosen[me.at]
    OBVIOUS
  <2>2. users' = [users EXCEPT ![me.user].status = chosen]
    BY <1>2, <2>1 DEF CronStatus
  <2>3. chosen # "active"
    BY <1>2, <2>1 DEF CronStatus, Chosen
  <2>4. QED
    BY <2>2, <2>3, EarnedStays DEF UserRows, IsUser
<1>3. CASE SetStatus(h) /\ me.task # "renovate"
  <2>1. users' = [users EXCEPT ![me.user].status = "unsubscribed"]
    BY <1>3 DEF SetStatus
  <2>2. QED
    BY <2>1, EarnedStays DEF UserRows, IsUser
<1>4. CASE DropNext(h) \/ StoreCustomer(h) \/ StoreTariff(h) \/ StoreNext(h) \/ CronTariff(h)
  <2>1. PICK u, v :
           \/ users' = [users EXCEPT ![u].customer = v]
           \/ users' = [users EXCEPT ![u].tariff = v]
           \/ users' = [users EXCEPT ![u].next = v]
           \/ users' = users
    BY <1>4 DEF DropNext, StoreCustomer, StoreTariff, StoreNext, CronTariff
  <2>2. ASSUME NEW w \in Users PROVE users'[w].status = users[w].status
    BY <2>1 DEF UserRows, IsUser
  <2>3. QED
    BY <2>2, EarnedStays
<1>5. QED
  BY <1>1, <1>2, <1>3, <1>4 DEF UserStep

(* The intents may be shown or refunded while transactions are written.      *)
SameIntents ==
    /\ IsTable(intents') /\ DOMAIN intents' = DOMAIN intents
    /\ \A i \in DOMAIN intents :
          /\ IsIntent(intents'[i])
          /\ intents'[i].customer = intents[i].customer
          /\ intents'[i].origin = intents[i].origin
          /\ intents'[i].state = intents[i].state
    /\ UNCHANGED <<subs, customers>>

\* What a transaction that names its subscription says is final.
OutcomesStay ==
    \A t \in DOMAIN txs : txs[t].status = "SUCCESS" /\ txs[t].sub # None =>
        txs'[t].status = "SUCCESS" /\ txs'[t].sub # None

TxsFine ==
    Kept /\ TxRows' /\ StripeRows' /\ PaidBeforeSuccess' /\ OutcomesStay

\* Intents that nobody writes.
LEMMA IntentsStay ==
  ASSUME StripeRows, UNCHANGED <<intents, subs, customers>> PROVE SameIntents
  BY DEF SameIntents, StripeRows

\* The client is shown the secret of an intent.
LEMMA IntentShown ==
  ASSUME StripeRows, NEW i, intents' = [intents EXCEPT ![i].shown = TRUE],
         UNCHANGED <<subs, customers>>
  PROVE  SameIntents
<1>1. intents' = [k \in DOMAIN intents |-> intents'[k]]
  BY DEF StripeRows, IsTable
<1>2. IsTable(intents') /\ DOMAIN intents' = DOMAIN intents
  BY <1>1, RewrittenTable DEF StripeRows
<1>3. ASSUME NEW k \in DOMAIN intents
      PROVE  /\ IsIntent(intents'[k])
             /\ intents'[k].customer = intents[k].customer
             /\ intents'[k].origin = intents[k].origin
             /\ intents'[k].state = intents[k].state
  <2>1. IsIntent(intents[k])
    BY DEF StripeRows
  <2>2. CASE k # i
    BY <2>1, <2>2
  <2>3. CASE k = i
    <3>1. intents'[k] = [intents[k] EXCEPT !.shown = TRUE]
      BY <2>3
    <3>2. QED
      BY <2>1, <3>1 DEF IsIntent
  <2>4. QED
    BY <2>2, <2>3
<1>4. QED
  BY <1>2, <1>3 DEF SameIntents

\* The objects of Stripe keep their shape.
LEMMA StripeStays == ASSUME StripeRows, SameIntents PROVE StripeRows'
  BY DEF StripeRows, SameIntents, IsSub, IsTable

(* A row is added as pending.                                                *)
LEMMA TxAdded ==
  ASSUME TxRows, StripeRows, SameIntents, PaidBeforeSuccess,
         NEW u, NEW type, NEW tariff, NEW plan, NEW intent,
         intent # None => intent \in DOMAIN intents,
         intent # None /\ type \in Subscription => plan = None,
         txs' = Append(txs, NewTx(u, type, tariff, plan, intent))
  PROVE  TxsFine
<1> DEFINE row == NewTx(u, type, tariff, plan, intent)
<1>0. PICK n : n = Len(txs) + 1
  OBVIOUS
<1>1. /\ IsTable(txs') /\ DOMAIN txs = 1..Len(txs) /\ DOMAIN txs' = 1..n
      /\ \A t \in DOMAIN txs : t \in DOMAIN txs' /\ txs'[t] = txs[t]
      /\ txs'[n] = row
  <2>1. IsTable(txs) /\ txs' = Append(txs, row)
    BY DEF TxRows
  <2> HIDE DEF row
  <2>2. Grown(txs, row, txs')
    BY <2>1, AppendedTable
  <2>3. QED
    BY <1>0, <2>2 DEF Grown
<1>2. /\ row.intent = intent /\ row.newIntent = None /\ row.sub = None
      /\ row.type = type /\ row.plan = plan /\ row.status = "PENDING" /\ IsTx(row)
  BY DEF NewTx, IsTx
<1> HIDE DEF row
<1>3. \A t \in DOMAIN txs' : t \in DOMAIN txs \/ (t = n /\ txs'[t] = row)
  BY <1>0, <1>1 DEF TxRows, IsTable
<1>4. Kept
  BY <1>1 DEF Kept, SameIntents
<1>5. \A t \in DOMAIN txs' : IsTx(txs'[t])
  BY <1>1, <1>2, <1>3 DEF TxRows, IsTx
<1>6. TxRows'
  BY <1>1, <1>2, <1>3, <1>5 DEF TxRows, SameIntents
<1>7. PaidBeforeSuccess'
  BY <1>1, <1>2, <1>3 DEF PaidBeforeSuccess, SameIntents, TxRows
<1>8. QED
  BY <1>1, <1>4, <1>6, <1>7, StripeStays DEF TxsFine, OutcomesStay

(* Rows are rewritten: what becomes of each must be fine.                    *)
TxStays(t) ==
    /\ IsTx(txs'[t])
    /\ txs'[t].intent = txs[t].intent /\ txs'[t].newIntent = txs[t].newIntent
    /\ txs'[t].sub = txs[t].sub /\ txs'[t].type = txs[t].type
    /\ txs'[t].status = "PENDING" =>
          txs[t].status = "PENDING" /\ txs'[t].plan = txs[t].plan

\* A row may get SUCCESS when it was paid, and keeps it when it is linked.
LEMMA TxsRewritten ==
  ASSUME TxRows, StripeRows, SameIntents, PaidBeforeSuccess,
         txs' = [t \in DOMAIN txs |-> txs'[t]],
         \A t \in DOMAIN txs : TxStays(t),
         \A t \in DOMAIN txs : txs'[t].status = "SUCCESS" /\ txs[t].intent # None =>
            \/ txs[t].status = "SUCCESS"
            \/ \E i \in DOMAIN intents :
                  /\ intents[i].state = "paid"
                  /\ intents[i].origin = intents[txs[t].intent].origin,
         \A t \in DOMAIN txs : txs[t].status = "SUCCESS" /\ txs[t].sub # None =>
            txs'[t].status = "SUCCESS"
  PROVE  TxsFine
<1>1. IsTable(txs') /\ DOMAIN txs' = DOMAIN txs
  BY RewrittenTable DEF TxRows
<1>2. Kept
  BY <1>1 DEF Kept, SameIntents, TxStays
<1>3. TxRows'
  BY <1>1 DEF TxRows, SameIntents, TxStays
<1>4. PaidBeforeSuccess'
  <2> SUFFICES ASSUME NEW t \in DOMAIN txs, txs'[t].status = "SUCCESS",
                      txs[t].intent # None
               PROVE  \E i \in DOMAIN intents :
                         /\ intents'[i].state = "paid"
                         /\ intents'[i].origin = intents'[txs[t].intent].origin
    BY <1>1 DEF PaidBeforeSuccess, TxStays, SameIntents
  <2>1. \E i \in DOMAIN intents :
           /\ intents[i].state = "paid"
           /\ intents[i].origin = intents[txs[t].intent].origin
    BY DEF PaidBeforeSuccess
  <2>2. txs[t].intent \in DOMAIN intents
    BY DEF TxRows
  <2>3. QED
    BY <2>1, <2>2 DEF SameIntents
<1>5. QED
  BY <1>1, <1>2, <1>3, <1>4, StripeStays DEF TxsFine, OutcomesStay, TxStays

----------------------------------------------------------------------------
(* What becomes of the transactions, step by step.                           *)

\* Rows that nobody writes stay fine while the objects of Stripe change.
LEMMA TxsRead ==
  ASSUME TxRows, PaidBeforeSuccess, Kept, UNCHANGED txs
  PROVE  TxRows' /\ PaidBeforeSuccess' /\ OutcomesStay
<1>1. TxRows'
  BY DEF TxRows, Kept, IsTable, IsTx
<1>2. PaidBeforeSuccess'
  <2> SUFFICES ASSUME NEW t \in DOMAIN txs, txs[t].status = "SUCCESS",
                      txs[t].intent # None
               PROVE  \E i \in DOMAIN intents' :
                         /\ intents'[i].state = "paid"
                         /\ intents'[i].origin = intents'[txs[t].intent].origin
    BY DEF PaidBeforeSuccess
  <2>1. PICK i \in DOMAIN intents : /\ intents[i].state = "paid"
                                    /\ intents[i].origin = intents[txs[t].intent].origin
    BY DEF PaidBeforeSuccess
  <2>2. txs[t].intent \in DOMAIN intents
    BY DEF TxRows
  <2>3. QED
    BY <2>1, <2>2 DEF Kept
<1>3. QED
  BY <1>1, <1>2 DEF OutcomesStay

\* Nothing changes.
LEMMA TxsSame ==
  ASSUME TxRows, StripeRows, PaidBeforeSuccess, UNCHANGED tables
  PROVE  TxsFine
  BY TablesStay, TxsRead DEF TxsFine, tables

\* A status other than SUCCESS is for rows that are not linked or not settled.
LEMMA TxsSwept ==
  ASSUME TxRows, StripeRows, SameIntents, PaidBeforeSuccess,
         NEW T, NEW status \in {"CANCELED", "FAILED"}, txs' = TxsWithStatus(T, status),
         \A t \in T \cap DOMAIN txs : txs[t].status = "SUCCESS" => txs[t].sub = None
  PROVE  TxsFine
<1>1. txs' = [t \in DOMAIN txs |-> txs'[t]]
  BY DEF TxsWithStatus
<1>2. ASSUME NEW t \in DOMAIN txs
      PROVE  /\ TxStays(t)
             /\ txs'[t].status = IF t \in T THEN status ELSE txs[t].status
  BY DEF TxsWithStatus, TxRows, IsTx, TxStays
<1>3. ASSUME NEW t \in DOMAIN txs, txs'[t].status = "SUCCESS", txs[t].intent # None
      PROVE  txs[t].status = "SUCCESS"
  BY <1>2, <1>3
<1>4. ASSUME NEW t \in DOMAIN txs, txs[t].status = "SUCCESS", txs[t].sub # None
      PROVE  txs'[t].status = "SUCCESS"
  BY <1>2, <1>4
<1>5. QED
  BY <1>1, <1>2, <1>3, <1>4, TxsRewritten

\* The two sweeps reach pending rows only.
LEMMA SupersedeFine ==
  ASSUME TxRows, StripeRows, PaidBeforeSuccess, NEW h \in Handlers,
         Supersede(h) \/ CancelOthers(h)
  PROVE  TxsFine
<1>1. SameIntents
  BY IntentsStay DEF Supersede, CancelOthers, stripe
<1>2. PICK T : /\ txs' = TxsWithStatus(T, "CANCELED")
               /\ \A t \in T : txs[t].status = "PENDING"
  <2>1. CASE Supersede(h)
    <3> WITNESS PendingTxs(handlers[h].user, {"SUBSCRIPTION"})
    <3> QED
      BY <2>1 DEF Supersede, PendingTxs
  <2>2. CASE CancelOthers(h)
    <3> WITNESS PendingTxs(handlers[h].user, TxType \ {"CARD_VALIDATION"})
    <3> QED
      BY <2>2 DEF CancelOthers, PendingTxs
  <2>3. QED
    BY <2>1, <2>2
<1>3. QED
  BY <1>1, <1>2, TxsSwept

\* A row found by an intent is not linked, and has the origin of the intent.
LEMMA TxOfIntent ==
  ASSUME TxRows, NEW i \in Nat, NEW t \in TxsByIntent(i)
  PROVE  /\ t \in DOMAIN txs /\ txs[t].sub = None
         /\ txs[t].intent # None
         /\ i \in DOMAIN intents
         /\ intents[txs[t].intent].origin = intents[i].origin
<1>1. i # None
  BY NoneAssumption
<1>2. QED
  BY <1>1 DEF TxsByIntent, TxRows

\* The rows that requests add.
LEMMA SaveFine ==
  ASSUME RowsInv, HandlersFit, PaidBeforeSuccess, NEW h \in Handlers,
         SaveTx(h) \/ SavePrePayment(h) \/ SaveIntentTx(h)
  PROVE  TxsFine
<1> USE DEF RowsInv
<1>1. SameIntents
  <2>1. CASE UNCHANGED <<intents, subs, customers>>
    BY <2>1, IntentsStay
  <2>2. CASE SaveIntentTx(h) /\ handlers[h].task = "getSecret"
    BY <2>2, IntentShown DEF SaveIntentTx, Show
  <2>3. QED
    BY <2>1, <2>2 DEF SaveTx, SavePrePayment, SaveIntentTx, stripe
<1>2. At(h, "savePrePayment") \/ At(h, "saveIntentTx") =>
         handlers[h].intent \in DOMAIN intents
  BY DEF HandlersFit, Fits, AtFits, At
<1>3. PICK u, type, tariff, plan, intent :
         /\ txs' = Append(txs, NewTx(u, type, tariff, plan, intent))
         /\ intent # None => intent \in DOMAIN intents
         /\ intent # None /\ type \in Subscription => plan = None
  BY <1>2 DEF SaveTx, SavePrePayment, SaveIntentTx, Subscription
<1>4. QED
  BY <1>1, <1>3, TxAdded

(* A webhook's place tells its event.                                        *)
LEMMA WebhookKnows ==
  ASSUME HandlersFit, NEW h \in Handlers
  PROVE  /\ handlers[h].task = "intentSucceeded" =>
              /\ About(h) \in Nat /\ About(h) \in DOMAIN intents
              /\ intents[About(h)].state = "paid"
         /\ handlers[h].task = "intentFailed" =>
              About(h) \in Nat /\ About(h) \in DOMAIN intents
         /\ handlers[h].task = "subscriptionCreated" =>
              /\ About(h) \in Nat /\ About(h) \in DOMAIN subs
              /\ handlers[h].outcome = "SUCCESS"
         /\ handlers[h].outcome # "PENDING"
         /\ handlers[h].replaces =>
              /\ handlers[h].tx \in DOMAIN txs
              /\ handlers[h].task = "intentSucceeded"
              /\ txs[handlers[h].tx].intent # None =>
                    intents[txs[handlers[h].tx].intent].origin = intents[About(h)].origin
  BY DEF HandlersFit, Fits, EventFits, CallFits, Reported, About

\* A row found by its replacement intent was paid by that intent.
LEMMA SettleByIdFine ==
  ASSUME RowsInv, HandlersFit, PaidBeforeSuccess, NEW h \in Handlers, SettleById(h)
  PROVE  TxsFine
<1> USE DEF RowsInv
<1> DEFINE tx == handlers[h].tx
<1>1. txs' = TxsWithStatus({tx}, "SUCCESS") /\ handlers[h].replaces
  BY DEF SettleById, UpdatesByIdOnly
<1>2. SameIntents
  BY IntentsStay DEF SettleById, stripe
<1>3. ASSUME NEW t \in DOMAIN txs
      PROVE  /\ TxStays(t)
             /\ txs'[t].status = IF t = tx THEN "SUCCESS" ELSE txs[t].status
  BY <1>1 DEF TxsWithStatus, TxRows, IsTx, TxStays
<1>4. ASSUME NEW t \in DOMAIN txs, txs'[t].status = "SUCCESS", txs[t].intent # None,
             txs[t].status # "SUCCESS"
      PROVE  \E i \in DOMAIN intents :
                /\ intents[i].state = "paid"
                /\ intents[i].origin = intents[txs[t].intent].origin
  <2>1. t = tx
    BY <1>3, <1>4
  <2>2. QED
    BY <1>1, <1>4, <2>1, WebhookKnows
<1>5. txs' = [t \in DOMAIN txs |-> txs'[t]]
  BY <1>1 DEF TxsWithStatus
<1>6. \A t \in DOMAIN txs : txs[t].status = "SUCCESS" => txs'[t].status = "SUCCESS"
  BY <1>3
<1>7. QED
  BY <1>2, <1>3, <1>4, <1>5, <1>6, TxsRewritten

\* The rows of the event: paid by its intent, or linked to its subscription.
LEMMA SettleRowsFine ==
  ASSUME RowsInv, HandlersFit, PaidBeforeSuccess, NEW h \in Handlers, SettleRows(h)
  PROVE  TxsFine
<1> USE DEF RowsInv
<1> DEFINE outcome == handlers[h].outcome
           T == RowsToSettle(h)
<1>1. SameIntents
  BY IntentsStay, ZenonT(30) DEF SettleRows, stripe
<1>2. txs' = [t \in DOMAIN txs |-> txs'[t]]
  BY ZenonT(30) DEF SettleRows
<1>3. ASSUME NEW t \in DOMAIN txs
      PROVE  /\ TxStays(t)
             /\ txs'[t].status = IF t \in T THEN outcome ELSE txs[t].status
  <2>1. IsTx(txs[t])
    BY DEF TxRows
  <2>2. CASE t \notin T
    BY <2>1, <2>2, ZenonT(30) DEF SettleRows, TxStays
  <2>3. CASE t \in T
    <3>1. PICK plan : txs'[t] = [txs[t] EXCEPT !.status = outcome, !.plan = plan]
      BY <2>3, ZenonT(30) DEF SettleRows
    <3>2. outcome # "PENDING"
      BY WebhookKnows
    <3>3. PICK w : w = outcome /\ w # "PENDING"
      BY <3>2
    <3>4. PICK q : q = txs[t] /\ IsTx(q)
      BY <2>1
    <3> HIDE DEF outcome
    <3>5. PICK row : row = [q EXCEPT !.status = w, !.plan = plan] /\ txs'[t] = row
      BY <3>1, <3>3, <3>4
    <3>6. /\ IsTx(row) /\ row.status = w /\ row.intent = q.intent /\ row.type = q.type
          /\ row.newIntent = q.newIntent /\ row.sub = q.sub
      BY <3>4, <3>5 DEF IsTx
    <3>7. TxStays(t) /\ txs'[t].status = w
      BY <3>3, <3>4, <3>5, <3>6 DEF TxStays
    <3>8. QED
      BY <2>3, <3>3, <3>7
  <2>4. QED
    BY <2>2, <2>3
<1>4. /\ handlers[h].task \in {"intentSucceeded", "subscriptionCreated"}
      /\ T \subseteq DOMAIN txs
      /\ \A t \in T : IF handlers[h].task = "subscriptionCreated"
                      THEN txs[t].sub = About(h) ELSE txs[t].intent = About(h)
  BY ZenonT(30) DEF SettleRows, RowsToSettle, TxsOf, HandlersFit, Fits, PlaceFits, At
<1> HIDE DEF T
<1>5. CASE handlers[h].task = "subscriptionCreated"
  <2>1. outcome = "SUCCESS" /\ About(h) \in Nat
    BY <1>5, WebhookKnows
  <2>2. \A t \in T : txs[t].intent = None
    BY <1>4, <1>5, <2>1, NoneAssumption DEF TxRows
  <2>3. QED
    BY <1>1, <1>2, <1>3, <2>1, <2>2, TxsRewritten
<1>6. CASE handlers[h].task = "intentSucceeded"
  <2>1. /\ About(h) \in Nat /\ About(h) \in DOMAIN intents
        /\ intents[About(h)].state = "paid"
    BY <1>6, WebhookKnows
  <2>2. \A t \in T : txs[t].intent = About(h) /\ txs[t].sub = None
    BY <1>4, <1>6, <2>1, NoneAssumption DEF TxRows
  <2>3. ASSUME NEW t \in DOMAIN txs, txs'[t].status = "SUCCESS", txs[t].intent # None,
               txs[t].status # "SUCCESS"
        PROVE  \E i \in DOMAIN intents :
                  /\ intents[i].state = "paid"
                  /\ intents[i].origin = intents[txs[t].intent].origin
    BY <1>3, <2>1, <2>2, <2>3
  <2>4. ASSUME NEW t \in DOMAIN txs, txs[t].status = "SUCCESS", txs[t].sub # None
        PROVE  txs'[t].status = "SUCCESS"
    BY <1>3, <2>2, <2>4
  <2>5. QED
    BY <1>1, <1>2, <1>3, <2>3, <2>4, TxsRewritten
<1>7. QED
  BY <1>4, <1>5, <1>6

\* The row that fails has an intent, and stems from the one that the event is
\* about; a row that has an intent is not linked.
LEMMA RowToFail ==
  ASSUME RowsInv, HandlersFit, NEW h \in Handlers,
         At(h, "failValidationRow") \/ At(h, "failTxRow")
  PROVE  /\ handlers[h].tx \in DOMAIN txs /\ txs[handlers[h].tx].intent # None
         /\ txs[handlers[h].tx].sub = None
         /\ intents[txs[handlers[h].tx].intent].origin = intents[About(h)].origin
  BY DEF HandlersFit, Fits, AtFits, At, About, RowsInv, TxRows

\* A validation that fails was found by its intent.
LEMMA FailValidationFine ==
  ASSUME RowsInv, HandlersFit, PaidBeforeSuccess, NEW h \in Handlers, FailValidation(h)
  PROVE  TxsFine
<1> USE DEF RowsInv
<1>1. txs' = TxsWithStatus({handlers[h].tx}, "FAILED") /\ txs[handlers[h].tx].sub = None
  BY RowToFail DEF FailValidation
<1>2. SameIntents
  BY IntentsStay DEF FailValidation, stripe
<1>3. QED
  BY <1>1, <1>2, TxsSwept

(* The replacement intent gets the origin of the intent that failed, and the *)
(* row that it is stored in stems from there, too.                           *)
LEMMA FailTxFine ==
  ASSUME RowsInv, HandlersFit, PaidBeforeSuccess, NEW h \in Handlers, FailTx(h)
  PROVE  TxsFine
<1> USE DEF RowsInv
<1>1. PICK i, t, u : i = handlers[h].intent /\ t = handlers[h].tx /\ u = handlers[h].user
  OBVIOUS
<1>2. /\ i \in DOMAIN intents
      /\ t \in DOMAIN txs /\ txs[t].sub = None /\ txs[t].intent # None
      /\ intents[txs[t].intent].origin = intents[i].origin
  <2>1. i \in DOMAIN intents /\ intents[i].origin = intents[About(h)].origin
    BY <1>1 DEF FailTx, HandlersFit, Fits, AtFits, At, About
  <2>2. QED
    BY <1>1, <2>1, RowToFail DEF FailTx
<1>3. txs' = [txs EXCEPT ![t].status = "FAILED", ![t].user = u, ![t].newIntent = i]
  BY <1>1 DEF FailTx
<1>4. UNCHANGED <<intents, subs, customers>> /\ SameIntents
  BY IntentsStay DEF FailTx, stripe
<1>5. txs' = [r \in DOMAIN txs |-> txs'[r]]
  BY <1>3
<1>6. IsTable(txs') /\ DOMAIN txs' = DOMAIN txs
  BY <1>5, RewrittenTable DEF TxRows
<1>7. \A r \in DOMAIN txs : r # t => txs'[r] = txs[r]
  BY <1>3
<1>8. txs'[t] = [txs[t] EXCEPT !.status = "FAILED", !.user = u, !.newIntent = i]
  BY <1>2, <1>3
<1>9. /\ IsTx(txs'[t]) /\ txs'[t].status = "FAILED" /\ txs'[t].sub = None
      /\ txs'[t].intent = txs[t].intent /\ txs'[t].newIntent = i
  BY <1>2, <1>8 DEF TxRows, IsTx
<1>10. Kept
  BY <1>4, <1>6, <1>7, <1>9 DEF Kept
<1>11. TxRows'
  BY <1>2, <1>4, <1>6, <1>7, <1>9 DEF TxRows, IsTx
<1>12. PaidBeforeSuccess'
  BY <1>4, <1>6, <1>7, <1>9 DEF PaidBeforeSuccess
<1>13. QED
  BY <1>2, <1>4, <1>7, <1>10, <1>11, <1>12, StripeStays DEF TxsFine, OutcomesStay

(* The link replaces the payload, of a row that has no intent in it.         *)
LEMMA LinkTxFine ==
  ASSUME RowsInv, HandlersFit, PaidBeforeSuccess, NEW h \in Handlers, LinkTx(h)
  PROVE  TxsFine
<1> USE DEF RowsInv
<1> DEFINE t == handlers[h].tx
<1>1. About(h) \in Nat /\ About(h) # None
  BY WebhookKnows, NoneAssumption DEF LinkTx, HandlersFit, Fits, PlaceFits, At
<1>0. t \in DOMAIN txs /\ txs[t].intent = None
  BY DEF LinkTx, HandlersFit, Fits, PlaceFits, CallFits, At, LinksLater
<1>2. txs' = [txs EXCEPT ![t].intent = None, ![t].newIntent = None, ![t].sub = About(h)]
  BY DEF LinkTx
<1>3. UNCHANGED <<intents, subs, customers>> /\ SameIntents
  BY IntentsStay DEF LinkTx, stripe
<1>4. IsTable(txs') /\ DOMAIN txs' = DOMAIN txs
  <2>1. txs' = [r \in DOMAIN txs |-> txs'[r]]
    BY <1>2
  <2>2. QED
    BY <2>1, RewrittenTable DEF TxRows
<1>5. ASSUME NEW r \in DOMAIN txs, r # t PROVE txs'[r] = txs[r]
  BY <1>2, <1>5
<1>6. /\ IsTx(txs'[t]) /\ txs'[t].status = txs[t].status
      /\ txs'[t].intent = None /\ txs'[t].newIntent = None
      /\ txs'[t].sub = About(h)
  <2>1. txs'[t] = [txs[t] EXCEPT !.intent = None, !.newIntent = None, !.sub = About(h)]
    BY <1>0, <1>2
  <2>2. QED
    BY <1>0, <2>1 DEF TxRows, IsTx
<1> HIDE DEF t
<1>7. Kept
  BY <1>0, <1>3, <1>4, <1>5, <1>6 DEF Kept
<1>8. TxRows'
  BY <1>3, <1>4, <1>5, <1>6 DEF TxRows, IsTx
<1>9. PaidBeforeSuccess'
  BY <1>3, <1>4, <1>5, <1>6 DEF PaidBeforeSuccess
<1>10. QED
  BY <1>1, <1>3, <1>5, <1>6, <1>7, <1>8, <1>9, StripeStays DEF TxsFine, OutcomesStay

TxStep(h) ==
    \/ Supersede(h) \/ CancelOthers(h) \/ SaveTx(h) \/ SavePrePayment(h)
    \/ SaveIntentTx(h) \/ SettleById(h) \/ SettleRows(h) \/ FailValidation(h)
    \/ FailTx(h) \/ LinkTx(h)

\* Every step that writes transactions.
LEMMA TxStepFine ==
  ASSUME RowsInv, HandlersFit, PaidBeforeSuccess, NEW h \in Handlers, TxStep(h)
  PROVE  TxsFine
<1>1. TxRows /\ StripeRows
  BY DEF RowsInv
<1>2. QED
  BY <1>1, SupersedeFine, SaveFine, SettleByIdFine, SettleRowsFine, FailValidationFine,
     FailTxFine, LinkTxFine DEF TxStep

----------------------------------------------------------------------------
(* The objects of Stripe.                                                    *)

\* Intents that keep their state, customer and origin.
LEMMA SameIntentsFine ==
  ASSUME TxRows, StripeRows, PaidBeforeSuccess, SameIntents, UNCHANGED txs
  PROVE  TxsFine
<1>1. Kept
  BY DEF SameIntents, Kept
<1>2. QED
  BY <1>1, StripeStays, TxsRead DEF TxsFine

\* An intent changes but for its customer and its origin.
LEMMA IntentAmended ==
  ASSUME TxRows, StripeRows, PaidBeforeSuccess, UNCHANGED <<txs, subs, customers>>,
         NEW i, NEW intent, intents' = [intents EXCEPT ![i] = intent],
         i \in DOMAIN intents =>
            /\ IsIntent(intent)
            /\ intent.customer = intents[i].customer
            /\ intent.origin = intents[i].origin
            /\ intents[i].state = "paid" => intent.state = "paid"
  PROVE  TxsFine
<1>1. intents' = [k \in DOMAIN intents |-> intents'[k]]
  OBVIOUS
<1>2. IsTable(intents') /\ DOMAIN intents' = DOMAIN intents
  BY <1>1, RewrittenTable DEF StripeRows
<1>3. \A k \in DOMAIN intents : intents'[k] = IF k = i THEN intent ELSE intents[k]
  OBVIOUS
<1>4. Kept
  BY <1>2, <1>3 DEF Kept
<1>5. \A k \in DOMAIN intents : IsIntent(intents'[k]) /\ intents'[k].customer # None
  BY <1>3 DEF StripeRows
<1>6. StripeRows'
  BY <1>2, <1>5 DEF StripeRows, IsSub, IsTable, IsIntent
<1>7. QED
  BY <1>4, <1>6, TxsRead DEF TxsFine

\* A new intent.
LEMMA IntentAdded ==
  ASSUME TxRows, StripeRows, PaidBeforeSuccess, UNCHANGED <<txs, subs, customers>>,
         NEW c, c # None, NEW origin, intents' = Append(intents, NewIntent(c, origin))
  PROVE  /\ TxsFine
         /\ Len(intents) + 1 \in DOMAIN intents'
         /\ intents'[Len(intents) + 1].origin = origin
<1>1. PICK row, n : row = NewIntent(c, origin) /\ n = Len(intents) + 1
  OBVIOUS
<1>2. IsIntent(row) /\ row.customer = c /\ row.origin = origin
  BY <1>1 DEF NewIntent, IsIntent
<1>3. Grown(intents, row, intents')
  BY <1>1, AppendedTable DEF StripeRows
<1>4. /\ IsTable(intents') /\ DOMAIN intents = 1..Len(intents) /\ DOMAIN intents' = 1..n
      /\ \A k \in DOMAIN intents : k \in DOMAIN intents' /\ intents'[k] = intents[k]
      /\ n \in DOMAIN intents' /\ intents'[n] = row
  BY <1>1, <1>3 DEF Grown
<1>5. \A k \in DOMAIN intents' : k \in DOMAIN intents \/ k = n
  BY <1>1, <1>4 DEF StripeRows, IsTable
<1>6. Kept
  BY <1>4 DEF Kept
<1>7. \A k \in DOMAIN intents' : IsIntent(intents'[k]) /\ intents'[k].customer # None
  BY <1>2, <1>4, <1>5 DEF StripeRows
<1>8. StripeRows'
  BY <1>4, <1>7 DEF StripeRows, IsSub, IsTable, IsIntent
<1>9. QED
  BY <1>1, <1>2, <1>4, <1>6, <1>8, TxsRead DEF TxsFine

\* A new subscription.
LEMMA SubAdded ==
  ASSUME TxRows, StripeRows, PaidBeforeSuccess, UNCHANGED <<txs, intents, customers>>,
         NEW c, c # None, subs' = Append(subs, [live |-> TRUE, customer |-> c])
  PROVE  /\ TxsFine
         /\ Len(subs) + 1 \in Nat
         /\ Len(subs) + 1 \in DOMAIN subs'
         /\ subs'[Len(subs) + 1].customer = c
<1>1. PICK row, n : row = [live |-> TRUE, customer |-> c] /\ n = Len(subs) + 1
  OBVIOUS
<1>2. IsSub(row) /\ row.customer = c
  BY <1>1 DEF IsSub
<1>3. Grown(subs, row, subs')
  BY <1>1, AppendedTable DEF StripeRows
<1>4. /\ IsTable(subs') /\ DOMAIN subs = 1..Len(subs) /\ DOMAIN subs' = 1..n
      /\ \A k \in DOMAIN subs : k \in DOMAIN subs' /\ subs'[k] = subs[k]
      /\ n \in DOMAIN subs' /\ subs'[n] = row
  BY <1>1, <1>3 DEF Grown
<1>5. n \in Nat /\ \A k \in DOMAIN subs' : k \in DOMAIN subs \/ k = n
  BY <1>1, <1>4 DEF StripeRows, IsTable
<1>6. Kept
  BY <1>4 DEF Kept
<1>7. \A k \in DOMAIN subs' : IsSub(subs'[k]) /\ subs'[k].customer # None
  BY <1>2, <1>4, <1>5 DEF StripeRows
<1>8. StripeRows'
  BY <1>4, <1>7 DEF StripeRows, IsSub, IsTable, IsIntent
<1>9. QED
  BY <1>1, <1>2, <1>4, <1>5, <1>6, <1>8, TxsRead DEF TxsFine

\* A new customer.
LEMMA CustomerAdded ==
  ASSUME TxRows, StripeRows, PaidBeforeSuccess, UNCHANGED <<txs, intents, subs>>,
         NEW u, customers' = Append(customers, u)
  PROVE  /\ TxsFine
         /\ Len(customers) + 1 \in DOMAIN customers'
         /\ customers'[Len(customers) + 1] = u
<1>1. Grown(customers, u, customers')
  BY AppendedTable DEF StripeRows
<1>2. /\ IsTable(customers')
      /\ \A c \in DOMAIN customers : c \in DOMAIN customers' /\ customers'[c] = customers[c]
      /\ Len(customers) + 1 \in DOMAIN customers' /\ customers'[Len(customers) + 1] = u
  BY <1>1 DEF Grown
<1>3. Kept
  BY <1>2 DEF Kept
<1>4. StripeRows'
  BY <1>2 DEF StripeRows, IsSub, IsTable, IsIntent
<1>5. QED
  BY <1>2, <1>3, <1>4, TxsRead DEF TxsFine

\* Deleted subscriptions keep their numbers and customers.
LEMMA SubsDeleted ==
  ASSUME TxRows, StripeRows, PaidBeforeSuccess, NEW h \in Handlers, DeleteSubs(h)
  PROVE  TxsFine
<1>1. /\ UNCHANGED <<txs, intents, customers>>
      /\ subs' = [s \in DOMAIN subs |->
                     IF s \in handlers[h].listed THEN [subs[s] EXCEPT !.live = FALSE]
                                                 ELSE subs[s]]
  BY DEF DeleteSubs
<1>2. subs' = [s \in DOMAIN subs |-> subs'[s]]
  BY <1>1
<1>3. IsTable(subs') /\ DOMAIN subs' = DOMAIN subs
  BY <1>2, RewrittenTable DEF StripeRows
<1>4. ASSUME NEW s \in DOMAIN subs
      PROVE  IsSub(subs'[s]) /\ subs'[s].customer = subs[s].customer
  <2>1. IsSub(subs[s])
    BY DEF StripeRows
  <2>2. QED
    BY <1>1, <2>1 DEF IsSub
<1>5. Kept
  BY <1>1, <1>3, <1>4 DEF Kept
<1>6. StripeRows'
  <2>1. \A s \in DOMAIN subs' : IsSub(subs'[s]) /\ subs'[s].customer # None
    BY <1>3, <1>4 DEF StripeRows
  <2>2. QED
    BY <1>1, <1>3, <2>1 DEF StripeRows, IsSub, IsTable, IsIntent
<1>7. QED
  BY <1>1, <1>5, <1>6, TxsRead DEF TxsFine

StripeStep(h) ==
    \/ FindValidation(h) \/ ReuseIntent(h) \/ CreateIntent(h) \/ Refund(h)
    \/ ReplaceIntent(h) \/ DeleteSubs(h) \/ CreateSub(h) \/ CreateCustomer(h)

\* Every step that writes objects of Stripe.
LEMMA StripeStepFine ==
  ASSUME RowsInv, HandlersFit, PaidBeforeSuccess, NEW h \in Handlers, StripeStep(h)
  PROVE  TxsFine
<1> USE DEF RowsInv
<1>1. CASE FindValidation(h) \/ ReuseIntent(h)
  <2>1. SameIntents
    <3>1. UNCHANGED <<subs, customers>>
      BY <1>1, ZenonT(30) DEF FindValidation, ReuseIntent
    <3>2. intents' = intents \/ \E i : intents' = [intents EXCEPT ![i].shown = TRUE]
      <4>1. CASE FindValidation(h)
        BY <4>1 DEF FindValidation, Show
      <4>2. CASE ReuseIntent(h)
        <5>1. handlers[h].task \in {"subscribe", "getSecret"}
          BY <4>2 DEF ReuseIntent, At, HandlersFit, Fits, PlaceFits
        <5>2. QED
          BY <4>2, <5>1 DEF ReuseIntent, Show
      <4>3. QED
        BY <1>1, <4>1, <4>2
    <3>3. QED
      BY <3>1, <3>2, IntentsStay, IntentShown
  <2>2. UNCHANGED txs
    BY <1>1, ZenonT(30) DEF FindValidation, ReuseIntent
  <2>3. QED
    BY <2>1, <2>2, SameIntentsFine
<1>2. CASE CreateIntent(h)
  <2>1. CustomerOf(h) # None
    BY <1>2 DEF CreateIntent, CustomerOf, HandlersFit, Fits, AtFits, At
  <2>2. QED
    BY <1>2, <2>1, IntentAdded DEF CreateIntent
<1>3. CASE Refund(h)
  <2> DEFINE i == About(h)
  <2>1. PICK intent : intent = [intents[i] EXCEPT !.refunded = TRUE]
    OBVIOUS
  <2>2. intents' = [intents EXCEPT ![i] = intent]
    BY <1>3, <2>1 DEF Refund
  <2>3. i \in DOMAIN intents =>
           /\ IsIntent(intent) /\ intent.customer = intents[i].customer
           /\ intent.origin = intents[i].origin /\ intent.state = intents[i].state
    <3>1. i \in DOMAIN intents => IsIntent(intents[i])
      BY DEF StripeRows
    <3>2. QED
      BY <2>1, <3>1 DEF IsIntent
  <2> HIDE DEF i
  <2>4. QED
    BY <1>3, <2>2, <2>3, IntentAmended DEF Refund
<1>4. CASE ReplaceIntent(h)
  <2>1. handlers[h].me.customer # None
    BY <1>4 DEF ReplaceIntent, HandlersFit, Fits, AtFits, At
  <2>2. QED
    BY <1>4, <2>1, IntentAdded DEF ReplaceIntent
<1>5. CASE DeleteSubs(h)
  BY <1>5, SubsDeleted
<1>6. CASE CreateSub(h)
  <2>1. CASE UNCHANGED subs
    BY <1>6, <2>1, TxsSame DEF CreateSub, tables
  <2>2. CASE subs' # subs
    BY <1>6, <2>2, SubAdded DEF CreateSub
  <2>3. QED
    BY <2>1, <2>2
<1>7. CASE CreateCustomer(h)
  BY <1>7, CustomerAdded DEF CreateCustomer
<1>8. QED
  BY <1>1, <1>2, <1>3, <1>4, <1>5, <1>6, <1>7 DEF StripeStep

(* What users do at Stripe.                                                  *)
LEMMA PayFine ==
  ASSUME RowsInv, PaidBeforeSuccess, NEW i \in DOMAIN intents,
         (\E card \in Cards : Pay(i, card)) \/ CancelIntent(i)
  PROVE  /\ TxsFine
         /\ i \in Nat /\ i \in DOMAIN intents'
         /\ ~CancelIntent(i) => intents'[i].state = "paid"
<1> USE DEF RowsInv
<1>1. PICK state, card :
         /\ intents' = [intents EXCEPT ![i].state = state, ![i].card = card]
         /\ intents[i].state = "open"
         /\ ~CancelIntent(i) => state = "paid"
  <2>1. CASE CancelIntent(i)
    <3>1. intents' = [intents EXCEPT ![i].state = "canceled", ![i].card = intents[i].card]
      BY <2>1 DEF CancelIntent, StripeRows, IsIntent
    <3>2. QED
      BY <2>1, <3>1, ZenonT(30) DEF CancelIntent, Payable
  <2>2. CASE \E card \in Cards : Pay(i, card)
    BY <2>2, ZenonT(30) DEF Pay, Payable
  <2>3. QED
    BY <2>1, <2>2, ZenonT(30)
<1>2. PICK intent : intent = [intents[i] EXCEPT !.state = state, !.card = card]
  OBVIOUS
<1>3. intents' = [intents EXCEPT ![i] = intent]
  BY <1>1, <1>2
<1>4. /\ IsIntent(intent) /\ intent.customer = intents[i].customer
      /\ intent.origin = intents[i].origin /\ intent.state = state
  <2>1. IsIntent(intents[i])
    BY DEF StripeRows
  <2>2. QED
    BY <1>2, <2>1 DEF IsIntent
<1>5. UNCHANGED <<txs, subs, customers>>
  BY ZenonT(30) DEF Pay, CancelIntent
<1>6. intents[i].state # "paid"
  BY <1>1
<1>7. TxsFine
  BY <1>3, <1>4, <1>5, <1>6, IntentAmended
<1>8. i \in Nat /\ i \in DOMAIN intents' /\ intents'[i] = intent
  BY <1>3 DEF StripeRows, IsTable
<1>9. QED
  BY <1>1, <1>4, <1>7, <1>8

----------------------------------------------------------------------------
(* The calls in flight: how one moves on, ends, or begins.                   *)

\* Of the calls, only h moves.
Moves(h) == handlers' = [handlers EXCEPT ![h] = handlers'[h]]

\* The call goes on with what it knew from its beginning.
SameCall(q, r) ==
    /\ r.task = q.task /\ r.user = q.user /\ r.me = q.me /\ r.event = q.event
    /\ r.replaces = q.replaces /\ r.tx = q.tx
    /\ r.task = "subscriptionCreated" => r.plan = q.plan
    /\ \/ r.outcome = q.outcome
       \/ r.outcome = "FAILED" /\ r.task # "subscriptionCreated"
    /\ r.type = q.type \/ r.type \in Subscription

GoesOn(h) ==
    Moves(h) /\ IsHandler(handlers'[h]) /\ SameCall(handlers[h], handlers'[h])

\* A call may move to what is true of it.
LEMMA CallMoves ==
  ASSUME HandlersFit, TxRows, Kept, NEW h \in Handlers, Moves(h),
         NEW r, r = handlers'[h], IsHandler(r), Fits(r)'
  PROVE  HandlersFit'
<1>1. handlers' = [g \in Handlers |-> handlers'[g]]
  BY DEF Moves, HandlersFit
<1>2. ASSUME NEW g \in Handlers, g # h PROVE IsHandler(handlers[g])' /\ Fits(handlers[g])'
  <2>1. PICK q : q = handlers[g]
    OBVIOUS
  <2>2. handlers'[g] = q
    BY <1>2, <2>1 DEF Moves, HandlersFit
  <2>3. IsHandler(q) /\ Fits(q)
    BY <2>1 DEF HandlersFit
  <2>4. Fits(q)'
    BY <2>3, FitsKept
  <2>5. QED
    BY <2>2, <2>3, <2>4
<1>3. QED
  BY <1>1, <1>2 DEF HandlersFit

\* A call that goes on has to fit its new place only.
LEMMA CallGoesOn ==
  ASSUME HandlersFit, TxRows, Kept, NEW h \in Handlers, GoesOn(h),
         NEW r, r = handlers'[h], PlaceFits(r), AtFits(r)'
  PROVE  HandlersFit'
<1>1. PICK q : q = handlers[h]
  OBVIOUS
<1>2. Fits(q) /\ SameCall(q, r) /\ IsHandler(r)
  BY <1>1 DEF HandlersFit, GoesOn
<1>3. EventFits(q)' /\ CallFits(q)'
  BY <1>2, EventFitsKept, CallFitsKept DEF Fits
<1>4. EventFits(r)'
  <2>1. EventFits(q)'
    BY <1>3
  <2>2. QED
    BY <1>2, <2>1 DEF EventFits, SameCall
<1>5. CallFits(r)'
  <2>1. CallFits(q)'
    BY <1>3
  <2>2. QED
    BY <1>2, <2>1 DEF CallFits, SameCall
<1>6. PlaceFits(r)'
  BY DEF PlaceFits
<1>7. Fits(r)'
  BY <1>4, <1>5, <1>6 DEF Fits
<1>8. QED
  BY <1>2, <1>7, CallMoves DEF GoesOn

\* An idle call knows nothing.
LEMMA IdleFits == IsHandler(IdleHandler) /\ Fits(IdleHandler) /\ Fits(IdleHandler)'
<1>1. IsHandler(IdleHandler) /\ Fits(IdleHandler)
  BY NoneAssumption
     DEF IdleHandler, IsHandler, Fits, PlaceFits, EventFits, AtFits, CallFits
<1>2. Fits(IdleHandler)'
  BY NoneAssumption
     DEF IdleHandler, IsHandler, Fits, PlaceFits, EventFits, AtFits, CallFits
<1>3. QED
  BY <1>1, <1>2

\* A call may end.
LEMMA CallEnds ==
  ASSUME HandlersFit, TxRows, Kept, NEW h \in Handlers, End(h)
  PROVE  HandlersFit'
<1>1. PICK r : r = IdleHandler
  OBVIOUS
<1>2. Fits(r)'
  BY <1>1, IdleFits DEF IdleHandler
<1>3. handlers'[h] = r /\ Moves(h)
  BY <1>1 DEF End, Moves, HandlersFit
<1>4. QED
  BY <1>1, <1>2, <1>3, IdleFits, CallMoves

\* Reports that nobody adds to.
LEMMA EventsStay ==
  ASSUME EventsReported, Kept, UNCHANGED events PROVE EventsReported'
  BY ReportedKept DEF EventsReported

\* What is added to the reports must be so.
LEMMA EventsAdded ==
  ASSUME EventsReported, Kept, NEW E,
         \/ events' = [events EXCEPT !.pending = @ \cup E]
         \/ events' = [events EXCEPT !.acked = @ \cup E],
         \A e \in E : Reported(e)'
  PROVE  EventsReported'
<1>1. /\ events' = [pending |-> events'.pending, acked |-> events'.acked]
      /\ \A e \in events'.pending \cup events'.acked :
            e \in events.pending \cup events.acked \/ e \in E
  BY DEF EventsReported
<1>2. ASSUME NEW e \in events'.pending \cup events'.acked PROVE Reported(e)'
  BY <1>1, ReportedKept DEF EventsReported
<1>3. QED
  BY <1>1, <1>2 DEF EventsReported

CallsFit == HandlersFit /\ EventsReported

\* A webhook answers.
LEMMA CallAnswers ==
  ASSUME CallsFit, TxRows, Kept, NEW h \in Handlers, Reported(handlers[h].event),
         Acknowledge(h) \/ Reject(h)
  PROVE  CallsFit'
<1>1. PICK e : e = handlers[h].event
  OBVIOUS
<1>2. Reported(e)
  BY <1>1
<1>3. Reported(e)'
  BY <1>2, ReportedKept
<1>4. EventsReported'
  <2>1. \/ events' = [events EXCEPT !.pending = @ \cup {e}]
        \/ events' = [events EXCEPT !.acked = @ \cup {e}]
    BY <1>1 DEF Acknowledge, Reject
  <2>2. \A f \in {e} : Reported(f)'
    BY <1>3
  <2>3. QED
    BY <2>1, <2>2, EventsAdded DEF CallsFit
<1>5. HandlersFit'
  BY CallEnds DEF CallsFit, Acknowledge, Reject
<1>6. QED
  BY <1>4, <1>5 DEF CallsFit

\* All calls end at once, and their reports will come again.
LEMMA ProcessRestarts ==
  ASSUME CallsFit, TxRows, Kept, Restart PROVE CallsFit'
<1>1. PICK r : r = IdleHandler
  OBVIOUS
<1>2. Fits(r)'
  BY <1>1, IdleFits DEF IdleHandler
<1>3. HandlersFit'
  <2>1. \A h \in Handlers : handlers'[h] = r
    BY <1>1 DEF Restart
  <2>2. \A h \in Handlers : IsHandler(handlers[h])' /\ Fits(handlers[h])'
    BY <1>1, <1>2, <2>1, IdleFits
  <2>3. QED
    BY <2>2 DEF HandlersFit, Restart
<1>4. EventsReported'
  <2>1. \A e \in InFlight \ events.acked : Reported(e)
    BY DEF InFlight, CallsFit, HandlersFit, Fits, EventFits
  <2>2. \A e \in InFlight \ events.acked : Reported(e)'
    BY <2>1, ReportedKept
  <2>3. QED
    BY <2>2, EventsAdded DEF CallsFit, Restart
<1>5. QED
  BY <1>3, <1>4 DEF CallsFit

----------------------------------------------------------------------------
(* The steps of requests.                                                    *)

Demanding == {"findIntentPlan", "saveIntentTx", "savePrePayment", "failTx",
              "failTxRow", "failValidationRow", "storeCustomer", "createIntent", "replaceIntent", "setStatus"}

\* The call ends, or goes on to a place that asks for nothing but its task.
Freely(h) ==
    \/ End(h)
    \/ /\ GoesOn(h) /\ PlaceFits(handlers'[h])
       /\ handlers'[h].at \notin Demanding

\* A call that goes on freely, or ends.
LEMMA CallIsFree ==
  ASSUME CallsFit, TxRows, Kept, NEW h \in Handlers, Freely(h), UNCHANGED events
  PROVE  CallsFit'
<1>1. EventsReported'
  BY EventsStay DEF CallsFit
<1>2. CASE End(h)
  BY <1>1, <1>2, CallEnds DEF CallsFit
<1>3. CASE GoesOn(h) /\ PlaceFits(handlers'[h]) /\ handlers'[h].at \notin Demanding
  <2>1. PICK r : r = handlers'[h]
    OBVIOUS
  <2>2. AtFits(r)'
    BY <1>3, <2>1 DEF AtFits, Demanding
  <2>3. HandlersFit'
    BY <1>3, <2>1, <2>2, CallGoesOn DEF CallsFit
  <2>4. QED
    BY <1>1, <2>3 DEF CallsFit
<1>4. QED
  BY <1>2, <1>3 DEF Freely

\* A call that goes to another place and changes none of its locals.
LEMMA CallGoes ==
  ASSUME HandlersFit, NEW h \in Handlers, NEW place, Goto(h, place)
  PROVE  /\ GoesOn(h) /\ handlers'[h].at = place
         /\ handlers'[h].task = handlers[h].task /\ handlers'[h].plan = handlers[h].plan
<1>1. IsHandler(handlers[h])
  BY DEF HandlersFit
<1>2. handlers'[h] = [handlers[h] EXCEPT !.at = place] /\ Moves(h)
  BY DEF Goto, Moves, HandlersFit
<1>3. QED
  BY <1>1, <1>2 DEF GoesOn, IsHandler, SameCall

\* A call that goes on with new locals.
LEMMA CallContinues ==
  ASSUME HandlersFit, NEW h \in Handlers, NEW r, Continue(h, r),
         IsHandler(r), SameCall(handlers[h], r)
  PROVE  GoesOn(h) /\ handlers'[h] = r
<1>1. handlers'[h] = r /\ Moves(h)
  BY DEF Continue, Moves, HandlersFit
<1>2. QED
  BY <1>1 DEF GoesOn

GoingSteps(h) ==
    \/ FindPlans(h) \/ FindTrialCard(h) \/ AttachCard(h) \/ Supersede(h) \/ SaveTx(h)
    \/ SavePrePayment(h) \/ FindValidation(h) \/ StoreCustomer(h) \/ CountPlans(h)
    \/ CreateFirstPlan(h)

\* The steps of requests that only go to another place.
LEMMA GoingStepsFree ==
  ASSUME HandlersFit, NEW h \in Handlers, GoingSteps(h) PROVE Freely(h)
<1>1. \/ End(h)
      \/ \E place \in {"findCard", "findTrialCard", "findCurrent"} :
            Goto(h, place) /\ handlers[h].task = "subscribe"
      \/ Goto(h, "findCustomer") /\ handlers[h].task = "getSecret"
      \/ Goto(h, "findIntent") /\ handlers[h].task \in {"subscribe", "getSecret"}
      \/ Goto(h, "createCustomer") /\ handlers[h].task = "initialize"
      \/ \E place \in {"supersede", "saveTx"} :
            Goto(h, place) /\ handlers[h].task = "subscribe"
      \/ \E place \in {"listSubs", "createFirstPlan"} : Goto(h, place)
  <2>1. PlaceFits(handlers[h])
    BY DEF HandlersFit, Fits
  <2>2. QED
    BY <2>1 DEF GoingSteps, FindPlans, FindTrialCard, AttachCard, Supersede, SaveTx,
       SavePrePayment, FindValidation, StoreCustomer, CountPlans, CreateFirstPlan,
       PlaceFits, At, Show
<1>2. QED
  BY <1>1, CallGoes DEF Freely, PlaceFits, Demanding, LinksLater

\* The steps of requests that read or write plans, one by one.
LEMMA FindCurrentFree ==
  ASSUME HandlersFit, NEW h \in Handlers, FindCurrent(h) PROVE Freely(h)
<1>1. handlers[h].task = "subscribe" /\ IsHandler(handlers[h])
  BY DEF FindCurrent, HandlersFit, Fits, PlaceFits, At
<1>2. CASE ~End(h)
  <2>1. PICK p, r : r = [handlers[h] EXCEPT !.at = "findLast", !.plan = p] /\ Continue(h, r)
    BY <1>1, <1>2, ZenonT(30) DEF FindCurrent
  <2>2. IsHandler(r) /\ SameCall(handlers[h], r) /\ r.task = handlers[h].task /\ r.at = "findLast"
    BY <1>1, <2>1 DEF IsHandler, SameCall
  <2>3. QED
    BY <1>1, <2>1, <2>2, CallContinues DEF Freely, PlaceFits, Demanding
<1>3. QED
  BY <1>2 DEF Freely

\* findLast goes on to findCard or deletePlan.
LEMMA FindLastFree ==
  ASSUME HandlersFit, NEW h \in Handlers, FindLast(h) PROVE Freely(h)
<1>1. handlers[h].task = "subscribe" /\ IsHandler(handlers[h])
  BY DEF FindLast, HandlersFit, Fits, PlaceFits, At
<1>2. CASE ~End(h)
  <2>0. PICK place \in {"findCard", "deletePlan"} : \E other, r :
            /\ r = [[handlers[h] EXCEPT !.plan = None, !.type = "DELAYED_SUBSCRIPTION"]
                       EXCEPT !.at = place, !.other = other]
            /\ Continue(h, r)
    <3>1. CASE LastForUser(handlers[h].user) = handlers[h].plan
      <4>1. PICK r : r = [handlers[h] EXCEPT !.at = "findCard", !.plan = None,
                                             !.type = "DELAYED_SUBSCRIPTION"]
        OBVIOUS
      <4>2. Continue(h, r)
        BY <1>2, <3>1, <4>1 DEF FindLast
      <4>3. r = [[handlers[h] EXCEPT !.plan = None, !.type = "DELAYED_SUBSCRIPTION"]
                    EXCEPT !.at = "findCard", !.other = handlers[h].other]
        BY <1>1, <4>1 DEF IsHandler
      <4>4. QED
        BY <4>2, <4>3, ZenonT(30)
    <3>2. CASE LastForUser(handlers[h].user) # handlers[h].plan
      BY <1>2, <3>2, ZenonT(30) DEF FindLast
    <3>3. QED
      BY <3>1, <3>2, ZenonT(30)
  <2>1. PICK other, r :
            /\ r = [[handlers[h] EXCEPT !.plan = None, !.type = "DELAYED_SUBSCRIPTION"]
                       EXCEPT !.at = place, !.other = other]
            /\ Continue(h, r)
    BY <2>0, ZenonT(30)
  <2>2. IsHandler(r) /\ SameCall(handlers[h], r) /\ r.task = handlers[h].task /\ r.at = place
    BY <1>1, <2>1 DEF IsHandler, SameCall, Subscription
  <2>3. QED
    BY <1>1, <2>1, <2>2, CallContinues DEF Freely, PlaceFits, Demanding
<1>3. QED
  BY <1>2 DEF Freely

\* deletePlan goes on to listSubs or findCard.
LEMMA DeletePlanFree ==
  ASSUME HandlersFit, NEW h \in Handlers, DeletePlan(h) PROVE Freely(h)
<1>1. handlers[h].task \in {"subscribe", "cancelNext"} /\ IsHandler(handlers[h])
  BY DEF DeletePlan, HandlersFit, Fits, PlaceFits, At
<1>2. CASE ~End(h)
  <2>0. PICK place \in {"listSubs", "findCard"} : \E r :
            /\ handlers[h].task = "cancelNext" => place = "listSubs"
            /\ r = [handlers[h] EXCEPT !.other = None, !.at = place]
            /\ Continue(h, r)
    BY <1>1, <1>2 DEF DeletePlan
  <2>1. PICK r :
            /\ handlers[h].task = "cancelNext" => place = "listSubs"
            /\ r = [handlers[h] EXCEPT !.other = None, !.at = place]
            /\ Continue(h, r)
    BY <2>0
  <2>2. IsHandler(r) /\ SameCall(handlers[h], r) /\ r.task = handlers[h].task /\ r.at = place
    BY <1>1, <2>1 DEF IsHandler, SameCall
  <2>3. QED
    BY <1>1, <2>1, <2>2, CallContinues DEF Freely, PlaceFits, Demanding
<1>3. QED
  BY <1>2 DEF Freely

\* findCard goes on to findPlan.
LEMMA FindCardFree ==
  ASSUME HandlersFit, NEW h \in Handlers, FindCard(h) PROVE Freely(h)
<1>1. handlers[h].task = "subscribe" /\ IsHandler(handlers[h])
  BY DEF FindCard, HandlersFit, Fits, PlaceFits, At
<1>2. CASE ~End(h)
  <2>1. PICK card, r : r = [handlers[h] EXCEPT !.at = "findPlan", !.card = card] /\ Continue(h, r)
    BY <1>1, <1>2, ZenonT(30) DEF FindCard
  <2>2. IsHandler(r) /\ SameCall(handlers[h], r) /\ r.task = handlers[h].task /\ r.at = "findPlan"
    BY <1>1, <2>1 DEF IsHandler, SameCall
  <2>3. QED
    BY <1>1, <2>1, <2>2, CallContinues DEF Freely, PlaceFits, Demanding
<1>3. QED
  BY <1>2 DEF Freely

\* findPlan goes on to createPlan.
LEMMA FindPlanFree ==
  ASSUME HandlersFit, NEW h \in Handlers, FindPlan(h) PROVE Freely(h)
<1>1. handlers[h].task = "subscribe" /\ IsHandler(handlers[h])
  BY DEF FindPlan, HandlersFit, Fits, PlaceFits, At
<1>2. CASE ~End(h)
  <2>1. PICK p, r : r = [handlers[h] EXCEPT !.at = "createPlan", !.plan = p] /\ Continue(h, r)
    BY <1>1, <1>2, ZenonT(30) DEF FindPlan
  <2>2. IsHandler(r) /\ SameCall(handlers[h], r) /\ r.task = handlers[h].task /\ r.at = "createPlan"
    BY <1>1, <2>1 DEF IsHandler, SameCall
  <2>3. QED
    BY <1>1, <2>1, <2>2, CallContinues DEF Freely, PlaceFits, Demanding
<1>3. QED
  BY <1>2 DEF Freely

\* createPlan goes on to findIntent or attachCard.
LEMMA CreatePlanFree ==
  ASSUME HandlersFit, NEW h \in Handlers, CreatePlan(h) PROVE Freely(h)
<1>1. handlers[h].task = "subscribe" /\ IsHandler(handlers[h])
  BY DEF CreatePlan, HandlersFit, Fits, PlaceFits, At
<1>2. CASE ~End(h)
  <2>0. PICK place \in {"findIntent", "attachCard"} : \E p, r :
            /\ r = [handlers[h] EXCEPT !.plan = p, !.at = place]
            /\ Continue(h, r)
    BY <1>1, <1>2, ZenonT(30) DEF CreatePlan
  <2>1. PICK p, r :
            /\ r = [handlers[h] EXCEPT !.plan = p, !.at = place]
            /\ Continue(h, r)
    BY <2>0, ZenonT(30)
  <2>2. IsHandler(r) /\ SameCall(handlers[h], r) /\ r.task = handlers[h].task /\ r.at = place
    BY <1>1, <2>1 DEF IsHandler, SameCall
  <2>3. QED
    BY <1>1, <2>1, <2>2, CallContinues DEF Freely, PlaceFits, Demanding
<1>3. QED
  BY <1>2 DEF Freely

\* findCustomer goes on to createCustomer or findIntent.
LEMMA FindCustomerFree ==
  ASSUME HandlersFit, NEW h \in Handlers, FindCustomer(h) PROVE Freely(h)
<1>1. handlers[h].task = "getSecret" /\ IsHandler(handlers[h])
  BY DEF FindCustomer, HandlersFit, Fits, PlaceFits, At
<1>2. CASE ~End(h)
  <2>0. PICK place \in {"createCustomer", "findIntent"} : \E c, r :
            /\ r = [handlers[h] EXCEPT !.customer = c, !.at = place]
            /\ Continue(h, r)
    BY <1>1, <1>2, ZenonT(30) DEF FindCustomer
  <2>1. PICK c, r :
            /\ r = [handlers[h] EXCEPT !.customer = c, !.at = place]
            /\ Continue(h, r)
    BY <2>0, ZenonT(30)
  <2>2. IsHandler(r) /\ SameCall(handlers[h], r) /\ r.task = handlers[h].task /\ r.at = place
    BY <1>1, <2>1 DEF IsHandler, SameCall
  <2>3. QED
    BY <1>1, <2>1, <2>2, CallContinues DEF Freely, PlaceFits, Demanding
<1>3. QED
  BY <1>2 DEF Freely

\* findNextPlan goes on to deletePlan.
LEMMA FindNextPlanFree ==
  ASSUME HandlersFit, NEW h \in Handlers, FindNextPlan(h) PROVE Freely(h)
<1>1. handlers[h].task = "cancelNext" /\ IsHandler(handlers[h])
  BY ZenonT(30) DEF FindNextPlan, HandlersFit, Fits, PlaceFits, At
<1>2. CASE ~End(h)
  <2>1. PICK p, r : r = [handlers[h] EXCEPT !.at = "deletePlan", !.other = p] /\ Continue(h, r)
    BY <1>1, <1>2, ZenonT(30) DEF FindNextPlan
  <2>2. IsHandler(r) /\ SameCall(handlers[h], r) /\ r.task = handlers[h].task /\ r.at = "deletePlan"
    BY <1>1, <2>1 DEF IsHandler, SameCall
  <2>3. QED
    BY <1>1, <2>1, <2>2, CallContinues DEF Freely, PlaceFits, Demanding
<1>3. QED
  BY <1>2 DEF Freely
\* A call that goes on to a place that asks for something.
LEMMA CallKnows ==
  ASSUME CallsFit, TxRows, Kept, NEW h \in Handlers, GoesOn(h), UNCHANGED events,
         NEW r, r = handlers'[h], PlaceFits(r), AtFits(r)'
  PROVE  CallsFit'
  BY EventsStay, CallGoesOn DEF CallsFit

\* The new customer is of the user of the call.
LEMMA CreateCustomerFits ==
  ASSUME RowsInv, CallsFit, PaidBeforeSuccess, NEW h \in Handlers, CreateCustomer(h)
  PROVE  CallsFit'
<1> USE DEF RowsInv
<1>1. /\ IsHandler(handlers[h])
      /\ handlers[h].task \in {"getSecret", "initialize"}
  BY DEF CreateCustomer, CallsFit, HandlersFit, Fits, PlaceFits, At
<1>2. PICK n, r : /\ n = Len(customers) + 1
                  /\ r = [handlers[h] EXCEPT !.at = "storeCustomer", !.customer = n]
  BY ZenonT(30)
<1>3. /\ Continue(h, r) /\ UNCHANGED <<txs, intents, subs, events>>
      /\ customers' = Append(customers, handlers[h].user)
  BY <1>2 DEF CreateCustomer
<1>4. Kept /\ n \in DOMAIN customers' /\ customers'[n] = handlers[h].user
  BY <1>2, <1>3, CustomerAdded DEF TxsFine
<1>5. /\ IsHandler(r) /\ SameCall(handlers[h], r) /\ r.at = "storeCustomer"
      /\ r.task = handlers[h].task /\ r.user = handlers[h].user /\ r.customer = n
  BY <1>1, <1>2 DEF IsHandler, SameCall
<1>6. PlaceFits(r) /\ AtFits(r)'
  BY <1>1, <1>4, <1>5 DEF PlaceFits, AtFits, Owns
<1>7. QED
  BY <1>3, <1>4, <1>5, <1>6, CallContinues, CallKnows DEF CallsFit

\* The intent of a pending row exists.
LEMMA ReuseIntentFits ==
  ASSUME RowsInv, CallsFit, Kept, NEW h \in Handlers, ReuseIntent(h)
  PROVE  CallsFit'
<1> USE DEF RowsInv
<1>1. /\ IsHandler(handlers[h])
      /\ handlers[h].task \in {"subscribe", "getSecret"}
  BY DEF ReuseIntent, CallsFit, HandlersFit, Fits, PlaceFits, At
<1>2. UNCHANGED events
  BY DEF ReuseIntent
<1>3. CASE End(h)
  BY <1>2, <1>3, CallIsFree DEF Freely
<1>4. CASE ~End(h)
  <2>0. PICK t \in Unfinished(h) : \E r :
           /\ handlers[h].task = "subscribe"
           /\ txs[t].intent # None
           /\ r = [handlers[h] EXCEPT !.at = "savePrePayment", !.intent = txs[t].intent]
           /\ Continue(h, r)
    BY <1>1, <1>4, ZenonT(30) DEF ReuseIntent, Show
  <2>1. PICK r :
           /\ handlers[h].task = "subscribe"
           /\ txs[t].intent # None
           /\ r = [handlers[h] EXCEPT !.at = "savePrePayment", !.intent = txs[t].intent]
           /\ Continue(h, r)
    BY <2>0
  <2>2. t \in DOMAIN txs /\ txs[t].intent \in DOMAIN intents
    BY <2>1 DEF Unfinished, PendingTxs, TxsOf, TxRows
  <2>3. /\ IsHandler(r) /\ SameCall(handlers[h], r) /\ r.at = "savePrePayment"
        /\ r.intent \in DOMAIN intents' /\ r.task = "subscribe"
    BY <1>1, <2>1, <2>2 DEF IsHandler, SameCall, Kept
  <2>4. PlaceFits(r) /\ AtFits(r)'
    BY <2>3 DEF PlaceFits, AtFits
  <2>5. QED
    BY <1>2, <2>1, <2>3, <2>4, CallContinues, CallKnows DEF CallsFit
<1>5. QED
  BY <1>3, <1>4

\* An intent is created for a customer that the user has.
LEMMA NoIntentFoundFits ==
  ASSUME RowsInv, CallsFit, Kept, NEW h \in Handlers, NoIntentFound(h)
  PROVE  CallsFit'
<1> USE DEF RowsInv
<1>1. UNCHANGED events
  BY DEF NoIntentFound
<1>2. CASE End(h)
  BY <1>1, <1>2, CallIsFree DEF Freely
<1>3. CASE ~End(h)
  <2>1. Goto(h, "createIntent") /\ CustomerOf(h) # None
    BY <1>3 DEF NoIntentFound
  <2>2. PICK r : r = handlers'[h]
    OBVIOUS
  <2>3. /\ GoesOn(h) /\ r.at = "createIntent"
        /\ r.task = handlers[h].task /\ r.me = handlers[h].me
        /\ r.customer = handlers[h].customer
    <3>1. r = [handlers[h] EXCEPT !.at = "createIntent"] /\ IsHandler(handlers[h])
      BY <2>1, <2>2 DEF Goto, CallsFit, HandlersFit
    <3>2. QED
      BY <2>1, <2>2, <3>1, CallGoes DEF CallsFit, IsHandler
  <2>4. handlers[h].task \in {"subscribe", "getSecret"}
    BY DEF NoIntentFound, CallsFit, HandlersFit, Fits, PlaceFits, At
  <2>5. PlaceFits(r) /\ AtFits(r)'
    BY <2>1, <2>3, <2>4 DEF PlaceFits, AtFits, CustomerOf
  <2>6. QED
    BY <1>1, <2>2, <2>3, <2>5, CallKnows
<1>4. QED
  BY <1>2, <1>3

\* The call goes on with the intent that it has created.
LEMMA CreateIntentFits ==
  ASSUME RowsInv, CallsFit, PaidBeforeSuccess, NEW h \in Handlers, CreateIntent(h)
  PROVE  CallsFit'
<1> USE DEF RowsInv
<1>1. /\ IsHandler(handlers[h]) /\ CustomerOf(h) # None
      /\ handlers[h].task \in {"subscribe", "getSecret"}
  BY DEF CreateIntent, CustomerOf, CallsFit, HandlersFit, Fits, PlaceFits, AtFits, At
<1>2. PICK n, place, r :
         /\ n = Len(intents) + 1
         /\ place = IF ForValidation(h) THEN "findIntentPlan" ELSE "saveIntentTx"
         /\ r = [handlers[h] EXCEPT !.intent = n, !.at = place]
  BY ZenonT(30)
<1>3. Continue(h, r) /\ place \in {"findIntentPlan", "saveIntentTx"}
  BY <1>2 DEF CreateIntent
<1>4. /\ UNCHANGED <<txs, subs, customers, events>>
      /\ intents' = Append(intents, NewIntent(CustomerOf(h), n))
  BY <1>2 DEF CreateIntent
<1>5. Kept /\ n \in DOMAIN intents'
  BY <1>1, <1>2, <1>4, IntentAdded DEF TxsFine
<1>6. /\ IsHandler(r) /\ SameCall(handlers[h], r) /\ r.at = place /\ r.intent = n
  BY <1>1, <1>2 DEF IsHandler, SameCall
<1>7. PlaceFits(r) /\ AtFits(r)'
  BY <1>1, <1>3, <1>5, <1>6 DEF PlaceFits, AtFits, SameCall
<1>8. QED
  BY <1>2, <1>3, <1>4, <1>5, <1>6, <1>7, CallContinues, CallKnows DEF CallsFit

\* The intent is kept until the rows are saved.
LEMMA IntentPlanFits ==
  ASSUME RowsInv, CallsFit, Kept, NEW h \in Handlers,
         FindIntentPlan(h) \/ SaveIntentTx(h)
  PROVE  CallsFit'
<1> USE DEF RowsInv
<1>1. /\ IsHandler(handlers[h]) /\ handlers[h].intent \in DOMAIN intents'
      /\ handlers[h].task \in {"subscribe", "getSecret"}
  BY ZenonT(30)
     DEF FindIntentPlan, SaveIntentTx, CallsFit, HandlersFit, Fits, PlaceFits, AtFits, At,
     Kept
<1>2. UNCHANGED events
  BY ZenonT(30) DEF FindIntentPlan, SaveIntentTx
<1>3. CASE End(h)
  BY <1>2, <1>3, CallIsFree DEF Freely
<1>4. CASE ~End(h)
  <2>0. PICK place \in {"saveIntentTx", "savePrePayment"} : \E p, r :
           /\ place = "savePrePayment" => handlers[h].task # "getSecret"
           /\ r = [handlers[h] EXCEPT !.at = place, !.other = p]
           /\ Continue(h, r)
    BY <1>4, ZenonT(30) DEF FindIntentPlan, SaveIntentTx, Show
  <2>1. PICK p, r :
           /\ place = "savePrePayment" => handlers[h].task # "getSecret"
           /\ r = [handlers[h] EXCEPT !.at = place, !.other = p]
           /\ Continue(h, r)
    BY <2>0, ZenonT(30)
  <2>2. /\ IsHandler(r) /\ SameCall(handlers[h], r) /\ r.at = place
        /\ r.intent = handlers[h].intent
    BY <1>1, <2>1 DEF IsHandler, SameCall
  <2>3. PlaceFits(r) /\ AtFits(r)'
    BY <1>1, <2>1, <2>2 DEF PlaceFits, AtFits, SameCall
  <2>4. QED
    BY <1>2, <2>1, <2>2, <2>3, CallContinues, CallKnows DEF CallsFit
<1>5. QED
  BY <1>3, <1>4

\* Every step of a request.
LEMMA RequestStepFits ==
  ASSUME RowsInv, CallsFit, PaidBeforeSuccess, Kept, NEW h \in Handlers, RequestStep(h)
  PROVE  CallsFit'
<1>1. TxRows /\ HandlersFit
  BY DEF RowsInv, CallsFit
<1>2. CASE GoingSteps(h)
  <2>1. UNCHANGED events
    BY <1>2 DEF GoingSteps, FindPlans, FindTrialCard, AttachCard, Supersede, SaveTx,
       SavePrePayment, FindValidation, StoreCustomer, CountPlans, CreateFirstPlan
  <2>2. QED
    BY <1>1, <1>2, <2>1, GoingStepsFree, CallIsFree
<1>3. CASE \/ FindCurrent(h) \/ FindLast(h) \/ DeletePlan(h) \/ FindCard(h) \/ FindPlan(h)
           \/ CreatePlan(h) \/ FindCustomer(h) \/ FindNextPlan(h)
  <2>1. UNCHANGED events
    BY <1>3, ZenonT(30)
       DEF FindCurrent, FindLast, DeletePlan, FindCard, FindPlan, CreatePlan,
       FindCustomer, FindNextPlan
  <2>2. Freely(h)
    BY <1>1, <1>3, FindCurrentFree, FindLastFree, DeletePlanFree, FindCardFree,
       FindPlanFree, CreatePlanFree, FindCustomerFree, FindNextPlanFree
  <2>3. QED
    BY <1>1, <2>1, <2>2, CallIsFree
<1>4. CASE \/ CreateCustomer(h) \/ ReuseIntent(h) \/ NoIntentFound(h)
           \/ CreateIntent(h) \/ FindIntentPlan(h) \/ SaveIntentTx(h)
  BY <1>4, CreateCustomerFits, ReuseIntentFits, NoIntentFoundFits, CreateIntentFits,
     IntentPlanFits
<1>5. QED
  BY <1>2, <1>3, <1>4 DEF RequestStep, GoingSteps

----------------------------------------------------------------------------
(* The steps that calls of several kinds go through.                         *)

\* What comes after the deletion depends on the call.
LEMMA DeleteSubsFits ==
  ASSUME RowsInv, CallsFit, Kept, NEW h \in Handlers, ListSubs(h) \/ DeleteSubs(h)
  PROVE  CallsFit'
<1> USE DEF RowsInv
<1>1. IsHandler(handlers[h]) /\ UNCHANGED events
  BY DEF ListSubs, DeleteSubs, CallsFit, HandlersFit
<1>2. CASE End(h)
  BY <1>1, <1>2, CallIsFree DEF Freely
<1>3. CASE ListSubs(h) /\ ~End(h)
  <2>1. PICK S, r : r = [handlers[h] EXCEPT !.at = "deleteSubs", !.listed = S]
                    /\ Continue(h, r)
    BY <1>3, ZenonT(30) DEF ListSubs
  <2>2. IsHandler(r) /\ SameCall(handlers[h], r) /\ r.at = "deleteSubs"
    BY <1>1, <2>1 DEF IsHandler, SameCall
  <2>3. PlaceFits(r) /\ AtFits(r)'
    BY <2>2 DEF PlaceFits, AtFits, LinksLater
  <2>4. QED
    BY <1>1, <2>1, <2>2, <2>3, CallContinues, CallKnows DEF CallsFit
<1>4. CASE DeleteSubs(h) /\ ~End(h)
  <2> DEFINE next == [handlers[h] EXCEPT !.listed = {}]
  <2>1. PICK place, r :
           /\ \/ /\ place = AfterDelete(handlers[h].task)
                 /\ r = [next EXCEPT !.at = place]
              \/ /\ place = "settle" /\ handlers[h].task = "intentSucceeded"
                 /\ r = [next EXCEPT !.at = place, !.outcome = "FAILED"]
           /\ Continue(h, r)
    BY <1>4, ZenonT(30) DEF DeleteSubs
  <2>2. /\ IsHandler(next) /\ SameCall(handlers[h], next)
        /\ next.task = handlers[h].task
    BY <1>1 DEF IsHandler, SameCall
  <2> HIDE DEF next
  <2>3. /\ IsHandler(r) /\ SameCall(handlers[h], r) /\ r.at = place
        /\ r.task = handlers[h].task
    BY <2>1, <2>2 DEF IsHandler, SameCall
  <2>4. PlaceFits(r) /\ AtFits(r)'
    BY <2>1, <2>3 DEF PlaceFits, AtFits, AfterDelete, LinksLater
  <2>5. QED
    BY <1>1, <2>1, <2>3, <2>4, CallContinues, CallKnows DEF CallsFit
<1>5. QED
  BY <1>2, <1>3, <1>4

\* The new subscription is reported, and is of the user of the call.
LEMMA CreateSubFits ==
  ASSUME RowsInv, CallsFit, PaidBeforeSuccess, NEW h \in Handlers, CreateSub(h)
  PROVE  CallsFit'
<1> USE DEF RowsInv
<1> DEFINE c == handlers[h].me.customer
           n == Len(subs) + 1
           e == [type |-> "customer.subscription.created", about |-> n]
           after == AfterCreate(handlers[h].task)
<1>1. IsHandler(handlers[h]) /\ UNCHANGED <<txs, intents, customers>>
  BY DEF CreateSub, CallsFit, HandlersFit
<1>2. CASE c = None
  <2>1. End(h) /\ UNCHANGED <<subs, events>>
    BY <1>2 DEF CreateSub
  <2>2. Kept
    BY <1>1, <2>1, TablesStay DEF tables
  <2>3. QED
    BY <2>1, <2>2, CallIsFree DEF Freely
<1>3. CASE c # None
  <2>1. /\ subs' = Append(subs, [live |-> TRUE, customer |-> c])
        /\ events' = [events EXCEPT !.pending = @ \cup {e}]
        /\ IF after = "end" THEN End(h) ELSE Goto(h, after)
    BY <1>3 DEF CreateSub
  <2>2. Kept /\ n \in Nat /\ n \in DOMAIN subs' /\ subs'[n].customer = c
    BY <1>1, <1>3, <2>1, SubAdded DEF TxsFine
  <2>3. PICK m : m = n
    OBVIOUS
  <2>4. PICK f : f = [type |-> "customer.subscription.created", about |-> m]
    OBVIOUS
  <2>5. EventsReported'
    <3>1. \/ events' = [events EXCEPT !.pending = @ \cup {f}]
          \/ events' = [events EXCEPT !.acked = @ \cup {f}]
      BY <2>1, <2>3, <2>4
    <3>2. f.about = m /\ f.type = "customer.subscription.created"
      BY <2>4
    <3>3. Reported(f)'
      BY <2>2, <2>3, <3>2 DEF Reported, EventType
    <3>4. \A g \in {f} : Reported(g)'
      BY <3>3
    <3>5. QED
      BY <2>2, <3>1, <3>4, EventsAdded DEF CallsFit
  <2>6. HandlersFit'
    <3>1. CASE after = "end"
      BY <2>1, <2>2, <3>1, CallEnds DEF CallsFit
    <3>2. CASE after # "end"
      <4>1. PICK r : r = handlers'[h]
        OBVIOUS
      <4>2. /\ r.at = after /\ r.task = handlers[h].task /\ r.user = handlers[h].user
            /\ GoesOn(h)
        BY <2>1, <3>2, <4>1, CallGoes DEF CallsFit, GoesOn, SameCall
      <4>3. ASSUME r.task = "renovate", r.user \in Users
            PROVE  \E s \in DOMAIN subs' : Owns(r.user, subs[s].customer)'
        <5>1. Owns(r.user, c)
          BY <1>3, <4>2, <4>3 DEF CallsFit, HandlersFit, Fits, CallFits
        <5>2. Owns(r.user, subs[m].customer)'
          BY <2>2, <2>3, <5>1 DEF Owns, Kept
        <5>3. QED
          BY <2>2, <2>3, <5>2
      <4>4. PlaceFits(r) /\ AtFits(r)'
        BY <3>2, <4>2, <4>3 DEF PlaceFits, AtFits, AfterCreate
      <4>5. QED
        BY <2>2, <4>1, <4>2, <4>4, CallGoesOn DEF CallsFit
    <3>3. QED
      BY <3>1, <3>2
  <2>7. QED
    BY <2>5, <2>6 DEF CallsFit
<1>4. QED
  BY <1>2, <1>3

\* An activation goes on, or fails in the way of its call.
LEMMA ActivateFits ==
  ASSUME RowsInv, CallsFit, Kept, NEW h \in Handlers,
         Deactivate(h) \/ Activate(h) \/ ActivateFails(h)
  PROVE  CallsFit'
<1> USE DEF RowsInv
<1>1. /\ IsHandler(handlers[h])
      /\ handlers[h].task \in {"intentSucceeded", "subscriptionCreated", "cron"}
  BY DEF Deactivate, Activate, ActivateFails, CallsFit, HandlersFit, Fits, PlaceFits, At
<1>2. CASE Deactivate(h) \/ Activate(h)
  <2>1. handlers[h].task = "subscriptionCreated" => handlers[h].plan # None
    BY <1>2 DEF Deactivate, Activate, CallsFit, HandlersFit, Fits, PlaceFits, At, LinksLater
  <2>2. Freely(h)
    BY <1>1, <1>2, <2>1, CallGoes
       DEF Deactivate, Activate, Freely, CallsFit, PlaceFits, Demanding
  <2>3. QED
    BY <1>2, <2>2, CallIsFree DEF Deactivate, Activate
<1>3. CASE ActivateFails(h) /\ handlers[h].task = "intentSucceeded"
  <2>1. PICK r : r = [handlers[h] EXCEPT !.at = "settle", !.outcome = "FAILED"]
    OBVIOUS
  <2>2. Continue(h, r) /\ UNCHANGED events
    BY <1>3, <2>1 DEF ActivateFails
  <2>3. /\ IsHandler(r) /\ SameCall(handlers[h], r) /\ r.at = "settle"
        /\ r.task = "intentSucceeded"
    BY <1>1, <1>3, <2>1 DEF IsHandler, SameCall
  <2>4. PlaceFits(r) /\ AtFits(r)'
    BY <2>3 DEF PlaceFits, AtFits
  <2>5. QED
    BY <2>2, <2>3, <2>4, CallContinues, CallKnows DEF CallsFit
<1>4. CASE ActivateFails(h) /\ handlers[h].task = "subscriptionCreated"
  <2>1. Reject(h) /\ Reported(handlers[h].event)
    BY <1>4 DEF ActivateFails, CallsFit, HandlersFit, Fits, EventFits
  <2>2. QED
    BY <2>1, CallAnswers
<1>5. CASE ActivateFails(h) /\ handlers[h].task = "cron"
  BY <1>5, ProcessRestarts DEF ActivateFails
<1>6. QED
  BY <1>1, <1>2, <1>3, <1>4, <1>5

\* Every shared step.
LEMMA SharedStepFits ==
  ASSUME RowsInv, CallsFit, PaidBeforeSuccess, Kept, NEW h \in Handlers, SharedStep(h)
  PROVE  CallsFit'
<1>1. CASE SetStatus(h) \/ DropNext(h)
  BY <1>1, CallIsFree DEF SetStatus, DropNext, Freely, RowsInv
<1>2. CASE ~(SetStatus(h) \/ DropNext(h))
  BY <1>2, DeleteSubsFits, CreateSubFits, ActivateFits DEF SharedStep
<1>3. QED
  BY <1>1, <1>2

----------------------------------------------------------------------------
(* The steps of webhooks.                                                    *)

\* A call that goes on with what it has learned from the tables.
LEMMA CallLearns ==
  ASSUME CallsFit, TxRows, Kept, NEW h \in Handlers, UNCHANGED events,
         NEW r, Continue(h, r), IsHandler(r), Fits(r)
  PROVE  CallsFit'
<1>1. handlers'[h] = r /\ Moves(h)
  BY DEF Continue, Moves, CallsFit, HandlersFit
<1>2. Fits(r)'
  BY FitsKept
<1>3. HandlersFit'
  BY <1>1, <1>2, CallMoves DEF CallsFit
<1>4. QED
  BY <1>3, EventsStay DEF CallsFit

WebhookTask == {"intentSucceeded", "intentFailed", "subscriptionCreated"}

\* The report that a webhook answers is so.
LEMMA WebhookAnswers ==
  ASSUME CallsFit, TxRows, Kept, NEW h \in Handlers, handlers[h].task \in WebhookTask,
         Acknowledge(h) \/ Reject(h)
  PROVE  CallsFit'
<1>1. Reported(handlers[h].event)
  BY DEF CallsFit, HandlersFit, Fits, EventFits, WebhookTask
<1>2. QED
  BY <1>1, CallAnswers

WebhookGoingSteps(h) ==
    \/ SaveCard(h) \/ SetActive(h) \/ StoreTariff(h) \/ CancelOthers(h)
    \/ FindFailedTx(h) \/ ReadPlan(h) \/ StoreNext(h) \/ LinkTx(h)

\* The steps of webhooks that only go to another place, or reject.
LEMMA WebhookGoingFits ==
  ASSUME RowsInv, CallsFit, Kept, NEW h \in Handlers, WebhookGoingSteps(h)
  PROVE  CallsFit'
<1> USE DEF RowsInv
<1>1. PlaceFits(handlers[h]) /\ handlers[h].task \in WebhookTask
  BY DEF WebhookGoingSteps, SaveCard, SetActive, StoreTariff, CancelOthers, FindFailedTx,
     ReadPlan, StoreNext, LinkTx, CallsFit, HandlersFit, Fits, PlaceFits, At, WebhookTask
<1>2. CASE Reject(h)
  BY <1>1, <1>2, WebhookAnswers
<1>3. CASE ~Reject(h)
  <2>1. /\ UNCHANGED events
        /\ \/ Goto(h, "listSubs")
           \/ /\ handlers[h].task = "intentSucceeded"
              /\ \E place \in {"refund", "createPaidPlan", "settle", "settleRows",
                               "deactivate"} : Goto(h, place)
           \/ /\ handlers[h].task = "intentFailed"
              /\ \E place \in {"failValidation", "findDebtor"} : Goto(h, place)
           \/ /\ handlers[h].task = "subscriptionCreated"
              /\ \E place \in {"linkTx", "setActive", "settle", "settleRows",
                               "deactivate", "storeNext"} : Goto(h, place)
              /\ handlers[h].plan # None \/ Goto(h, "settleRows")
    BY <1>1, <1>3, ZenonT(30)
       DEF WebhookGoingSteps, SaveCard, SetActive, StoreTariff, CancelOthers, FindFailedTx,
           ReadPlan, StoreNext, LinkTx, PlaceFits, At, AfterRefund, AfterTariff, LinksLater
  <2>2. Freely(h)
    BY <2>1, CallGoes DEF CallsFit, Freely, PlaceFits, Demanding, LinksLater
  <2>3. QED
    BY <2>1, <2>2, CallIsFree
<1>4. QED
  BY <1>2, <1>3

\* After the refund the call settles or creates a plan.
LEMMA RefundFits ==
  ASSUME RowsInv, CallsFit, Kept, NEW h \in Handlers, Refund(h) \/ CreatePaidPlan(h)
  PROVE  CallsFit'
<1> USE DEF RowsInv
<1>1. /\ IsHandler(handlers[h]) /\ UNCHANGED events
      /\ handlers[h].task = "intentSucceeded"
  BY DEF Refund, CreatePaidPlan, CallsFit, HandlersFit, Fits, PlaceFits, At
<1>2. CASE \E place \in {"createPaidPlan", "settle"} : Goto(h, place)
  <2>1. Freely(h)
    BY <1>1, <1>2, CallGoes DEF CallsFit, Freely, PlaceFits, Demanding
  <2>2. QED
    BY <1>1, <2>1, CallIsFree
<1>3. ASSUME NEW r, Continue(h, r), IsHandler(r), SameCall(handlers[h], r),
             r.at \in {"settle", "setActive"}
      PROVE  CallsFit'
  <2>1. Freely(h)
    BY <1>1, <1>3, CallContinues DEF CallsFit, Freely, PlaceFits, Demanding, SameCall
  <2>2. QED
    BY <1>1, <2>1, CallIsFree
<1>4. CASE Continue(h, [handlers[h] EXCEPT !.at = "settle", !.outcome = "FAILED"])
  <2>1. PICK r : r = [handlers[h] EXCEPT !.at = "settle", !.outcome = "FAILED"]
    OBVIOUS
  <2>2. IsHandler(r) /\ SameCall(handlers[h], r) /\ r.at = "settle"
    BY <1>1, <2>1 DEF IsHandler, SameCall
  <2>3. QED
    BY <1>3, <1>4, <2>1, <2>2
<1>5. CASE CreatePaidPlan(h)
  <2>1. PICK n, r : n = Len(plans) + 1 /\ r = [handlers[h] EXCEPT !.at = "setActive", !.plan = n]
    BY ZenonT(30)
  <2>2. Continue(h, r)
    BY <1>5, <2>1 DEF CreatePaidPlan
  <2>3. IsHandler(r) /\ SameCall(handlers[h], r) /\ r.at = "setActive"
    BY <1>1, <2>1 DEF IsHandler, SameCall
  <2>4. QED
    BY <1>3, <2>2, <2>3
<1>6. QED
  BY <1>2, <1>4, <1>5 DEF Refund, AfterRefund

\* The row of the event is found by one of its two intents.
LEMMA FindTxFits ==
  ASSUME RowsInv, CallsFit, Kept, NEW h \in Handlers, FindTx(h)
  PROVE  CallsFit'
<1> USE DEF RowsInv
<1>1. /\ IsHandler(handlers[h]) /\ Fits(handlers[h])
      /\ handlers[h].task = "intentSucceeded" /\ About(h) \in Nat
  BY WebhookKnows, ZenonT(30) DEF FindTx, CallsFit, HandlersFit, Fits, PlaceFits, At
<1>2. CASE Reject(h)
  BY <1>1, <1>2, WebhookAnswers DEF WebhookTask
<1>3. CASE ~Reject(h)
  <2>1. PICK t \in TxsByIntent(About(h)) :
           /\ Continue(h, [handlers[h] EXCEPT
                  !.at = "findPayer", !.tx = t, !.plan = txs[t].plan,
                  !.replaces = (txs[t].newIntent = About(h))])
           /\ UNCHANGED events
    BY <1>3, ZenonT(30) DEF FindTx
  <2>2. /\ t \in DOMAIN txs /\ txs[t].intent # None
        /\ intents[txs[t].intent].origin = intents[About(h)].origin
    BY <1>1, TxOfIntent
  <2>3. PICK plan, found : plan = txs[t].plan /\ found = (txs[t].newIntent = About(h))
    OBVIOUS
  <2>4. PICK r : r = [handlers[h] EXCEPT !.at = "findPayer", !.tx = t, !.plan = plan,
                                         !.replaces = found]
    OBVIOUS
  <2>5. Continue(h, r)
    BY <2>1, <2>3, <2>4
  <2>6. /\ IsHandler(r) /\ r.at = "findPayer" /\ r.task = handlers[h].task
        /\ r.user = handlers[h].user /\ r.me = handlers[h].me
        /\ r.event = handlers[h].event /\ r.outcome = handlers[h].outcome /\ r.tx = t
    BY <1>1, <2>4 DEF IsHandler
  <2>7. Fits(r)
    <3>1. PlaceFits(r) /\ AtFits(r)
      BY <1>1, <2>6 DEF PlaceFits, AtFits
    <3>2. EventFits(r)
      BY <1>1, <2>6 DEF Fits, EventFits
    <3>3. CallFits(r)
      BY <1>1, <2>2, <2>6 DEF Fits, CallFits, About
    <3>4. QED
      BY <3>1, <3>2, <3>3 DEF Fits
  <2>8. QED
    BY <2>1, <2>5, <2>6, <2>7, CallLearns
<1>4. QED
  BY <1>2, <1>3

\* The row of a subscription is taken as found.
LEMMA FindPendingTxFits ==
  ASSUME RowsInv, CallsFit, Kept, NEW h \in Handlers, FindPendingTx(h)
  PROVE  CallsFit'
<1> USE DEF RowsInv
<1>1. /\ IsHandler(handlers[h]) /\ Fits(handlers[h])
      /\ handlers[h].task = "subscriptionCreated"
  BY ZenonT(30) DEF FindPendingTx, CallsFit, HandlersFit, Fits, PlaceFits, At
<1>2. CASE Reject(h)
  BY <1>1, <1>2, WebhookAnswers DEF WebhookTask
<1>3. CASE ~Reject(h)
  <2>0. PICK t \in PendingTxs(handlers[h].user, Subscription) : \E plan, r :
           /\ plan = txs[t].plan
           /\ r = [handlers[h] EXCEPT !.at = "readPlan", !.tx = t, !.plan = plan]
           /\ Continue(h, r) /\ UNCHANGED events
    BY <1>3, ZenonT(30) DEF FindPendingTx
  <2>1. PICK plan, r :
           /\ plan = txs[t].plan
           /\ r = [handlers[h] EXCEPT !.at = "readPlan", !.tx = t, !.plan = plan]
           /\ Continue(h, r) /\ UNCHANGED events
    BY <2>0, ZenonT(30)
  <2>2. /\ IsHandler(r) /\ r.at = "readPlan" /\ r.task = handlers[h].task
        /\ r.user = handlers[h].user /\ r.me = handlers[h].me
        /\ r.event = handlers[h].event /\ r.outcome = handlers[h].outcome
        /\ r.replaces = handlers[h].replaces /\ r.tx = t /\ r.plan = plan
    BY <1>1, <2>1 DEF IsHandler
  <2>3. plan # None => t \in DOMAIN txs /\ txs[t].intent = None
    BY <2>0, <2>1 DEF PendingTxs, TxsOf, TxRows
  <2>4. Fits(r)
    BY <1>1, <2>2, <2>3 DEF Fits, PlaceFits, AtFits, EventFits, CallFits, LinksLater
  <2>5. QED
    BY <2>1, <2>2, <2>4, CallLearns
<1>4. QED
  BY <1>2, <1>3

\* The customer of an object of Stripe leads to the user that it was made for.
LEMMA UserFound ==
  ASSUME RowsInv, NEW h \in Handlers, NEW c, c # None, NEW next,
         FindUser(h, c, next), ~Reject(h)
  PROVE  \E u \in Users : \E me :
            /\ Continue(h, [handlers[h] EXCEPT !.at = next, !.user = u, !.me = me])
            /\ me.customer = c /\ Owns(u, c)
            /\ UNCHANGED events
<1>1. PICK u \in UsersByCustomer(c) :
         /\ Continue(h, [handlers[h] EXCEPT !.at = next, !.user = u, !.me = users[u]])
         /\ UNCHANGED events
  BY ZenonT(30) DEF FindUser
<1>2. u \in Users /\ users[u].customer = c /\ Owns(u, c)
  BY <1>1 DEF UsersByCustomer, RowsInv, UserRows
<1>3. PICK me : me = users[u]
  OBVIOUS
<1>4. QED
  BY <1>1, <1>2, <1>3, ZenonT(30)

\* The three webhooks find their users by customer.
LEMMA FindPayerFits ==
  ASSUME RowsInv, CallsFit, Kept, NEW h \in Handlers,
         FindPayer(h) \/ FindDebtor(h) \/ FindSubscriber(h)
  PROVE  CallsFit'
<1> USE DEF RowsInv
<1>1. /\ IsHandler(handlers[h]) /\ Fits(handlers[h])
      /\ handlers[h].task \in WebhookTask
  BY DEF FindPayer, FindDebtor, FindSubscriber, CallsFit, HandlersFit, Fits, PlaceFits, At,
     WebhookTask
<1>2. CASE Reject(h)
  BY <1>1, <1>2, WebhookAnswers
<1>3. CASE ~Reject(h)
  <2>1. PICK c, next :
           /\ FindUser(h, c, next) /\ c # None
           /\ \/ /\ next = "saveCard" /\ handlers[h].task = "intentSucceeded"
                 /\ c = intents[About(h)].customer
              \/ /\ next = "replaceIntent" /\ handlers[h].task = "intentFailed"
                 /\ c = intents[About(h)].customer
              \/ /\ next = "findPendingTx" /\ handlers[h].task = "subscriptionCreated"
                 /\ c = subs[About(h)].customer
    <3>1. CASE FindPayer(h)
      BY <1>1, <3>1, WebhookKnows
         DEF FindPayer, CallsFit, Fits, PlaceFits, At, StripeRows
    <3>2. CASE FindDebtor(h)
      BY <1>1, <3>2, WebhookKnows
         DEF FindDebtor, CallsFit, Fits, PlaceFits, At, StripeRows
    <3>3. CASE FindSubscriber(h)
      BY <1>1, <3>3, WebhookKnows
         DEF FindSubscriber, CallsFit, Fits, PlaceFits, At, StripeRows
    <3>4. QED
      BY <3>1, <3>2, <3>3
  <2>0. PICK u \in Users : \E me :
           /\ Continue(h, [handlers[h] EXCEPT !.at = next, !.user = u, !.me = me])
           /\ me.customer = c /\ Owns(u, c)
           /\ UNCHANGED events
    BY <1>3, <2>1, UserFound, ZenonT(30)
  <2>2. PICK me :
           /\ Continue(h, [handlers[h] EXCEPT !.at = next, !.user = u, !.me = me])
           /\ me.customer = c /\ Owns(u, c)
           /\ UNCHANGED events
    BY <2>0, ZenonT(30)
  <2>3. PICK r : r = [handlers[h] EXCEPT !.at = next, !.user = u, !.me = me]
    OBVIOUS
  <2>4. /\ IsHandler(r) /\ r.at = next /\ r.task = handlers[h].task
        /\ r.user = u /\ r.me = me
        /\ r.event = handlers[h].event /\ r.outcome = handlers[h].outcome
        /\ r.replaces = handlers[h].replaces /\ r.tx = handlers[h].tx
        /\ r.plan = handlers[h].plan
    BY <1>1, <2>3 DEF IsHandler
  <2>5. PlaceFits(r) /\ EventFits(r)
    BY <1>1, <2>1, <2>4 DEF Fits, PlaceFits, EventFits, LinksLater
  <2>6. AtFits(r)
    BY <2>1, <2>2, <2>4 DEF AtFits
  <2>7. CallFits(r)
    BY <1>1, <2>1, <2>2, <2>4 DEF Fits, CallFits, About
  <2>8. QED
    BY <2>2, <2>3, <2>4, <2>5, <2>6, <2>7, CallLearns DEF Fits
<1>4. QED
  BY <1>2, <1>3

\* The last step of two webhooks is the answer.
LEMMA SettleFits ==
  ASSUME RowsInv, CallsFit, Kept, NEW h \in Handlers, SettleById(h) \/ SettleRows(h)
  PROVE  CallsFit'
<1>1. handlers[h].task \in WebhookTask
  BY ZenonT(30)
     DEF SettleById, SettleRows, CallsFit, HandlersFit, Fits, PlaceFits, At, WebhookTask
<1>2. QED
  BY <1>1, WebhookAnswers, ZenonT(30) DEF SettleById, SettleRows, RowsInv

\* The handler of a failed payment runs again, with the event only.
LEMMA FailFits ==
  ASSUME RowsInv, CallsFit, Kept, NEW h \in Handlers, FailValidation(h) \/ FailTx(h)
  PROVE  CallsFit'
<1> USE DEF RowsInv
<1>1. Fits(handlers[h]) /\ handlers[h].task = "intentFailed"
  BY ZenonT(30) DEF FailValidation, FailTx, CallsFit, HandlersFit, Fits, PlaceFits, At
<1>2. CASE Acknowledge(h)
  BY <1>1, <1>2, WebhookAnswers DEF WebhookTask
<1>3. CASE ~Acknowledge(h)
  <2>1. PICK e : e = handlers[h].event
    OBVIOUS
  <2>2. PICK r : r = [IdleHandler EXCEPT !.task = "intentFailed", !.at = "findFailedTx",
                                         !.event = e, !.round = 2]
    OBVIOUS
  <2>3. Continue(h, r) /\ UNCHANGED events
    BY <1>3, <2>1, <2>2, ZenonT(30) DEF FailValidation, FailTx, FailedOnce
  <2>4. /\ IsHandler(r) /\ r.at = "findFailedTx" /\ r.task = "intentFailed"
        /\ r.user = None /\ r.me = None /\ r.event = e /\ r.replaces = FALSE
        /\ r.outcome = "SUCCESS"
    BY <2>2 DEF IdleHandler, IsHandler
  <2>5. PlaceFits(r) /\ EventFits(r)
    BY <1>1, <2>1, <2>4 DEF Fits, PlaceFits, EventFits
  <2>6. AtFits(r) /\ CallFits(r)
    BY <2>4, NoneAssumption DEF AtFits, CallFits
  <2>7. QED
    BY <2>3, <2>4, <2>5, <2>6, CallLearns DEF Fits
<1>4. QED
  BY <1>2, <1>3

\* The row that fails is found by one of its two intents.
LEMMA FindRowToFailFits ==
  ASSUME RowsInv, CallsFit, Kept, NEW h \in Handlers, FindRowToFail(h)
  PROVE  CallsFit'
<1> USE DEF RowsInv
<1>1. /\ IsHandler(handlers[h]) /\ Fits(handlers[h])
      /\ handlers[h].task = "intentFailed" /\ About(h) \in Nat
  BY WebhookKnows, ZenonT(30) DEF FindRowToFail, CallsFit, HandlersFit, Fits, PlaceFits, At
<1>2. CASE Reject(h)
  BY <1>1, <1>2, WebhookAnswers DEF WebhookTask
<1>3. CASE ~Reject(h)
  <2>1. PICK place : /\ place = IF At(h, "failTx") THEN "failTxRow" ELSE "failValidationRow"
                     /\ place = "failTxRow" => handlers[h].at = "failTx"
                     /\ place \in {"failTxRow", "failValidationRow"}
    BY DEF At
  <2>2. PICK t \in TxsByIntent(About(h)) :
           /\ Continue(h, [handlers[h] EXCEPT !.tx = t, !.at = place])
           /\ UNCHANGED events
    BY <1>3, <2>1, ZenonT(30) DEF FindRowToFail
  <2>3. /\ t \in DOMAIN txs /\ txs[t].intent # None
        /\ intents[txs[t].intent].origin = intents[About(h)].origin
    BY <1>1, TxOfIntent
  <2>4. PICK r : r = [handlers[h] EXCEPT !.tx = t, !.at = place]
    OBVIOUS
  <2>5. /\ IsHandler(r) /\ r.at = place /\ r.task = handlers[h].task
        /\ r.user = handlers[h].user /\ r.me = handlers[h].me /\ r.tx = t
        /\ r.event = handlers[h].event /\ r.outcome = handlers[h].outcome
        /\ r.intent = handlers[h].intent /\ r.replaces = handlers[h].replaces
    BY <1>1, <2>4 DEF IsHandler
  <2>6. Fits(r)
    <3>1. PlaceFits(r)
      BY <1>1, <2>1, <2>5 DEF PlaceFits, LinksLater
    <3>2. EventFits(r)
      BY <1>1, <2>5 DEF Fits, EventFits
    <3>3. AtFits(r)
      BY <1>1, <2>1, <2>3, <2>5 DEF Fits, AtFits, About
    <3>4. CallFits(r)
      BY <1>1, <2>5 DEF Fits, CallFits
    <3>5. QED
      BY <3>1, <3>2, <3>3, <3>4 DEF Fits
  <2>7. QED
    BY <2>2, <2>4, <2>5, <2>6, CallLearns
<1>4. QED
  BY <1>2, <1>3

\* The replacement has the origin of the intent that failed.
LEMMA ReplaceIntentFits ==
  ASSUME RowsInv, CallsFit, PaidBeforeSuccess, NEW h \in Handlers, ReplaceIntent(h)
  PROVE  CallsFit'
<1> USE DEF RowsInv
<1>1. /\ IsHandler(handlers[h]) /\ Fits(handlers[h])
      /\ handlers[h].me.customer # None /\ handlers[h].task = "intentFailed"
  BY DEF ReplaceIntent, CallsFit, HandlersFit, Fits, PlaceFits, AtFits, At
<1>2. PICK n, origin, about : /\ n = Len(intents) + 1 /\ about = About(h)
                              /\ origin = intents[about].origin
  OBVIOUS
<1>3. PICK r : r = [handlers[h] EXCEPT !.at = "failTx", !.intent = n]
  OBVIOUS
<1>4. /\ Continue(h, r) /\ UNCHANGED <<txs, subs, customers, events>>
      /\ intents' = Append(intents, NewIntent(handlers[h].me.customer, origin))
  BY <1>2, <1>3 DEF ReplaceIntent
<1>5. Kept /\ n \in DOMAIN intents' /\ intents'[n].origin = origin
  BY <1>1, <1>2, <1>4, IntentAdded DEF TxsFine
<1>6. about \in DOMAIN intents /\ intents'[about].origin = origin
  BY <1>1, <1>2, <1>5, WebhookKnows DEF CallsFit, Kept
<1>7. /\ IsHandler(r) /\ SameCall(handlers[h], r) /\ r.at = "failTx"
      /\ r.task = "intentFailed" /\ r.intent = n /\ r.event.about = about
  BY <1>1, <1>2, <1>3 DEF IsHandler, SameCall, About
<1>8. PlaceFits(r) /\ AtFits(r)'
  BY <1>5, <1>6, <1>7 DEF PlaceFits, AtFits
<1>9. QED
  BY <1>4, <1>5, <1>7, <1>8, CallContinues, CallKnows DEF CallsFit

\* Every step of a webhook.
LEMMA WebhookStepFits ==
  ASSUME RowsInv, CallsFit, PaidBeforeSuccess, Kept, NEW h \in Handlers, WebhookStep(h)
  PROVE  CallsFit'
<1>1. CASE WebhookGoingSteps(h)
  BY <1>1, WebhookGoingFits
<1>2. CASE ~WebhookGoingSteps(h)
  BY <1>2, RefundFits, FindTxFits, FindPendingTxFits, FindPayerFits, SettleFits, FailFits,
     FindRowToFailFits, ReplaceIntentFits DEF WebhookStep, WebhookGoingSteps
<1>3. QED
  BY <1>1, <1>2

----------------------------------------------------------------------------
(* The steps of the cron.                                                    *)

\* A callback of the cron knows nothing that could change.
LEMMA CronGoes ==
  ASSUME RowsInv, CallsFit, Kept, NEW h \in Handlers, handlers[h].task = "cron",
         UNCHANGED events, NEW r, Continue(h, r), IsHandler(r), r.task = "cron",
         r.event = handlers[h].event, r.replaces = handlers[h].replaces,
         r.outcome = handlers[h].outcome,
         r.at \in {"cronPlan", "cronRequire", "cronExpire", "cronSuspend", "cronLast",
                   "cronCreate", "cronTariff", "deactivate"}
  PROVE  CallsFit'
<1>1. Fits(handlers[h])
  BY DEF CallsFit, HandlersFit
<1>2. Fits(r)
  BY <1>1 DEF Fits, PlaceFits, EventFits, AtFits, CallFits
<1>3. QED
  BY <1>2, CallLearns DEF RowsInv

\* Every step of the cron.
LEMMA CronStepFits ==
  ASSUME RowsInv, CallsFit, Kept, NEW h \in Handlers, CronStep(h)
  PROVE  CallsFit'
<1>1. IsHandler(handlers[h]) /\ handlers[h].task = "cron"
  BY ZenonT(30)
     DEF CronStep, CronUser, CronPlan, CronStatus, CronLast, CronCreate, CronTariff,
     Chosen, CallsFit, HandlersFit, Fits, PlaceFits, At
<1>2. CASE CronStatus(h) \/ CronTariff(h)
  <2>1. Freely(h) /\ UNCHANGED events
    BY <1>1, <1>2, CallGoes
       DEF CronStatus, CronTariff, Freely, CallsFit, PlaceFits, Demanding
  <2>2. QED
    BY <2>1, CallIsFree DEF RowsInv
<1>3. CASE CronLast(h) /\ Restart
  BY <1>3, ProcessRestarts DEF RowsInv
<1>4. CASE CronUser(h)
  <2>1. PICK me, r : /\ me = users[handlers[h].user]
                     /\ r = [handlers[h] EXCEPT !.at = "cronPlan", !.me = me]
    BY ZenonT(30)
  <2>2. Continue(h, r) /\ UNCHANGED events
    BY <1>4, <2>1 DEF CronUser
  <2>3. /\ IsHandler(r) /\ r.task = "cron" /\ r.at = "cronPlan"
        /\ r.event = handlers[h].event /\ r.replaces = handlers[h].replaces
        /\ r.outcome = handlers[h].outcome
    BY <1>1, <2>1 DEF IsHandler
  <2>4. QED
    BY <1>1, <2>2, <2>3, CronGoes
<1>5. CASE CronPlan(h)
  <2>1. PICK p, place, r :
           /\ place = IF p = None THEN "cronLast" ELSE AfterPlan(p)
           /\ r = [handlers[h] EXCEPT !.plan = p, !.at = place]
           /\ Continue(h, r) /\ UNCHANGED events
    BY <1>5, ZenonT(30) DEF CronPlan
  <2>2. /\ IsHandler(r) /\ r.task = "cron" /\ r.at = place
        /\ r.event = handlers[h].event /\ r.replaces = handlers[h].replaces
        /\ r.outcome = handlers[h].outcome
    BY <1>1, <2>1 DEF IsHandler
  <2>3. place \in {"cronLast", "cronRequire", "cronExpire", "cronSuspend", "cronTariff"}
    BY <2>1 DEF AfterPlan, AfterDays
  <2>4. QED
    BY <1>1, <2>1, <2>2, <2>3, CronGoes
<1>6. CASE CronLast(h) /\ ~Restart
  <2>1. PICK last, r : /\ last = LastForUser(handlers[h].user)
                       /\ r = [handlers[h] EXCEPT !.at = "cronCreate", !.other = last]
    BY ZenonT(30)
  <2>2. Continue(h, r) /\ UNCHANGED events
    BY <1>6, <2>1 DEF CronLast
  <2>3. /\ IsHandler(r) /\ r.task = "cron" /\ r.at = "cronCreate"
        /\ r.event = handlers[h].event /\ r.replaces = handlers[h].replaces
        /\ r.outcome = handlers[h].outcome
    BY <1>1, <2>1 DEF IsHandler
  <2>4. QED
    BY <1>1, <2>2, <2>3, CronGoes
<1>7. CASE CronCreate(h)
  <2>1. PICK n, r : /\ n = Len(plans) + 1
                    /\ r = [handlers[h] EXCEPT !.at = "deactivate", !.other = None,
                                               !.plan = n]
    BY ZenonT(30)
  <2>2. Continue(h, r) /\ UNCHANGED events
    BY <1>7, <2>1 DEF CronCreate
  <2>3. /\ IsHandler(r) /\ r.task = "cron" /\ r.at = "deactivate"
        /\ r.event = handlers[h].event /\ r.replaces = handlers[h].replaces
        /\ r.outcome = handlers[h].outcome
    BY <1>1, <2>1 DEF IsHandler
  <2>4. QED
    BY <1>1, <2>2, <2>3, CronGoes
<1>8. QED
  BY <1>2, <1>3, <1>4, <1>5, <1>6, <1>7 DEF CronStep

----------------------------------------------------------------------------
(* How calls begin.                                                          *)

\* A request begins with the record of its user.
LEMMA CallBegins ==
  ASSUME RowsInv, CallsFit, Kept, NEW h \in Handlers, NEW u \in Users, NEW endpoint,
         NEW q, Call(h, u, endpoint, q), IsHandler(q), q.event = None, q.replaces = FALSE,
         q.outcome = "SUCCESS",
         \/ q.task = "subscribe" /\ q.at \in {"findCard", "findPlans", "findTrialCard"}
         \/ q.task = "getSecret" /\ q.at \in {"findCustomer", "findValidation"}
         \/ q.task = "cancelNext" /\ q.at = "findNextPlan"
         \/ q.task = "unsubscribe" /\ q.at = "listSubs"
         \/ q.task = "renovate" /\ q.at = "createSub"
         \/ q.task = "initialize" /\ q.at = "countPlans"
  PROVE  CallsFit'
<1> USE DEF RowsInv
<1>1. PICK me, r : me = users[u] /\ r = [q EXCEPT !.user = u, !.me = me]
  BY ZenonT(30)
<1>2. Continue(h, r) /\ UNCHANGED events
  BY <1>1 DEF Call
<1>3. /\ IsHandler(r) /\ r.task = q.task /\ r.at = q.at /\ r.user = u /\ r.me = me
      /\ r.event = None /\ r.replaces = FALSE /\ r.outcome = "SUCCESS"
  BY <1>1 DEF IsHandler
<1>4. me.customer # None => Owns(u, me.customer)
  BY <1>1 DEF UserRows
<1>5. PlaceFits(r) /\ EventFits(r) /\ AtFits(r) /\ CallFits(r)
  BY <1>3, <1>4 DEF PlaceFits, EventFits, AtFits, CallFits
<1>6. QED
  BY <1>2, <1>3, <1>5, CallLearns DEF Fits

\* Every request.
LEMMA RequestFits ==
  ASSUME RowsInv, CallsFit, Kept, NEW h \in Handlers, Request(h)
  PROVE  CallsFit'
<1>1. PICK u \in Users :
         \/ SubscribeRequest(h, u) \/ SetTrialRequest(h, u)
         \/ \E t \in Tariffs : SwitchRequest(h, u, t) \/ SecretRequest(h, u, t)
         \/ ValidationRequest(h, u) \/ CancelNextRequest(h, u)
         \/ UnsubscribeRequest(h, u) \/ RenovateRequest(h, u) \/ InitializeRequest(h, u)
  BY DEF Request
<1>2. ASSUME NEW t, NEW place \in {"findCard", "findPlans", "findTrialCard"}, NEW endpoint,
             Call(h, u, endpoint, [IdleHandler EXCEPT
                !.task = "subscribe", !.at = place, !.type = "SUBSCRIPTION",
                !.tariff = t])
      PROVE  CallsFit'
  <2>1. PICK q : q = [IdleHandler EXCEPT
                !.task = "subscribe", !.at = place, !.type = "SUBSCRIPTION",
                !.tariff = t]
    OBVIOUS
  <2>2. /\ IsHandler(q) /\ q.task = "subscribe" /\ q.at = place
        /\ q.event = None /\ q.replaces = FALSE /\ q.outcome = "SUCCESS"
    BY <2>1 DEF IdleHandler, IsHandler
  <2>3. QED
    BY <1>2, <2>1, <2>2, CallBegins
<1>3. CASE SubscribeRequest(h, u) \/ SetTrialRequest(h, u)
  <2>1. PICK t : t = users[u].tariff
    OBVIOUS
  <2>2. QED
    BY <1>2, <1>3, <2>1, ZenonT(30) DEF SubscribeRequest, SetTrialRequest
<1>4. CASE \E t \in Tariffs : SwitchRequest(h, u, t)
  BY <1>2, <1>4, ZenonT(30) DEF SwitchRequest
<1>5. CASE \E t \in Tariffs : SecretRequest(h, u, t)
  <2>1. PICK t \in Tariffs : SecretRequest(h, u, t)
    BY <1>5
  <2>2. PICK q : q = [IdleHandler EXCEPT
        !.task = "getSecret", !.at = "findCustomer", !.type = "SUBSCRIPTION",
        !.tariff = t]
    OBVIOUS
  <2>3. /\ IsHandler(q) /\ q.task = "getSecret" /\ q.at = "findCustomer"
        /\ q.event = None /\ q.replaces = FALSE /\ q.outcome = "SUCCESS"
    BY <2>2 DEF IdleHandler, IsHandler
  <2>4. QED
    BY <2>1, <2>2, <2>3, CallBegins DEF SecretRequest
<1>6. CASE ValidationRequest(h, u)
  <2>1. PICK q : q = [IdleHandler EXCEPT
        !.task = "getSecret", !.at = "findValidation", !.type = "CARD_VALIDATION"]
    OBVIOUS
  <2>2. /\ IsHandler(q) /\ q.task = "getSecret" /\ q.at = "findValidation"
        /\ q.event = None /\ q.replaces = FALSE /\ q.outcome = "SUCCESS"
    BY <2>1 DEF IdleHandler, IsHandler
  <2>3. QED
    BY <1>6, <2>1, <2>2, CallBegins DEF ValidationRequest
<1>7. CASE \/ CancelNextRequest(h, u) \/ UnsubscribeRequest(h, u)
           \/ RenovateRequest(h, u) \/ InitializeRequest(h, u)
  <2>1. PICK endpoint, task, place :
           /\ \/ task = "cancelNext" /\ place = "findNextPlan"
              \/ task = "unsubscribe" /\ place = "listSubs"
              \/ task = "renovate" /\ place = "createSub"
              \/ task = "initialize" /\ place = "countPlans"
           /\ Call(h, u, endpoint, [IdleHandler EXCEPT !.task = task, !.at = place])
    BY <1>7, ZenonT(30)
       DEF CancelNextRequest, UnsubscribeRequest, RenovateRequest, InitializeRequest
  <2>2. PICK q : q = [IdleHandler EXCEPT !.task = task, !.at = place]
    OBVIOUS
  <2>3. /\ IsHandler(q) /\ q.task = task /\ q.at = place
        /\ q.event = None /\ q.replaces = FALSE /\ q.outcome = "SUCCESS"
    BY <2>2 DEF IdleHandler, IsHandler
  <2>4. QED
    BY <2>1, <2>2, <2>3, CallBegins
<1>8. QED
  BY <1>1, <1>3, <1>4, <1>5, <1>6, <1>7

\* A callback of the cron.
LEMMA CronBeginFits ==
  ASSUME RowsInv, CallsFit, Kept, NEW h \in Handlers, NEW u \in Users, CronBegin(h, u)
  PROVE  CallsFit'
<1>1. PICK tariff, r : /\ tariff = users[u].tariff
                       /\ r = [IdleHandler EXCEPT !.task = "cron", !.at = "cronUser",
                                                  !.user = u, !.tariff = tariff]
  BY ZenonT(30)
<1>2. Continue(h, r) /\ UNCHANGED events
  BY <1>1 DEF CronBegin
<1>3. /\ IsHandler(r) /\ r.task = "cron" /\ r.at = "cronUser"
      /\ r.event = None /\ r.replaces = FALSE /\ r.outcome = "SUCCESS"
  BY <1>1 DEF IdleHandler, IsHandler
<1>4. Fits(r)
  BY <1>3 DEF Fits, PlaceFits, EventFits, AtFits, CallFits
<1>5. QED
  BY <1>2, <1>3, <1>4, CallLearns DEF RowsInv

\* A webhook begins with a report that is so.
LEMMA DeliverFits ==
  ASSUME RowsInv, CallsFit, Kept, NEW h \in Handlers, NEW e \in events.pending,
         Deliver(h, e)
  PROVE  CallsFit'
<1>1. Reported(e)
  BY DEF CallsFit, EventsReported
<1>2. PICK r : r = Handling(e)
  OBVIOUS
<1>3. /\ IsHandler(r) /\ r.user = None /\ r.me = None /\ r.event = e
      /\ r.replaces = FALSE /\ r.outcome = "SUCCESS" /\ r.plan = None
      /\ \/ /\ r.task = "intentSucceeded" /\ r.at = "findTx"
            /\ e.type = "payment_intent.succeeded"
         \/ /\ r.task = "intentFailed" /\ r.at = "findFailedTx"
            /\ e.type \in {"payment_intent.payment_failed", "payment_intent.canceled"}
         \/ /\ r.task = "subscriptionCreated" /\ r.at = "findSubscriber"
            /\ e.type = "customer.subscription.created"
  BY <1>1, <1>2 DEF Handling, IdleHandler, IsHandler, Reported, EventType
<1>4. Fits(r)
  BY <1>1, <1>3, NoneAssumption DEF Fits, PlaceFits, EventFits, AtFits, CallFits, LinksLater
<1>5. handlers'[h] = r /\ Moves(h)
  BY <1>2 DEF Deliver, Continue, Moves, CallsFit, HandlersFit
<1>6. HandlersFit'
  <2>1. Fits(r)'
    BY <1>4, FitsKept DEF RowsInv
  <2>2. QED
    BY <1>3, <1>5, <2>1, CallMoves DEF CallsFit, RowsInv
<1>7. EventsReported'
  <2>1. /\ events' = [events EXCEPT !.pending = @ \ {e}]
        /\ events' = [pending |-> events'.pending, acked |-> events'.acked]
        /\ events'.pending \cup events'.acked \subseteq events.pending \cup events.acked
    BY DEF Deliver, CallsFit, EventsReported
  <2>2. \A f \in events'.pending \cup events'.acked : Reported(f)'
    BY <2>1, ReportedKept DEF CallsFit, EventsReported
  <2>3. QED
    BY <2>1, <2>2 DEF EventsReported
<1>8. QED
  BY <1>6, <1>7 DEF CallsFit

----------------------------------------------------------------------------
(* Every step keeps the invariant and leaves what is final.                  *)

StateInv == RowsInv /\ ActiveEarned /\ PaidBeforeSuccess

\* A step that is fine for the tables and for the users' records.
StepFine == StateInv' /\ Kept /\ OutcomesStay

\* A step that leaves the users' records alone.
LEMMA UsersUntouched ==
  ASSUME StateInv, TxsFine, UNCHANGED users PROVE StepFine
<1>1. UserRows'
  BY UsersStay DEF StateInv, RowsInv, TxsFine
<1>2. ActiveEarned'
  BY EarnedStays DEF StateInv, TxsFine
<1>3. QED
  BY <1>1, <1>2 DEF StateInv, StepFine, RowsInv, TxsFine

\* A step that writes plans, cards or calls only.
LEMMA TablesUntouched ==
  ASSUME StateInv, UNCHANGED <<users, txs, intents, subs, customers>> PROVE StepFine
<1>1. TxsFine
  BY TxsSame DEF StateInv, RowsInv, tables
<1>2. QED
  BY <1>1, UsersUntouched

\* Every step of a call in flight is fine for the rows.
LEMMA StepRows ==
  ASSUME StateInv, HandlersFit, NEW h \in Handlers, Step(h) PROVE StepFine
<1>1. CASE UserStep(h)
  <2>1. Kept /\ TxRows' /\ StripeRows' /\ UserRows'
    BY <1>1, UserStepRows DEF StateInv, RowsInv
  <2>2. ActiveEarned'
    BY <1>1, <2>1, UserStepEarned DEF StateInv, RowsInv
  <2>3. UNCHANGED tables
    BY <1>1 DEF UserStep, SetStatus, DropNext, StoreCustomer, SetActive, StoreTariff,
           StoreNext, CronStatus, CronTariff, tables, stripe
  <2>4. TxsFine
    BY <2>3, TxsSame DEF StateInv, RowsInv
  <2>5. QED
    BY <2>1, <2>2, <2>4 DEF StateInv, RowsInv, StepFine, TxsFine
<1>2. CASE TxStep(h)
  <2>1. TxsFine
    BY <1>2, TxStepFine DEF StateInv
  <2>2. UNCHANGED users
    BY <1>2, ZenonT(30)
       DEF TxStep, Supersede, CancelOthers, SaveTx, SavePrePayment, SaveIntentTx,
           SettleById, SettleRows, FailValidation, FailTx, LinkTx
  <2>3. QED
    BY <2>1, <2>2, UsersUntouched
<1>3. CASE StripeStep(h)
  <2>1. TxsFine
    BY <1>3, StripeStepFine DEF StateInv
  <2>2. UNCHANGED users
    BY <1>3, ZenonT(30) DEF StripeStep, FindValidation, ReuseIntent, CreateIntent, Refund,
           ReplaceIntent, DeleteSubs, CreateSub, CreateCustomer
  <2>3. QED
    BY <2>1, <2>2, UsersUntouched
<1>4. CASE ~(UserStep(h) \/ TxStep(h) \/ StripeStep(h))
  <2>1. CASE SharedStep(h)
    BY <1>4, <2>1, TablesUntouched
       DEF SharedStep, UserStep, TxStep, StripeStep, ListSubs, Deactivate, Activate,
           ActivateFails, stripe
  <2>2. CASE RequestStep(h)
    BY <1>4, <2>2, TablesUntouched, ZenonT(30)
       DEF RequestStep, UserStep, TxStep, StripeStep, FindPlans, FindTrialCard, FindCurrent,
           FindLast, DeletePlan, FindCard, FindPlan, CreatePlan, AttachCard, FindCustomer,
           NoIntentFound, FindIntentPlan, FindNextPlan, CountPlans, CreateFirstPlan, stripe
  <2>3. CASE WebhookStep(h)
    BY <1>4, <2>3, TablesUntouched, ZenonT(30)
       DEF WebhookStep, UserStep, TxStep, StripeStep, FindTx, FindPayer, SaveCard,
           CreatePaidPlan, FindFailedTx, FindRowToFail, FindDebtor, FindSubscriber, FindPendingTx, ReadPlan,
           FindUser, stripe
  <2>4. CASE CronStep(h)
    BY <1>4, <2>4, TablesUntouched, ZenonT(30)
       DEF CronStep, UserStep, TxStep, StripeStep, CronUser, CronPlan, CronLast, CronCreate,
           stripe
  <2>5. QED
    BY <2>1, <2>2, <2>3, <2>4 DEF Step
<1>5. QED
  BY <1>1, <1>2, <1>3, <1>4

\* A call that fails inside paymentIntentSucceeded goes on to write FAILED.
LEMMA CallFailsFits ==
  ASSUME RowsInv, CallsFit, Kept, NEW h \in Handlers, CallFails(h)
  PROVE  CallsFit'
<1> USE DEF RowsInv
<1>1. IsHandler(handlers[h]) /\ handlers[h].task = "intentSucceeded" /\ UNCHANGED events
  BY DEF CallFails, CallsFit, HandlersFit
<1>2. PICK S, r : /\ S = {}
                  /\ r = [handlers[h] EXCEPT !.at = "settle", !.outcome = "FAILED",
                                             !.listed = S]
  BY ZenonT(30)
<1>3. Continue(h, r)
  BY <1>2 DEF CallFails
<1>4. /\ IsHandler(r) /\ SameCall(handlers[h], r) /\ r.at = "settle"
      /\ r.task = "intentSucceeded"
  BY <1>1, <1>2 DEF IsHandler, SameCall
<1>5. PlaceFits(r) /\ AtFits(r)'
  BY <1>4 DEF PlaceFits, AtFits, LinksLater
<1>6. QED
  BY <1>1, <1>3, <1>4, <1>5, CallContinues, CallKnows DEF CallsFit

\* Every step of a call, its beginning included.
LEMMA CallStep ==
  ASSUME OutcomeInv, NEW h \in Handlers,
         \/ Request(h) \/ Step(h) \/ CallFails(h)
         \/ \E e \in events.pending : Deliver(h, e)
         \/ \E u \in Users : CronBegin(h, u)
  PROVE  OutcomeInv' /\ OutcomesStay
<1>1. StateInv /\ CallsFit
  BY DEF OutcomeInv, StateInv, CallsFit
<1>2. StepFine
  <2>1. CASE Step(h)
    BY <1>1, <2>1, StepRows DEF CallsFit
  <2>2. CASE ~Step(h)
    <3>1. UNCHANGED <<users, txs, intents, subs, customers>>
      BY <2>2, ZenonT(30)
         DEF Request, Call, SubscribeRequest, SwitchRequest, SetTrialRequest,
         SecretRequest, ValidationRequest, CancelNextRequest, UnsubscribeRequest,
         RenovateRequest, InitializeRequest, Deliver, CronBegin, CallFails, stripe
    <3>2. QED
      BY <1>1, <3>1, TablesUntouched
  <2>3. QED
    BY <2>1, <2>2
<1>3. Kept /\ RowsInv /\ PaidBeforeSuccess
  BY <1>1, <1>2 DEF StepFine, StateInv
<1>4. CallsFit'
  <2>1. CASE Step(h)
    BY <1>1, <1>3, <2>1, SharedStepFits, RequestStepFits, WebhookStepFits, CronStepFits
       DEF Step
  <2>2. CASE ~Step(h)
    BY <1>1, <1>3, <2>2, RequestFits, DeliverFits, CronBeginFits, CallFailsFits
  <2>3. QED
    BY <2>1, <2>2
<1>5. QED
  BY <1>2, <1>4 DEF OutcomeInv, StepFine, StateInv, CallsFit

----------------------------------------------------------------------------
(* What happens outside the program.                                         *)

\* Calls that nobody moves.
LEMMA CallsStay ==
  ASSUME CallsFit, TxRows, Kept, UNCHANGED handlers PROVE HandlersFit'
<1>1. ASSUME NEW h \in Handlers PROVE IsHandler(handlers[h])' /\ Fits(handlers[h])'
  <2>1. PICK r : r = handlers[h]
    OBVIOUS
  <2>2. Fits(r)'
    BY <2>1, FitsKept DEF CallsFit, HandlersFit
  <2>3. QED
    BY <2>1, <2>2 DEF CallsFit, HandlersFit, IsHandler
<1>2. QED
  BY <1>1 DEF CallsFit, HandlersFit

\* Stripe reports what is so.
LEMMA ReportFits ==
  ASSUME CallsFit, TxRows, Kept, UNCHANGED handlers, NEW type, NEW i,
         Report(type, i), Reported([type |-> type, about |-> i])'
  PROVE  CallsFit'
<1>1. PICK f : f = [type |-> type, about |-> i]
  OBVIOUS
<1>2. \/ events' = [events EXCEPT !.pending = @ \cup {f}]
      \/ events' = [events EXCEPT !.acked = @ \cup {f}]
  BY <1>1 DEF Report
<1>3. \A g \in {f} : Reported(g)'
  BY <1>1 DEF Reported
<1>4. EventsReported'
  BY <1>2, <1>3, EventsAdded DEF CallsFit
<1>5. QED
  BY <1>4, CallsStay DEF CallsFit

\* Users pay, decline and cancel at Stripe.
LEMMA PayStep ==
  ASSUME OutcomeInv, NEW i \in DOMAIN intents,
         (\E card \in Cards : Pay(i, card)) \/ Decline(i) \/ CancelIntent(i)
  PROVE  OutcomeInv' /\ OutcomesStay
<1>1. StateInv /\ CallsFit /\ RowsInv /\ PaidBeforeSuccess
  BY DEF OutcomeInv, StateInv, CallsFit
<1>2. UNCHANGED users /\ UNCHANGED handlers
  BY ZenonT(30) DEF Pay, Decline, CancelIntent
<1>3. /\ TxsFine /\ i \in Nat /\ i \in DOMAIN intents'
      /\ ~(Decline(i) \/ CancelIntent(i)) => intents'[i].state = "paid"
  <2>1. CASE Decline(i)
    <3>1. UNCHANGED tables
      BY <2>1 DEF Decline, tables, stripe
    <3>2. i \in Nat
      BY <1>1 DEF RowsInv, StripeRows, IsTable
    <3>3. QED
      BY <1>1, <2>1, <3>1, <3>2, TxsSame DEF RowsInv, tables
  <2>2. CASE ~Decline(i)
    BY <1>1, <2>2, PayFine
  <2>3. QED
    BY <2>1, <2>2
<1>4. StepFine
  BY <1>1, <1>2, <1>3, UsersUntouched
<1>5. PICK type : /\ Report(type, i)
                  /\ \/ type \in {"payment_intent.payment_failed", "payment_intent.canceled"}
                     \/ /\ type = "payment_intent.succeeded"
                        /\ ~(Decline(i) \/ CancelIntent(i))
  BY ZenonT(30) DEF Pay, Decline, CancelIntent
<1>6. CallsFit'
  <2>1. PICK f : f = [type |-> type, about |-> i]
    OBVIOUS
  <2>2. f.type = type /\ f.about = i
    BY <2>1
  <2>3. Reported(f)'
    BY <1>3, <1>5, <2>2 DEF Reported, EventType
  <2>4. QED
    BY <1>1, <1>2, <1>3, <1>5, <2>1, <2>3, ReportFits DEF TxsFine, RowsInv
<1>7. QED
  BY <1>4, <1>6 DEF OutcomeInv, StepFine, StateInv, CallsFit

\* A report that is repeated, the end of the process, and time change no row.
LEMMA OtherStep ==
  ASSUME OutcomeInv,
         \/ \E e \in events.acked \cup InFlight : DeliverAgain(e)
         \/ Crash \/ Tick \/ UNCHANGED vars
  PROVE  OutcomeInv' /\ OutcomesStay
<1>1. StateInv /\ CallsFit /\ RowsInv
  BY DEF OutcomeInv, StateInv, CallsFit
<1>2. StepFine /\ Kept
  <2>1. UNCHANGED <<users, txs, intents, subs, customers>>
    BY DEF DeliverAgain, Crash, Tick, vars, stripe
  <2>2. QED
    BY <1>1, <2>1, TablesUntouched DEF StepFine
<1>3. CASE \E e \in events.acked \cup InFlight : DeliverAgain(e)
  <2>1. PICK e \in events.acked \cup InFlight : DeliverAgain(e)
    BY <1>3
  <2>2. Reported(e)
    BY <1>1 DEF CallsFit, EventsReported, InFlight, HandlersFit, Fits, EventFits
  <2>3. PICK f : f = [type |-> e.type, about |-> e.about]
    OBVIOUS
  <2>4. f.type = e.type /\ f.about = e.about
    BY <2>3
  <2>5. Reported(f)'
    BY <1>2, <2>2, <2>4, ReportedKept DEF Reported
  <2>6. Report(e.type, e.about) /\ UNCHANGED handlers
    BY <2>1 DEF DeliverAgain
  <2>7. CallsFit'
    BY <1>1, <1>2, <2>3, <2>5, <2>6, ReportFits DEF RowsInv
  <2>8. QED
    BY <1>2, <2>7 DEF OutcomeInv, StepFine, StateInv, CallsFit
<1>4. CASE Crash
  <2>1. CallsFit'
    BY <1>1, <1>2, <1>4, ProcessRestarts DEF Crash, RowsInv
  <2>2. QED
    BY <1>2, <2>1 DEF OutcomeInv, StepFine, StateInv, CallsFit
<1>5. CASE Tick \/ UNCHANGED vars
  <2>1. UNCHANGED events /\ UNCHANGED handlers
    BY <1>5 DEF Tick, vars
  <2>2. CallsFit'
    BY <1>1, <1>2, <2>1, CallsStay, EventsStay DEF CallsFit, RowsInv
  <2>3. QED
    BY <1>2, <2>2 DEF OutcomeInv, StepFine, StateInv, CallsFit
<1>6. QED
  BY <1>3, <1>4, <1>5

\* Every step.
LEMMA OutcomeStep ==
  ASSUME OutcomeInv, [Next]_vars PROVE OutcomeInv' /\ OutcomesStay
<1>1. ASSUME NEW h \in Handlers,
             \/ Request(h) \/ Step(h) \/ CallFails(h)
             \/ \E e \in events.pending : Deliver(h, e)
             \/ \E u \in Users : CronBegin(h, u)
      PROVE  OutcomeInv' /\ OutcomesStay
  BY <1>1, CallStep
<1>2. ASSUME NEW i \in DOMAIN intents,
             (\E card \in Cards : Pay(i, card)) \/ Decline(i) \/ CancelIntent(i)
      PROVE  OutcomeInv' /\ OutcomesStay
  BY <1>2, PayStep
<1>3. CASE \/ \E e \in events.acked \cup InFlight : DeliverAgain(e)
           \/ Crash \/ Tick \/ UNCHANGED vars
  BY <1>3, OtherStep
<1>4. QED
  BY <1>1, <1>2, <1>3 DEF Next

----------------------------------------------------------------------------
(* The start.                                                                *)

\* A row of two joined tables is a row of the first at its place, or of the second.
LEMMA JoinedTables ==
  ASSUME NEW s, IsTable(s), NEW t, IsTable(t), NEW table, table = s \o t
  PROVE  /\ IsTable(table)
         /\ \A k \in DOMAIN table :
               \/ k \in DOMAIN s /\ table[k] = s[k]
               \/ \E j \in DOMAIN t : table[k] = t[j]
<1> DEFINE S == {s[k] : k \in 1..Len(s)} \cup {t[k] : k \in 1..Len(t)}
<1>1. s \in [1..Len(s) -> S] /\ t \in [1..Len(t) -> S]
  BY DEF IsTable
<1>2. s \in Seq(S) /\ t \in Seq(S)
  BY <1>1, SeqDef, ZenonT(60) DEF IsTable
<1> HIDE DEF S
<1>3. /\ table \in Seq(S) /\ Len(table) = Len(s) + Len(t)
      /\ \A k \in 1..(Len(s) + Len(t)) :
            table[k] = IF k <= Len(s) THEN s[k] ELSE t[k - Len(s)]
  BY <1>2, ConcatProperties
<1>4. table = [k \in 1..Len(table) |-> table[k]] /\ Len(table) \in Nat
  BY <1>3, LenProperties
<1>5. Len(s) \in Nat /\ Len(t) \in Nat /\ DOMAIN s = 1..Len(s) /\ DOMAIN t = 1..Len(t)
  BY DEF IsTable
<1>6. ASSUME NEW k \in DOMAIN table
      PROVE  \/ k \in DOMAIN s /\ table[k] = s[k]
             \/ \E j \in DOMAIN t : table[k] = t[j]
  <2>1. k \in 1..(Len(s) + Len(t))
    BY <1>3, <1>4
  <2>2. CASE k <= Len(s)
    <3>1. k \in DOMAIN s /\ table[k] = s[k]
      BY <1>3, <1>5, <2>1, <2>2
    <3>2. QED
      BY <3>1
  <2>3. CASE ~(k <= Len(s))
    <3>1. k - Len(s) \in DOMAIN t /\ table[k] = t[k - Len(s)]
      BY <1>3, <1>5, <2>1, <2>3
    <3>2. QED
      BY <3>1
  <2>4. QED
    BY <2>2, <2>3
<1>7. QED
  BY <1>4, <1>6 DEF IsTable

\* The users are numbered, each with a number of its own.
LEMMA EveryUserNumbered ==
  ASSUME NEW n, n = Cardinality(Users), NEW user \in [1..n -> Users],
         \A j, k \in DOMAIN user : user[j] = user[k] => j = k, NEW u \in Users
  PROVE  \E k \in 1..n : user[k] = u
<1>1. n \in Nat
  BY UsersAssumption, FS_CardinalityType
<1>2. user \in Injection(1..n, Users)
  BY DEF Injection, IsInjective
<1>3. PICK S : S = 1..n
  OBVIOUS
<1>4. Cardinality(S) = Cardinality(Users)
  BY <1>1, <1>3, FS_Interval
<1>5. user \in Injection(S, Users)
  BY <1>2, <1>3
<1>6. user \in Surjection(S, Users)
  <2>1. IsFiniteSet(Users)
    BY UsersAssumption
  <2>2. Cardinality(S) = Cardinality(Users) <=> user \in Surjection(S, Users)
    BY <1>5, <2>1, FS_Injection
  <2>3. QED
    BY <1>4, <2>2
<1>7. QED
  BY <1>3, <1>6 DEF Surjection

\* A function on the first n numbers is a table.
LEMMA TableOfLength ==
  ASSUME NEW n \in Nat, NEW s, s = [k \in 1..n |-> s[k]]
  PROVE  IsTable(s) /\ DOMAIN s = 1..n
<1>1. Len(s) = n
  BY LengthOfTable
<1>2. QED
  BY <1>1 DEF IsTable

\* So is the empty sequence.
LEMMA EmptyTable == IsTable(<<>>) /\ DOMAIN <<>> = {}
  BY DEF IsTable

(* The rows at the start: those of user k are numbered k.                    *)
Validated(u, k) ==
    [user |-> u, type |-> "CARD_VALIDATION", status |-> "SUCCESS", tariff |-> None,
     plan |-> k, intent |-> k, newIntent |-> None, sub |-> None]

Subscribed(u, k, tariff) ==
    [user |-> u, type |-> "SUBSCRIPTION", status |-> "SUCCESS", tariff |-> tariff,
     plan |-> k, intent |-> None, newIntent |-> None, sub |-> k]

StartIntent(i, k) ==
    /\ IsIntent(i) /\ i.state = "paid" /\ i.customer = k /\ i.origin = k
    /\ i.refunded = TRUE /\ i.shown = TRUE

StartsAs(n, user, subscribed) ==
    /\ n \in Nat /\ UserRows
    /\ IsTable(intents) /\ IsTable(subs) /\ IsTable(customers) /\ IsTable(txs)
    /\ IF subscribed
       THEN /\ customers = user /\ DOMAIN user = 1..n
            /\ \A u \in Users : \E k \in 1..n : user[k] = u
            /\ DOMAIN intents = 1..n /\ DOMAIN subs = 1..n
            /\ \A k \in 1..n : /\ StartIntent(intents[k], k)
                               /\ IsSub(subs[k]) /\ subs[k].customer = k
            /\ \A t \in DOMAIN txs :
                  \/ t \in 1..n /\ txs[t] = Validated(user[t], t)
                  \/ \E tariff : \E k \in 1..n : txs[t] = Subscribed(user[k], k, tariff)
       ELSE /\ DOMAIN intents = {} /\ DOMAIN subs = {} /\ DOMAIN txs = {}
            /\ \A u \in Users : users[u].status # "active"

\* Whatever the profile of the users, they start with these rows.
LEMMA InitialTables ==
  ASSUME Init PROVE \E n, user, subscribed : StartsAs(n, user, subscribed)
<1>1. PICK n, profile : n = Cardinality(Users) /\ profile = budget.profile
  OBVIOUS
<1>2. n \in Nat
  BY <1>1, UsersAssumption, FS_CardinalityType
<1>3. PICK tariff \in Tariffs, user \in [1..n -> Users] :
         /\ \A j, k \in DOMAIN user : user[j] = user[k] => j = k
         /\ Start(profile, tariff, user)
  BY <1>1 DEF Init
<1>4. PICK known, subscribed :
         known = (profile # "new") /\ subscribed = (profile \in {"active", "lapsed"})
  OBVIOUS
<1> DEFINE number(u) == CHOOSE k \in 1..n : user[k] = u
           card == CHOOSE c \in Cards : TRUE
           intent(k) == [NewIntent(k, k) EXCEPT !.state = "paid", !.card = card,
                                                !.refunded = TRUE, !.shown = TRUE]
           sub(k) == [live |-> profile = "active", customer |-> k]
           validation(k) == [NewTx(user[k], "CARD_VALIDATION", None, k, k)
                                EXCEPT !.status = "SUCCESS"]
           subscription(k) == [NewTx(user[k], "SUBSCRIPTION", tariff, k, None)
                                  EXCEPT !.status = "SUCCESS", !.sub = k]
           rows1 == [k \in 1..n |-> validation(k)]
           rows2 == [k \in 1..n |-> subscription(k)]
<1>5. /\ users = [u \in Users |->
             [status |-> StartStatus(profile), tariff |-> tariff, next |-> None,
              customer |-> IF known THEN number(u) ELSE None]]
      /\ customers = IF known THEN user ELSE <<>>
      /\ intents = IF subscribed THEN [k \in 1..n |-> intent(k)] ELSE <<>>
      /\ subs = IF subscribed THEN [k \in 1..n |-> sub(k)] ELSE <<>>
      /\ txs = IF subscribed THEN rows1 \o rows2 ELSE <<>> \o <<>>
  BY <1>1, <1>3, <1>4, ZenonT(30) DEF Start
<1>6. ASSUME NEW k \in 1..n
      PROVE  /\ StartIntent(intent(k), k)
             /\ IsSub(sub(k)) /\ sub(k).customer = k
             /\ validation(k) = Validated(user[k], k)
             /\ subscription(k) = Subscribed(user[k], k, tariff)
  <2>1. StartIntent(intent(k), k)
    <3> HIDE DEF card
    <3>1. PICK q : q = NewIntent(k, k)
      OBVIOUS
    <3>2. IsIntent(q) /\ q.customer = k /\ q.origin = k
      BY <3>1 DEF IsIntent, NewIntent
    <3>3. intent(k) = [q EXCEPT !.state = "paid", !.card = card,
                                !.refunded = TRUE, !.shown = TRUE]
      BY <3>1
    <3> HIDE DEF intent
    <3>4. QED
      BY <3>2, <3>3 DEF IsIntent, StartIntent
  <2>2. IsSub(sub(k)) /\ sub(k).customer = k
    BY DEF IsSub
  <2>3. validation(k) = Validated(user[k], k)
    BY DEF NewTx, Validated
  <2>4. subscription(k) = Subscribed(user[k], k, tariff)
    <3>1. PICK q : q = NewTx(user[k], "SUBSCRIPTION", tariff, k, None)
      OBVIOUS
    <3>2. /\ IsTx(q) /\ q.user = user[k] /\ q.type = "SUBSCRIPTION" /\ q.tariff = tariff
          /\ q.plan = k /\ q.intent = None /\ q.newIntent = None
      BY <3>1 DEF IsTx, NewTx
    <3>3. subscription(k) = [q EXCEPT !.status = "SUCCESS", !.sub = k]
      BY <3>1
    <3> HIDE DEF subscription
    <3>4. QED
      BY <3>2, <3>3 DEF IsTx, Subscribed
  <2>5. QED
    BY <2>1, <2>2, <2>3, <2>4
<1>7. ASSUME NEW u \in Users
      PROVE  number(u) \in 1..n /\ user[number(u)] = u
  <2>1. \E k \in 1..n : user[k] = u
    BY <1>1, <1>3, EveryUserNumbered, ZenonT(60)
  <2>2. QED
    BY <2>1
<1>8. IsTable(user) /\ DOMAIN user = 1..n
  BY <1>2, <1>3, TableOfLength
<1> HIDE DEF number, card, intent, sub, validation, subscription
<1>9. UserRows
  <2>1. ASSUME NEW u \in Users
        PROVE  /\ IsUser(users[u])
               /\ users[u].customer # None => Owns(u, users[u].customer)
    BY <1>5, <1>7, <1>8 DEF IsUser, Owns
  <2>2. QED
    BY <1>5, <2>1 DEF UserRows
<1>10. CASE ~subscribed
  <2>1. intents = <<>> /\ subs = <<>> /\ txs = <<>> \o <<>>
    BY <1>5, <1>10
  <2>2. txs = <<>>
    BY <2>1, EmptyTable, JoinedTables DEF IsTable
  <2>3. \A u \in Users : users[u].status # "active"
    BY <1>4, <1>5, <1>10 DEF StartStatus
  <2>4. /\ IsTable(intents) /\ IsTable(subs) /\ IsTable(txs) /\ IsTable(customers)
        /\ DOMAIN intents = {} /\ DOMAIN subs = {} /\ DOMAIN txs = {}
    BY <1>5, <1>8, <2>1, <2>2, EmptyTable
  <2>5. StartsAs(n, user, FALSE)
    BY <1>2, <1>9, <2>3, <2>4 DEF StartsAs
  <2>6. QED
    BY <2>5
<1>11. CASE subscribed
  <2>1. /\ known /\ customers = user
        /\ intents = [k \in 1..n |-> intent(k)] /\ subs = [k \in 1..n |-> sub(k)]
        /\ txs = rows1 \o rows2
    BY <1>4, <1>5, <1>11
  <2>2. /\ IsTable(intents) /\ DOMAIN intents = 1..n
        /\ IsTable(subs) /\ DOMAIN subs = 1..n
    <3>1. intents = [k \in 1..n |-> intents[k]] /\ subs = [k \in 1..n |-> subs[k]]
      BY <2>1
    <3>2. QED
      BY <1>2, <3>1, TableOfLength
  <2>3. IsTable(rows1) /\ IsTable(rows2)
    <3>1. rows1 = [k \in 1..n |-> rows1[k]] /\ rows2 = [k \in 1..n |-> rows2[k]]
      OBVIOUS
    <3> HIDE DEF rows1, rows2
    <3>2. QED
      BY <1>2, <3>1, TableOfLength
  <2>4. ASSUME NEW t \in DOMAIN txs
        PROVE  \/ t \in 1..n /\ txs[t] = validation(t)
               \/ \E k \in 1..n : txs[t] = subscription(k)
    <3>1. DOMAIN rows1 = 1..n /\ DOMAIN rows2 = 1..n
      OBVIOUS
    <3>2. /\ \A k \in 1..n : rows1[k] = validation(k)
          /\ \A k \in 1..n : rows2[k] = subscription(k)
      OBVIOUS
    <3> HIDE DEF rows1, rows2
    <3>3. \A k \in DOMAIN txs : \/ k \in DOMAIN rows1 /\ txs[k] = rows1[k]
                               \/ \E j \in DOMAIN rows2 : txs[k] = rows2[j]
      <4>1. txs = rows1 \o rows2
        BY <2>1
      <4>2. QED
        BY <2>3, <4>1, JoinedTables
    <3>4. QED
      BY <3>1, <3>2, <3>3
  <2>5. IsTable(txs)
    <3> HIDE DEF rows1, rows2
    <3> QED
      BY <2>1, <2>3, JoinedTables
  <2> HIDE DEF rows1, rows2
  <2>6. ASSUME NEW k \in 1..n
        PROVE  /\ StartIntent(intents[k], k)
               /\ IsSub(subs[k]) /\ subs[k].customer = k
    BY <1>6, <2>1
  <2>7. ASSUME NEW t \in DOMAIN txs
        PROVE  \/ t \in 1..n /\ txs[t] = Validated(user[t], t)
               \/ \E k \in 1..n : txs[t] = Subscribed(user[k], k, tariff)
    BY <1>6, <2>4
  <2>8. ASSUME NEW t \in DOMAIN txs
        PROVE  \/ t \in 1..n /\ txs[t] = Validated(user[t], t)
               \/ \E x : \E k \in 1..n : txs[t] = Subscribed(user[k], k, x)
    BY <2>7
  <2>9. IsTable(customers) /\ DOMAIN user = 1..n
    BY <1>8, <2>1
  <2>10. \A u \in Users : \E k \in 1..n : user[k] = u
    BY <1>7
  <2>11. StartsAs(n, user, TRUE)
    BY <1>2, <1>9, <2>1, <2>2, <2>5, <2>6, <2>8, <2>9, <2>10 DEF StartsAs
  <2>12. QED
    BY <2>11
<1>12. QED
  BY <1>10, <1>11

\* The rows that the users start with are fine.
LEMMA InitialRows ==
  ASSUME Init PROVE StateInv
<1>1. PICK n, user, subscribed : StartsAs(n, user, subscribed)
  BY InitialTables
<1>2. CASE ~subscribed
  BY <1>1, <1>2
     DEF StartsAs, StateInv, RowsInv, TxRows, StripeRows, ActiveEarned, PaidBeforeSuccess
<1>3. CASE subscribed
  <2>1. /\ customers = user /\ DOMAIN user = 1..n /\ DOMAIN intents = 1..n
        /\ \A u \in Users : \E k \in 1..n : user[k] = u
        /\ DOMAIN subs = 1..n /\ n \in Nat
        /\ \A k \in 1..n : /\ StartIntent(intents[k], k)
                           /\ IsSub(subs[k]) /\ subs[k].customer = k
    BY <1>1, <1>3 DEF StartsAs
  <2>2. \A k \in 1..n : k # None
    BY <2>1, NoneAssumption
  <2>3. ASSUME NEW t \in DOMAIN txs
        PROVE  /\ IsTx(txs[t]) /\ txs[t].newIntent = None
               /\ txs[t].intent # None => txs[t].intent \in 1..n /\ txs[t].sub = None
               /\ txs[t].status = "SUCCESS"
    <3>1. CASE t \in 1..n /\ txs[t] = Validated(user[t], t)
      BY <3>1 DEF Validated, IsTx
    <3>2. CASE \E tariff : \E k \in 1..n : txs[t] = Subscribed(user[k], k, tariff)
      BY <3>2 DEF Subscribed, IsTx
    <3>3. QED
      BY <1>1, <1>3, <3>1, <3>2 DEF StartsAs
  <2>4. UserRows /\ StripeRows
    BY <1>1, <2>1, <2>2 DEF StartsAs, StripeRows, StartIntent
  <2>5. TxRows
    BY <1>1, <2>1, <2>3 DEF StartsAs, TxRows
  <2>6. PaidBeforeSuccess
    BY <2>1, <2>3 DEF PaidBeforeSuccess, StartIntent
  <2>7. ActiveEarned
    <3>1. ASSUME NEW u \in Users
          PROVE  \E s \in DOMAIN subs : Owns(u, subs[s].customer)
      BY <2>1 DEF Owns
    <3>2. QED
      BY <3>1 DEF ActiveEarned
  <2>8. QED
    BY <2>4, <2>5, <2>6, <2>7 DEF StateInv, RowsInv
<1>4. QED
  BY <1>2, <1>3

\* The invariant holds at the start.
LEMMA InitialOutcome == Init => OutcomeInv
<1> SUFFICES ASSUME Init PROVE OutcomeInv
  OBVIOUS
<1>1. StateInv
  BY InitialRows
<1>2. HandlersFit
  <2>1. handlers = [h \in Handlers |-> IdleHandler]
    BY DEF Init
  <2>2. QED
    BY <2>1, IdleFits DEF HandlersFit
<1>3. EventsReported
  <2>1. events = [pending |-> {}, acked |-> {}]
    BY DEF Init
  <2>2. QED
    BY <2>1 DEF EventsReported
<1>4. QED
  BY <1>1, <1>2, <1>3 DEF OutcomeInv, StateInv

\* The invariant holds always.
LEMMA OutcomeAlways == Spec => []OutcomeInv
<1>1. OutcomeInv /\ [Next]_vars => OutcomeInv'
  BY OutcomeStep
<1>2. QED
  BY InitialOutcome, <1>1, PTL DEF Spec

(* A transaction that names a payment intent and reads SUCCESS was paid, by   *)
(* that intent or by one that replaced it, however late, often or out of      *)
(* order the reports of Stripe come and wherever a crash cuts a call short.   *)
THEOREM PaidFirst == Spec => []PaidBeforeSuccess
<1>1. OutcomeInv => PaidBeforeSuccess
  BY DEF OutcomeInv
<1>2. QED
  BY OutcomeAlways, <1>1, PTL

(* Nobody becomes active without a payment or a subscription of their own:    *)
(* the status is written by calls that found the user by the customer of what *)
(* was paid or subscribed, or that created the subscription themselves.       *)
THEOREM ActivationEarned == Spec => []NoFreeActivation
<1>1. OutcomeInv => NoFreeActivation
  BY DEF OutcomeInv, ActiveEarned, NoFreeActivation, Owns
<1>2. QED
  BY OutcomeAlways, <1>1, PTL

(* No step takes the SUCCESS or the link away from a transaction that names   *)
(* its subscription: the sweeps reach pending rows only, and the updates that *)
(* look a row up by an intent cannot meet it, since the link has replaced the *)
(* intents in its payload.                                                    *)
THEOREM OutcomeFinal == Spec => SubscriptionOutcomeFinal
<1>1. OutcomeInv /\ [Next]_vars =>
         [\A t \in DOMAIN txs :
             (txs[t].status = "SUCCESS" /\ txs[t].sub # None) =>
                 txs'[t].status = "SUCCESS" /\ txs'[t].sub # None]_txs
  BY OutcomeStep DEF OutcomesStay
<1>2. QED
  BY OutcomeAlways, <1>1, PTL DEF Spec, SubscriptionOutcomeFinal
=============================================================================
