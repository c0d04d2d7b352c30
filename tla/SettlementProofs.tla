-------------------------- MODULE SettlementProofs --------------------------
(* That payments and subscriptions are settled by the time that their        *)
(* reports are done with, and that the charge of a card validation is given  *)
(* back: on top of the invariant of BillingProofs, who a row and a call are  *)
(* of, which intents nobody can have paid yet, and what a webhook has found  *)
(* out.  Then that all values keep their types, and that the transactions    *)
(* implement PaymentLedger.                                                  *)
EXTENDS BillingProofs

----------------------------------------------------------------------------
(* The invariant.                                                            *)

Validates(t) == txs[t].type = "CARD_VALIDATION"
Borrows(t) == txs[t].type = "PRE_SUBSCRIPTION_PAYMENT"

(* A subscribe without card has used the intent of the row for its own row.  *)
Shared(t) == \E s \in DOMAIN txs : Borrows(s) /\ txs[s].intent = txs[t].intent

(* The objects that a row names are its user's.  An intent that replaces a   *)
(* failed one is never the intent that a row was created with.               *)
RowFits(t) ==
    /\ txs[t].intent # None => Owns(txs[t].user, intents[txs[t].intent].customer)
    /\ txs[t].intent # None /\ ~Borrows(t) =>
          intents[txs[t].intent].origin = txs[t].intent
    /\ txs[t].newIntent # None =>
          /\ Owns(txs[t].user, intents[txs[t].newIntent].customer)
          /\ intents[txs[t].newIntent].origin # txs[t].newIntent
          /\ Validates(t) => Shared(t)
    /\ txs[t].sub # None =>
          /\ txs[t].sub \in DOMAIN subs
          /\ Owns(txs[t].user, subs[txs[t].sub].customer)
    /\ txs[t].type \notin Subscription => txs[t].intent # None

RowsFit == \A t \in DOMAIN txs : RowFits(t)

(* The row has a payment to wait for, or a subscription that stands for it.  *)
Billed(t) == txs[t].intent # None \/ txs[t].sub # None

OneRowPerIntent ==
    \A s, t \in DOMAIN txs :
        (/\ ~Borrows(s) /\ ~Borrows(t)
         /\ txs[s].intent # None /\ txs[s].intent = txs[t].intent) => s = t

(* An intent that the client may know of, and one that no row names yet.     *)
Exposed(i) == intents[i].shown \/ intents[i].origin # i

Unsaved(i) == ~Exposed(i) /\ \A t \in DOMAIN txs : txs[t].intent # i

(* Stripe reports payments of intents that the client was told of.           *)
ReportShown(e) ==
    /\ e = [type |-> e.type, about |-> e.about]
    /\ e.type # "customer.subscription.created" => Exposed(e.about)

EventsShown == \A e \in events.pending \cup events.acked : ReportShown(e)

(* The charge of an intent is not one to give back, or has been given back.  *)
Unrefundable(i) ==
    \A t \in DOMAIN txs : Validates(t) /\ txs[t].intent = i => Shared(t)

Cleared(i) ==
    \A t \in DOMAIN txs : Validates(t) /\ txs[t].intent = i =>
        Shared(t) \/ intents[i].refunded

(* Where a call is, by its task, before and after it found its user or row.  *)
RequestTask == {"subscribe", "getSecret", "cancelNext", "unsubscribe", "renovate",
                "initialize"}

Searching == {"findTx", "findPayer", "findFailedTx", "failValidation",
              "failValidationRow", "findDebtor", "findSubscriber"}

Charged == {"findTx", "findPayer", "saveCard", "refund"}

Cashed == {"createPaidPlan", "setActive", "deactivate", "activate", "storeTariff",
           "listSubs", "deleteSubs", "createSub", "settle", "settleRows"}

Failing == {"findFailedTx", "failValidation", "failValidationRow", "findDebtor",
            "replaceIntent", "failTx", "failTxRow"}

Linking == {"readPlan", "deactivate", "activate", "storeTariff", "storeNext",
            "setActive", "linkTx"}

WhereKnown(r) ==
    /\ r.task = "intentSucceeded" => r.at \in Charged \cup Cashed
    /\ r.task = "intentFailed" => r.at \in Failing
    /\ r.task = "subscriptionCreated" =>
          r.at \in Linking \cup {"findSubscriber", "findPendingTx", "settle", "settleRows"}

WhoKnown(r) ==
    /\ r.task \in RequestTask => r.user \in Users
    /\ r.task \in WebhookTask /\ r.at \notin Searching => r.user \in Users
    /\ r.event # None => r.task \in WebhookTask
    /\ r.task \in WebhookTask => ReportShown(r.event)
    /\ r.outcome \in {"SUCCESS", "FAILED"}
    /\ r.task = "subscribe" => r.type \in Subscription

(* The customers and intents that a call holds are its user's.               *)
OwnerKnown(r) ==
    /\ r.at \in {"findIntent", "createIntent"} /\ r.task = "getSecret"
       /\ r.customer # None => Owns(r.user, r.customer)
    /\ r.at \in {"findIntentPlan", "saveIntentTx", "savePrePayment"} =>
          Owns(r.user, intents[r.intent].customer)
    /\ r.at = "savePrePayment" =>
          \E t \in DOMAIN txs : Validates(t) /\ txs[t].intent = r.intent
    /\ r.at \in {"replaceIntent", "failTx"} =>
          Owns(r.user, intents[r.event.about].customer)
    /\ r.at \in {"failTx", "failTxRow"} =>
          /\ intents[r.intent].origin # r.intent
          /\ Owns(r.user, intents[r.intent].customer)
    /\ r.at = "failTxRow" =>
          /\ r.tx \in DOMAIN txs /\ txs[r.tx].user = r.user
          /\ Validates(r.tx) => Shared(r.tx)

(* What a payment's webhook has found out about the refund.                  *)
ClearKnown(r) ==
    /\ r.at \in {"findDebtor", "replaceIntent", "failTx"} => Unrefundable(r.event.about)
    /\ r.at \in {"findPayer", "saveCard", "refund"} =>
          /\ r.tx \in DOMAIN txs
          /\ ~Validates(r.tx) => Unrefundable(r.event.about)
    /\ r.task = "intentSucceeded" /\ r.at \in Cashed /\ r.outcome = "SUCCESS" =>
          Cleared(r.event.about)
    /\ r.replaces =>
          /\ r.tx \in DOMAIN txs /\ Billed(r.tx)
          /\ Validates(r.tx) => Shared(r.tx)
          /\ intents[r.event.about].origin # r.event.about

(* The row that is about to be linked is a subscription of the user.         *)
LinkKnown(r) ==
    r.task = "subscriptionCreated" /\ r.at \in Linking =>
        /\ r.tx \in DOMAIN txs
        /\ txs[r.tx].type \in Subscription
        /\ txs[r.tx].user = r.user

Knows(r) ==
    WhereKnown(r) /\ WhoKnown(r) /\ OwnerKnown(r) /\ ClearKnown(r) /\ LinkKnown(r)

CallsKnow == \A h \in Handlers : Knows(handlers[h])

(* An intent that is just created is nobody else's.                          *)
Saves(r) == r.at \in {"findIntentPlan", "saveIntentTx"}

SaversFit ==
    /\ \A h \in Handlers : Saves(handlers[h]) => Unsaved(handlers[h].intent)
    /\ \A g, h \in Handlers :
          (g # h /\ Saves(handlers[g]) /\ Saves(handlers[h])) =>
              handlers[g].intent # handlers[h].intent

OriginsExist == \A i \in DOMAIN intents : intents[i].origin \in DOMAIN intents

RecordsInv == RowsFit /\ OneRowPerIntent

CallsInv == EventsShown /\ CallsKnow /\ SaversFit /\ OriginsExist

SettlementInv ==
    /\ OutcomeInv /\ RecordsInv /\ CallsInv
    /\ SettledWhenAcknowledged /\ ValidationRefunded

----------------------------------------------------------------------------
(* What a step may do to rows and intents.                                   *)

(* New rows are pending, and a new row of its own is for an intent that the   *)
(* client does not know yet.                                                 *)
NewRow(t) ==
    /\ txs'[t].status = "PENDING"
    /\ txs'[t].intent # None /\ txs'[t].type # "PRE_SUBSCRIPTION_PAYMENT" =>
          txs'[t].intent \in DOMAIN intents /\ ~Exposed(txs'[t].intent)

OldRow(t) ==
    /\ txs'[t].type = txs[t].type /\ txs'[t].user = txs[t].user
    /\ txs[t].type \notin Subscription => txs'[t].intent = txs[t].intent
    /\ Billed(t) => Billed(t)'
    /\ txs'[t].status = "PENDING" => txs[t].status = "PENDING"
    /\ (txs'[t].status = "SUCCESS" /\ txs[t].status # "SUCCESS" /\ Validates(t)) =>
          Shared(t) \/ intents[txs[t].intent].refunded

Evolved ==
    /\ Kept
    /\ \A t \in DOMAIN txs : OldRow(t)
    /\ \A t \in DOMAIN txs' : t \in DOMAIN txs \/ NewRow(t)
    /\ \A i \in DOMAIN intents :
          /\ intents[i].shown => intents'[i].shown
          /\ intents[i].refunded => intents'[i].refunded

\* The validation of a card stays shared.
LEMMA SharedKept ==
  ASSUME Evolved, NEW t \in DOMAIN txs, txs[t].type \notin Subscription, Shared(t)
  PROVE  Shared(t)'
<1>1. PICK s \in DOMAIN txs : Borrows(s) /\ txs[s].intent = txs[t].intent
  BY DEF Shared
<1>2. s \in DOMAIN txs' /\ txs'[s].type = txs[s].type /\ txs'[s].intent = txs[s].intent
  BY <1>1 DEF Evolved, Kept, OldRow, Borrows, Subscription
<1>3. txs'[t].intent = txs[t].intent
  BY DEF Evolved, OldRow
<1>4. QED
  BY <1>1, <1>2, <1>3 DEF Shared, Borrows

\* An intent that the client may know of stays known.
LEMMA ExposedKept ==
  ASSUME Evolved, NEW i \in DOMAIN intents, Exposed(i) PROVE Exposed(i)'
  BY DEF Evolved, Kept, Exposed

\* A report stays true.
LEMMA ReportShownKept ==
  ASSUME Evolved, NEW e, Reported(e), ReportShown(e) PROVE ReportShown(e)'
<1>1. e.type # "customer.subscription.created" => e.about \in DOMAIN intents
  BY DEF Reported, EventType
<1>2. QED
  BY <1>1, ExposedKept DEF ReportShown

\* A validation of an intent that the client knows of was there before.
LEMMA ValidationWasThere ==
  ASSUME Evolved, NEW i, Exposed(i), i # None, NEW t \in DOMAIN txs', Validates(t)',
         txs'[t].intent = i
  PROVE  t \in DOMAIN txs /\ Validates(t) /\ txs[t].intent = i
<1>1. t \in DOMAIN txs
  BY DEF Evolved, NewRow, Validates
<1>2. QED
  BY <1>1 DEF Evolved, OldRow, Validates, Subscription

\* What is known of a refund stays true.
LEMMA ClearedKept ==
  ASSUME Evolved, NEW i \in DOMAIN intents, Exposed(i), i # None
  PROVE  /\ Unrefundable(i) => Unrefundable(i)'
         /\ Cleared(i) => Cleared(i)'
<1>1. ASSUME NEW t \in DOMAIN txs', Validates(t)', txs'[t].intent = i
      PROVE  /\ t \in DOMAIN txs /\ Validates(t) /\ txs[t].intent = i
             /\ Shared(t) => Shared(t)'
  <2>1. t \in DOMAIN txs /\ Validates(t) /\ txs[t].intent = i
    BY <1>1, ValidationWasThere
  <2>2. QED
    BY <2>1, SharedKept DEF Validates, Subscription
<1>2. intents[i].refunded => intents'[i].refunded
  BY DEF Evolved
<1>3. Unrefundable(i) => Unrefundable(i)'
  BY <1>1 DEF Unrefundable
<1>4. Cleared(i) => Cleared(i)'
  BY <1>1, <1>2 DEF Cleared
<1>5. QED
  BY <1>3, <1>4

----------------------------------------------------------------------------
(* The rows: what each step that writes transactions does to them.           *)

Dimmed ==
    \A i \in DOMAIN intents :
        /\ intents[i].shown => intents'[i].shown
        /\ intents[i].refunded => intents'[i].refunded

RowStays(t) ==
    /\ txs'[t].type = txs[t].type /\ txs'[t].user = txs[t].user
    /\ txs'[t].intent = txs[t].intent /\ txs'[t].newIntent = txs[t].newIntent
    /\ txs'[t].sub = txs[t].sub

\* A row that keeps the objects that it names goes on fitting.
LEMMA RowFitsKept ==
  ASSUME RowsInv, Evolved, NEW t \in DOMAIN txs, RowFits(t), RowStays(t)
  PROVE  RowFits(t)'
<1> USE DEF RowsInv
<1>1. /\ txs[t].intent # None => txs[t].intent \in DOMAIN intents
      /\ txs[t].newIntent # None => txs[t].newIntent \in DOMAIN intents
  BY DEF TxRows
<1>2. \A u, c : Owns(u, c) => Owns(u, c)'
  BY OwnsKept DEF Evolved
<1>3. \A i \in DOMAIN intents : /\ intents'[i].customer = intents[i].customer
                                /\ intents'[i].origin = intents[i].origin
  BY DEF Evolved, Kept
<1>4. \A s \in DOMAIN subs : s \in DOMAIN subs' /\ subs'[s].customer = subs[s].customer
  BY DEF Evolved, Kept
<1>5. Validates(t) /\ Shared(t) => Shared(t)'
  BY SharedKept DEF Validates, Subscription
<1>6. txs'[t].intent # None => Owns(txs[t].user, intents[txs[t].intent].customer)'
  BY <1>1, <1>2, <1>3 DEF RowFits, RowStays
<1>7. txs'[t].newIntent # None =>
         /\ Owns(txs[t].user, intents[txs[t].newIntent].customer)'
         /\ intents'[txs'[t].newIntent].origin # txs'[t].newIntent
         /\ Validates(t)' => Shared(t)'
  BY <1>1, <1>2, <1>3, <1>5 DEF RowFits, RowStays, Validates
<1>8. txs'[t].sub # None => /\ txs'[t].sub \in DOMAIN subs'
                            /\ Owns(txs[t].user, subs[txs[t].sub].customer)'
  BY <1>2, <1>4 DEF RowFits, RowStays
<1>9. /\ txs'[t].intent # None /\ ~Borrows(t)' =>
            intents'[txs'[t].intent].origin = txs'[t].intent
      /\ txs'[t].type \notin Subscription => txs'[t].intent # None
  BY <1>1, <1>3 DEF RowFits, RowStays, Borrows
<1>10. QED
  BY <1>6, <1>7, <1>8, <1>9 DEF RowFits

\* Rows get another status, and intents are shown or refunded.
LEMMA RowsResettled ==
  ASSUME RowsInv, RecordsInv, Kept, Dimmed, DOMAIN txs' = DOMAIN txs,
         \A t \in DOMAIN txs :
            /\ RowStays(t)
            /\ txs'[t].status = "PENDING" => txs[t].status = "PENDING"
            /\ (txs'[t].status = "SUCCESS" /\ txs[t].status # "SUCCESS" /\ Validates(t)) =>
                  Shared(t) \/ intents[txs[t].intent].refunded
  PROVE  Evolved /\ RecordsInv'
<1>1. Evolved
  BY DEF Evolved, OldRow, RowStays, Billed, Dimmed
<1>2. RowsFit'
  BY <1>1, RowFitsKept DEF RecordsInv, RowsFit
<1>3. OneRowPerIntent'
  BY DEF RecordsInv, OneRowPerIntent, RowStays, Borrows
<1>4. QED
  BY <1>1, <1>2, <1>3 DEF RecordsInv

\* Nobody writes transactions.
LEMMA RowsUnwritten ==
  ASSUME RowsInv, RecordsInv, Kept, Dimmed, UNCHANGED txs
  PROVE  Evolved /\ RecordsInv'
  BY RowsResettled DEF RowStays

\* A new row, for an intent of its user that no other row names, or a second
\* row of a subscribe without card.
LEMMA RowAppended ==
  ASSUME RowsInv, RecordsInv, Kept, Dimmed,
         NEW u, NEW type, NEW tariff, NEW plan, NEW intent,
         txs' = Append(txs, NewTx(u, type, tariff, plan, intent)),
         intent # None =>
            /\ intent \in DOMAIN intents /\ Owns(u, intents[intent].customer)
            /\ type # "PRE_SUBSCRIPTION_PAYMENT" => Unsaved(intent),
         type \notin Subscription => intent # None
  PROVE  Evolved /\ RecordsInv'
<1> USE DEF RowsInv
<1>1. PICK row, n : n = Len(txs) + 1 /\ row = NewTx(u, type, tariff, plan, intent)
  OBVIOUS
<1>2. /\ row.user = u /\ row.type = type /\ row.intent = intent /\ row.newIntent = None
      /\ row.sub = None /\ row.status = "PENDING"
  BY <1>1 DEF NewTx
<1>3. Grown(txs, row, txs')
  BY <1>1, AppendedTable DEF TxRows
<1>4. /\ \A t \in DOMAIN txs : t \in DOMAIN txs' /\ txs'[t] = txs[t]
      /\ n \in DOMAIN txs' /\ txs'[n] = row
      /\ \A t \in DOMAIN txs' : t \in DOMAIN txs \/ t = n
  BY <1>1, <1>3 DEF Grown, TxRows, IsTable
<1>5. NewRow(n)
  BY <1>2, <1>4 DEF NewRow, Unsaved
<1>6. Evolved
  BY <1>4, <1>5 DEF Evolved, OldRow, Billed, Dimmed
<1>7. RowFits(n)'
  <2>1. intent # None => /\ Owns(u, intents[intent].customer)'
                         /\ type # "PRE_SUBSCRIPTION_PAYMENT" => intents'[intent].origin = intent
    BY OwnsKept DEF Kept, Unsaved, Exposed
  <2>2. QED
    BY <1>2, <1>4, <2>1 DEF RowFits, Borrows
<1>8. ASSUME NEW t \in DOMAIN txs PROVE RowFits(t)'
  BY <1>4, <1>6, RowFitsKept DEF RowStays, RecordsInv, RowsFit
<1>9. OneRowPerIntent'
  <2>1. ASSUME NEW t \in DOMAIN txs, type # "PRE_SUBSCRIPTION_PAYMENT", intent # None
        PROVE  txs[t].intent # intent
    BY <2>1 DEF Unsaved
  <2>2. SUFFICES ASSUME NEW s \in DOMAIN txs', NEW t \in DOMAIN txs',
                        ~Borrows(s)', ~Borrows(t)',
                        txs'[s].intent # None, txs'[s].intent = txs'[t].intent
                 PROVE  s = t
    BY DEF OneRowPerIntent
  <2>3. CASE s \in DOMAIN txs /\ t \in DOMAIN txs
    BY <1>4, <2>2, <2>3 DEF RecordsInv, OneRowPerIntent, Borrows
  <2>4. QED
    BY <1>2, <1>4, <2>1, <2>2, <2>3 DEF Borrows
<1>10. QED
  BY <1>4, <1>6, <1>7, <1>8, <1>9 DEF RecordsInv, RowsFit

\* The rows after an update of the status.
LEMMA StatusWritten ==
  ASSUME TxRows, NEW T, NEW status, txs' = TxsWithStatus(T, status)
  PROVE  /\ DOMAIN txs' = DOMAIN txs
         /\ \A t \in DOMAIN txs :
               /\ RowStays(t)
               /\ txs'[t].status = IF t \in T THEN status ELSE txs[t].status
<1>1. ASSUME NEW t \in DOMAIN txs
      PROVE  /\ RowStays(t)
             /\ txs'[t].status = IF t \in T THEN status ELSE txs[t].status
  BY DEF TxsWithStatus, TxRows, IsTx, RowStays
<1>2. QED
  BY <1>1 DEF TxsWithStatus

\* Intents that nobody writes.
LEMMA IntentsUnwritten == ASSUME UNCHANGED intents PROVE Dimmed
  BY DEF Dimmed

\* Stripe's intents are shown to the client.
LEMMA ShownStays ==
  ASSUME StripeRows, NEW i,
         \/ intents' = [intents EXCEPT ![i].shown = TRUE]
         \/ intents' = [intents EXCEPT ![i].refunded = TRUE]
  PROVE  Dimmed
<1> SUFFICES ASSUME NEW k \in DOMAIN intents
             PROVE  /\ intents[k].shown => intents'[k].shown
                    /\ intents[k].refunded => intents'[k].refunded
  BY DEF Dimmed
<1>1. IsIntent(intents[k])
  BY DEF StripeRows
<1>2. CASE k # i
  BY <1>2
<1>3. CASE k = i
  <2>1. \/ intents'[k] = [intents[k] EXCEPT !.shown = TRUE]
        \/ intents'[k] = [intents[k] EXCEPT !.refunded = TRUE]
    BY <1>3
  <2>2. QED
    BY <1>1, <2>1 DEF IsIntent
<1>4. QED
  BY <1>2, <1>3

(* The invariant that a step starts from.                                    *)
StartInv == OutcomeInv /\ RecordsInv /\ CallsInv

\* What a call in flight knows.
LEMMA CallKnown ==
  ASSUME StartInv, NEW h \in Handlers
  PROVE  /\ RowsInv /\ PaidBeforeSuccess /\ HandlersFit /\ CallsFit /\ RecordsInv
         /\ IsHandler(handlers[h]) /\ Fits(handlers[h]) /\ Knows(handlers[h])
  BY DEF StartInv, OutcomeInv, HandlersFit, CallsFit, CallsInv, CallsKnow

\* Pending rows are swept, or a payment fails.
LEMMA SweptRecords ==
  ASSUME StartInv, NEW h \in Handlers, Kept,
         Supersede(h) \/ CancelOthers(h) \/ FailValidation(h)
  PROVE  Evolved /\ RecordsInv'
<1>0. RowsInv /\ TxRows /\ RecordsInv
  BY CallKnown DEF RowsInv
<1>1. UNCHANGED intents
  BY DEF Supersede, CancelOthers, FailValidation, stripe
<1>2. PICK T, status : /\ status \in {"CANCELED", "FAILED"}
                       /\ txs' = TxsWithStatus(T, status)
  BY DEF Supersede, CancelOthers, FailValidation
<1>3. /\ DOMAIN txs' = DOMAIN txs
      /\ \A t \in DOMAIN txs :
            /\ RowStays(t)
            /\ txs'[t].status = IF t \in T THEN status ELSE txs[t].status
  BY <1>0, <1>2, StatusWritten
<1>4. \A t \in DOMAIN txs :
         /\ txs'[t].status = "PENDING" => txs[t].status = "PENDING"
         /\ txs'[t].status = "SUCCESS" => txs[t].status = "SUCCESS"
  BY <1>2, <1>3
<1>5. QED
  BY <1>0, <1>1, <1>3, <1>4, IntentsUnwritten, RowsResettled

\* A row found by its replacement intent is a validation only if the intent of
\* the validation is shared.
LEMMA SettleByIdRecords ==
  ASSUME StartInv, NEW h \in Handlers, Kept, SettleById(h)
  PROVE  Evolved /\ RecordsInv'
<1>0. /\ RowsInv /\ TxRows /\ RecordsInv /\ Knows(handlers[h])
      /\ UNCHANGED intents
  BY CallKnown DEF RowsInv, SettleById, stripe
<1>1. PICK tx : tx = handlers[h].tx
  OBVIOUS
<1>2. txs' = TxsWithStatus({tx}, "SUCCESS") /\ handlers[h].replaces
  BY <1>1 DEF SettleById, UpdatesByIdOnly
<1>3. Validates(tx) => Shared(tx)
  BY <1>0, <1>1, <1>2 DEF Knows, ClearKnown
<1>4. /\ DOMAIN txs' = DOMAIN txs
      /\ \A t \in DOMAIN txs :
            /\ RowStays(t)
            /\ txs'[t].status = IF t \in {tx} THEN "SUCCESS" ELSE txs[t].status
  BY <1>0, <1>2, StatusWritten
<1>5. QED
  BY <1>0, <1>3, <1>4, IntentsUnwritten, RowsResettled

\* What a row becomes when its payment or subscription is settled.
LEMMA RowsSettled ==
  ASSUME TxRows, NEW h, SettleRows(h)
  PROVE  /\ DOMAIN txs' = DOMAIN txs
         /\ \A t \in DOMAIN txs :
               /\ RowStays(t)
               /\ txs'[t].status = IF t \in RowsToSettle(h) THEN handlers[h].outcome
                                                            ELSE txs[t].status
<1> DEFINE outcome == handlers[h].outcome
           T == RowsToSettle(h)
<1>1. ASSUME NEW t \in DOMAIN txs
      PROVE  /\ RowStays(t)
             /\ txs'[t].status = IF t \in T THEN outcome ELSE txs[t].status
  <2>1. IsTx(txs[t])
    BY DEF TxRows
  <2>2. CASE t \notin T
    BY <2>1, <2>2, ZenonT(30) DEF SettleRows, RowStays
  <2>3. CASE t \in T
    <3>1. PICK plan : txs'[t] = [txs[t] EXCEPT !.status = outcome, !.plan = plan]
      BY <2>3, ZenonT(30) DEF SettleRows
    <3>2. QED
      BY <2>1, <2>3, <3>1 DEF RowStays, IsTx
  <2>4. QED
    BY <2>2, <2>3
<1>2. QED
  BY <1>1, ZenonT(30) DEF SettleRows

\* The rows of an event: a validation among them has its charge given back.
LEMMA SettleRowsRecords ==
  ASSUME StartInv, NEW h \in Handlers, Kept, SettleRows(h)
  PROVE  Evolved /\ RecordsInv'
<1>0. /\ RowsInv /\ TxRows /\ RecordsInv /\ Knows(handlers[h]) /\ Fits(handlers[h])
      /\ HandlersFit /\ UNCHANGED intents
  BY CallKnown, ZenonT(30) DEF RowsInv, SettleRows, stripe
<1>1. /\ DOMAIN txs' = DOMAIN txs
      /\ \A t \in DOMAIN txs :
            /\ RowStays(t)
            /\ txs'[t].status = IF t \in RowsToSettle(h) THEN handlers[h].outcome
                                                         ELSE txs[t].status
  BY <1>0, RowsSettled
<1>2. /\ handlers[h].outcome \in {"SUCCESS", "FAILED"} /\ At(h, "settleRows")
      /\ handlers[h].task \in {"intentSucceeded", "subscriptionCreated"}
  BY <1>0, ZenonT(30) DEF SettleRows, At, Knows, WhoKnown, Fits, PlaceFits
<1>3. ASSUME NEW t \in RowsToSettle(h), Validates(t), handlers[h].outcome = "SUCCESS"
      PROVE  Shared(t) \/ intents[txs[t].intent].refunded
  <2>1. t \in DOMAIN txs
    BY DEF RowsToSettle, TxsOf
  <2>2. txs[t].intent # None
    BY <1>0, <1>3, <2>1 DEF RecordsInv, RowsFit, RowFits, Validates, Subscription
  <2>3. CASE handlers[h].task = "subscriptionCreated"
    <3>1. txs[t].sub = About(h) /\ About(h) \in Nat
      BY <1>0, <2>3, WebhookKnows DEF RowsToSettle
    <3>2. QED
      BY <1>0, <2>1, <2>2, <3>1, NoneAssumption DEF TxRows
  <2>4. CASE handlers[h].task = "intentSucceeded"
    <3>1. txs[t].intent = About(h)
      BY <2>4 DEF RowsToSettle
    <3>2. Cleared(handlers[h].event.about)
      BY <1>0, <1>2, <1>3, <2>4 DEF Knows, ClearKnown, Cashed, At
    <3>3. QED
      BY <1>3, <2>1, <3>1, <3>2 DEF Cleared, About
  <2>5. QED
    BY <1>2, <2>3, <2>4
<1>4. ASSUME NEW t \in DOMAIN txs
      PROVE  /\ txs'[t].status = "PENDING" => txs[t].status = "PENDING"
             /\ (txs'[t].status = "SUCCESS" /\ txs[t].status # "SUCCESS" /\ Validates(t)) =>
                   Shared(t) \/ intents[txs[t].intent].refunded
  BY <1>1, <1>2, <1>3
<1>5. QED
  BY <1>0, <1>1, <1>4, IntentsUnwritten, RowsResettled

\* The rows that requests add.
LEMMA SaveRecords ==
  ASSUME StartInv, NEW h \in Handlers, Kept,
         SaveTx(h) \/ SavePrePayment(h) \/ SaveIntentTx(h)
  PROVE  Evolved /\ RecordsInv'
<1>0. /\ RowsInv /\ StripeRows /\ RecordsInv /\ Knows(handlers[h]) /\ Fits(handlers[h])
      /\ SaversFit
  BY CallKnown DEF RowsInv, StartInv, CallsInv
<1>1. Dimmed
  <2>1. CASE UNCHANGED intents
    BY <2>1, IntentsUnwritten
  <2>2. CASE SaveIntentTx(h) /\ handlers[h].task = "getSecret"
    BY <1>0, <2>2, ShownStays DEF SaveIntentTx, Show
  <2>3. QED
    BY <2>1, <2>2 DEF SaveTx, SavePrePayment, SaveIntentTx, stripe
<1>2. PICK u, type, tariff, plan, intent :
         /\ txs' = Append(txs, NewTx(u, type, tariff, plan, intent))
         /\ u = handlers[h].user
         /\ \/ SaveTx(h) /\ intent = None /\ type = handlers[h].type
            \/ /\ SavePrePayment(h) /\ intent = handlers[h].intent
               /\ type = "PRE_SUBSCRIPTION_PAYMENT"
            \/ /\ SaveIntentTx(h) /\ intent = handlers[h].intent
               /\ type \in {"CARD_VALIDATION", "SUBSCRIPTION"}
  BY DEF SaveTx, SavePrePayment, SaveIntentTx
<1>3. SavePrePayment(h) \/ SaveIntentTx(h) =>
         /\ handlers[h].intent \in DOMAIN intents
         /\ Owns(handlers[h].user, intents[handlers[h].intent].customer)
  BY <1>0 DEF SavePrePayment, SaveIntentTx, Knows, OwnerKnown, Fits, AtFits, At
<1>4. SaveIntentTx(h) => Unsaved(handlers[h].intent)
  <2>1. Saves(handlers[h]) => Unsaved(handlers[h].intent)
    BY <1>0 DEF SaversFit
  <2>2. SaveIntentTx(h) => Saves(handlers[h])
    BY DEF SaveIntentTx, Saves, At
  <2>3. QED
    BY <2>1, <2>2
<1>5. SaveTx(h) => handlers[h].type \in Subscription
  BY <1>0 DEF SaveTx, Fits, PlaceFits, Knows, WhoKnown, At
<1>6. \A i \in DOMAIN intents : i # None
  BY <1>0, NoneAssumption DEF StripeRows, IsTable
<1>7. intent # None =>
         /\ intent \in DOMAIN intents /\ Owns(u, intents[intent].customer)
         /\ type # "PRE_SUBSCRIPTION_PAYMENT" => Unsaved(intent)
  BY <1>2, <1>3, <1>4
<1>8. type \notin Subscription => intent # None
  BY <1>2, <1>3, <1>5, <1>6
<1>9. QED
  BY <1>0, <1>1, <1>2, <1>7, <1>8, RowAppended

\* The row of a failed payment gets the replacement, and stays with its user.
LEMMA FailTxRecords ==
  ASSUME StartInv, NEW h \in Handlers, Kept, FailTx(h)
  PROVE  Evolved /\ RecordsInv'
<1>a. PICK i, u, t : i = handlers[h].intent /\ u = handlers[h].user /\ t = handlers[h].tx
  OBVIOUS
<1>0. /\ RowsInv /\ TxRows /\ RecordsInv /\ HandlersFit
      /\ Knows(handlers[h]) /\ Fits(handlers[h])
      /\ UNCHANGED intents /\ Dimmed /\ At(h, "failTxRow")
  BY CallKnown, IntentsUnwritten, ZenonT(30) DEF RowsInv, FailTx, stripe
<1>1. /\ i \in DOMAIN intents /\ intents[i].origin # i /\ Owns(u, intents[i].customer)
      /\ t \in DOMAIN txs /\ txs[t].user = u /\ (Validates(t) => Shared(t))
  BY <1>a, <1>0 DEF At, Fits, AtFits, Knows, OwnerKnown
<1>2. RowFits(t)
  BY <1>0, <1>1 DEF RecordsInv, RowsFit
<1>3. txs' = [txs EXCEPT ![t].status = "FAILED", ![t].user = u, ![t].newIntent = i]
  BY <1>a, ZenonT(30) DEF FailTx
<1>4. DOMAIN txs' = DOMAIN txs /\ \A r \in DOMAIN txs : r # t => txs'[r] = txs[r]
  BY <1>3
<1>5. /\ txs'[t].status = "FAILED" /\ txs'[t].user = txs[t].user
      /\ txs'[t].type = txs[t].type /\ txs'[t].sub = txs[t].sub
      /\ txs'[t].intent = txs[t].intent /\ txs'[t].newIntent = i
  <2>1. txs'[t] = [txs[t] EXCEPT !.status = "FAILED", !.user = u, !.newIntent = i]
    BY <1>1, <1>3
  <2>2. IsTx(txs[t])
    BY <1>0, <1>1 DEF TxRows
  <2>3. QED
    BY <1>1, <2>1, <2>2 DEF IsTx
<1>6. Evolved
  BY <1>0, <1>1, <1>4, <1>5 DEF Evolved, OldRow, Billed, Dimmed
<1>7. ASSUME NEW r \in DOMAIN txs, r # t PROVE RowFits(r)'
  BY <1>0, <1>4, <1>6, <1>7, RowFitsKept DEF RowStays, RecordsInv, RowsFit
<1>8. RowFits(t)'
  <2>0. UNCHANGED <<intents, subs, customers>>
    BY ZenonT(30) DEF FailTx, stripe
  <2>1. /\ Owns(u, intents[i].customer)'
        /\ txs'[t].intent # None => Owns(u, intents[txs[t].intent].customer)'
    <3>1. txs'[t].intent = txs[t].intent /\ txs'[t].user = u
      BY <1>1, <1>5
    <3>2. txs[t].intent # None => Owns(u, intents[txs[t].intent].customer)
      BY <1>1, <1>2 DEF RowFits
    <3>3. QED
      BY <1>1, <2>0, <3>1, <3>2 DEF Owns
  <2>2. Validates(t) => Shared(t)'
    BY <1>1, <1>6, SharedKept DEF Validates, Subscription
  <2>3. txs'[t].sub # None => /\ txs'[t].sub \in DOMAIN subs'
                              /\ Owns(u, subs[txs[t].sub].customer)'
    <3>1. txs[t].sub # None => /\ txs[t].sub \in DOMAIN subs
                               /\ Owns(u, subs[txs[t].sub].customer)
      BY <1>1, <1>2 DEF RowFits
    <3>2. QED
      BY <1>5, <2>0, <3>1 DEF Owns
  <2>4. QED
    BY <1>0, <1>1, <1>2, <1>5, <2>1, <2>2, <2>3
       DEF RowFits, Borrows, Validates
<1>9. OneRowPerIntent'
  <2>1. \A r \in DOMAIN txs : /\ txs'[r].intent = txs[r].intent
                              /\ txs'[r].type = txs[r].type
    BY <1>4, <1>5
  <2>2. QED
    BY <1>0, <1>4, <2>1 DEF RecordsInv, OneRowPerIntent, Borrows
<1>10. QED
  BY <1>4, <1>6, <1>7, <1>8, <1>9 DEF RecordsInv, RowsFit

\* The row that is linked is a subscription of the user whom Stripe's is of.
LEMMA LinkTxRecords ==
  ASSUME StartInv, NEW h \in Handlers, Kept, LinkTx(h)
  PROVE  Evolved /\ RecordsInv'
<1>a. PICK t : t = handlers[h].tx
  OBVIOUS
<1>0. /\ RowsInv /\ TxRows /\ RecordsInv /\ HandlersFit
      /\ Knows(handlers[h]) /\ Fits(handlers[h])
      /\ UNCHANGED <<intents, subs, customers>> /\ Dimmed /\ At(h, "linkTx")
  BY CallKnown, IntentsUnwritten DEF RowsInv, LinkTx, stripe
<1>1. /\ t \in DOMAIN txs /\ txs[t].type \in Subscription
      /\ About(h) \in DOMAIN subs /\ Owns(txs[t].user, subs[About(h)].customer)
      /\ About(h) # None
  <2>1. handlers[h].task = "subscriptionCreated"
    BY <1>0 DEF At, Fits, PlaceFits
  <2>2. /\ t \in DOMAIN txs /\ txs[t].type \in Subscription
        /\ txs[t].user = handlers[h].user
    BY <1>a, <1>0, <2>1 DEF Knows, LinkKnown, Linking, At
  <2>3. handlers[h].user \in Users
    BY <1>0, <2>1 DEF Knows, WhoKnown, Searching, WebhookTask, At
  <2>4. QED
    BY <1>0, <2>1, <2>2, <2>3, WebhookKnows, NoneAssumption DEF Fits, CallFits, About
<1>2. txs' = [txs EXCEPT ![t].intent = None, ![t].newIntent = None, ![t].sub = About(h)]
  BY <1>a DEF LinkTx
<1>3. DOMAIN txs' = DOMAIN txs /\ \A r \in DOMAIN txs : r # t => txs'[r] = txs[r]
  BY <1>2
<1>4. /\ txs'[t].status = txs[t].status /\ txs'[t].user = txs[t].user
      /\ txs'[t].type = txs[t].type /\ txs'[t].sub = About(h)
      /\ txs'[t].intent = None /\ txs'[t].newIntent = None
  <2>1. txs'[t] = [txs[t] EXCEPT !.intent = None, !.newIntent = None, !.sub = About(h)]
    BY <1>1, <1>2
  <2>2. IsTx(txs[t])
    BY <1>0, <1>1 DEF TxRows
  <2>3. QED
    BY <2>1, <2>2 DEF IsTx
<1>5. Evolved
  BY <1>0, <1>1, <1>3, <1>4 DEF Evolved, OldRow, Billed, Dimmed
<1>6. ASSUME NEW r \in DOMAIN txs, r # t PROVE RowFits(r)'
  BY <1>0, <1>3, <1>5, <1>6, RowFitsKept DEF RowStays, RecordsInv, RowsFit
<1>7. RowFits(t)'
  <2>1. PICK s : s = About(h)
    OBVIOUS
  <2>2. s \in DOMAIN subs' /\ Owns(txs[t].user, subs[s].customer)'
    BY <1>0, <1>1, <1>4, <2>1 DEF Owns
  <2>3. QED
    BY <1>1, <1>4, <2>1, <2>2 DEF RowFits
<1>8. OneRowPerIntent'
  <2>1. \A r \in DOMAIN txs : /\ txs'[r].intent # None => txs'[r].intent = txs[r].intent
                              /\ txs'[r].type = txs[r].type
    BY <1>3, <1>4
  <2>2. QED
    BY <1>0, <1>3, <2>1 DEF RecordsInv, OneRowPerIntent, Borrows
<1>9. QED
  BY <1>3, <1>5, <1>6, <1>7, <1>8 DEF RecordsInv, RowsFit

\* Every step that writes transactions.
LEMMA TxStepRecords ==
  ASSUME StartInv, NEW h \in Handlers, TxStep(h)
  PROVE  Evolved /\ RecordsInv'
<1>1. Kept
  BY CallKnown, TxStepFine DEF TxsFine
<1>2. QED
  BY <1>1, SweptRecords, SettleByIdRecords, SettleRowsRecords, SaveRecords, FailTxRecords,
     LinkTxRecords DEF TxStep

\* Intents are added.
LEMMA IntentAppended ==
  ASSUME StripeRows, NEW row, intents' = Append(intents, row) PROVE Dimmed
<1>1. Grown(intents, row, intents')
  BY AppendedTable DEF StripeRows
<1>2. QED
  BY <1>1 DEF Grown, Dimmed

\* The steps that write objects of Stripe.
LEMMA StripeStepRecords ==
  ASSUME StartInv, NEW h \in Handlers, StripeStep(h), UNCHANGED txs
  PROVE  Evolved /\ RecordsInv'
<1>1. /\ RowsInv /\ StripeRows /\ RecordsInv /\ Fits(handlers[h])
      /\ Kept
  BY CallKnown, StripeStepFine DEF RowsInv, TxsFine
<1>2. CASE UNCHANGED intents
  BY <1>1, <1>2, IntentsUnwritten, RowsUnwritten
<1>3. CASE \E i : \/ intents' = [intents EXCEPT ![i].shown = TRUE]
                  \/ intents' = [intents EXCEPT ![i].refunded = TRUE]
  BY <1>1, <1>3, ShownStays, RowsUnwritten
<1>4. CASE \E row : intents' = Append(intents, row)
  BY <1>1, <1>4, IntentAppended, RowsUnwritten
<1>5. QED
  <2>1. FindValidation(h) => UNCHANGED intents \/ \E i : intents' = [intents EXCEPT ![i].shown = TRUE]
    BY DEF FindValidation, Show
  <2>2. ReuseIntent(h) => UNCHANGED intents \/ \E i : intents' = [intents EXCEPT ![i].shown = TRUE]
    <3>1. ReuseIntent(h) => handlers[h].task \in {"subscribe", "getSecret"}
      BY <1>1 DEF ReuseIntent, Fits, PlaceFits, At
    <3>2. QED
      BY <3>1, ZenonT(30) DEF ReuseIntent, Show
  <2>3. Refund(h) => \E i : intents' = [intents EXCEPT ![i].refunded = TRUE]
    BY DEF Refund
  <2>4. CreateIntent(h) \/ ReplaceIntent(h) => \E row : intents' = Append(intents, row)
    BY DEF CreateIntent, ReplaceIntent
  <2>5. DeleteSubs(h) \/ CreateSub(h) \/ CreateCustomer(h) => UNCHANGED intents
    BY DEF DeleteSubs, CreateSub, CreateCustomer
  <2>6. QED
    BY <1>2, <1>3, <1>4, <2>1, <2>2, <2>3, <2>4, <2>5 DEF StripeStep

\* A step writes transactions, or objects of Stripe, or neither.
LEMMA StepKinds ==
  ASSUME NEW h, Step(h)
  PROVE  /\ TxStep(h) \/ UNCHANGED txs
         /\ TxStep(h) \/ StripeStep(h) \/ UNCHANGED intents
<1>1. CASE SharedStep(h)
  BY <1>1
     DEF SharedStep, StripeStep, ListSubs, DeleteSubs, CreateSub, SetStatus, DropNext,
         Deactivate, Activate, ActivateFails, stripe
<1>2. CASE RequestStep(h)
  BY <1>2, ZenonT(30)
     DEF RequestStep, TxStep, StripeStep, FindPlans, FindTrialCard, FindCurrent, FindLast,
         DeletePlan, FindCard, FindPlan, CreatePlan, AttachCard, FindValidation, FindCustomer,
         CreateCustomer, StoreCustomer, ReuseIntent, NoIntentFound, CreateIntent,
         FindIntentPlan, FindNextPlan, CountPlans, CreateFirstPlan, stripe
<1>3. CASE WebhookStep(h)
  BY <1>3, ZenonT(30)
     DEF WebhookStep, TxStep, StripeStep, FindTx, FindPayer, SaveCard, Refund, CreatePaidPlan,
         SetActive, StoreTariff, FindFailedTx, FindDebtor, ReplaceIntent, FindRowToFail,
         FindSubscriber, FindPendingTx, ReadPlan, StoreNext, FindUser, stripe
<1>4. CASE CronStep(h)
  BY <1>4, ZenonT(30)
     DEF CronStep, CronUser, CronPlan, CronStatus, CronLast, CronCreate, CronTariff,
     stripe
<1>5. QED
  BY <1>1, <1>2, <1>3, <1>4 DEF Step

\* Every step of a call.
LEMMA StepRecords ==
  ASSUME StartInv, NEW h \in Handlers, Step(h)
  PROVE  Evolved /\ RecordsInv'
<1>1. RowsInv /\ RecordsInv /\ Kept
  BY CallKnown, StepRows DEF StartInv, OutcomeInv, StateInv, StepFine
<1>2. CASE TxStep(h)
  BY <1>2, TxStepRecords
<1>3. CASE ~TxStep(h) /\ StripeStep(h)
  BY <1>3, StepKinds, StripeStepRecords
<1>4. CASE ~TxStep(h) /\ ~StripeStep(h)
  BY <1>1, <1>4, StepKinds, IntentsUnwritten, RowsUnwritten
<1>5. QED
  BY <1>2, <1>3, <1>4

\* The other steps leave the rows alone.
LEMMA OtherRecords ==
  ASSUME StartInv, UNCHANGED <<txs, intents, subs, customers>>
  PROVE  Evolved /\ RecordsInv'
<1>1. RowsInv /\ RecordsInv /\ Kept
  BY TablesStay DEF StartInv, OutcomeInv, RowsInv, tables
<1>2. QED
  BY <1>1, IntentsUnwritten, RowsUnwritten

\* A payment changes the state of an intent.
LEMMA PayRecords ==
  ASSUME StartInv, NEW i \in DOMAIN intents,
         (\E card \in Cards : Pay(i, card)) \/ CancelIntent(i)
  PROVE  Evolved /\ RecordsInv'
<1>1. RowsInv /\ StripeRows /\ RecordsInv /\ Kept
  BY PayFine DEF StartInv, OutcomeInv, RowsInv, TxsFine
<1>2. UNCHANGED txs
  BY ZenonT(30) DEF Pay, CancelIntent
<1>3. Dimmed
  <2>1. PICK state, card :
           \/ intents' = [intents EXCEPT ![i].state = state, ![i].card = card]
           \/ intents' = [intents EXCEPT ![i].state = state]
    BY ZenonT(30) DEF Pay, CancelIntent
  <2>2. ASSUME NEW k \in DOMAIN intents
        PROVE  intents'[k].shown = intents[k].shown /\ intents'[k].refunded = intents[k].refunded
    <3>1. IsIntent(intents[k])
      BY <1>1 DEF StripeRows
    <3>2. CASE k # i
      BY <2>1, <3>2
    <3>3. CASE k = i
      <4>1. \/ intents'[k] = [intents[k] EXCEPT !.state = state, !.card = card]
            \/ intents'[k] = [intents[k] EXCEPT !.state = state]
        BY <2>1, <3>3
      <4>2. QED
        BY <3>1, <4>1 DEF IsIntent
    <3>4. QED
      BY <3>2, <3>3
  <2>3. QED
    BY <2>2 DEF Dimmed
<1>4. QED
  BY <1>1, <1>2, <1>3, RowsUnwritten

----------------------------------------------------------------------------
(* What a call knows stays true.                                             *)

\* The intent that a webhook is about is one that the client knows of.
LEMMA AboutKnown ==
  ASSUME NEW r, Fits(r), Knows(r), r.task \in {"intentSucceeded", "intentFailed"}
  PROVE  /\ r.event.about \in DOMAIN intents /\ r.event.about # None
         /\ Exposed(r.event.about) /\ Reported(r.event)
<1>1. /\ Reported(r.event) /\ r.event.type # "customer.subscription.created"
      /\ r.event.about \in DOMAIN intents /\ r.event.about \in Nat
  BY DEF Fits, EventFits, Reported
<1>2. Exposed(r.event.about)
  BY <1>1 DEF Knows, WhoKnown, ReportShown, WebhookTask
<1>3. QED
  BY <1>1, <1>2, NoneAssumption

\* What a call knows of its report.
LEMMA WhoKept ==
  ASSUME Evolved, NEW r, Fits(r), WhoKnown(r) PROVE WhoKnown(r)'
<1>1. ASSUME r.task \in WebhookTask PROVE ReportShown(r.event)'
  <2>1. PICK e : e = r.event
    OBVIOUS
  <2>2. Reported(e) /\ ReportShown(e)
    BY <1>1, <2>1 DEF Fits, EventFits, WhoKnown, WebhookTask
  <2>3. ReportShown(e)'
    BY <2>2, ReportShownKept
  <2>4. QED
    BY <2>1, <2>3
<1>2. QED
  BY <1>1 DEF WhoKnown

\* What a call knows of customers and intents.
LEMMA OwnerKept ==
  ASSUME Evolved, NEW r, Fits(r), OwnerKnown(r) PROVE OwnerKnown(r)'
<1>1. \A i \in DOMAIN intents : \A u : Owns(u, intents[i].customer) =>
         /\ Owns(u, intents[i].customer)'
         /\ intents'[i].origin = intents[i].origin
  BY DEF Evolved, Kept, Owns
<1>2. \A c : Owns(r.user, c) => Owns(r.user, c)'
  BY DEF Evolved, Kept, Owns
<1>3. r.at \in {"findIntentPlan", "saveIntentTx", "savePrePayment", "failTx", "failTxRow"} =>
         r.intent \in DOMAIN intents
  BY DEF Fits, AtFits
<1>4. r.at \in {"replaceIntent", "failTx"} => r.event.about \in DOMAIN intents
  BY DEF Fits, PlaceFits, EventFits, Reported
<1>5. (\E t \in DOMAIN txs : Validates(t) /\ txs[t].intent = r.intent) =>
         \E t \in DOMAIN txs' : Validates(t)' /\ txs'[t].intent = r.intent
  BY DEF Evolved, Kept, OldRow, Validates, Subscription
<1>6. \A t \in DOMAIN txs : /\ t \in DOMAIN txs' /\ txs'[t].user = txs[t].user
                            /\ txs'[t].type = txs[t].type
                            /\ Validates(t) /\ Shared(t) => Shared(t)'
  BY SharedKept DEF Evolved, Kept, OldRow, Validates, Subscription
<1>7. r.at = "failTxRow" =>
         /\ r.tx \in DOMAIN txs' /\ txs'[r.tx].user = r.user
         /\ Validates(r.tx)' => Shared(r.tx)'
  BY <1>6 DEF OwnerKnown, Validates
<1>8. QED
  BY <1>1, <1>2, <1>3, <1>4, <1>5, <1>7 DEF OwnerKnown

\* What a webhook has found out about the refund.
LEMMA ClearKept ==
  ASSUME Evolved, NEW r, Fits(r), Knows(r) PROVE ClearKnown(r)'
<1>1. ASSUME NEW i, i = r.event.about, r.task \in {"intentSucceeded", "intentFailed"}
      PROVE  /\ Unrefundable(i) => Unrefundable(i)'
             /\ Cleared(i) => Cleared(i)'
             /\ intents'[i].origin = intents[i].origin
  <2>1. i \in DOMAIN intents /\ i # None /\ Exposed(i)
    BY <1>1, AboutKnown
  <2>2. QED
    BY <2>1, ClearedKept DEF Evolved, Kept
<1>2. \A t \in DOMAIN txs : /\ t \in DOMAIN txs' /\ txs'[t].type = txs[t].type
                            /\ Validates(t) /\ Shared(t) => Shared(t)'
                            /\ Billed(t) => Billed(t)'
  BY SharedKept DEF Evolved, Kept, OldRow, Validates, Subscription
<1>3. /\ r.at \in {"findDebtor", "replaceIntent", "failTx"} => r.task = "intentFailed"
      /\ r.at \in {"findPayer", "saveCard", "refund"} => r.task = "intentSucceeded"
      /\ r.replaces => r.task = "intentSucceeded"
  BY DEF Fits, PlaceFits, CallFits
<1>4. PICK i : i = r.event.about
  OBVIOUS
<1>5. r.at \in {"findDebtor", "replaceIntent", "failTx"} => Unrefundable(i)'
  BY <1>1, <1>3, <1>4 DEF Knows, ClearKnown
<1>6. r.at \in {"findPayer", "saveCard", "refund"} =>
         /\ r.tx \in DOMAIN txs'
         /\ ~Validates(r.tx)' => Unrefundable(i)'
  BY <1>1, <1>2, <1>3, <1>4 DEF Knows, ClearKnown, Validates
<1>7. r.task = "intentSucceeded" /\ r.at \in Cashed /\ r.outcome = "SUCCESS" => Cleared(i)'
  BY <1>1, <1>4 DEF Knows, ClearKnown
<1>8. r.replaces =>
         /\ r.tx \in DOMAIN txs' /\ Billed(r.tx)'
         /\ Validates(r.tx)' => Shared(r.tx)'
         /\ intents'[i].origin # i
  BY <1>1, <1>2, <1>3, <1>4 DEF Knows, ClearKnown, Validates
<1>9. QED
  BY <1>4, <1>5, <1>6, <1>7, <1>8 DEF ClearKnown

\* A call that is left alone knows what it knew.
LEMMA KnowsKept ==
  ASSUME Evolved, NEW r, Fits(r), Knows(r) PROVE Knows(r)'
<1>1. WhereKnown(r)'
  BY DEF Knows, WhereKnown
<1>2. WhoKnown(r)' /\ OwnerKnown(r)' /\ ClearKnown(r)'
  BY WhoKept, OwnerKept, ClearKept DEF Knows
<1>3. LinkKnown(r)'
  BY DEF Knows, LinkKnown, Evolved, Kept, OldRow
<1>4. QED
  BY <1>1, <1>2, <1>3 DEF Knows

----------------------------------------------------------------------------
(* What the call that moves knows.                                           *)

(* The call that moves knows what it has to, and only a call that creates an *)
(* intent, or looks for the plan of the row to come, holds an unsaved one.   *)
Knowing(h) ==
    /\ Moves(h) /\ Knows(handlers[h])'
    /\ Saves(handlers[h])' => CreateIntent(h) \/ FindIntentPlan(h)

\* A call of a client or of the cron does not know much.
LEMMA ClientKnows ==
  ASSUME NEW r, Fits(r)', r.task \notin WebhookTask, r.event = None,
         r.outcome \in {"SUCCESS", "FAILED"},
         r.task \in RequestTask => r.user \in Users,
         r.task = "subscribe" => r.type \in Subscription,
         OwnerKnown(r)'
  PROVE  Knows(r)'
<1>1. PlaceFits(r) /\ ~r.replaces
  <2>1. PlaceFits(r)' /\ CallFits(r)'
    BY DEF Fits
  <2>2. QED
    BY <2>1 DEF PlaceFits, CallFits, WebhookTask
<1>2. WhereKnown(r)' /\ WhoKnown(r)' /\ LinkKnown(r)'
  BY DEF WhereKnown, WhoKnown, LinkKnown, WebhookTask
<1>3. ClearKnown(r)'
  BY <1>1 DEF ClearKnown, PlaceFits, WebhookTask
<1>4. QED
  BY <1>2, <1>3 DEF Knows

\* An idle call knows nothing.
LEMMA IdleKnows == Knows(IdleHandler)' /\ ~Saves(IdleHandler)
<1>1. PICK r : r = IdleHandler
  OBVIOUS
<1>2. /\ r.at = "idle" /\ r.task = "none" /\ r.event = None /\ r.outcome = "SUCCESS"
      /\ r.replaces = FALSE
  BY <1>1 DEF IdleHandler
<1>3. Knows(r)'
  BY <1>2 DEF Knows, WhereKnown, WhoKnown, OwnerKnown, ClearKnown, LinkKnown, RequestTask,
     WebhookTask
<1>4. QED
  BY <1>1, <1>2, <1>3 DEF Saves, IdleHandler

\* A call ends.
LEMMA EndKnows ==
  ASSUME HandlersFit, NEW h \in Handlers, End(h) PROVE Knowing(h)
<1>1. PICK r : r = IdleHandler
  OBVIOUS
<1>2. Knows(r)' /\ ~Saves(r)
  BY <1>1, IdleKnows DEF IdleHandler
<1>3. handlers'[h] = r /\ Moves(h)
  BY <1>1 DEF End, Moves, HandlersFit
<1>4. QED
  BY <1>2, <1>3 DEF Knowing

\* The call that moves fits.
LEMMA MoverFits ==
  ASSUME OutcomeInv', NEW h \in Handlers
  PROVE  Fits(handlers[h])' /\ PlaceFits(handlers'[h])
<1>1. Fits(handlers[h])'
  BY DEF OutcomeInv, HandlersFit
<1>2. PlaceFits(handlers[h])'
  BY <1>1 DEF Fits
<1>3. QED
  BY <1>1, <1>2 DEF PlaceFits

\* A call of a client goes on.
LEMMA ClientGoes ==
  ASSUME StartInv, OutcomeInv', NEW h \in Handlers, GoesOn(h),
         handlers[h].task \notin WebhookTask,
         OwnerKnown(handlers[h])',
         Saves(handlers[h])' => CreateIntent(h) \/ FindIntentPlan(h)
  PROVE  Knowing(h)
<1>1. PICK q, r : q = handlers[h] /\ r = handlers'[h]
  OBVIOUS
<1>2. WhoKnown(q) /\ SameCall(q, r) /\ Moves(h)
  BY <1>1, CallKnown DEF GoesOn, Knows
<1>3. Fits(r)' /\ OwnerKnown(r)'
  BY <1>1, MoverFits
<1>4. /\ r.task \notin WebhookTask /\ r.event = None /\ r.outcome \in {"SUCCESS", "FAILED"}
      /\ r.task \in RequestTask => r.user \in Users
      /\ r.task = "subscribe" => r.type \in Subscription
  BY <1>1, <1>2 DEF WhoKnown, SameCall
<1>5. Knows(r)'
  BY <1>3, <1>4, ClientKnows
<1>6. QED
  BY <1>1, <1>2, <1>5 DEF Knowing

\* A place that asks for nothing of a client.
LEMMA FreeKnows ==
  ASSUME StartInv, OutcomeInv', NEW h \in Handlers, Freely(h),
         handlers[h].task \notin WebhookTask,
         handlers'[h].at = "findIntent" => handlers'[h].task = "subscribe"
  PROVE  Knowing(h)
<1>1. HandlersFit
  BY CallKnown
<1>2. CASE End(h)
  BY <1>1, <1>2, EndKnows
<1>3. CASE GoesOn(h) /\ handlers'[h].at \notin Demanding
  <2>1. PICK r : r = handlers'[h]
    OBVIOUS
  <2>2. OwnerKnown(r)' /\ ~Saves(r)
    BY <1>3, <2>1 DEF OwnerKnown, Demanding, Saves
  <2>3. OwnerKnown(handlers[h])' /\ ~Saves(handlers[h])'
    BY <2>1, <2>2
  <2>4. QED
    BY <1>3, <2>3, ClientGoes
<1>4. QED
  BY <1>2, <1>3 DEF Freely

----------------------------------------------------------------------------
(* Requests.                                                                 *)

\* The steps of requests that ask for nothing.
LEMMA FreeStepKnows ==
  ASSUME StartInv, OutcomeInv', NEW h \in Handlers,
         \/ GoingSteps(h) /\ ~StoreCustomer(h)
         \/ FindCurrent(h) \/ FindLast(h) \/ DeletePlan(h) \/ FindCard(h) \/ FindPlan(h)
         \/ CreatePlan(h) \/ FindNextPlan(h)
  PROVE  Knowing(h)
<1>1. HandlersFit /\ PlaceFits(handlers[h])
  BY CallKnown DEF Fits
<1>2. Freely(h)
  BY <1>1, GoingStepsFree, FindCurrentFree, FindLastFree, DeletePlanFree, FindCardFree,
     FindPlanFree, CreatePlanFree, FindNextPlanFree
<1>3. CASE CreateFirstPlan(h)
  BY <1>1, <1>3, EndKnows DEF CreateFirstPlan
<1>4. CASE ~CreateFirstPlan(h)
  <2>1. handlers[h].task \in {"subscribe", "getSecret", "cancelNext", "initialize"}
    BY <1>1, <1>4, ZenonT(30)
       DEF GoingSteps, FindPlans, FindTrialCard, AttachCard, Supersede, SaveTx,
           SavePrePayment, FindValidation, CountPlans, FindCurrent, FindLast, DeletePlan,
           FindCard, FindPlan, CreatePlan, FindNextPlan, PlaceFits, At
  <2>2. ASSUME GoesOn(h), handlers'[h].at = "findIntent" PROVE handlers'[h].task = "subscribe"
    <3>1. handlers'[h].task = handlers[h].task
      BY <2>2 DEF GoesOn, SameCall
    <3>2. /\ handlers = [g \in Handlers |-> handlers[g]] /\ IsHandler(handlers[h])
          /\ IdleHandler.at = "idle"
      BY <1>1, CallKnown DEF HandlersFit, IdleHandler
    <3>3. ~End(h)
      BY <2>2, <3>2 DEF End
    <3>4. ASSUME NEW place, Goto(h, place) PROVE place = "findIntent"
      BY <2>2, <3>2, <3>4 DEF Goto, IsHandler
    <3>5. ~FindValidation(h) /\ ~CountPlans(h)
      BY <3>3, <3>4 DEF FindValidation, CountPlans, Show
    <3>6. ~FindNextPlan(h)
      BY <2>2, <3>2, <3>3, ZenonT(30) DEF FindNextPlan, Continue, IsHandler
    <3>7. ~DeletePlan(h)
      BY <2>2, <3>2 DEF DeletePlan, Continue, IsHandler
    <3>8. handlers[h].task = "subscribe"
      BY <1>1, <1>4, <3>5, <3>6, <3>7, ZenonT(30)
         DEF GoingSteps, FindPlans, FindTrialCard, AttachCard, Supersede, SaveTx,
             SavePrePayment, FindCurrent, FindLast, FindCard, FindPlan, CreatePlan,
             PlaceFits, At
    <3>9. QED
      BY <3>1, <3>8
  <2>3. End(h) => Knowing(h)
    BY <1>1, EndKnows
  <2>4. GoesOn(h) => Knowing(h)
    BY <1>2, <2>1, <2>2, FreeKnows DEF WebhookTask
  <2>5. QED
    BY <1>2, <2>3, <2>4 DEF Freely
<1>5. QED
  BY <1>3, <1>4

\* The customer of a call is its user's: read from the user record, or made and
\* stored by the call.
LEMMA CustomerKnows ==
  ASSUME StartInv, OutcomeInv', Evolved, NEW h \in Handlers,
         FindCustomer(h) \/ CreateCustomer(h) \/ StoreCustomer(h)
  PROVE  Knowing(h)
<1>1. /\ HandlersFit /\ UserRows /\ IsHandler(handlers[h]) /\ Fits(handlers[h])
      /\ Knows(handlers[h]) /\ PlaceFits(handlers[h])
  BY CallKnown DEF RowsInv, Fits
<1>2. PICK q : q = handlers[h]
  OBVIOUS
<1>3. q.task \in {"getSecret", "initialize"} /\ q.user \in Users
  BY <1>1, <1>2 DEF FindCustomer, CreateCustomer, StoreCustomer, PlaceFits, At, Knows,
     WhoKnown, RequestTask
<1>4. ASSUME NEW c, Owns(q.user, c) PROVE Owns(q.user, c)'
  BY <1>4 DEF Evolved, Kept, Owns
<1>5. ASSUME NEW r, Continue(h, r), IsHandler(r), SameCall(q, r),
             \/ r.at \in {"createCustomer", "storeCustomer", "createFirstPlan"}
             \/ r.at = "findIntent" /\ (r.customer # None => Owns(r.user, r.customer)')
      PROVE  Knowing(h)
  <2>1. GoesOn(h) /\ handlers'[h] = r
    BY <1>1, <1>2, <1>5, CallContinues
  <2>2. OwnerKnown(r)' /\ ~Saves(r)
    BY <1>5 DEF OwnerKnown, Saves
  <2>3. OwnerKnown(handlers[h])' /\ ~Saves(handlers[h])'
    BY <2>1, <2>2
  <2>4. QED
    BY <1>2, <1>3, <2>1, <2>3, ClientGoes DEF WebhookTask
<1>6. CASE FindCustomer(h)
  <2>1. PICK c, r : /\ c = users[q.user].customer
                    /\ r = [q EXCEPT !.customer = c,
                               !.at = IF c = None THEN "createCustomer" ELSE "findIntent"]
                    /\ Continue(h, r)
    BY <1>2, <1>6, ZenonT(30) DEF FindCustomer
  <2>2. c # None => Owns(q.user, c)'
    BY <1>1, <1>3, <1>4, <2>1 DEF UserRows
  <2>3. /\ IsHandler(r) /\ SameCall(q, r) /\ r.user = q.user /\ r.customer = c
        /\ r.at = IF c = None THEN "createCustomer" ELSE "findIntent"
    BY <1>1, <1>2, <2>1 DEF IsHandler, SameCall
  <2>4. QED
    BY <1>5, <2>1, <2>2, <2>3
<1>7. CASE CreateCustomer(h)
  <2>1. PICK c, r : /\ r = [q EXCEPT !.at = "storeCustomer", !.customer = c]
                    /\ Continue(h, r)
    BY <1>2, <1>7, ZenonT(30) DEF CreateCustomer
  <2>2. IsHandler(r) /\ SameCall(q, r) /\ r.at = "storeCustomer"
    BY <1>1, <1>2, <2>1 DEF IsHandler, SameCall
  <2>3. QED
    BY <1>5, <2>1, <2>2
<1>8. CASE StoreCustomer(h)
  <2>1. PICK place \in {"createFirstPlan", "findIntent"} :
           \E r : r = [q EXCEPT !.at = place] /\ Continue(h, r)
    BY <1>2, <1>8 DEF StoreCustomer, Goto, Continue
  <2>2. PICK r : r = [q EXCEPT !.at = place] /\ Continue(h, r)
    BY <2>1
  <2>3. /\ IsHandler(r) /\ SameCall(q, r) /\ r.at = place
        /\ r.user = q.user /\ r.customer = q.customer
    BY <1>1, <1>2, <2>2 DEF IsHandler, SameCall
  <2>4. Owns(q.user, q.customer)'
    BY <1>1, <1>2, <1>4, <1>8 DEF StoreCustomer, At, Fits, AtFits
  <2>5. Owns(r.user, r.customer)'
    BY <2>3, <2>4
  <2>6. QED
    BY <1>5, <2>1, <2>2, <2>3, <2>5
<1>9. QED
  BY <1>6, <1>7, <1>8

\* A call that looks for its intent holds the customer of its user.
LEMMA CustomerOfKnown ==
  ASSUME StartInv, NEW h \in Handlers, At(h, "findIntent") \/ At(h, "createIntent"),
         CustomerOf(h) # None
  PROVE  Owns(handlers[h].user, CustomerOf(h))
<1>1. PICK q : q = handlers[h]
  OBVIOUS
<1>2. /\ Fits(q) /\ Knows(q) /\ q.at \in {"findIntent", "createIntent"}
  BY <1>1, CallKnown DEF At
<1>3. q.task \in {"subscribe", "getSecret"} /\ q.user \in Users
  BY <1>2 DEF Fits, PlaceFits, Knows, WhoKnown, RequestTask
<1>4. QED
  BY <1>1, <1>2, <1>3 DEF CustomerOf, Fits, CallFits, Knows, OwnerKnown

\* An intent is looked for, reused or created for its user.
LEMMA IntentKnows ==
  ASSUME StartInv, OutcomeInv', Evolved, NEW h \in Handlers,
         \/ ReuseIntent(h) \/ NoIntentFound(h) \/ CreateIntent(h) \/ FindIntentPlan(h)
         \/ SaveIntentTx(h)
  PROVE  Knowing(h)
<1>1. /\ HandlersFit /\ RowsInv /\ IsHandler(handlers[h]) /\ Fits(handlers[h])
      /\ Knows(handlers[h]) /\ PlaceFits(handlers[h]) /\ RecordsInv
  BY CallKnown DEF Fits
<1>2. PICK q : q = handlers[h]
  OBVIOUS
<1>3. q.task \in {"subscribe", "getSecret"} /\ q.user \in Users
  BY <1>1, <1>2, ZenonT(30)
     DEF ReuseIntent, NoIntentFound, CreateIntent, FindIntentPlan, SaveIntentTx,
     PlaceFits, At, Knows, WhoKnown, RequestTask
<1>4. End(h) => Knowing(h)
  BY <1>1, EndKnows
<1>5. ASSUME NEW r, Continue(h, r), IsHandler(r), SameCall(q, r), OwnerKnown(r)',
             Saves(r) => CreateIntent(h) \/ FindIntentPlan(h)
      PROVE  Knowing(h)
  <2>1. GoesOn(h) /\ handlers'[h] = r
    BY <1>1, <1>2, <1>5, CallContinues
  <2>2. OwnerKnown(handlers[h])' /\ (Saves(handlers[h])' => CreateIntent(h) \/ FindIntentPlan(h))
    BY <1>5, <2>1
  <2>3. QED
    BY <1>2, <1>3, <2>1, <2>2, ClientGoes DEF WebhookTask
<1>6. OwnerKnown(q)'
  BY <1>1, <1>2, OwnerKept DEF Knows
<1>7. CASE NoIntentFound(h) /\ ~End(h)
  <2>1. PICK r : r = [q EXCEPT !.at = "createIntent"] /\ Continue(h, r)
    BY <1>2, <1>7 DEF NoIntentFound, Goto, Continue
  <2>2. /\ IsHandler(r) /\ SameCall(q, r) /\ r.at = "createIntent" /\ r.task = q.task
        /\ r.user = q.user /\ r.customer = q.customer
    BY <1>1, <1>2, <2>1 DEF IsHandler, SameCall
  <2>3. q.at = "findIntent"
    BY <1>2, <1>7 DEF NoIntentFound, At
  <2>4. OwnerKnown(r)'
    BY <1>6, <2>2, <2>3 DEF OwnerKnown
  <2>5. QED
    BY <1>5, <2>1, <2>2, <2>4 DEF Saves
<1>8. CASE ReuseIntent(h) /\ ~End(h)
  <2>1. PICK t \in Unfinished(h) : \E r :
           /\ q.task = "subscribe" /\ txs[t].intent # None
           /\ r = [q EXCEPT !.at = "savePrePayment", !.intent = txs[t].intent]
           /\ Continue(h, r)
    BY <1>2, <1>3, <1>8, ZenonT(30) DEF ReuseIntent, Show
  <2>2. PICK i, r : /\ q.task = "subscribe" /\ i = txs[t].intent /\ i # None
                    /\ r = [q EXCEPT !.at = "savePrePayment", !.intent = i]
                    /\ Continue(h, r)
    BY <2>1, ZenonT(30)
  <2>3. t \in DOMAIN txs /\ Validates(t) /\ txs[t].user = q.user
    BY <1>2, <2>1, <2>2 DEF Unfinished, PendingTxs, TxsOf, Validates
  <2>4. i \in DOMAIN intents /\ Owns(q.user, intents[i].customer)
    BY <1>1, <2>2, <2>3 DEF RecordsInv, RowsFit, RowFits, RowsInv, TxRows
  <2>5. Owns(q.user, intents[i].customer)'
    BY <2>4 DEF Evolved, Kept, Owns
  <2>6. t \in DOMAIN txs' /\ Validates(t)' /\ txs'[t].intent = i
    BY <2>2, <2>3 DEF Evolved, OldRow, Kept, Validates, Subscription
  <2>7. /\ IsHandler(r) /\ SameCall(q, r) /\ r.at = "savePrePayment"
        /\ r.user = q.user /\ r.intent = i
    BY <1>1, <1>2, <2>2 DEF IsHandler, SameCall
  <2>8. OwnerKnown(r)'
    BY <2>5, <2>6, <2>7 DEF OwnerKnown
  <2>9. QED
    BY <1>5, <2>2, <2>7, <2>8 DEF Saves
<1>9. CASE CreateIntent(h)
  <2>1. PICK n, c, place : /\ n = Len(intents) + 1 /\ c = CustomerOf(h)
                           /\ place = IF ForValidation(h) THEN "findIntentPlan"
                                                          ELSE "saveIntentTx"
    OBVIOUS
  <2>2. PICK r : r = [q EXCEPT !.intent = n, !.at = place]
    OBVIOUS
  <2>3. Continue(h, r) /\ intents' = Append(intents, NewIntent(c, n))
    BY <1>2, <1>9, <2>1, <2>2 DEF CreateIntent
  <2>4. c # None
    BY <1>1, <1>9, <2>1 DEF CreateIntent, Fits, AtFits, At, CustomerOf
  <2>5. Owns(q.user, c)
    BY <1>2, <1>9, <2>1, <2>4, CustomerOfKnown DEF CreateIntent
  <2>6. Owns(q.user, c)'
    BY <2>5 DEF Evolved, Kept, Owns
  <2>7. intents'[n].customer = c
    <3>1. PICK row : row = NewIntent(c, n)
      OBVIOUS
    <3>2. Grown(intents, row, intents')
      BY <1>1, <2>3, <3>1, AppendedTable DEF RowsInv, StripeRows
    <3>3. QED
      BY <2>1, <3>1, <3>2 DEF Grown, NewIntent
  <2>8. Owns(q.user, intents[n].customer)'
    BY <2>6, <2>7 DEF Owns
  <2>9. /\ IsHandler(r) /\ SameCall(q, r) /\ r.user = q.user /\ r.intent = n
        /\ r.at \in {"findIntentPlan", "saveIntentTx"}
    BY <1>1, <1>2, <2>1, <2>2 DEF IsHandler, SameCall
  <2>10. OwnerKnown(r)'
    BY <2>8, <2>9 DEF OwnerKnown
  <2>11. QED
    BY <1>5, <1>9, <2>3, <2>9, <2>10
<1>10. CASE FindIntentPlan(h)
  <2>1. PICK p, r : r = [q EXCEPT !.at = "saveIntentTx", !.other = p] /\ Continue(h, r)
    BY <1>2, <1>10, ZenonT(30) DEF FindIntentPlan
  <2>2. /\ IsHandler(r) /\ SameCall(q, r) /\ r.user = q.user /\ r.intent = q.intent
        /\ r.at = "saveIntentTx"
    BY <1>1, <1>2, <2>1 DEF IsHandler, SameCall
  <2>3. OwnerKnown(r)'
    BY <1>2, <1>6, <1>10, <2>2, ZenonT(30) DEF OwnerKnown, FindIntentPlan, At
  <2>4. QED
    BY <1>5, <1>10, <2>1, <2>2, <2>3
<1>11. CASE SaveIntentTx(h) /\ ~End(h)
  <2>1. PICK r : r = [q EXCEPT !.at = "savePrePayment", !.other = None] /\ Continue(h, r)
    BY <1>2, <1>11 DEF SaveIntentTx, Show
  <2>2. /\ IsHandler(r) /\ SameCall(q, r) /\ r.user = q.user /\ r.intent = q.intent
        /\ r.at = "savePrePayment"
    BY <1>1, <1>2, <2>1 DEF IsHandler, SameCall
  <2>3. q.task = "subscribe"
    BY <1>2, <1>3, <1>11 DEF SaveIntentTx, Show
  <2>4. PICK row : row = NewTx(q.user, "CARD_VALIDATION", None, q.other, q.intent)
    OBVIOUS
  <2>5. txs' = Append(txs, row)
    BY <1>2, <1>11, <2>3, <2>4 DEF SaveIntentTx, ForValidation
  <2>6. Grown(txs, row, txs')
    BY <1>1, <2>5, AppendedTable DEF RowsInv, TxRows
  <2>7. PICK n : n = Len(txs) + 1
    OBVIOUS
  <2>8. n \in DOMAIN txs' /\ Validates(n)' /\ txs'[n].intent = q.intent
    BY <2>4, <2>6, <2>7 DEF Grown, NewTx, Validates
  <2>9. OwnerKnown(r)'
    BY <1>2, <1>6, <1>11, <2>2, <2>8 DEF OwnerKnown, SaveIntentTx, At
  <2>10. QED
    BY <1>5, <2>1, <2>2, <2>9 DEF Saves
<1>12. QED
  <2>1. End(h) \/ ~End(h)
    OBVIOUS
  <2>2. QED
    BY <1>4, <1>7, <1>8, <1>9, <1>10, <1>11, <2>1

\* Every step of a request.
LEMMA RequestStepKnows ==
  ASSUME StartInv, OutcomeInv', Evolved, NEW h \in Handlers, RequestStep(h)
  PROVE  Knowing(h)
  BY FreeStepKnows, CustomerKnows, IntentKnows DEF RequestStep, GoingSteps

----------------------------------------------------------------------------
(* The steps that calls of several kinds go through, and webhooks.           *)

\* A webhook that goes on settling or linking.
LEMMA WebhookGoes ==
  ASSUME StartInv, Evolved, NEW h \in Handlers, GoesOn(h),
         \/ /\ handlers[h].task = "intentSucceeded"
            /\ handlers[h].at \in Cashed /\ handlers'[h].at \in Cashed
         \/ /\ handlers[h].task = "subscriptionCreated"
            /\ handlers[h].at \in Linking \cup {"settle"}
            /\ handlers'[h].at \in Linking \cup {"settle", "settleRows"}
            /\ handlers'[h].at \in Linking => handlers[h].at \in Linking
  PROVE  Knowing(h)
<1>1. PICK q, r : q = handlers[h] /\ r = handlers'[h]
  OBVIOUS
<1>2. Knows(q)'
  BY <1>1, CallKnown, KnowsKept
<1>3. /\ SameCall(q, r) /\ Moves(h)
      /\ \/ q.task = "intentSucceeded" /\ q.at \in Cashed /\ r.at \in Cashed
         \/ /\ q.task = "subscriptionCreated"
            /\ q.at \in Linking \cup {"settle"}
            /\ r.at \in Linking \cup {"settle", "settleRows"}
            /\ r.at \in Linking => q.at \in Linking
  BY <1>1 DEF GoesOn
<1>4. WhereKnown(r)' /\ OwnerKnown(r)' /\ ~Saves(r)
  BY <1>3 DEF WhereKnown, OwnerKnown, Saves, SameCall, Cashed, Linking
<1>5. WhoKnown(r)'
  <2>1. WhoKnown(q)'
    BY <1>2 DEF Knows
  <2>2. QED
    BY <1>3, <2>1 DEF WhoKnown, SameCall, Cashed, Linking, Searching, RequestTask
<1>6. ClearKnown(r)'
  <2>1. ClearKnown(q)'
    BY <1>2 DEF Knows
  <2>2. QED
    BY <1>3, <2>1 DEF ClearKnown, SameCall, Cashed, Linking
<1>7. LinkKnown(r)'
  <2>1. LinkKnown(q)'
    BY <1>2 DEF Knows
  <2>2. QED
    BY <1>3, <2>1 DEF LinkKnown, SameCall
<1>8. Knows(r)'
  BY <1>4, <1>5, <1>6, <1>7 DEF Knows
<1>9. QED
  BY <1>1, <1>3, <1>4, <1>8 DEF Knowing

\* Where a shared step leads.
LEMMA SharedGoes ==
  ASSUME HandlersFit, NEW h \in Handlers, SharedStep(h), ~End(h), ~Restart
  PROVE  /\ GoesOn(h)
         /\ \/ At(h, "listSubs") /\ handlers'[h].at = "deleteSubs"
            \/ /\ At(h, "deleteSubs")
               /\ \/ handlers'[h].at = AfterDelete(handlers[h].task)
                  \/ handlers'[h].at = "settle" /\ handlers[h].task = "intentSucceeded"
            \/ At(h, "createSub") /\ handlers'[h].at = AfterCreate(handlers[h].task)
            \/ At(h, "deactivate") /\ handlers'[h].at = "activate"
            \/ At(h, "activate") /\ handlers'[h].at = "storeTariff"
            \/ /\ At(h, "activate") /\ handlers'[h].at = "settle"
               /\ handlers[h].task = "intentSucceeded"
<1>1. PICK q : q = handlers[h]
  OBVIOUS
<1>2. IsHandler(q) /\ PlaceFits(q)
  BY <1>1 DEF HandlersFit, Fits
<1>3. ASSUME NEW place, Goto(h, place) PROVE GoesOn(h) /\ handlers'[h].at = place
  BY <1>3, CallGoes
<1>4. ASSUME NEW r, Continue(h, r), IsHandler(r), SameCall(q, r)
      PROVE  GoesOn(h) /\ handlers'[h].at = r.at
  BY <1>1, <1>4, CallContinues
<1>5. CASE ListSubs(h)
  <2>1. PICK S, r : r = [q EXCEPT !.at = "deleteSubs", !.listed = S] /\ Continue(h, r)
    BY <1>1, <1>5, ZenonT(30) DEF ListSubs
  <2>2. IsHandler(r) /\ SameCall(q, r) /\ r.at = "deleteSubs"
    BY <1>2, <2>1 DEF IsHandler, SameCall
  <2>3. QED
    BY <1>4, <1>5, <2>1, <2>2 DEF ListSubs
<1>6. CASE DeleteSubs(h)
  <2>1. PICK next : next = [q EXCEPT !.listed = {}]
    OBVIOUS
  <2>2. IsHandler(next) /\ SameCall(q, next)
    BY <1>2, <2>1 DEF IsHandler, SameCall
  <2>3. \/ Continue(h, [next EXCEPT !.at = AfterDelete(q.task)])
        \/ /\ q.task = "intentSucceeded"
           /\ Continue(h, [next EXCEPT !.at = "settle", !.outcome = "FAILED"])
    BY <1>1, <1>6, <2>1 DEF DeleteSubs
  <2>4. CASE Continue(h, [next EXCEPT !.at = AfterDelete(q.task)])
    <3>1. PICK place, r : /\ place = AfterDelete(q.task)
                          /\ r = [next EXCEPT !.at = place] /\ Continue(h, r)
      BY <2>4
    <3>2. IsHandler(r) /\ SameCall(q, r) /\ r.at = place
      BY <2>2, <3>1 DEF IsHandler, SameCall
    <3>3. QED
      BY <1>1, <1>4, <1>6, <3>1, <3>2 DEF DeleteSubs
  <2>5. CASE /\ q.task = "intentSucceeded"
             /\ Continue(h, [next EXCEPT !.at = "settle", !.outcome = "FAILED"])
    <3>1. PICK r : r = [next EXCEPT !.at = "settle", !.outcome = "FAILED"]
      OBVIOUS
    <3>2. IsHandler(r) /\ SameCall(q, r) /\ r.at = "settle"
      BY <2>2, <2>5, <3>1 DEF IsHandler, SameCall
    <3>3. QED
      BY <1>1, <1>4, <1>6, <2>5, <3>1, <3>2 DEF DeleteSubs
  <2>6. QED
    BY <2>3, <2>4, <2>5
<1>7. CASE CreateSub(h)
  <2>1. Goto(h, AfterCreate(q.task))
    BY <1>1, <1>7 DEF CreateSub
  <2>2. QED
    BY <1>1, <1>3, <1>7, <2>1 DEF CreateSub
<1>8. CASE Deactivate(h)
  BY <1>3, <1>8 DEF Deactivate
<1>9. CASE Activate(h)
  BY <1>3, <1>9 DEF Activate
<1>10. CASE ActivateFails(h)
  <2>1. /\ q.task = "intentSucceeded"
        /\ Continue(h, [q EXCEPT !.at = "settle", !.outcome = "FAILED"])
    BY <1>1, <1>2, <1>10 DEF ActivateFails, PlaceFits, At, Reject
  <2>2. PICK r : r = [q EXCEPT !.at = "settle", !.outcome = "FAILED"]
    OBVIOUS
  <2>3. IsHandler(r) /\ SameCall(q, r) /\ r.at = "settle"
    BY <1>2, <2>1, <2>2 DEF IsHandler, SameCall
  <2>4. QED
    BY <1>1, <1>4, <1>10, <2>1, <2>2, <2>3 DEF ActivateFails
<1>11. ~SetStatus(h) /\ ~DropNext(h)
  BY DEF SetStatus, DropNext
<1>12. QED
  BY <1>5, <1>6, <1>7, <1>8, <1>9, <1>10, <1>11 DEF SharedStep

\* Every shared step.
LEMMA SharedStepKnows ==
  ASSUME StartInv, OutcomeInv', Evolved, NEW h \in Handlers, SharedStep(h), ~Restart
  PROVE  Knowing(h)
<1>1. /\ HandlersFit /\ Knows(handlers[h])
  BY CallKnown
<1>2. CASE End(h)
  BY <1>1, <1>2, EndKnows
<1>3. CASE ~End(h)
  <2>1. PICK q, r : q = handlers[h] /\ r = handlers'[h]
    OBVIOUS
  <2>2. /\ GoesOn(h)
        /\ \/ q.at = "listSubs" /\ r.at = "deleteSubs"
           \/ q.at = "deleteSubs" /\ r.at = AfterDelete(q.task)
           \/ q.at = "deleteSubs" /\ r.at = "settle" /\ q.task = "intentSucceeded"
           \/ q.at = "createSub" /\ r.at = AfterCreate(q.task)
           \/ q.at = "deactivate" /\ r.at = "activate"
           \/ q.at = "activate" /\ r.at = "storeTariff"
           \/ q.at = "activate" /\ r.at = "settle" /\ q.task = "intentSucceeded"
    BY <1>1, <1>3, <2>1, SharedGoes DEF At
  <2>3. WhereKnown(q)
    BY <1>1, <2>1 DEF Knows
  <2>4. CASE q.task \notin WebhookTask
    <3>1. OwnerKnown(r)' /\ ~Saves(r)
      BY <2>2 DEF OwnerKnown, Saves, AfterDelete, AfterCreate
    <3>2. OwnerKnown(handlers[h])' /\ ~Saves(handlers[h])'
      BY <2>1, <3>1
    <3>3. QED
      BY <2>1, <2>2, <2>4, <3>2, ClientGoes
  <2>5. CASE q.task = "intentSucceeded"
    <3>1. q.at \in Cashed /\ r.at \in Cashed
      BY <2>2, <2>5 DEF AfterDelete, AfterCreate, Cashed
    <3>2. QED
      BY <2>1, <2>2, <2>5, <3>1, WebhookGoes
  <2>6. CASE q.task = "subscriptionCreated"
    <3>1. q.at \in Linking /\ r.at \in Linking
      BY <2>2, <2>3, <2>6 DEF WhereKnown, Linking
    <3>2. QED
      BY <2>1, <2>2, <2>6, <3>1, WebhookGoes
  <2>7. q.task # "intentFailed"
    BY <2>2, <2>3 DEF WhereKnown, Failing
  <2>8. QED
    BY <2>4, <2>5, <2>6, <2>7 DEF WebhookTask
<1>4. QED
  BY <1>2, <1>3

\* A call that goes on with what it knows.
LEMMA ContinueKnows ==
  ASSUME HandlersFit, NEW h \in Handlers, NEW r, Continue(h, r), Knows(r)', ~Saves(r)
  PROVE  Knowing(h)
<1>1. handlers'[h] = r /\ Moves(h)
  BY DEF Continue, Moves, HandlersFit
<1>2. QED
  BY <1>1 DEF Knowing

\* The steps of webhooks that settle, activate or link.
LEMMA SettlingKnows ==
  ASSUME StartInv, Evolved, NEW h \in Handlers,
         \/ CreatePaidPlan(h) \/ SetActive(h) \/ StoreTariff(h) \/ CancelOthers(h)
         \/ SettleById(h) \/ SettleRows(h) \/ ReadPlan(h) \/ StoreNext(h) \/ LinkTx(h)
  PROVE  Knowing(h)
<1>1. /\ HandlersFit /\ IsHandler(handlers[h]) /\ PlaceFits(handlers[h])
  BY CallKnown DEF Fits
<1>2. CASE Reject(h) \/ Acknowledge(h)
  BY <1>1, <1>2, EndKnows DEF Reject, Acknowledge
<1>3. CASE CreatePaidPlan(h)
  <2>1. PICK n, r : /\ r = [handlers[h] EXCEPT !.at = "setActive", !.plan = n]
                    /\ Continue(h, r)
    BY <1>3, ZenonT(30) DEF CreatePaidPlan
  <2>2. handlers[h].task = "intentSucceeded" /\ handlers[h].at \in Cashed
    BY <1>1, <1>3 DEF CreatePaidPlan, PlaceFits, At, Cashed
  <2>3. IsHandler(r) /\ SameCall(handlers[h], r) /\ r.at = "setActive"
    BY <1>1, <2>1, <2>2 DEF IsHandler, SameCall
  <2>4. GoesOn(h) /\ handlers'[h].at = "setActive"
    BY <1>1, <2>1, <2>3, CallContinues
  <2>5. QED
    BY <2>2, <2>4, WebhookGoes DEF Cashed
<1>4. CASE ~(Reject(h) \/ Acknowledge(h)) /\ ~CreatePaidPlan(h)
  <2>1. \/ /\ handlers[h].task = "intentSucceeded" /\ handlers[h].at \in Cashed
           /\ \E place \in Cashed : Goto(h, place)
        \/ /\ handlers[h].task = "subscriptionCreated" /\ handlers[h].at \in Linking
           /\ \E place \in Linking \cup {"settle"} : Goto(h, place)
        \/ /\ handlers[h].task = "subscriptionCreated" /\ handlers[h].at = "settle"
           /\ Goto(h, "settleRows")
    <3>1. CASE SetActive(h)
      BY <1>1, <3>1 DEF SetActive, PlaceFits, At, Cashed, Linking
    <3>2. CASE StoreTariff(h)
      BY <1>1, <3>2 DEF StoreTariff, AfterTariff, PlaceFits, At, Cashed, Linking
    <3>3. CASE CancelOthers(h)
      BY <1>1, <3>3 DEF CancelOthers, PlaceFits, At, Cashed, Linking
    <3>4. CASE ReadPlan(h)
      BY <1>1, <1>4, <3>4 DEF ReadPlan, PlaceFits, At, Linking
    <3>5. CASE StoreNext(h)
      BY <1>1, <3>5 DEF StoreNext, AfterTariff, PlaceFits, At, Linking
    <3>6. CASE LinkTx(h)
      BY <1>1, <3>6 DEF LinkTx, PlaceFits, At, Linking
    <3>7. QED
      BY <1>4, <3>1, <3>2, <3>3, <3>4, <3>5, <3>6, ZenonT(30) DEF SettleById, SettleRows
  <2>2. ASSUME NEW place, Goto(h, place) PROVE GoesOn(h) /\ handlers'[h].at = place
    BY <1>1, <2>2, CallGoes
  <2>3. QED
    BY <2>1, <2>2, WebhookGoes DEF Linking
<1>5. QED
  BY <1>2, <1>3, <1>4

\* A row of an intent that validates no card shows that the intent is not one to
\* refund.
LEMMA NotToRefund ==
  ASSUME RecordsInv, NEW i \in Nat, NEW t \in TxsByIntent(i), ~Validates(t)
  PROVE  Unrefundable(i)
<1> SUFFICES ASSUME NEW s \in DOMAIN txs, Validates(s), txs[s].intent = i PROVE Shared(s)
  BY DEF Unrefundable
<1>1. t \in DOMAIN txs /\ i # None /\ ~Borrows(s)
  BY NoneAssumption DEF TxsByIntent, Validates, Borrows
<1>2. CASE txs[t].intent = i /\ Borrows(t)
  BY <1>1, <1>2 DEF Shared
<1>3. CASE txs[t].intent = i /\ ~Borrows(t)
  BY <1>1, <1>3 DEF RecordsInv, OneRowPerIntent
<1>4. CASE txs[t].newIntent = i
  BY <1>1, <1>4 DEF RecordsInv, RowsFit, RowFits
<1>5. QED
  BY <1>2, <1>3, <1>4 DEF TxsByIntent

\* The webhook of a payment finds a row.
LEMMA FindTxKnows ==
  ASSUME StartInv, OutcomeInv', Evolved, NEW h \in Handlers, FindTx(h)
  PROVE  Knowing(h)
<1>1. /\ HandlersFit /\ IsHandler(handlers[h]) /\ Fits(handlers[h]) /\ RecordsInv
      /\ Knows(handlers[h]) /\ PlaceFits(handlers[h])
  BY CallKnown DEF Fits
<1>2. CASE Reject(h)
  BY <1>1, <1>2, EndKnows DEF Reject
<1>3. CASE ~Reject(h)
  <2>1. PICK q, i : q = handlers[h] /\ i = About(h)
    OBVIOUS
  <2>2. q.task = "intentSucceeded" /\ q.at = "findTx" /\ i \in Nat /\ i # None /\ i = q.event.about
    BY <1>1, <1>3, <2>1, WebhookKnows, NoneAssumption, ZenonT(30)
       DEF FindTx, PlaceFits, At, About
  <2>3. PICK t \in TxsByIntent(i) :
           Continue(h, [q EXCEPT !.at = "findPayer", !.tx = t, !.plan = txs[t].plan,
                                 !.replaces = (txs[t].newIntent = i)])
    BY <1>3, <2>1, ZenonT(30) DEF FindTx
  <2>4. PICK plan, found : plan = txs[t].plan /\ found = (txs[t].newIntent = i)
    OBVIOUS
  <2>5. PICK r : r = [q EXCEPT !.at = "findPayer", !.tx = t, !.plan = plan,
                                 !.replaces = found]
    OBVIOUS
  <2>6. /\ r.at = "findPayer" /\ r.task = q.task /\ r.user = q.user /\ r.type = q.type
        /\ r.event = q.event /\ r.outcome = q.outcome /\ r.tx = t /\ r.replaces = found
    BY <1>1, <2>1, <2>5 DEF IsHandler
  <2>7. t \in DOMAIN txs /\ Billed(t)
    BY <1>1, <2>2, TxOfIntent, CallKnown DEF TxsByIntent, RowsInv, Billed
  <2>8. ~Validates(t) => Unrefundable(i)
    BY <1>1, <2>2, NotToRefund
  <2>9. found => (Validates(t) => Shared(t)) /\ intents[i].origin # i
    BY <1>1, <2>2, <2>4, <2>7 DEF RecordsInv, RowsFit, RowFits
  <2>10. Knows(r)
    <3>1. WhereKnown(r) /\ OwnerKnown(r) /\ LinkKnown(r)
      BY <2>2, <2>6 DEF WhereKnown, OwnerKnown, LinkKnown, Charged
    <3>2. WhoKnown(r)
      BY <1>1, <2>1, <2>2, <2>6
         DEF Knows, WhoKnown, Searching, RequestTask, WebhookTask
    <3>3. ClearKnown(r)
      BY <2>2, <2>6, <2>7, <2>8, <2>9 DEF ClearKnown, Cashed
    <3>4. QED
      BY <3>1, <3>2, <3>3 DEF Knows
  <2>11. Continue(h, r)
    BY <2>3, <2>4, <2>5
  <2>12. Fits(r)
    <3>1. /\ Fits(q) /\ txs[t].intent # None /\ intents[txs[t].intent].origin = intents[i].origin
      BY <1>1, <2>1, <2>2, TxOfIntent, CallKnown DEF RowsInv
    <3>2. r.me = q.me
      BY <1>1, <2>1, <2>5 DEF IsHandler
    <3>3. PlaceFits(r) /\ AtFits(r) /\ EventFits(r)
      BY <2>2, <2>6, <3>1 DEF Fits, PlaceFits, AtFits, EventFits
    <3>4. CallFits(r)
      BY <2>2, <2>6, <2>7, <3>1, <3>2 DEF Fits, CallFits
    <3>5. QED
      BY <3>3, <3>4 DEF Fits
  <2>13. Knows(r)'
    BY <2>10, <2>12, KnowsKept
  <2>14. QED
    BY <1>1, <2>6, <2>11, <2>13, ContinueKnows DEF Saves
<1>4. QED
  BY <1>2, <1>3

\* A webhook finds the user of a customer.
LEMMA FindUserKnows ==
  ASSUME StartInv, OutcomeInv', Evolved, NEW h \in Handlers,
         FindPayer(h) \/ FindDebtor(h) \/ FindSubscriber(h)
  PROVE  Knowing(h)
<1>1. /\ HandlersFit /\ IsHandler(handlers[h]) /\ Fits(handlers[h]) /\ RowsInv
      /\ Knows(handlers[h]) /\ PlaceFits(handlers[h])
  BY CallKnown DEF Fits
<1>2. CASE Reject(h)
  BY <1>1, <1>2, EndKnows DEF Reject
<1>3. CASE ~Reject(h)
  <2>1. PICK q, i : q = handlers[h] /\ i = q.event.about
    OBVIOUS
  <2>2. PICK c, next :
           /\ FindUser(h, c, next) /\ c # None
           /\ \/ /\ next = "saveCard" /\ q.at = "findPayer" /\ q.task = "intentSucceeded"
              \/ /\ next = "replaceIntent" /\ q.at = "findDebtor" /\ q.task = "intentFailed"
                 /\ i \in DOMAIN intents /\ c = intents[i].customer
              \/ /\ next = "findPendingTx" /\ q.at = "findSubscriber"
                 /\ q.task = "subscriptionCreated"
    <3>1. CASE FindPayer(h)
      BY <1>1, <2>1, <3>1, WebhookKnows DEF FindPayer, PlaceFits, At, RowsInv, StripeRows
    <3>2. CASE FindDebtor(h)
      BY <1>1, <2>1, <3>2, WebhookKnows
         DEF FindDebtor, PlaceFits, At, RowsInv, StripeRows, About
    <3>3. CASE FindSubscriber(h)
      BY <1>1, <2>1, <3>3, WebhookKnows
         DEF FindSubscriber, PlaceFits, At, RowsInv, StripeRows
    <3>4. QED
      BY <3>1, <3>2, <3>3
  <2>3. PICK u \in Users : \E me :
           /\ Continue(h, [q EXCEPT !.at = next, !.user = u, !.me = me])
           /\ Owns(u, c)
    BY <1>1, <1>3, <2>1, <2>2, UserFound, ZenonT(30)
  <2>4. PICK me, r : r = [q EXCEPT !.at = next, !.user = u, !.me = me] /\ Continue(h, r)
    BY <2>3, ZenonT(30)
  <2>5. /\ r.at = next /\ r.task = q.task /\ r.user = u /\ r.type = q.type
        /\ r.event = q.event /\ r.outcome = q.outcome /\ r.tx = q.tx
        /\ r.replaces = q.replaces
    BY <1>1, <2>1, <2>4 DEF IsHandler
  <2>6. Knows(q)'
    BY <1>1, <2>1, KnowsKept
  <2>7. WhereKnown(r)' /\ LinkKnown(r)'
    BY <2>2, <2>5 DEF WhereKnown, LinkKnown, Charged, Failing, Linking
  <2>8. WhoKnown(r)'
    <3>1. WhoKnown(q)'
      BY <2>6 DEF Knows
    <3>2. QED
      BY <2>2, <2>5, <3>1 DEF WhoKnown, WebhookTask, RequestTask
  <2>9. OwnerKnown(r)'
    <3>1. next = "replaceIntent" => Owns(u, intents[i].customer)'
      BY <2>2, <2>3 DEF Owns, Evolved, Kept
    <3>2. QED
      BY <2>1, <2>2, <2>5, <3>1 DEF OwnerKnown
  <2>10. ClearKnown(r)'
    <3>1. ClearKnown(q)'
      BY <2>6 DEF Knows
    <3>2. QED
      BY <2>2, <2>5, <3>1 DEF ClearKnown, Cashed
  <2>11. Knows(r)'
    BY <2>7, <2>8, <2>9, <2>10 DEF Knows
  <2>12. QED
    BY <1>1, <2>2, <2>4, <2>5, <2>11, ContinueKnows DEF Saves
<1>4. QED
  BY <1>2, <1>3

\* After the card is saved, and after the charge is given back.
LEMMA PaidKnows ==
  ASSUME StartInv, OutcomeInv', Evolved, NEW h \in Handlers, SaveCard(h) \/ Refund(h)
  PROVE  Knowing(h)
<1>1. /\ HandlersFit /\ IsHandler(handlers[h]) /\ Fits(handlers[h]) /\ RowsInv
      /\ Knows(handlers[h]) /\ PlaceFits(handlers[h])
  BY CallKnown DEF Fits
<1>2. PICK q, i : q = handlers[h] /\ i = q.event.about
  OBVIOUS
<1>3. /\ q.task = "intentSucceeded" /\ q.at \in {"saveCard", "refund"}
      /\ i = About(h) /\ i \in DOMAIN intents /\ Exposed(i) /\ i # None
  BY <1>1, <1>2, AboutKnown DEF SaveCard, Refund, PlaceFits, At, About
<1>4. /\ q.tx \in DOMAIN txs /\ q.tx \in DOMAIN txs'
      /\ ~Validates(q.tx) => Unrefundable(i)
  BY <1>1, <1>2, <1>3 DEF Knows, ClearKnown, Evolved, Kept
<1>5. PICK r : /\ Continue(h, r)
               /\ \/ r = [q EXCEPT !.at = "refund"] /\ SaveCard(h)
                  \/ /\ \E place \in {"createPaidPlan", "settle"} : r = [q EXCEPT !.at = place]
                     /\ SaveCard(h) => ~Validates(q.tx)
                  \/ /\ r = [q EXCEPT !.at = "settle", !.outcome = "FAILED"]
                     /\ Refund(h)
  <2>1. CASE SaveCard(h)
    BY <1>2, <2>1 DEF SaveCard, Goto, Continue, AfterRefund, IsValidation, Validates
  <2>2. CASE Refund(h) /\ ~SaveCard(h)
    BY <1>2, <2>2 DEF Refund, Goto, Continue, AfterRefund
  <2>3. QED
    BY <2>1, <2>2
<1>6. /\ r.task = q.task /\ r.user = q.user /\ r.type = q.type /\ r.event = q.event
      /\ r.outcome \in {q.outcome, "FAILED"} /\ r.tx = q.tx /\ r.replaces = q.replaces
      /\ \/ r.at = "refund" /\ SaveCard(h)
         \/ r.at \in {"createPaidPlan", "settle"} /\ (SaveCard(h) => ~Validates(q.tx))
         \/ r.at = "settle" /\ Refund(h)
  <2>1. IsHandler(q)
    BY <1>1, <1>2
  <2>2. CASE r = [q EXCEPT !.at = "refund"] /\ SaveCard(h)
    BY <2>1, <2>2 DEF IsHandler
  <2>3. CASE /\ \E place \in {"createPaidPlan", "settle"} : r = [q EXCEPT !.at = place]
             /\ SaveCard(h) => ~Validates(q.tx)
    BY <2>1, <2>3 DEF IsHandler
  <2>4. CASE r = [q EXCEPT !.at = "settle", !.outcome = "FAILED"] /\ Refund(h)
    BY <2>1, <2>4 DEF IsHandler
  <2>5. QED
    BY <1>5, <2>2, <2>3, <2>4
<1>7. Refund(h) => Cleared(i)'
  <2>1. ASSUME Refund(h) PROVE intents'[i].refunded
    BY <1>1, <1>3, <2>1 DEF Refund, RowsInv, StripeRows, IsIntent
  <2>2. QED
    BY <2>1 DEF Cleared
<1>8. SaveCard(h) /\ ~Validates(q.tx) => Cleared(i)'
  <2>1. Unrefundable(i) => Cleared(i)
    BY DEF Unrefundable, Cleared
  <2>2. Cleared(i) => Cleared(i)'
    BY <1>3, ClearedKept
  <2>3. QED
    BY <1>4, <2>1, <2>2
<1>9. Knows(q)'
  BY <1>1, <1>2, KnowsKept
<1>10. WhereKnown(r)' /\ OwnerKnown(r)' /\ LinkKnown(r)'
  BY <1>3, <1>6 DEF WhereKnown, OwnerKnown, LinkKnown, Charged, Cashed
<1>11. WhoKnown(r)'
  <2>1. WhoKnown(q)'
    BY <1>9 DEF Knows
  <2>2. QED
    BY <1>3, <1>6, <2>1 DEF WhoKnown, WebhookTask, RequestTask, Searching
<1>12. ClearKnown(r)'
  <2>1. ClearKnown(q)'
    BY <1>9 DEF Knows
  <2>2. QED
    BY <1>2, <1>3, <1>6, <1>7, <1>8, <2>1 DEF ClearKnown, Cashed
<1>13. Knows(r)'
  BY <1>10, <1>11, <1>12 DEF Knows
<1>14. QED
  BY <1>1, <1>5, <1>6, <1>13, ContinueKnows DEF Saves

\* The webhook of a subscription takes a pending subscription of the user.
LEMMA FindPendingTxKnows ==
  ASSUME StartInv, OutcomeInv', Evolved, NEW h \in Handlers, FindPendingTx(h)
  PROVE  Knowing(h)
<1>1. /\ HandlersFit /\ IsHandler(handlers[h]) /\ Fits(handlers[h])
      /\ Knows(handlers[h]) /\ PlaceFits(handlers[h])
  BY CallKnown DEF Fits
<1>2. CASE Reject(h)
  BY <1>1, <1>2, EndKnows DEF Reject
<1>3. CASE ~Reject(h)
  <2>1. PICK q : q = handlers[h]
    OBVIOUS
  <2>2. q.task = "subscriptionCreated" /\ q.at = "findPendingTx"
    BY <1>1, <1>3, <2>1, ZenonT(30) DEF FindPendingTx, PlaceFits, At
  <2>3. PICK t \in PendingTxs(q.user, Subscription) :
           Continue(h, [q EXCEPT !.at = "readPlan", !.tx = t, !.plan = txs[t].plan])
    BY <1>3, <2>1, ZenonT(30) DEF FindPendingTx
  <2>4. PICK plan, r : /\ plan = txs[t].plan
                       /\ r = [q EXCEPT !.at = "readPlan", !.tx = t, !.plan = plan]
    BY ZenonT(30)
  <2>5. /\ r.at = "readPlan" /\ r.task = q.task /\ r.user = q.user /\ r.type = q.type
        /\ r.event = q.event /\ r.outcome = q.outcome /\ r.tx = t
        /\ r.replaces = q.replaces
    BY <1>1, <2>1, <2>4 DEF IsHandler
  <2>6. t \in DOMAIN txs' /\ txs'[t].type \in Subscription /\ txs'[t].user = q.user
    BY <2>3 DEF PendingTxs, TxsOf, Evolved, OldRow, Kept
  <2>7. ~q.replaces
    BY <1>1, <2>1, <2>2 DEF Fits, CallFits
  <2>8. WhereKnown(r)' /\ OwnerKnown(r)' /\ ClearKnown(r)' /\ LinkKnown(r)'
    BY <2>2, <2>5, <2>6, <2>7
       DEF WhereKnown, OwnerKnown, ClearKnown, LinkKnown, Linking
  <2>9. WhoKnown(r)'
    <3>1. WhoKnown(q)'
      BY <1>1, <2>1, KnowsKept DEF Knows
    <3>2. QED
      BY <2>2, <2>5, <3>1 DEF WhoKnown, WebhookTask, RequestTask, Searching
  <2>10. Knows(r)'
    BY <2>8, <2>9 DEF Knows
  <2>11. QED
    BY <1>1, <2>3, <2>4, <2>5, <2>10, ContinueKnows DEF Saves
<1>4. QED
  BY <1>2, <1>3

\* A failed payment: the row, the second round, and the replacement.
LEMMA FailedKnows ==
  ASSUME StartInv, OutcomeInv', Evolved, NEW h \in Handlers,
         \/ FindFailedTx(h) \/ FindRowToFail(h) \/ FailValidation(h) \/ FailTx(h)
         \/ ReplaceIntent(h)
  PROVE  Knowing(h)
<1>1. /\ HandlersFit /\ IsHandler(handlers[h]) /\ Fits(handlers[h]) /\ RowsInv
      /\ Knows(handlers[h]) /\ PlaceFits(handlers[h]) /\ RecordsInv /\ OriginsExist
  BY CallKnown DEF Fits, StartInv, CallsInv
<1>2. CASE Reject(h) \/ Acknowledge(h)
  BY <1>1, <1>2, EndKnows DEF Reject, Acknowledge
<1>3. PICK q, i : q = handlers[h] /\ i = q.event.about
  OBVIOUS
<1>4. /\ q.task = "intentFailed" /\ i = About(h) /\ i \in Nat /\ i \in DOMAIN intents
      /\ q.at \in {"findFailedTx", "failValidation", "failValidationRow", "failTx",
                   "failTxRow", "replaceIntent"}
  BY <1>1, <1>3, WebhookKnows, ZenonT(30)
     DEF FindFailedTx, FindRowToFail, FailValidation, FailTx, ReplaceIntent, PlaceFits, At,
         About
<1>5. Knows(q)'
  BY <1>1, <1>3, KnowsKept
<1>6. ASSUME NEW r, Continue(h, r), r.task = "intentFailed", r.at \in Failing,
             r.event = q.event, r.outcome \in {"SUCCESS", "FAILED"},
             r.at \in {"replaceIntent", "failTx", "failTxRow"} =>
                r.user = q.user /\ q.at \notin Searching,
             r.replaces = FALSE, OwnerKnown(r)',
             r.at \in {"findDebtor", "replaceIntent", "failTx"} => Unrefundable(i)'
      PROVE  Knowing(h)
  <2>1. WhereKnown(r)' /\ LinkKnown(r)'
    BY <1>6 DEF WhereKnown, LinkKnown
  <2>2. WhoKnown(r)'
    <3>1. WhoKnown(q)'
      BY <1>5 DEF Knows
    <3>2. QED
      BY <1>4, <1>6, <3>1 DEF WhoKnown, WebhookTask, RequestTask, Failing, Searching
  <2>3. ClearKnown(r)'
    BY <1>3, <1>6 DEF ClearKnown, Failing
  <2>4. Knows(r)' /\ ~Saves(r)
    BY <1>6, <2>1, <2>2, <2>3 DEF Knows, Failing, Saves
  <2>5. QED
    BY <1>1, <1>6, <2>4, ContinueKnows
<1>7. CASE FindFailedTx(h) /\ ~Reject(h)
  <2>1. PICK t \in TxsByIntent(i) :
           Goto(h, IF txs[t].type = "CARD_VALIDATION" THEN "failValidation" ELSE "findDebtor")
    BY <1>4, <1>7 DEF FindFailedTx
  <2>2. PICK place, r : /\ place = IF Validates(t) THEN "failValidation" ELSE "findDebtor"
                        /\ r = [q EXCEPT !.at = place] /\ Continue(h, r)
    BY <1>3, <2>1 DEF Goto, Continue, Validates
  <2>3. /\ r.at = place /\ r.task = q.task /\ r.event = q.event /\ r.outcome = q.outcome
        /\ r.replaces = q.replaces
    BY <1>1, <1>3, <2>2 DEF IsHandler
  <2>4. ~Validates(t) => Unrefundable(i)'
    <3>1. i # None /\ Exposed(i)
      BY <1>1, <1>3, <1>4, AboutKnown
    <3>2. QED
      BY <1>1, <1>4, <3>1, NotToRefund, ClearedKept
  <2>5. q.replaces = FALSE
    <3>1. ~q.replaces
      BY <1>1, <1>3, <1>4 DEF Fits, CallFits
    <3>2. QED
      BY <3>1
  <2>6. OwnerKnown(r)'
    BY <2>2, <2>3 DEF OwnerKnown
  <2>7. q.outcome \in {"SUCCESS", "FAILED"}
    BY <1>1, <1>3 DEF Knows, WhoKnown
  <2>8. /\ r.task = "intentFailed" /\ r.at \in {"failValidation", "findDebtor"}
        /\ r.event = q.event /\ r.outcome \in {"SUCCESS", "FAILED"} /\ r.replaces = FALSE
        /\ r.at = "findDebtor" => Unrefundable(i)'
    BY <1>4, <2>2, <2>3, <2>4, <2>5, <2>7
  <2>9. QED
    BY <1>6, <2>2, <2>6, <2>8 DEF Failing
<1>8. CASE (FailValidation(h) \/ FailTx(h)) /\ ~(Reject(h) \/ Acknowledge(h))
  <2>1. PICK e, r : /\ e = q.event
                    /\ r = [IdleHandler EXCEPT !.task = "intentFailed",
                               !.at = "findFailedTx", !.event = e, !.round = 2]
                    /\ Continue(h, r)
    BY <1>3, <1>8, ZenonT(30) DEF FailValidation, FailTx, FailedOnce
  <2>2. /\ r.at = "findFailedTx" /\ r.task = "intentFailed" /\ r.event = q.event
        /\ r.outcome = "SUCCESS" /\ r.replaces = FALSE
    BY <2>1 DEF IdleHandler
  <2>3. OwnerKnown(r)'
    BY <2>2 DEF OwnerKnown
  <2>4. QED
    BY <1>6, <2>1, <2>2, <2>3 DEF Failing
<1>9. CASE ReplaceIntent(h)
  <2>1. PICK n, c, origin : /\ n = Len(intents) + 1 /\ c = q.me.customer
                            /\ origin = intents[i].origin
    OBVIOUS
  <2>2. PICK r : r = [q EXCEPT !.at = "failTx", !.intent = n]
    OBVIOUS
  <2>3. Continue(h, r) /\ intents' = Append(intents, NewIntent(c, origin))
    BY <1>3, <1>4, <1>9, <2>1, <2>2 DEF ReplaceIntent
  <2>4. /\ r.at = "failTx" /\ r.task = q.task /\ r.event = q.event /\ r.user = q.user
        /\ r.outcome = q.outcome /\ r.replaces = q.replaces /\ r.intent = n
    BY <1>1, <1>3, <2>2 DEF IsHandler
  <2>5. intents'[n].customer = c /\ intents'[n].origin = origin /\ n \notin DOMAIN intents
    <3>1. PICK row : row = NewIntent(c, origin)
      OBVIOUS
    <3>2. Grown(intents, row, intents')
      BY <1>1, <2>3, <3>1, AppendedTable DEF RowsInv, StripeRows
    <3>3. QED
      BY <1>1, <2>1, <3>1, <3>2 DEF Grown, NewIntent, RowsInv, StripeRows, IsTable
  <2>6. /\ q.at = "replaceIntent" /\ q.user \in Users /\ c # None
        /\ q.outcome \in {"SUCCESS", "FAILED"}
    BY <1>1, <1>3, <1>4, <1>9, <2>1
       DEF ReplaceIntent, At, Knows, WhoKnown, Fits, AtFits, Searching, WebhookTask
  <2>7. Owns(q.user, c)
    BY <1>1, <1>3, <1>4, <2>1, <2>6 DEF Fits, CallFits
  <2>8. Owns(q.user, intents[n].customer)'
    BY <2>5, <2>7 DEF Owns, Evolved, Kept
  <2>9. intents'[n].origin # n
    BY <1>1, <1>4, <2>1, <2>5 DEF OriginsExist
  <2>10. Owns(q.user, intents[i].customer)' /\ Unrefundable(i)'
    BY <1>3, <1>5, <2>6 DEF Knows, OwnerKnown, ClearKnown
  <2>11. OwnerKnown(r)'
    BY <1>3, <2>4, <2>8, <2>9, <2>10 DEF OwnerKnown
  <2>12. q.replaces = FALSE
    <3>1. ~q.replaces
      BY <1>1, <1>3, <1>4 DEF Fits, CallFits
    <3>2. QED
      BY <3>1
  <2>13. QED
    BY <1>4, <1>6, <2>3, <2>4, <2>6, <2>10, <2>11, <2>12 DEF Failing, Searching
<1>10. CASE FindRowToFail(h) /\ ~Reject(h)
  <2>1. PICK t \in TxsByIntent(i) :
           Continue(h, [q EXCEPT !.tx = t, !.at = IF At(h, "failTx") THEN "failTxRow"
                                                               ELSE "failValidationRow"])
    BY <1>3, <1>4, <1>10, ZenonT(30) DEF FindRowToFail
  <2>2. PICK place, r : /\ place = IF q.at = "failTx" THEN "failTxRow"
                                                     ELSE "failValidationRow"
                        /\ r = [q EXCEPT !.tx = t, !.at = place] /\ Continue(h, r)
    BY <1>3, <2>1 DEF At
  <2>3. /\ r.at = place /\ r.task = q.task /\ r.event = q.event /\ r.outcome = q.outcome
        /\ r.replaces = q.replaces /\ r.user = q.user /\ r.tx = t /\ r.intent = q.intent
    BY <1>1, <1>3, <2>2 DEF IsHandler
  <2>4. /\ t \in DOMAIN txs /\ RowFits(t)
        /\ i = txs[t].intent \/ i = txs[t].newIntent
    BY <1>1 DEF TxsByIntent, RecordsInv, RowsFit
  <2>5. ASSUME q.at = "failTx"
        PROVE  /\ txs[t].user = q.user /\ (Validates(t) => Shared(t))
               /\ Owns(q.user, intents[q.intent].customer)
               /\ intents[q.intent].origin # q.intent
    <3>1. /\ Owns(q.user, intents[i].customer) /\ Unrefundable(i) /\ i # None
          /\ Owns(q.user, intents[q.intent].customer)
          /\ intents[q.intent].origin # q.intent
      BY <1>1, <1>3, <1>4, <2>5, NoneAssumption DEF Knows, OwnerKnown, ClearKnown
    <3>2. QED
      BY <2>4, <3>1 DEF RowFits, Owns, Unrefundable
  <2>6. OwnerKnown(r)'
    <3>1. CASE q.at # "failTx"
      BY <2>2, <2>3, <3>1 DEF OwnerKnown
    <3>2. CASE q.at = "failTx"
      <4>1. OwnerKnown(q)'
        BY <1>5 DEF Knows
      <4>2. /\ t \in DOMAIN txs' /\ txs'[t].user = q.user
            /\ Validates(t)' => Shared(t)'
        BY <2>4, <2>5, <3>2, SharedKept
           DEF Evolved, Kept, OldRow, Validates, Subscription
      <4>3. QED
        BY <2>2, <2>3, <3>2, <4>1, <4>2 DEF OwnerKnown
    <3>3. QED
      BY <3>1, <3>2
  <2>7. /\ q.replaces = FALSE /\ q.outcome \in {"SUCCESS", "FAILED"}
    <3>1. ~q.replaces
      BY <1>1, <1>3, <1>4 DEF Fits, CallFits
    <3>2. QED
      BY <1>1, <1>3, <3>1 DEF Knows, WhoKnown
  <2>8. /\ r.task = "intentFailed" /\ r.at \in {"failTxRow", "failValidationRow"}
        /\ r.event = q.event /\ r.outcome \in {"SUCCESS", "FAILED"} /\ r.replaces = FALSE
        /\ r.at = "failTxRow" => r.user = q.user /\ q.at \notin Searching
    BY <1>4, <2>2, <2>3, <2>7 DEF Searching
  <2>9. QED
    BY <1>6, <2>2, <2>6, <2>8 DEF Failing
<1>11. QED
  BY <1>2, <1>7, <1>8, <1>9, <1>10

\* Every step of a webhook.
LEMMA WebhookStepKnows ==
  ASSUME StartInv, OutcomeInv', Evolved, NEW h \in Handlers, WebhookStep(h)
  PROVE  Knowing(h)
  BY SettlingKnows, FindTxKnows, FindUserKnows, PaidKnows, FindPendingTxKnows, FailedKnows
     DEF WebhookStep

----------------------------------------------------------------------------
(* The cron, and how calls begin.                                            *)

\* Every step of the cron.
LEMMA CronStepKnows ==
  ASSUME StartInv, OutcomeInv', Evolved, NEW h \in Handlers, CronStep(h), ~Restart
  PROVE  Knowing(h)
<1>1. /\ HandlersFit /\ IsHandler(handlers[h]) /\ PlaceFits(handlers[h])
      /\ Knows(handlers[h])
  BY CallKnown DEF Fits
<1>2. CASE End(h)
  BY <1>1, <1>2, EndKnows
<1>3. CASE ~End(h)
  <2>1. PICK q : q = handlers[h]
    OBVIOUS
  <2>2. q.task = "cron"
    BY <1>1, <2>1, ZenonT(30)
       DEF CronStep, CronUser, CronPlan, CronStatus, Chosen, CronLast, CronCreate,
           CronTariff, PlaceFits, At
  <2>3. IsHandler(q)
    BY <1>1, <2>1
  <2>4. \E r : /\ Continue(h, r) /\ IsHandler(r)
               /\ r.at \in {"cronPlan", "cronLast", "cronRequire", "cronExpire",
                           "cronSuspend", "cronTariff", "cronCreate", "deactivate",
                           "dropNext"}
               /\ r.task = q.task /\ r.event = q.event /\ r.outcome = q.outcome
    <3>1. CASE CronUser(h)
      <4>1. PICK me, r : r = [q EXCEPT !.at = "cronPlan", !.me = me] /\ Continue(h, r)
        BY <2>1, <3>1, ZenonT(30) DEF CronUser
      <4>2. /\ IsHandler(r) /\ r.at = "cronPlan" /\ r.task = q.task /\ r.event = q.event
            /\ r.outcome = q.outcome
        BY <2>3, <4>1 DEF IsHandler
      <4>3. QED
        BY <4>1, <4>2
    <3>2. CASE CronPlan(h)
      <4>1. PICK p, place :
               /\ place = IF p = None THEN "cronLast" ELSE AfterPlan(p)
               /\ Continue(h, [q EXCEPT !.plan = p, !.at = place])
        BY <2>1, <3>2, ZenonT(30) DEF CronPlan
      <4>2. place \in {"cronLast", "cronRequire", "cronExpire", "cronSuspend", "cronTariff"}
        BY <4>1 DEF AfterPlan, AfterDays
      <4>3. PICK r : r = [q EXCEPT !.plan = p, !.at = place]
        OBVIOUS
      <4>4. /\ IsHandler(r) /\ r.at = place /\ r.task = q.task /\ r.event = q.event
            /\ r.outcome = q.outcome
        BY <2>3, <4>3 DEF IsHandler
      <4>5. QED
        BY <4>1, <4>2, <4>3, <4>4
    <3>3. CASE CronLast(h)
      <4>1. PICK last, r : r = [q EXCEPT !.at = "cronCreate", !.other = last] /\ Continue(h, r)
        BY <2>1, <3>3, ZenonT(30) DEF CronLast
      <4>2. /\ IsHandler(r) /\ r.at = "cronCreate" /\ r.task = q.task /\ r.event = q.event
            /\ r.outcome = q.outcome
        BY <2>3, <4>1 DEF IsHandler
      <4>3. QED
        BY <4>1, <4>2
    <3>4. CASE CronCreate(h)
      <4>1. PICK n, r : /\ r = [q EXCEPT !.at = "deactivate", !.other = None, !.plan = n]
                        /\ Continue(h, r)
        BY <2>1, <3>4, ZenonT(30) DEF CronCreate
      <4>2. /\ IsHandler(r) /\ r.at = "deactivate" /\ r.task = q.task /\ r.event = q.event
            /\ r.outcome = q.outcome
        BY <2>3, <4>1 DEF IsHandler
      <4>3. QED
        BY <4>1, <4>2
    <3>5. CASE CronStatus(h) \/ CronTariff(h)
      <4>1. PICK place \in {"cronTariff", "dropNext"} : Goto(h, place)
        BY <1>3, <3>5 DEF CronStatus, CronTariff
      <4>2. PICK r : r = [q EXCEPT !.at = place]
        OBVIOUS
      <4>3. /\ IsHandler(r) /\ r.at = place /\ r.task = q.task /\ r.event = q.event
            /\ r.outcome = q.outcome
        BY <2>3, <4>2 DEF IsHandler
      <4>4. Continue(h, r)
        BY <2>1, <4>1, <4>2 DEF Goto, Continue
      <4>5. QED
        BY <4>3, <4>4
    <3>6. QED
      BY <3>1, <3>2, <3>3, <3>4, <3>5 DEF CronStep
  <2>5. PICK r : /\ Continue(h, r)
                 /\ r.at \in {"cronPlan", "cronLast", "cronRequire", "cronExpire",
                             "cronSuspend", "cronTariff", "cronCreate", "deactivate",
                             "dropNext"}
                 /\ r.task = "cron" /\ r.event = q.event /\ r.outcome = q.outcome
    BY <2>2, <2>4
  <2>6. r.event = None /\ r.outcome \in {"SUCCESS", "FAILED"}
    BY <1>1, <2>1, <2>2, <2>5 DEF Knows, WhoKnown, WebhookTask
  <2>7. OwnerKnown(r)' /\ ~Saves(r)
    BY <2>5 DEF OwnerKnown, Saves
  <2>8. Fits(r)'
    <3>1. handlers'[h] = r
      BY <1>1, <2>5 DEF Continue, HandlersFit
    <3>2. QED
      BY <3>1, MoverFits
  <2>9. Knows(r)'
    BY <2>5, <2>6, <2>7, <2>8, ClientKnows DEF WebhookTask, RequestTask
  <2>10. QED
    BY <1>1, <2>5, <2>7, <2>9, ContinueKnows
<1>4. QED
  BY <1>2, <1>3

\* A request begins with its user.
LEMMA RequestBegins ==
  ASSUME StartInv, OutcomeInv', NEW h \in Handlers, NEW u \in Users, NEW endpoint,
         NEW q, Call(h, u, endpoint, q), IsHandler(q), q.event = None,
         q.outcome = "SUCCESS", q.task \in RequestTask,
         q.task = "subscribe" => q.type = "SUBSCRIPTION",
         q.at \in {"findCard", "findPlans", "findTrialCard", "findCustomer",
                   "findValidation", "findNextPlan", "listSubs", "createSub", "countPlans"}
  PROVE  Knowing(h)
<1>1. PICK me, r : me = users[u] /\ r = [q EXCEPT !.user = u, !.me = me]
  BY ZenonT(30)
<1>2. Continue(h, r) /\ HandlersFit
  BY <1>1, CallKnown DEF Call
<1>3. /\ r.task = q.task /\ r.at = q.at /\ r.user = u /\ r.type = q.type
      /\ r.event = None /\ r.outcome = "SUCCESS"
  BY <1>1 DEF IsHandler
<1>4. Fits(r)'
  <2>1. handlers'[h] = r
    BY <1>2 DEF Continue, HandlersFit
  <2>2. QED
    BY <2>1, MoverFits
<1>5. OwnerKnown(r)' /\ ~Saves(r)
  BY <1>3 DEF OwnerKnown, Saves
<1>6. Knows(r)'
  BY <1>3, <1>4, <1>5, ClientKnows DEF RequestTask, WebhookTask, Subscription
<1>7. QED
  BY <1>2, <1>5, <1>6, ContinueKnows

\* Every request.
LEMMA RequestKnows ==
  ASSUME StartInv, OutcomeInv', NEW h \in Handlers, Request(h)
  PROVE  Knowing(h)
<1>1. PICK u \in Users :
         \/ SubscribeRequest(h, u) \/ SetTrialRequest(h, u)
         \/ \E t \in Tariffs : SwitchRequest(h, u, t) \/ SecretRequest(h, u, t)
         \/ ValidationRequest(h, u) \/ CancelNextRequest(h, u)
         \/ UnsubscribeRequest(h, u) \/ RenovateRequest(h, u) \/ InitializeRequest(h, u)
  BY DEF Request
<1>2. ASSUME NEW t, NEW place \in {"findCard", "findPlans", "findTrialCard"}, NEW endpoint,
             Call(h, u, endpoint, [IdleHandler EXCEPT
                !.task = "subscribe", !.at = place, !.type = "SUBSCRIPTION",
                !.tariff = t])
      PROVE  Knowing(h)
  <2>1. PICK q : q = [IdleHandler EXCEPT
                !.task = "subscribe", !.at = place, !.type = "SUBSCRIPTION",
                !.tariff = t]
    OBVIOUS
  <2>2. /\ IsHandler(q) /\ q.task = "subscribe" /\ q.at = place
        /\ q.type = "SUBSCRIPTION" /\ q.event = None /\ q.outcome = "SUCCESS"
    BY <2>1 DEF IdleHandler, IsHandler
  <2>3. QED
    BY <1>2, <2>1, <2>2, RequestBegins DEF RequestTask
<1>3. CASE SubscribeRequest(h, u) \/ SetTrialRequest(h, u)
  <2>1. PICK t : t = users[u].tariff
    OBVIOUS
  <2>2. QED
    BY <1>2, <1>3, <2>1, ZenonT(30) DEF SubscribeRequest, SetTrialRequest
<1>4. CASE \E t \in Tariffs : SwitchRequest(h, u, t)
  BY <1>2, <1>4, ZenonT(30) DEF SwitchRequest
<1>5. CASE \E t \in Tariffs : SecretRequest(h, u, t)
  <2>1. PICK t \in Tariffs : SecretRequest(h, u, t)
    BY <1>5
  <2>2. PICK q : q = [IdleHandler EXCEPT
        !.task = "getSecret", !.at = "findCustomer", !.type = "SUBSCRIPTION",
        !.tariff = t]
    OBVIOUS
  <2>3. /\ IsHandler(q) /\ q.task = "getSecret" /\ q.at = "findCustomer"
        /\ q.event = None /\ q.outcome = "SUCCESS"
    BY <2>2 DEF IdleHandler, IsHandler
  <2>4. QED
    BY <2>1, <2>2, <2>3, RequestBegins DEF SecretRequest, RequestTask
<1>6. CASE ValidationRequest(h, u)
  <2>1. PICK q : q = [IdleHandler EXCEPT
        !.task = "getSecret", !.at = "findValidation", !.type = "CARD_VALIDATION"]
    OBVIOUS
  <2>2. /\ IsHandler(q) /\ q.task = "getSecret" /\ q.at = "findValidation"
        /\ q.event = None /\ q.outcome = "SUCCESS"
    BY <2>1 DEF IdleHandler, IsHandler
  <2>3. QED
    BY <1>6, <2>1, <2>2, RequestBegins DEF ValidationRequest, RequestTask
<1>7. CASE \/ CancelNextRequest(h, u) \/ UnsubscribeRequest(h, u)
           \/ RenovateRequest(h, u) \/ InitializeRequest(h, u)
  <2>1. PICK endpoint, task, place :
           /\ \/ task = "cancelNext" /\ place = "findNextPlan"
              \/ task = "unsubscribe" /\ place = "listSubs"
              \/ task = "renovate" /\ place = "createSub"
              \/ task = "initialize" /\ place = "countPlans"
           /\ Call(h, u, endpoint, [IdleHandler EXCEPT !.task = task, !.at = place])
    BY <1>7, ZenonT(30)
       DEF CancelNextRequest, UnsubscribeRequest, RenovateRequest, InitializeRequest
  <2>2. PICK q : q = [IdleHandler EXCEPT !.task = task, !.at = place]
    OBVIOUS
  <2>3. /\ IsHandler(q) /\ q.task = task /\ q.at = place
        /\ q.event = None /\ q.outcome = "SUCCESS"
    BY <2>2 DEF IdleHandler, IsHandler
  <2>4. QED
    BY <2>1, <2>2, <2>3, RequestBegins DEF RequestTask
<1>8. QED
  BY <1>1, <1>3, <1>4, <1>5, <1>6, <1>7

\* A callback of the cron begins.
LEMMA CronBeginKnows ==
  ASSUME StartInv, OutcomeInv', NEW h \in Handlers, NEW u \in Users, CronBegin(h, u)
  PROVE  Knowing(h)
<1>1. PICK tariff, r : /\ tariff = users[u].tariff
                       /\ r = [IdleHandler EXCEPT !.task = "cron", !.at = "cronUser",
                                                  !.user = u, !.tariff = tariff]
  BY ZenonT(30)
<1>2. Continue(h, r) /\ HandlersFit
  BY <1>1, CallKnown DEF CronBegin
<1>3. /\ r.task = "cron" /\ r.at = "cronUser" /\ r.event = None /\ r.outcome = "SUCCESS"
  BY <1>1 DEF IdleHandler
<1>4. Fits(r)'
  <2>1. handlers'[h] = r
    BY <1>2 DEF Continue, HandlersFit
  <2>2. QED
    BY <2>1, MoverFits
<1>5. OwnerKnown(r)' /\ ~Saves(r)
  BY <1>3 DEF OwnerKnown, Saves
<1>6. Knows(r)'
  BY <1>3, <1>4, <1>5, ClientKnows DEF RequestTask, WebhookTask
<1>7. QED
  BY <1>2, <1>5, <1>6, ContinueKnows

\* A call fails inside paymentIntentSucceeded, which goes on to write FAILED.
LEMMA CallFailsKnows ==
  ASSUME StartInv, Evolved, NEW h \in Handlers, CallFails(h)
  PROVE  Knowing(h)
<1>1. PICK q : q = handlers[h]
  OBVIOUS
<1>2. PICK S, r : /\ S = {}
                  /\ r = [q EXCEPT !.at = "settle", !.outcome = "FAILED", !.listed = S]
  BY ZenonT(30)
<1>3. Continue(h, r) /\ q.task = "intentSucceeded"
      /\ q.at \notin {"findTx", "findPayer", "saveCard"}
  BY <1>1, <1>2 DEF CallFails
<1>4. HandlersFit /\ IsHandler(q) /\ Knows(q)
  BY <1>1, CallKnown
<1>5. /\ r.at = "settle" /\ r.task = q.task /\ r.user = q.user /\ r.type = q.type
      /\ r.event = q.event /\ r.outcome = "FAILED" /\ r.tx = q.tx
      /\ r.replaces = q.replaces
  BY <1>2, <1>4 DEF IsHandler
<1>6. Knows(q)'
  BY <1>1, CallKnown, KnowsKept
<1>7. WhereKnown(r)' /\ OwnerKnown(r)' /\ LinkKnown(r)' /\ ~Saves(r)
  BY <1>3, <1>5 DEF WhereKnown, OwnerKnown, LinkKnown, Cashed, Saves
<1>8. WhoKnown(r)'
  <2>1. WhoKnown(q)' /\ q.at \in Charged \cup Cashed
    BY <1>3, <1>6 DEF Knows, WhereKnown
  <2>2. q.at \notin Searching
    BY <1>3, <2>1 DEF Charged, Cashed, Searching
  <2>3. QED
    BY <1>3, <1>5, <2>1, <2>2 DEF WhoKnown, WebhookTask, RequestTask
<1>9. ClearKnown(r)'
  <2>1. ClearKnown(q)'
    BY <1>6 DEF Knows
  <2>2. QED
    BY <1>5, <2>1 DEF ClearKnown
<1>10. Knows(r)'
  BY <1>7, <1>8, <1>9 DEF Knows
<1>11. QED
  BY <1>3, <1>4, <1>7, <1>10, ContinueKnows

\* A webhook begins with a report that is so.
LEMMA DeliverKnows ==
  ASSUME StartInv, OutcomeInv', Evolved, NEW h \in Handlers, NEW e \in events.pending,
         Deliver(h, e)
  PROVE  Knowing(h)
<1>1. Reported(e) /\ ReportShown(e) /\ HandlersFit
  BY CallKnown DEF StartInv, OutcomeInv, EventsReported, CallsInv, EventsShown
<1>2. ReportShown(e)'
  BY <1>1, ReportShownKept
<1>3. PICK r : r = Handling(e)
  OBVIOUS
<1>4. /\ r.user = None /\ r.event = e /\ r.outcome = "SUCCESS" /\ r.replaces = FALSE
      /\ \/ r.task = "intentSucceeded" /\ r.at = "findTx"
         \/ r.task = "intentFailed" /\ r.at = "findFailedTx"
         \/ r.task = "subscriptionCreated" /\ r.at = "findSubscriber"
  BY <1>1, <1>3 DEF Handling, IdleHandler, Reported, EventType
<1>5. WhereKnown(r)' /\ OwnerKnown(r)' /\ ClearKnown(r)' /\ LinkKnown(r)'
  BY <1>4
     DEF WhereKnown, OwnerKnown, ClearKnown, LinkKnown, Charged, Failing, Cashed, Linking
<1>6. WhoKnown(r)'
  BY <1>2, <1>4 DEF WhoKnown, Searching, RequestTask, WebhookTask
<1>7. Knows(r)' /\ ~Saves(r)
  BY <1>4, <1>5, <1>6 DEF Knows, Saves
<1>8. Continue(h, r)
  BY <1>3 DEF Deliver
<1>9. QED
  BY <1>1, <1>7, <1>8, ContinueKnows

----------------------------------------------------------------------------
(* Intents that no row names yet, and where intents stem from.               *)

\* What a step writes of the intents.
LEMMA IntentsWritten ==
  ASSUME StartInv, NEW h \in Handlers, Step(h)
  PROVE  \/ UNCHANGED intents
         \/ \E t \in DOMAIN txs : intents' = [intents EXCEPT ![txs[t].intent].shown = TRUE]
         \/ /\ SaveIntentTx(h)
            /\ intents' = [intents EXCEPT ![handlers[h].intent].shown = TRUE]
         \/ \E i : intents' = [intents EXCEPT ![i].refunded = TRUE]
         \/ /\ CreateIntent(h)
            /\ \E c : intents' = Append(intents, NewIntent(c, Len(intents) + 1))
         \/ \E c : \E i \in DOMAIN intents :
               intents' = Append(intents, NewIntent(c, intents[i].origin))
<1>1. /\ HandlersFit /\ PlaceFits(handlers[h])
  BY CallKnown DEF Fits
<1>2. CASE SaveIntentTx(h)
  BY <1>2 DEF SaveIntentTx, Show
<1>3. CASE FindValidation(h)
  BY <1>3 DEF FindValidation, Show, PendingTxs, TxsOf
<1>4. CASE ReuseIntent(h)
  <2>1. handlers[h].task \in {"subscribe", "getSecret"}
    BY <1>1, <1>4 DEF ReuseIntent, PlaceFits, At
  <2>2. \A t \in Unfinished(h) : t \in DOMAIN txs
    BY <2>1 DEF Unfinished, PendingTxs, TxsOf
  <2>3. QED
    BY <1>4, <2>1, <2>2 DEF ReuseIntent, Show
<1>5. CASE Refund(h)
  BY <1>5 DEF Refund
<1>6. CASE CreateIntent(h)
  BY <1>6 DEF CreateIntent
<1>7. CASE ReplaceIntent(h)
  <2>1. About(h) \in DOMAIN intents
    BY <1>1, <1>7, WebhookKnows DEF ReplaceIntent, PlaceFits, At
  <2>2. PICK c, i : c = handlers[h].me.customer /\ i = About(h)
    OBVIOUS
  <2>3. intents' = Append(intents, NewIntent(c, intents[i].origin)) /\ i \in DOMAIN intents
    BY <1>7, <2>1, <2>2 DEF ReplaceIntent
  <2>4. QED
    BY <2>3
<1>8. CASE TxStep(h) /\ ~SaveIntentTx(h)
  BY <1>8, ZenonT(30)
     DEF TxStep, Supersede, CancelOthers, SaveTx, SavePrePayment, SettleById, SettleRows,
     FailValidation, FailTx, LinkTx, stripe
<1>9. CASE DeleteSubs(h) \/ CreateSub(h) \/ CreateCustomer(h)
  BY <1>9 DEF DeleteSubs, CreateSub, CreateCustomer
<1>10. QED
  BY <1>2, <1>3, <1>4, <1>5, <1>6, <1>7, <1>8, <1>9, StepKinds DEF StripeStep

\* Origins are intents.
LEMMA OriginsStay ==
  ASSUME OriginsExist, Kept, DOMAIN intents' = DOMAIN intents PROVE OriginsExist'
  BY DEF OriginsExist, Kept

\* A new intent is its own origin or stems from one that exists.
LEMMA StepOrigins ==
  ASSUME StartInv, Kept, NEW h \in Handlers, Step(h) PROVE OriginsExist'
<1>1. RowsInv /\ OriginsExist
  BY CallKnown DEF StartInv, CallsInv
<1>2. CASE DOMAIN intents' = DOMAIN intents
  BY <1>1, <1>2, OriginsStay
<1>3. ASSUME NEW c, NEW origin, intents' = Append(intents, NewIntent(c, origin)),
             origin = Len(intents) + 1 \/ origin \in DOMAIN intents
      PROVE  OriginsExist'
  <2>1. PICK row, n : row = NewIntent(c, origin) /\ n = Len(intents) + 1
    OBVIOUS
  <2>2. Grown(intents, row, intents')
    BY <1>1, <1>3, <2>1, AppendedTable DEF RowsInv, StripeRows
  <2>3. /\ DOMAIN intents = 1..Len(intents) /\ DOMAIN intents' = 1..(Len(intents) + 1)
        /\ n \in DOMAIN intents' /\ intents'[n].origin = origin
        /\ \A i \in DOMAIN intents : i \in DOMAIN intents' /\ intents'[i] = intents[i]
    BY <2>1, <2>2 DEF Grown, NewIntent
  <2>4. \A i \in DOMAIN intents' : i \in DOMAIN intents \/ i = n
    BY <1>1, <2>1, <2>3 DEF RowsInv, StripeRows, IsTable
  <2>5. QED
    BY <1>1, <1>3, <2>1, <2>3, <2>4 DEF OriginsExist
<1>4. CASE \E c : intents' = Append(intents, NewIntent(c, Len(intents) + 1))
  BY <1>3, <1>4
<1>5. CASE \E c : \E i \in DOMAIN intents :
              intents' = Append(intents, NewIntent(c, intents[i].origin))
  <2>1. PICK c : \E i \in DOMAIN intents :
           intents' = Append(intents, NewIntent(c, intents[i].origin))
    BY <1>5
  <2>4. PICK i \in DOMAIN intents : intents' = Append(intents, NewIntent(c, intents[i].origin))
    BY <2>1
  <2>2. intents[i].origin \in DOMAIN intents
    BY <1>1 DEF OriginsExist
  <2>3. QED
    BY <1>3, <2>2, <2>4
<1>6. CASE \/ \E i : intents' = [intents EXCEPT ![i].shown = TRUE]
           \/ \E i : intents' = [intents EXCEPT ![i].refunded = TRUE]
  <2>1. DOMAIN intents' = DOMAIN intents
    BY <1>6
  <2>2. QED
    BY <1>2, <2>1
<1>7. QED
  BY <1>2, <1>4, <1>5, <1>6, IntentsWritten

\* The intents of rows that a step adds.
LEMMA RowsAdded ==
  ASSUME StartInv, NEW h \in Handlers, Step(h), NEW t \in DOMAIN txs', t \notin DOMAIN txs
  PROVE  \/ txs'[t].intent = None
         \/ /\ SavePrePayment(h) \/ SaveIntentTx(h)
            /\ txs'[t].intent = handlers[h].intent
<1>1. RowsInv /\ TxStep(h)
  BY CallKnown, StepKinds
<1>2. CASE SaveTx(h) \/ SavePrePayment(h) \/ SaveIntentTx(h)
  <2>1. PICK u, type, tariff, plan, intent :
           /\ txs' = Append(txs, NewTx(u, type, tariff, plan, intent))
           /\ \/ intent = None
              \/ /\ SavePrePayment(h) \/ SaveIntentTx(h)
                 /\ intent = handlers[h].intent
    BY <1>2 DEF SaveTx, SavePrePayment, SaveIntentTx
  <2>2. PICK row : row = NewTx(u, type, tariff, plan, intent)
    OBVIOUS
  <2>3. Grown(txs, row, txs')
    BY <1>1, <2>1, <2>2, AppendedTable DEF RowsInv, TxRows
  <2>4. t = Len(txs) + 1
    BY <1>1, <2>3 DEF Grown, RowsInv, TxRows, IsTable
  <2>5. txs'[t].intent = intent
    BY <2>2, <2>3, <2>4 DEF Grown, NewTx
  <2>6. QED
    BY <2>1, <2>5
<1>3. CASE ~(SaveTx(h) \/ SavePrePayment(h) \/ SaveIntentTx(h))
  <2>1. DOMAIN txs' = DOMAIN txs
    BY <1>1, <1>3, ZenonT(30)
       DEF TxStep, Supersede, CancelOthers, SettleById, SettleRows, FailValidation, FailTx,
           LinkTx, TxsWithStatus
  <2>2. QED
    BY <2>1
<1>4. QED
  BY <1>2, <1>3

\* Whom no row names and no client knows is left so by everybody but the call that
\* saves its row.
LEMMA StepUnsaved ==
  ASSUME StartInv, Evolved, NEW h \in Handlers, Step(h), NEW i \in DOMAIN intents, Unsaved(i),
         ~(SaveIntentTx(h) /\ handlers[h].intent = i)
  PROVE  Unsaved(i)'
<1>1. RowsInv /\ i # None /\ IsIntent(intents[i]) /\ Knows(handlers[h])
  BY CallKnown, NoneAssumption DEF RowsInv, StripeRows, IsTable
<1>2. ASSUME NEW t \in DOMAIN txs' PROVE txs'[t].intent # i
  <2>1. CASE t \in DOMAIN txs
    BY <1>1, <2>1 DEF Evolved, Kept, Unsaved
  <2>2. CASE t \notin DOMAIN txs
    <3>1. SavePrePayment(h) => handlers[h].intent # i
      BY <1>1 DEF SavePrePayment, At, Knows, OwnerKnown, Unsaved
    <3>2. QED
      BY <1>1, <2>2, <3>1, RowsAdded
  <2>3. QED
    BY <2>1, <2>2
<1>3. intents'[i].origin = i
  BY DEF Evolved, Kept, Unsaved, Exposed
<1>4. ~intents'[i].shown
  <2>1. ~intents[i].shown
    BY DEF Unsaved, Exposed
  <2>2. CASE \E k : k # i /\ intents' = [intents EXCEPT ![k].shown = TRUE]
    BY <2>1, <2>2
  <2>3. CASE \E k : intents' = [intents EXCEPT ![k].refunded = TRUE]
    BY <1>1, <2>1, <2>3 DEF IsIntent
  <2>4. CASE \E row : intents' = Append(intents, row)
    BY <1>1, <2>1, <2>4, AppendedTable DEF RowsInv, StripeRows, Grown
  <2>5. CASE \E t \in DOMAIN txs : intents' = [intents EXCEPT ![txs[t].intent].shown = TRUE]
    BY <2>2, <2>5 DEF Unsaved
  <2>6. QED
    BY <2>1, <2>2, <2>3, <2>4, <2>5, IntentsWritten
<1>5. QED
  BY <1>2, <1>3, <1>4 DEF Unsaved, Exposed

LeavesUnsaved(h) ==
    \A i \in DOMAIN intents :
        Unsaved(i) /\ ~(SaveIntentTx(h) /\ handlers[h].intent = i) => Unsaved(i)'

\* Calls that hold an unsaved intent hold different ones.
LEMMA SaversMove ==
  ASSUME StartInv, NEW h \in Handlers, Knowing(h), LeavesUnsaved(h) PROVE SaversFit'
<1>1. RowsInv /\ HandlersFit /\ SaversFit
  BY CallKnown DEF StartInv, CallsInv
<1>2. ASSUME NEW g \in Handlers, g # h PROVE handlers'[g] = handlers[g]
  BY <1>1, <1>2 DEF Knowing, Moves, HandlersFit
<1>3. ASSUME NEW g \in Handlers, Saves(handlers[g])
      PROVE  Unsaved(handlers[g].intent) /\ handlers[g].intent \in DOMAIN intents
  BY <1>1, <1>3 DEF SaversFit, Saves, HandlersFit, Fits, AtFits
<1>4. ASSUME NEW g \in Handlers, Saves(handlers[g]), NEW i, i = handlers[g].intent,
             g # h \/ ~SaveIntentTx(h)
      PROVE  Unsaved(i)'
  <2>1. SaveIntentTx(h) => Saves(handlers[h])
    BY DEF SaveIntentTx, Saves, At
  <2>2. ~(SaveIntentTx(h) /\ handlers[h].intent = i)
    BY <1>1, <1>4, <2>1 DEF SaversFit
  <2>3. QED
    BY <1>3, <1>4, <2>2 DEF LeavesUnsaved
<1>5. CASE ~Saves(handlers[h])'
  <2>1. ASSUME NEW g \in Handlers, Saves(handlers[g])'
        PROVE  /\ g # h /\ Saves(handlers[g]) /\ handlers'[g] = handlers[g]
    BY <1>2, <1>5, <2>1
  <2>2. ASSUME NEW g \in Handlers, Saves(handlers[g])' PROVE Unsaved(handlers[g].intent)'
    <3>1. PICK i : i = handlers[g].intent
      OBVIOUS
    <3>2. Unsaved(i)' /\ i = handlers'[g].intent
      BY <1>4, <2>1, <2>2, <3>1
    <3>3. QED
      BY <3>2
  <2>3. QED
    BY <1>1, <2>1, <2>2 DEF SaversFit
<1>6. CASE FindIntentPlan(h)
  <2>1. PICK p, r : r = [handlers[h] EXCEPT !.at = "saveIntentTx", !.other = p] /\ Continue(h, r)
    BY <1>6, ZenonT(30) DEF FindIntentPlan
  <2>2. r.intent = handlers[h].intent /\ handlers'[h] = r
    BY <1>1, <2>1 DEF HandlersFit, IsHandler, Continue
  <2>3. Saves(handlers[h]) /\ ~SaveIntentTx(h)
    BY <1>6 DEF FindIntentPlan, SaveIntentTx, Saves, At
  <2>4. ASSUME NEW g \in Handlers, Saves(handlers[g])'
        PROVE  Saves(handlers[g]) /\ handlers'[g].intent = handlers[g].intent
    BY <1>2, <2>2, <2>3, <2>4
  <2>5. ASSUME NEW g \in Handlers, Saves(handlers[g])' PROVE Unsaved(handlers[g].intent)'
    <3>1. PICK i : i = handlers[g].intent
      OBVIOUS
    <3>2. Unsaved(i)' /\ i = handlers'[g].intent
      BY <1>4, <2>3, <2>4, <2>5, <3>1
    <3>3. QED
      BY <3>2
  <2>6. QED
    BY <1>1, <2>4, <2>5 DEF SaversFit
<1>7. CASE CreateIntent(h)
  <2>1. PICK n, place, r, c :
           /\ n = Len(intents) + 1
           /\ r = [handlers[h] EXCEPT !.intent = n, !.at = place] /\ Continue(h, r)
           /\ intents' = Append(intents, NewIntent(c, n)) /\ UNCHANGED txs
    BY <1>7, ZenonT(30) DEF CreateIntent
  <2>2. r.intent = n /\ handlers'[h] = r
    BY <1>1, <2>1 DEF HandlersFit, IsHandler, Continue
  <2>3. n \notin DOMAIN intents /\ n # None /\ intents'[n].origin = n /\ ~intents'[n].shown
    <3>1. PICK row : row = NewIntent(c, n)
      OBVIOUS
    <3>2. Grown(intents, row, intents')
      BY <1>1, <2>1, <3>1, AppendedTable DEF RowsInv, StripeRows
    <3>3. QED
      BY <1>1, <2>1, <3>1, <3>2, NoneAssumption
         DEF Grown, NewIntent, RowsInv, StripeRows, IsTable
  <2>4. Unsaved(n)'
    BY <1>1, <2>1, <2>3 DEF Unsaved, Exposed, RowsInv, TxRows
  <2>5. ASSUME NEW g \in Handlers, Saves(handlers[g])'
        PROVE  \/ g = h /\ handlers'[g].intent = n
               \/ /\ g # h /\ Saves(handlers[g]) /\ handlers'[g] = handlers[g]
                  /\ handlers[g].intent # n
    BY <1>2, <1>3, <2>2, <2>3, <2>5
  <2>6. ASSUME NEW g \in Handlers, Saves(handlers[g])' PROVE Unsaved(handlers[g].intent)'
    <3>1. PICK i : i = handlers'[g].intent
      OBVIOUS
    <3>2. Unsaved(i)'
      BY <1>4, <2>4, <2>5, <2>6, <3>1
    <3>3. QED
      BY <3>1, <3>2
  <2>7. QED
    BY <1>1, <2>5, <2>6 DEF SaversFit
<1>8. QED
  BY <1>5, <1>6, <1>7 DEF Knowing

----------------------------------------------------------------------------
(* What the calls know after a step.                                         *)

\* Calls that are left alone know what they knew.
LEMMA CallsKnowMove ==
  ASSUME StartInv, Evolved, NEW h \in Handlers, Knowing(h) PROVE CallsKnow'
<1>1. ASSUME NEW g \in Handlers PROVE Knows(handlers[g])'
  <2>1. CASE g = h
    BY <2>1 DEF Knowing
  <2>2. CASE g # h
    <3>1. HandlersFit /\ Fits(handlers[g]) /\ Knows(handlers[g])
      BY CallKnown
    <3>2. handlers'[g] = handlers[g]
      BY <2>2, <3>1 DEF Knowing, Moves, HandlersFit
    <3>3. PICK r : r = handlers[g]
      OBVIOUS
    <3>4. Knows(r)'
      BY <3>1, <3>3, KnowsKept
    <3>5. QED
      BY <3>2, <3>3, <3>4
  <2>3. QED
    BY <2>1, <2>2
<1>2. QED
  BY <1>1 DEF CallsKnow

\* After the end of the process nobody knows anything.
LEMMA RestartKnows == ASSUME Restart PROVE CallsKnow' /\ SaversFit'
<1>1. ASSUME NEW h \in Handlers PROVE handlers'[h] = IdleHandler
  BY DEF Restart
<1>2. ASSUME NEW h \in Handlers PROVE Knows(handlers[h])'
  <2>1. PICK r : r = IdleHandler
    OBVIOUS
  <2>2. Knows(r)' /\ r = handlers'[h]
    BY <1>1, <2>1, IdleKnows
  <2>3. QED
    BY <2>2
<1>3. ASSUME NEW h \in Handlers PROVE ~Saves(handlers[h])'
  <2>1. handlers'[h].at = "idle"
    BY <1>1 DEF IdleHandler
  <2>2. QED
    BY <2>1 DEF Saves
<1>4. QED
  BY <1>2, <1>3 DEF CallsKnow, SaversFit

\* Calls that nobody moves.
LEMMA StillKnows ==
  ASSUME StartInv, Evolved, UNCHANGED handlers, UNCHANGED txs,
         \A i \in DOMAIN intents : intents'[i].shown = intents[i].shown
  PROVE  CallsKnow' /\ SaversFit'
<1>1. ASSUME NEW h \in Handlers PROVE Knows(handlers[h])'
  <2>1. PICK r : r = handlers[h]
    OBVIOUS
  <2>2. Knows(r)'
    BY <2>1, CallKnown, KnowsKept
  <2>3. QED
    BY <2>1, <2>2
<1>2. SaversFit /\ HandlersFit
  BY DEF StartInv, CallsInv, OutcomeInv
<1>3. ASSUME NEW h \in Handlers, Saves(handlers[h]) PROVE Unsaved(handlers[h].intent)'
  <2>1. PICK i : i = handlers[h].intent
    OBVIOUS
  <2>2. i \in DOMAIN intents /\ Unsaved(i)
    BY <1>2, <1>3, <2>1 DEF HandlersFit, Fits, AtFits, Saves, SaversFit
  <2>3. Unsaved(i)'
    BY <2>2 DEF Unsaved, Exposed, Evolved, Kept
  <2>4. QED
    BY <2>1, <2>3
<1>4. ASSUME NEW h \in Handlers PROVE Saves(handlers[h])' <=> Saves(handlers[h])
  BY DEF Saves
<1>5. QED
  BY <1>1, <1>2, <1>3, <1>4 DEF CallsKnow, SaversFit

\* Steps that write neither rows nor intents leave what is unsaved.
LEMMA UnwrittenUnsaved ==
  ASSUME NEW h, UNCHANGED <<txs, intents>> PROVE LeavesUnsaved(h)
  BY DEF LeavesUnsaved, Unsaved, Exposed

----------------------------------------------------------------------------
(* The reports of Stripe.                                                    *)

\* Reports come from reports, webhooks, or from what is so.
LEMMA EventsStayShown ==
  ASSUME StartInv, Evolved,
         \A e \in events'.pending \cup events'.acked :
            \/ e \in events.pending \cup events.acked
            \/ \E g \in Handlers : handlers[g].task \in WebhookTask /\ e = handlers[g].event
            \/ ReportShown(e)'
  PROVE  EventsShown'
<1>1. ASSUME NEW e \in events'.pending \cup events'.acked PROVE ReportShown(e)'
  <2>1. CASE e \in events.pending \cup events.acked
    <3>1. Reported(e) /\ ReportShown(e)
      BY <2>1 DEF StartInv, OutcomeInv, EventsReported, CallsInv, EventsShown
    <3>2. QED
      BY <3>1, ReportShownKept
  <2>2. CASE \E g \in Handlers : handlers[g].task \in WebhookTask /\ e = handlers[g].event
    <3>1. PICK g \in Handlers : handlers[g].task \in WebhookTask /\ e = handlers[g].event
      BY <2>2
    <3>2. Fits(handlers[g]) /\ Knows(handlers[g])
      BY CallKnown
    <3>3. Reported(e)
      BY <3>1, <3>2 DEF Fits, EventFits, WebhookTask
    <3>4. ReportShown(e)
      BY <3>1, <3>2 DEF Knows, WhoKnown
    <3>5. QED
      BY <3>3, <3>4, ReportShownKept
  <2>3. QED
    BY <1>1, <2>1, <2>2
<1>2. QED
  BY <1>1 DEF EventsShown

\* Only webhooks answer: the ones of payments and of subscriptions when they have
\* settled the rows.  Only the creation of a subscription is reported by a step.
LEMMA StepEvents ==
  ASSUME StartInv, NEW h \in Handlers, Step(h)
  PROVE  \/ UNCHANGED events
         \/ handlers[h].task \in WebhookTask /\ Reject(h)
         \/ /\ handlers[h].task \in WebhookTask /\ Acknowledge(h)
            /\ SettleById(h) \/ SettleRows(h) \/ handlers[h].task = "intentFailed"
         \/ Restart
         \/ /\ CreateSub(h)
            /\ events' = [events EXCEPT !.pending = @ \cup {Created(Len(subs) + 1)}]
<1>1. PlaceFits(handlers[h])
  BY CallKnown DEF Fits
<1>2. CASE SharedStep(h)
  <2>1. CASE CreateSub(h)
    BY <2>1 DEF CreateSub, Created
  <2>2. CASE ActivateFails(h)
    <3>1. handlers[h].task \in {"intentSucceeded", "subscriptionCreated", "cron"}
      BY <1>1, <2>2 DEF ActivateFails, At, PlaceFits
    <3>2. QED
      BY <2>2, <3>1 DEF ActivateFails, WebhookTask
  <2>3. CASE ~CreateSub(h) /\ ~ActivateFails(h)
    BY <1>2, <2>3
       DEF SharedStep, ListSubs, DeleteSubs, SetStatus, DropNext, Deactivate, Activate
  <2>4. QED
    BY <2>1, <2>2, <2>3
<1>3. CASE RequestStep(h)
  BY <1>3, ZenonT(30)
     DEF RequestStep, FindPlans, FindTrialCard, FindCurrent, FindLast, DeletePlan, FindCard,
         FindPlan, CreatePlan, AttachCard, Supersede, SaveTx, SavePrePayment,
         FindValidation, FindCustomer, CreateCustomer, StoreCustomer, ReuseIntent,
         NoIntentFound, CreateIntent, FindIntentPlan, SaveIntentTx, FindNextPlan,
         CountPlans, CreateFirstPlan
<1>4. CASE WebhookStep(h)
  <2>1. handlers[h].task \in WebhookTask
    BY <1>1, <1>4, ZenonT(30)
       DEF WebhookStep, FindTx, FindPayer, SaveCard, Refund, CreatePaidPlan, SetActive,
           StoreTariff, SettleById, CancelOthers, SettleRows, FindFailedTx,
           FindRowToFail, FailValidation, FindDebtor, ReplaceIntent, FailTx,
           FindSubscriber, FindPendingTx, ReadPlan, StoreNext, LinkTx, At, PlaceFits,
           WebhookTask
  <2>2. CASE SettleById(h) \/ SettleRows(h)
    BY <2>1, <2>2, ZenonT(30) DEF SettleById, SettleRows
  <2>3. CASE FailValidation(h) \/ FailTx(h)
    <3>1. handlers[h].task = "intentFailed"
      BY <1>1, <2>3, ZenonT(30) DEF FailValidation, FailTx, At, PlaceFits
    <3>2. UNCHANGED events \/ Acknowledge(h) \/ Reject(h)
      BY <2>3, ZenonT(30) DEF FailValidation, FailTx, FailedOnce
    <3>3. QED
      BY <2>1, <3>1, <3>2
  <2>4. CASE ReadPlan(h)
    BY <2>1, <2>4 DEF ReadPlan
  <2>5. CASE ~(SettleById(h) \/ SettleRows(h) \/ FailValidation(h) \/ FailTx(h) \/ ReadPlan(h))
    BY <1>4, <2>1, <2>5, ZenonT(30)
       DEF WebhookStep, FindTx, FindPayer, SaveCard, Refund, CreatePaidPlan, SetActive,
           StoreTariff, CancelOthers, FindFailedTx, FindRowToFail, FindDebtor,
           ReplaceIntent, FindSubscriber, FindPendingTx, StoreNext, LinkTx, FindUser
  <2>6. QED
    BY <2>2, <2>3, <2>4, <2>5
<1>5. CASE CronStep(h)
  BY <1>5, ZenonT(30)
     DEF CronStep, CronUser, CronPlan, CronStatus, CronLast, CronCreate, CronTariff
<1>6. QED
  BY <1>2, <1>3, <1>4, <1>5 DEF Step

\* Steps that report nothing new.
LEMMA NothingReported ==
  ASSUME StartInv, Evolved,
         \/ UNCHANGED events
         \/ \E e \in events.pending : events' = [events EXCEPT !.pending = @ \ {e}]
         \/ Restart
  PROVE  EventsShown'
<1>1. events = [pending |-> events.pending, acked |-> events.acked]
  BY DEF StartInv, OutcomeInv, EventsReported
<1>2. ASSUME NEW e \in events'.pending \cup events'.acked
      PROVE  \/ e \in events.pending \cup events.acked
             \/ \E g \in Handlers : handlers[g].task \in WebhookTask /\ e = handlers[g].event
  <2>1. e \in events.pending \cup events.acked \/ e \in InFlight
    BY <1>1, <1>2 DEF Restart
  <2>2. \A g \in Handlers : handlers[g].event # None => handlers[g].task \in WebhookTask
    BY CallKnown DEF Knows, WhoKnown
  <2>3. QED
    BY <2>1, <2>2 DEF InFlight
<1>3. QED
  BY <1>2, EventsStayShown

\* What Stripe has reported after a step of a call.
LEMMA StepReports ==
  ASSUME StartInv, Evolved, NEW h \in Handlers, Step(h) PROVE EventsShown'
<1>1. /\ events = [pending |-> events.pending, acked |-> events.acked]
      /\ handlers = [g \in Handlers |-> handlers[g]]
  BY DEF StartInv, OutcomeInv, EventsReported, HandlersFit
<1>2. CASE UNCHANGED events \/ Restart
  BY <1>2, NothingReported
<1>3. CASE handlers[h].task \in WebhookTask /\ (Acknowledge(h) \/ Reject(h))
  <2>1. \A e \in events'.pending \cup events'.acked :
           e \in events.pending \cup events.acked \/ e = handlers[h].event
    BY <1>1, <1>3 DEF Acknowledge, Reject
  <2>2. QED
    BY <1>3, <2>1, EventsStayShown
<1>4. CASE events' = [events EXCEPT !.pending = @ \cup {Created(Len(subs) + 1)}]
  <2>1. PICK f : f = Created(Len(subs) + 1)
    OBVIOUS
  <2>2. ReportShown(f)'
    BY <2>1 DEF ReportShown, Created
  <2>3. \A e \in events'.pending \cup events'.acked :
           e \in events.pending \cup events.acked \/ e = f
    BY <1>1, <1>4, <2>1
  <2>4. QED
    BY <2>2, <2>3, EventsStayShown
<1>5. QED
  BY <1>2, <1>3, <1>4, StepEvents

\* A payment form shows intents that the client was told of, by the request or
\* in the row of a failed payment.
LEMMA PayableExposed ==
  ASSUME StartInv, NEW i \in DOMAIN intents, Payable(i) PROVE Exposed(i)
<1>1. i # None
  BY NoneAssumption DEF StartInv, OutcomeInv, RowsInv, StripeRows, IsTable
<1>2. CASE \E t \in DOMAIN txs : txs[t].newIntent = i
  BY <1>1, <1>2 DEF StartInv, RecordsInv, RowsFit, RowFits, Exposed
<1>3. QED
  BY <1>2 DEF Payable, Exposed

\* What Stripe has reported after a payment, or the failure of one.
LEMMA PayReports ==
  ASSUME StartInv, Evolved, NEW i \in DOMAIN intents,
         (\E card \in Cards : Pay(i, card)) \/ Decline(i) \/ CancelIntent(i)
  PROVE  EventsShown'
<1>1. PICK type : Report(type, i)
  BY ZenonT(30) DEF Pay, Decline, CancelIntent
<1>2. Exposed(i)'
  BY PayableExposed, ExposedKept, ZenonT(30) DEF Pay, Decline, CancelIntent
<1>3. PICK f : f = [type |-> type, about |-> i]
  OBVIOUS
<1>4. f.about = i /\ f = [type |-> f.type, about |-> f.about]
  BY <1>3
<1>5. ReportShown(f)'
  BY <1>2, <1>4 DEF ReportShown
<1>6. \A e \in events'.pending \cup events'.acked :
         e \in events.pending \cup events.acked \/ e = f
  BY <1>1, <1>3 DEF Report, StartInv, OutcomeInv, EventsReported
<1>7. QED
  BY <1>5, <1>6, EventsStayShown

\* What Stripe has reported after a repeated report.
LEMMA RepeatedReports ==
  ASSUME StartInv, Evolved, NEW e \in events.acked \cup InFlight, DeliverAgain(e)
  PROVE  EventsShown'
<1>1. events = [pending |-> events.pending, acked |-> events.acked]
  BY DEF StartInv, OutcomeInv, EventsReported
<1>2. \/ e \in events.acked
      \/ \E g \in Handlers : handlers[g].task \in WebhookTask /\ e = handlers[g].event
  BY CallKnown DEF InFlight, Knows, WhoKnown
<1>3. e = [type |-> e.type, about |-> e.about]
  <2>1. CASE e \in events.acked
    BY <2>1 DEF StartInv, CallsInv, EventsShown, ReportShown
  <2>2. CASE \E g \in Handlers : handlers[g].task \in WebhookTask /\ e = handlers[g].event
    BY <2>2, CallKnown DEF Knows, WhoKnown, ReportShown
  <2>3. QED
    BY <1>2, <2>1, <2>2
<1>4. \A f \in events'.pending \cup events'.acked :
         f \in events.pending \cup events.acked \/ f = e
  BY <1>1, <1>3 DEF DeliverAgain, Report
<1>5. QED
  BY <1>2, <1>4, EventsStayShown

----------------------------------------------------------------------------
(* What is promised of payments and validations.                             *)

\* A validation reads SUCCESS only with its charge given back, or shared.
LEMMA RefundsKept ==
  ASSUME StartInv, ValidationRefunded, Evolved PROVE ValidationRefunded'
<1>1. ASSUME NEW t \in DOMAIN txs', Validates(t)', txs'[t].status = "SUCCESS", ~Shared(t)'
      PROVE  intents'[txs'[t].intent].refunded
  <2>1. t \in DOMAIN txs
    BY <1>1 DEF Evolved, NewRow
  <2>2. /\ Validates(t) /\ txs[t].type \notin Subscription
        /\ txs'[t].intent = txs[t].intent
        /\ txs[t].status # "SUCCESS" => Shared(t) \/ intents[txs[t].intent].refunded
    BY <1>1, <2>1 DEF Evolved, OldRow, Validates, Subscription
  <2>3. ~Shared(t)
    BY <1>1, <2>1, <2>2, SharedKept
  <2>4. intents[txs[t].intent].refunded
    BY <2>1, <2>2, <2>3 DEF ValidationRefunded, Shared, Borrows, Validates
  <2>5. txs[t].intent \in DOMAIN intents
    BY <2>1, <2>2 DEF StartInv, OutcomeInv, RowsInv, TxRows, RecordsInv, RowsFit, RowFits
  <2>6. QED
    BY <2>2, <2>4, <2>5 DEF Evolved
<1>2. QED
  BY <1>1 DEF ValidationRefunded, Shared, Borrows, Validates

\* No row that was made for the payment that is reported is pending.
Answered(e) ==
    e.type = "payment_intent.succeeded" =>
        \A t \in DOMAIN txs :
            txs[t].intent = e.about /\ ~Borrows(t) => txs[t].status # "PENDING"

\* Payments that were settled stay settled: a new row of its own is for an intent
\* that the client does not know yet, and a row that has an outcome keeps one.
LEMMA SettledKept ==
  ASSUME StartInv, SettledWhenAcknowledged, Evolved,
         \A e \in events'.acked : e \in events.acked \/ Answered(e)'
  PROVE  SettledWhenAcknowledged'
<1>1. ASSUME NEW e \in events.acked, e.type = "payment_intent.succeeded",
             NEW t \in DOMAIN txs', txs'[t].intent = e.about, ~Borrows(t)'
      PROVE  txs'[t].status # "PENDING"
  <2>1. e.about \in DOMAIN intents /\ e.about # None /\ Exposed(e.about)
    <3>1. Reported(e) /\ ReportShown(e)
      BY DEF StartInv, OutcomeInv, EventsReported, CallsInv, EventsShown
    <3>2. QED
      BY <1>1, <3>1, NoneAssumption DEF Reported, ReportShown
  <2>2. t \in DOMAIN txs
    BY <1>1, <2>1 DEF Evolved, NewRow, Borrows
  <2>3. txs[t].intent = e.about /\ ~Borrows(t)
    BY <1>1, <2>1, <2>2 DEF Evolved, Kept, OldRow, Borrows
  <2>4. QED
    BY <1>1, <2>2, <2>3 DEF SettledWhenAcknowledged, Evolved, OldRow, Borrows
<1>2. ASSUME NEW e \in events'.acked, e.type = "payment_intent.succeeded",
             NEW t \in DOMAIN txs', txs'[t].intent = e.about, ~Borrows(t)'
      PROVE  txs'[t].status # "PENDING"
  BY <1>1, <1>2 DEF Answered
<1>3. QED
  BY <1>2 DEF SettledWhenAcknowledged, Borrows

\* A row that is found by the replacement of its intent is settled by its id;
\* no row was made for the replacement.
LEMMA ReplacedAnswered ==
  ASSUME StartInv, RecordsInv', Kept, NEW h \in Handlers, handlers[h].replaces,
         NEW e, e = handlers[h].event
  PROVE  Answered(e)'
<1>1. PICK i : i = About(h)
  OBVIOUS
<1>2. HandlersFit /\ Fits(handlers[h]) /\ Knows(handlers[h])
  BY CallKnown
<1>3. handlers[h].task = "intentSucceeded"
  BY <1>2, WebhookKnows
<1>4. i \in DOMAIN intents /\ i # None
  BY <1>1, <1>2, <1>3, WebhookKnows, NoneAssumption
<1>5. intents'[i].origin # i
  BY <1>1, <1>2, <1>4 DEF Knows, ClearKnown, Kept, About
<1>6. ASSUME NEW t \in DOMAIN txs', txs'[t].intent = i, ~Borrows(t)' PROVE FALSE
  BY <1>4, <1>5, <1>6 DEF RecordsInv, RowsFit, RowFits
<1>7. QED
  BY <1>1, <1>6 DEF Answered, About

\* The rows of a payment are its payer's, and all of them get the outcome.
LEMMA RowsAnswered ==
  ASSUME StartInv, NEW h \in Handlers, SettleRows(h),
         NEW e, e = handlers[h].event
  PROVE  Answered(e)'
<1>1. PICK i : i = About(h)
  OBVIOUS
<1>2. HandlersFit /\ RowsInv /\ RecordsInv /\ Fits(handlers[h]) /\ Knows(handlers[h])
  BY CallKnown
<1>3. At(h, "settleRows")
  BY ZenonT(30) DEF SettleRows
<1>4. handlers[h].outcome # "PENDING"
  BY <1>2 DEF Knows, WhoKnown
<1>5. /\ DOMAIN txs' = DOMAIN txs
      /\ \A t \in DOMAIN txs :
            /\ RowStays(t)
            /\ t \in RowsToSettle(h) => txs'[t].status = handlers[h].outcome
  BY <1>2, RowsSettled DEF RowsInv
<1>6. CASE handlers[h].task = "intentSucceeded"
  <2>1. handlers[h].user \in Users
    BY <1>2, <1>3, <1>6 DEF Knows, WhoKnown, At, WebhookTask, Searching
  <2>2. Owns(handlers[h].user, intents[i].customer)
    BY <1>1, <1>2, <1>6, <2>1 DEF Fits, CallFits, About
  <2>3. i # None
    BY <1>1, <1>2, <1>6, WebhookKnows, NoneAssumption
  <2>4. ASSUME NEW t \in DOMAIN txs', txs'[t].intent = i, ~Borrows(t)'
        PROVE  txs'[t].status # "PENDING"
    <3>1. t \in DOMAIN txs /\ txs[t].intent = i
      BY <1>5, <2>4 DEF RowStays
    <3>2. Owns(txs[t].user, intents[i].customer)
      BY <1>2, <2>3, <3>1 DEF RecordsInv, RowsFit, RowFits
    <3>3. t \in RowsToSettle(h)
      BY <1>1, <1>6, <2>2, <3>1, <3>2 DEF RowsToSettle, TxsOf, Owns
    <3>4. QED
      BY <1>4, <1>5, <3>1, <3>3
  <2>5. QED
    BY <1>1, <2>4 DEF Answered, About
<1>7. CASE handlers[h].task # "intentSucceeded"
  <2>1. handlers[h].task = "subscriptionCreated"
    BY <1>2, <1>3, <1>7 DEF Fits, PlaceFits, At
  <2>2. e.type # "payment_intent.succeeded"
    BY <1>2, <2>1 DEF Fits, EventFits
  <2>3. QED
    BY <2>2 DEF Answered
<1>8. QED
  BY <1>6, <1>7

\* What is answered by a step of a call.
LEMMA StepAnswers ==
  ASSUME StartInv, Evolved, RecordsInv', NEW h \in Handlers, Step(h)
  PROVE  \A e \in events'.acked : e \in events.acked \/ Answered(e)'
<1>1. events = [pending |-> events.pending, acked |-> events.acked]
  BY DEF StartInv, OutcomeInv, EventsReported
<1>2. CASE events'.acked \subseteq events.acked
  BY <1>2
<1>3. PICK f : f = handlers[h].event
  OBVIOUS
<1>4. CASE Acknowledge(h) /\ Answered(f)'
  <2>1. \A e \in events'.acked : e \in events.acked \/ e = f
    BY <1>1, <1>3, <1>4 DEF Acknowledge
  <2>2. QED
    BY <1>4, <2>1
<1>5. UNCHANGED events \/ Reject(h) \/ Restart \/ CreateSub(h) => events'.acked = events.acked
  BY <1>1 DEF Reject, Restart, CreateSub
<1>6. SettleById(h) => handlers[h].replaces
  BY DEF SettleById, UpdatesByIdOnly
<1>7. handlers[h].task = "intentFailed" => Answered(f)'
  BY <1>3, CallKnown DEF Fits, EventFits, Answered
<1>8. SettleById(h) \/ SettleRows(h) => Answered(f)'
  BY <1>3, <1>6, ReplacedAnswered, RowsAnswered DEF Evolved
<1>9. QED
  BY <1>2, <1>4, <1>5, <1>7, <1>8, StepEvents

----------------------------------------------------------------------------
(* The steps put together.                                                   *)

\* Every step of a call in flight.
LEMMA StepKeeps ==
  ASSUME SettlementInv, OutcomeInv', NEW h \in Handlers, Step(h)
  PROVE  SettlementInv'
<1>1. StartInv
  BY DEF SettlementInv, StartInv
<1>2. Evolved /\ RecordsInv'
  BY <1>1, StepRecords
<1>3. CallsKnow' /\ SaversFit'
  <2>1. CASE Restart
    BY <2>1, RestartKnows
  <2>2. CASE ~Restart
    <3>1. Knowing(h)
      BY <1>1, <1>2, <2>2, SharedStepKnows, RequestStepKnows, WebhookStepKnows, CronStepKnows
         DEF Step
    <3>2. LeavesUnsaved(h)
      BY <1>1, <1>2, StepUnsaved DEF LeavesUnsaved
    <3>3. QED
      BY <1>1, <1>2, <3>1, <3>2, CallsKnowMove, SaversMove
  <2>3. QED
    BY <2>1, <2>2
<1>4. EventsShown' /\ OriginsExist'
  BY <1>1, <1>2, StepReports, StepOrigins DEF Evolved
<1>5. SettledWhenAcknowledged' /\ ValidationRefunded'
  BY <1>1, <1>2, StepAnswers, SettledKept, RefundsKept DEF SettlementInv
<1>6. QED
  BY <1>2, <1>3, <1>4, <1>5 DEF SettlementInv, CallsInv

\* Every other step answers nothing and adds no intent.
LEMMA OtherKeeps ==
  ASSUME SettlementInv, OutcomeInv', Evolved, RecordsInv', EventsShown',
         CallsKnow', SaversFit', DOMAIN intents' = DOMAIN intents,
         events'.acked = events.acked
  PROVE  SettlementInv'
<1>1. StartInv
  BY DEF SettlementInv, StartInv
<1>2. OriginsExist'
  BY <1>1, OriginsStay DEF StartInv, CallsInv, Evolved
<1>3. SettledWhenAcknowledged' /\ ValidationRefunded'
  BY <1>1, SettledKept, RefundsKept DEF SettlementInv
<1>4. QED
  BY <1>2, <1>3 DEF SettlementInv, CallsInv

\* A call begins, or fails.
LEMMA BeginKeeps ==
  ASSUME SettlementInv, OutcomeInv', NEW h \in Handlers,
         \/ Request(h) \/ CallFails(h)
         \/ \E e \in events.pending : Deliver(h, e)
         \/ \E u \in Users : CronBegin(h, u)
  PROVE  SettlementInv'
<1>1. StartInv /\ events = [pending |-> events.pending, acked |-> events.acked]
  BY DEF SettlementInv, StartInv, OutcomeInv, EventsReported
<1>2. UNCHANGED <<txs, intents, subs, customers>>
  BY ZenonT(30)
     DEF Request, Call, SubscribeRequest, SwitchRequest, SetTrialRequest, SecretRequest,
     ValidationRequest, CancelNextRequest, UnsubscribeRequest, RenovateRequest,
     InitializeRequest, Deliver, CronBegin, CallFails, stripe
<1>3. Evolved /\ RecordsInv'
  BY <1>1, <1>2, OtherRecords
<1>4. Knowing(h)
  BY <1>1, <1>3, RequestKnows, CronBeginKnows, DeliverKnows, CallFailsKnows
<1>5. LeavesUnsaved(h)
  BY <1>2, UnwrittenUnsaved
<1>6. \/ UNCHANGED events
      \/ \E e \in events.pending : events' = [events EXCEPT !.pending = @ \ {e}]
  BY ZenonT(30)
     DEF Request, Call, SubscribeRequest, SwitchRequest, SetTrialRequest, SecretRequest,
     ValidationRequest, CancelNextRequest, UnsubscribeRequest, RenovateRequest,
     InitializeRequest, Deliver, CronBegin, CallFails
<1>7. EventsShown' /\ events'.acked = events.acked
  BY <1>1, <1>3, <1>6, NothingReported
<1>8. QED
  BY <1>1, <1>2, <1>3, <1>4, <1>5, <1>7, CallsKnowMove, SaversMove, OtherKeeps

\* Users pay, decline and cancel at Stripe.
LEMMA PayKeeps ==
  ASSUME SettlementInv, OutcomeInv', NEW i \in DOMAIN intents,
         (\E card \in Cards : Pay(i, card)) \/ Decline(i) \/ CancelIntent(i)
  PROVE  SettlementInv'
<1>1. /\ StartInv /\ events = [pending |-> events.pending, acked |-> events.acked]
      /\ StripeRows
  BY DEF SettlementInv, StartInv, OutcomeInv, EventsReported, RowsInv
<1>2. Evolved /\ RecordsInv'
  <2>1. CASE Decline(i)
    <3>1. UNCHANGED <<txs, intents, subs, customers>>
      BY <2>1 DEF Decline, stripe
    <3>2. QED
      BY <1>1, <3>1, OtherRecords
  <2>2. CASE (\E card \in Cards : Pay(i, card)) \/ CancelIntent(i)
    BY <1>1, <2>2, PayRecords
  <2>3. QED
    BY <2>1, <2>2
<1>3. UNCHANGED handlers /\ UNCHANGED txs
  BY ZenonT(30) DEF Pay, Decline, CancelIntent
<1>4. /\ DOMAIN intents' = DOMAIN intents
      /\ \A k \in DOMAIN intents : intents'[k].shown = intents[k].shown
  <2>1. PICK r : r = intents[i]
    OBVIOUS
  <2>2. IsIntent(r)
    BY <1>1, <2>1 DEF StripeRows
  <2>3. \A card : [r EXCEPT !.state = "paid", !.card = card].shown = r.shown
    BY <2>2 DEF IsIntent
  <2>4. [r EXCEPT !.state = "canceled"].shown = r.shown
    BY <2>2 DEF IsIntent
  <2>5. CASE \E card \in Cards : Pay(i, card)
    <3>1. PICK q : q.shown = r.shown /\ intents' = [intents EXCEPT ![i] = q]
      BY <2>1, <2>3, <2>5, ZenonT(30) DEF Pay
    <3>2. QED
      BY <2>1, <3>1
  <2>6. CASE CancelIntent(i)
    <3>1. PICK q : q.shown = r.shown /\ intents' = [intents EXCEPT ![i] = q]
      BY <2>1, <2>4, <2>6 DEF CancelIntent
    <3>2. QED
      BY <2>1, <3>1
  <2>7. CASE Decline(i)
    BY <2>7 DEF Decline, stripe
  <2>8. QED
    BY <2>5, <2>6, <2>7
<1>5. EventsShown' /\ events'.acked = events.acked
  BY <1>1, <1>2, PayReports, ZenonT(30) DEF Pay, Decline, CancelIntent, Report
<1>6. QED
  BY <1>1, <1>2, <1>3, <1>4, <1>5, StillKnows, OtherKeeps

\* A report that is repeated, the end of the process, and time.
LEMMA FaultKeeps ==
  ASSUME SettlementInv, OutcomeInv',
         \/ \E e \in events.acked \cup InFlight : DeliverAgain(e)
         \/ Crash \/ Tick \/ UNCHANGED vars
  PROVE  SettlementInv'
<1>1. StartInv /\ events = [pending |-> events.pending, acked |-> events.acked]
  BY DEF SettlementInv, StartInv, OutcomeInv, EventsReported
<1>2. UNCHANGED <<txs, intents, subs, customers>>
  BY DEF DeliverAgain, Crash, Tick, vars, stripe
<1>3. Evolved /\ RecordsInv'
  BY <1>1, <1>2, OtherRecords
<1>4. EventsShown' /\ events'.acked = events.acked
  <2>1. CASE \E e \in events.acked \cup InFlight : DeliverAgain(e)
    BY <1>1, <1>3, <2>1, RepeatedReports DEF DeliverAgain, Report
  <2>2. CASE Crash \/ Tick \/ UNCHANGED vars
    <3>1. Restart \/ UNCHANGED events
      BY <2>2 DEF Crash, Tick, vars
    <3>2. events'.acked = events.acked
      BY <1>1, <3>1 DEF Restart
    <3>3. QED
      BY <1>1, <1>3, <3>1, <3>2, NothingReported
  <2>3. QED
    BY <2>1, <2>2
<1>5. CallsKnow' /\ SaversFit'
  <2>1. Restart \/ UNCHANGED handlers
    BY DEF DeliverAgain, Crash, Tick, vars
  <2>2. QED
    BY <1>1, <1>2, <1>3, <2>1, RestartKnows, StillKnows
<1>6. QED
  BY <1>2, <1>3, <1>4, <1>5, OtherKeeps

\* Every step.
LEMMA SettlementStep ==
  ASSUME SettlementInv, [Next]_vars PROVE SettlementInv'
<1>1. OutcomeInv'
  BY OutcomeStep DEF SettlementInv
<1>2. ASSUME NEW h \in Handlers,
             \/ Request(h) \/ Step(h) \/ CallFails(h)
             \/ \E e \in events.pending : Deliver(h, e)
             \/ \E u \in Users : CronBegin(h, u)
      PROVE  SettlementInv'
  BY <1>1, <1>2, BeginKeeps, StepKeeps
<1>3. ASSUME NEW i \in DOMAIN intents,
             (\E card \in Cards : Pay(i, card)) \/ Decline(i) \/ CancelIntent(i)
      PROVE  SettlementInv'
  BY <1>1, <1>3, PayKeeps
<1>4. CASE \/ \E e \in events.acked \cup InFlight : DeliverAgain(e)
           \/ Crash \/ Tick \/ UNCHANGED vars
  BY <1>1, <1>4, FaultKeeps
<1>5. QED
  BY <1>2, <1>3, <1>4 DEF Next

----------------------------------------------------------------------------
(* The start.                                                                *)

\* The rows that the users start with fit, and the validations are refunded.
LEMMA InitialRecords ==
  ASSUME Init PROVE RecordsInv /\ OriginsExist /\ ValidationRefunded
<1>1. PICK n, user, subscribed : StartsAs(n, user, subscribed)
  BY InitialTables
<1>2. CASE ~subscribed
  BY <1>1, <1>2
     DEF StartsAs, RecordsInv, RowsFit, OneRowPerIntent, OriginsExist, ValidationRefunded
<1>3. CASE subscribed
  <2>1. /\ customers = user /\ DOMAIN user = 1..n /\ DOMAIN intents = 1..n
        /\ DOMAIN subs = 1..n /\ n \in Nat
        /\ \A k \in 1..n : StartIntent(intents[k], k) /\ subs[k].customer = k
    BY <1>1, <1>3 DEF StartsAs
  <2>2. \A k \in 1..n : k # None
    BY <2>1, NoneAssumption
  <2>3. ASSUME NEW t \in DOMAIN txs
        PROVE  /\ RowFits(t)
               /\ txs[t].intent # None => txs[t].intent = t /\ t \in 1..n
               /\ Validates(t) => txs[t].intent # None
    <3>1. CASE t \in 1..n /\ txs[t] = Validated(user[t], t)
      <4>1. /\ txs[t].user = user[t] /\ txs[t].type = "CARD_VALIDATION"
            /\ txs[t].intent = t /\ txs[t].newIntent = None /\ txs[t].sub = None
        BY <3>1 DEF Validated
      <4>2. Owns(user[t], intents[t].customer) /\ intents[t].origin = t
        BY <2>1, <3>1 DEF Owns, StartIntent
      <4>3. QED
        BY <2>2, <3>1, <4>1, <4>2 DEF RowFits
    <3>2. CASE \E tariff : \E k \in 1..n : txs[t] = Subscribed(user[k], k, tariff)
      <4>1. PICK tariff : \E k \in 1..n : txs[t] = Subscribed(user[k], k, tariff)
        BY <3>2
      <4>2. PICK k \in 1..n : txs[t] = Subscribed(user[k], k, tariff)
        BY <4>1
      <4>3. /\ txs[t].user = user[k] /\ txs[t].type = "SUBSCRIPTION"
            /\ txs[t].intent = None /\ txs[t].newIntent = None /\ txs[t].sub = k
        BY <4>2 DEF Subscribed
      <4>4. Owns(user[k], subs[k].customer)
        BY <2>1, <4>2 DEF Owns
      <4>5. QED
        BY <2>1, <4>2, <4>3, <4>4 DEF RowFits, Validates, Subscription
    <3>3. QED
      BY <1>1, <1>3, <3>1, <3>2 DEF StartsAs
  <2>4. OriginsExist
    BY <2>1 DEF OriginsExist, StartIntent
  <2>5. ValidationRefunded
    BY <2>1, <2>3 DEF ValidationRefunded, Validates, StartIntent
  <2>6. QED
    BY <2>3, <2>4, <2>5 DEF RecordsInv, RowsFit, OneRowPerIntent
<1>4. QED
  BY <1>2, <1>3

\* The invariant holds at the start.
LEMMA InitialSettlement == Init => SettlementInv
<1> SUFFICES ASSUME Init PROVE SettlementInv
  OBVIOUS
<1>1. OutcomeInv
  BY InitialOutcome
<1>2. ASSUME NEW h \in Handlers PROVE Knows(handlers[h]) /\ ~Saves(handlers[h])
  <2>1. handlers[h] = IdleHandler
    BY DEF Init
  <2>2. PICK r : r = handlers[h]
    OBVIOUS
  <2>3. /\ r.at = "idle" /\ r.task = "none" /\ r.event = None /\ r.outcome = "SUCCESS"
        /\ r.replaces = FALSE
    BY <2>1, <2>2 DEF IdleHandler
  <2>4. Knows(r) /\ ~Saves(r)
    BY <2>3
       DEF Knows, Saves, WhereKnown, WhoKnown, OwnerKnown, ClearKnown, LinkKnown,
           RequestTask, WebhookTask
  <2>5. QED
    BY <2>2, <2>4
<1>3. events.pending = {} /\ events.acked = {}
  BY DEF Init
<1>4. EventsShown /\ SettledWhenAcknowledged
  BY <1>3 DEF EventsShown, SettledWhenAcknowledged
<1>5. CallsKnow /\ SaversFit
  BY <1>2 DEF CallsKnow, SaversFit
<1>6. QED
  BY <1>1, <1>4, <1>5, InitialRecords DEF SettlementInv, CallsInv

\* The invariant holds always.
LEMMA SettlementAlways == Spec => []SettlementInv
<1>1. SettlementInv /\ [Next]_vars => SettlementInv'
  BY SettlementStep
<1>2. QED
  BY InitialSettlement, <1>1, PTL DEF Spec

(* Once the report of a payment is done with, no row that was made for the    *)
(* payment is pending.  It takes that rows and payments are of one user, that *)
(* a row is saved before its client learns of the intent, and that no row is  *)
(* made for an intent that replaces a failed one.                             *)
THEOREM PaymentsSettled == Spec => []SettledWhenAcknowledged
<1>1. SettlementInv => SettledWhenAcknowledged
  BY DEF SettlementInv
<1>2. QED
  BY SettlementAlways, <1>1, PTL

(* A validation reads SUCCESS only when its charge was given back, unless a   *)
(* subscribe without card shares its intent: of every way to write SUCCESS,   *)
(* by the id of a row or by its payload, the call has passed the refund, or   *)
(* has found a row that shows that the intent is shared.                      *)
THEOREM ChargesGivenBack == Spec => []ValidationRefunded
<1>1. SettlementInv => ValidationRefunded
  BY DEF SettlementInv
<1>2. QED
  BY SettlementAlways, <1>1, PTL

----------------------------------------------------------------------------
(* The report of a subscription.                                             *)

\* A webhook of a subscription keeps its report until it rejects it or has
\* settled the rows.
LEMMA ReportHeld ==
  ASSUME StartInv, NEW h \in Handlers, Step(h), handlers[h].task = "subscriptionCreated"
  PROVE  handlers'[h].event = handlers[h].event \/ Reject(h) \/ SettleRows(h)
<1>1. /\ HandlersFit /\ RowsInv
      /\ IsHandler(handlers[h]) /\ Fits(handlers[h]) /\ WhereKnown(handlers[h])
  BY CallKnown DEF Knows
<1>2. handlers[h].at \in Linking \cup {"findSubscriber", "findPendingTx", "settle", "settleRows"}
  BY <1>1 DEF WhereKnown
<1>3. ~SettleById(h)
  BY <1>1, WebhookKnows DEF SettleById, UpdatesByIdOnly
<1>4. ASSUME NEW place, Goto(h, place) PROVE handlers'[h].event = handlers[h].event
  BY <1>1, <1>4, CallGoes DEF GoesOn, SameCall
<1>5. CASE SharedStep(h)
  <2>1. Deactivate(h) \/ Activate(h) \/ ActivateFails(h)
    BY <1>2, <1>5
       DEF SharedStep, ListSubs, DeleteSubs, CreateSub, SetStatus, DropNext, At, Linking
  <2>2. QED
    BY <1>4, <2>1 DEF Deactivate, Activate, ActivateFails
<1>6. ~RequestStep(h) /\ ~CronStep(h)
  <2>1. ~RequestStep(h)
    BY <1>2, ZenonT(30) DEF Linking, At, RequestStep, FindPlans, FindTrialCard, FindCurrent,
       FindLast, DeletePlan, FindCard, FindPlan, CreatePlan, AttachCard, Supersede, SaveTx,
       SavePrePayment, FindValidation, FindCustomer, CreateCustomer, StoreCustomer,
       ReuseIntent, NoIntentFound, CreateIntent, FindIntentPlan, SaveIntentTx,
       FindNextPlan, CountPlans, CreateFirstPlan
  <2>2. ~CronStep(h)
    BY <1>2, ZenonT(30) DEF Linking, At, CronStep, CronUser, CronPlan, CronStatus, Chosen,
       CronLast, CronCreate, CronTariff
  <2>3. QED
    BY <2>1, <2>2
<1>7. CASE WebhookStep(h)
  <2>1. \/ SetActive(h) \/ StoreTariff(h) \/ CancelOthers(h) \/ SettleRows(h)
        \/ FindSubscriber(h) \/ FindPendingTx(h) \/ ReadPlan(h) \/ StoreNext(h)
        \/ LinkTx(h)
    BY <1>2, <1>3, <1>7, ZenonT(30)
       DEF WebhookStep, FindTx, FindPayer, SaveCard, Refund, CreatePaidPlan, FindFailedTx,
           FindRowToFail, FailValidation, FindDebtor, ReplaceIntent, FailTx, At, Linking
  <2>2. CASE SetActive(h) \/ StoreTariff(h) \/ CancelOthers(h) \/ StoreNext(h) \/ LinkTx(h)
    BY <1>4, <2>2 DEF SetActive, StoreTariff, CancelOthers, StoreNext, LinkTx
  <2>3. CASE ReadPlan(h)
    BY <1>4, <2>3 DEF ReadPlan
  <2>4. CASE FindSubscriber(h)
    <3>1. CASE \E u \in Users : Continue(h, [handlers[h] EXCEPT
                                     !.at = "findPendingTx", !.user = u, !.me = users[u]])
      BY <1>1, <3>1 DEF Continue, HandlersFit, IsHandler
    <3>2. QED
      BY <2>4, <3>1, ZenonT(30) DEF FindSubscriber, FindUser, UsersByCustomer
  <2>5. CASE FindPendingTx(h)
    <3>1. CASE \E t : Continue(h, [handlers[h] EXCEPT
                            !.at = "readPlan", !.tx = t, !.plan = txs[t].plan])
      BY <1>1, <3>1 DEF Continue, HandlersFit, IsHandler
    <3>2. QED
      BY <2>5, <3>1, ZenonT(30) DEF FindPendingTx
  <2>6. QED
    BY <2>1, <2>2, <2>3, <2>4, <2>5
<1>8. QED
  BY <1>5, <1>6, <1>7 DEF Step

\* Stripe's subscription, and the rows that name it, are one user's.
LEMMA LinkedRowsSettle ==
  ASSUME StartInv, NEW h \in Handlers, SettleRows(h),
         handlers[h].task = "subscriptionCreated",
         NEW s \in DOMAIN subs, handlers[h].event = Created(s),
         NEW t \in DOMAIN txs', txs'[t].sub = s
  PROVE  txs'[t].status = "SUCCESS"
<1>1. /\ HandlersFit /\ RowsInv /\ RecordsInv /\ Fits(handlers[h]) /\ Knows(handlers[h])
  BY CallKnown
<1>2. About(h) = s /\ s # None
  BY <1>1, NoneAssumption DEF About, Created, RowsInv, StripeRows, IsTable
<1>3. handlers[h].user \in Users /\ handlers[h].outcome = "SUCCESS"
  BY <1>1, WebhookKnows, ZenonT(30)
     DEF SettleRows, At, Knows, WhoKnown, WebhookTask, Searching
<1>4. Owns(handlers[h].user, subs[s].customer)
  BY <1>1, <1>2, <1>3 DEF Fits, CallFits, About
<1>5. /\ t \in DOMAIN txs /\ txs[t].sub = s
      /\ t \in RowsToSettle(h) => txs'[t].status = "SUCCESS"
  BY <1>1, <1>3, RowsSettled DEF RowsInv, RowStays
<1>6. Owns(txs[t].user, subs[s].customer)
  BY <1>1, <1>2, <1>5 DEF RecordsInv, RowsFit, RowFits
<1>7. QED
  BY <1>2, <1>4, <1>5, <1>6 DEF RowsToSettle, TxsOf, Owns

\* What an idle call is: without a report.
LEMMA IdleHoldsNone ==
  ASSUME StartInv, NEW h \in Handlers, At(h, "idle") PROVE handlers[h].event = None
<1>1. WhoKnown(handlers[h]) /\ WhereKnown(handlers[h])
  BY CallKnown DEF Knows
<1>2. handlers[h].at = "idle"
  BY DEF At
<1>3. handlers[h].task \notin WebhookTask
  BY <1>1, <1>2 DEF WhereKnown, WebhookTask, Charged, Cashed, Failing, Linking
<1>4. QED
  BY <1>1, <1>3 DEF WhoKnown

\* A report that somebody handles is on its way.
LEMMA HeldReport ==
  ASSUME NEW h \in Handlers, NEW e, e # None, handlers'[h].event = e PROVE OnItsWay(e)'
  BY DEF OnItsWay, InFlight

\* The promise about the report of one subscription.
ReportKept(s) ==
    (OnItsWay(Created(s)) /\ ~OnItsWay(Created(s))') =>
        \/ \A t \in DOMAIN txs' : txs'[t].sub = s => txs'[t].status = "SUCCESS"
        \/ /\ Created(s) \in events.acked
           /\ \A h \in Handlers : At(h, "idle")'

\* A step of one call that takes nothing away from what Stripe will deliver.
LEMMA MovedReport ==
  ASSUME StartInv, NEW h \in Handlers, Moves(h), events.pending \subseteq events'.pending,
         NEW s \in DOMAIN subs,
         handlers[h].event = Created(s) /\ Created(s) # None =>
            \/ handlers'[h].event = Created(s)
            \/ Created(s) \in events'.pending
            \/ \A t \in DOMAIN txs' : txs'[t].sub = s => txs'[t].status = "SUCCESS"
  PROVE  ReportKept(s)
<1>1. PICK e : e = Created(s)
  OBVIOUS
<1>2. HandlersFit
  BY CallKnown
<1>3. ASSUME NEW g \in Handlers, handlers[g].event = e, g # h, e # None
      PROVE  OnItsWay(e)'
  <2>1. handlers'[g] = handlers[g]
    BY <1>2, <1>3 DEF Moves, HandlersFit
  <2>2. QED
    BY <1>3, <2>1, HeldReport
<1>4. CASE e \in events.pending
  BY <1>1, <1>4 DEF OnItsWay, ReportKept
<1>5. CASE e \in InFlight
  <2>1. PICK g \in Handlers : handlers[g].event = e /\ e # None
    BY <1>5 DEF InFlight
  <2>2. CASE g = h
    BY <1>1, <2>1, <2>2, HeldReport DEF OnItsWay, ReportKept
  <2>3. CASE g # h
    BY <1>1, <1>3, <2>1, <2>3 DEF ReportKept
  <2>4. QED
    BY <2>2, <2>3
<1>6. QED
  BY <1>1, <1>4, <1>5 DEF OnItsWay, ReportKept

\* The end of the process.
LEMMA RestartedReport ==
  ASSUME StartInv, Restart, NEW s \in DOMAIN subs PROVE ReportKept(s)
<1>1. PICK e : e = Created(s)
  OBVIOUS
<1>2. events = [pending |-> events.pending, acked |-> events.acked]
  BY DEF StartInv, OutcomeInv, EventsReported
<1>3. CASE e \in events.pending \/ e \notin events.acked
  <2>1. OnItsWay(e) => e \in events'.pending
    BY <1>2, <1>3 DEF OnItsWay, Restart
  <2>2. QED
    BY <1>1, <2>1 DEF OnItsWay, ReportKept
<1>4. CASE e \in events.acked
  <2>1. \A h \in Handlers : At(h, "idle")'
    BY DEF Restart, At, IdleHandler
  <2>2. QED
    BY <1>1, <1>4, <2>1 DEF ReportKept
<1>5. QED
  BY <1>3, <1>4

\* A step of a call.
LEMMA StepReport ==
  ASSUME StartInv, NEW h \in Handlers, Step(h), Moves(h), ~Restart, NEW s \in DOMAIN subs
  PROVE  ReportKept(s)
<1>1. events = [pending |-> events.pending, acked |-> events.acked] /\ HandlersFit
  BY DEF StartInv, OutcomeInv, EventsReported
<1>2. events.pending \subseteq events'.pending
  BY <1>1, StepEvents DEF Reject, Acknowledge
<1>3. ASSUME handlers[h].event = Created(s), Created(s) # None
      PROVE  \/ handlers'[h].event = Created(s)
             \/ Created(s) \in events'.pending
             \/ \A t \in DOMAIN txs' : txs'[t].sub = s => txs'[t].status = "SUCCESS"
  <2>1. handlers[h].task = "subscriptionCreated"
    BY <1>3, CallKnown DEF Knows, WhoKnown, WebhookTask, Fits, EventFits, Created
  <2>2. CASE Reject(h)
    BY <1>1, <1>3, <2>2 DEF Reject
  <2>3. CASE SettleRows(h)
    BY <1>3, <2>1, <2>3, LinkedRowsSettle
  <2>4. QED
    BY <1>3, <2>1, <2>2, <2>3, ReportHeld
<1>4. QED
  BY <1>2, <1>3, MovedReport

\* A call begins: an idle call had no report, and a delivered one is in its hands.
LEMMA BeginReport ==
  ASSUME StartInv, NEW h \in Handlers, Moves(h),
         \/ Request(h)
         \/ \E e \in events.pending : Deliver(h, e)
         \/ \E u \in Users : CronBegin(h, u),
         NEW s \in DOMAIN subs
  PROVE  ReportKept(s)
<1>1. /\ events = [pending |-> events.pending, acked |-> events.acked]
      /\ HandlersFit /\ EventsReported /\ EventsShown
  BY DEF StartInv, OutcomeInv, EventsReported, CallsInv
<1>2. handlers[h].event = None
  <2>1. At(h, "idle")
    BY ZenonT(30)
       DEF Request, Call, SubscribeRequest, SwitchRequest, SetTrialRequest, SecretRequest,
       ValidationRequest, CancelNextRequest, UnsubscribeRequest, RenovateRequest,
       InitializeRequest, Deliver, CronBegin
  <2>2. QED
    BY <2>1, IdleHoldsNone
<1>3. CASE Request(h) \/ \E u \in Users : CronBegin(h, u)
  <2>1. UNCHANGED events
    BY <1>3, ZenonT(30) DEF Request, Call, SubscribeRequest, SwitchRequest, SetTrialRequest,
       SecretRequest, ValidationRequest, CancelNextRequest, UnsubscribeRequest,
       RenovateRequest, InitializeRequest, CronBegin
  <2>2. QED
    BY <1>2, <2>1, MovedReport
<1>4. ASSUME NEW e \in events.pending, Deliver(h, e) PROVE ReportKept(s)
  <2>1. PICK f : f = Created(s)
    OBVIOUS
  <2>2. events'.pending = events.pending \ {e} /\ events'.acked = events.acked
    BY <1>1, <1>4 DEF Deliver
  <2>3. handlers'[h].event = e
    <3>1. Reported(e)
      BY <1>1 DEF EventsReported
    <3>2. handlers'[h] = Handling(e)
      BY <1>1, <1>4 DEF Deliver, Continue, HandlersFit
    <3>3. QED
      BY <3>1, <3>2 DEF Handling, IdleHandler, Reported, EventType
  <2>4. CASE f \in events.pending /\ f # e
    BY <2>1, <2>2, <2>4 DEF OnItsWay, ReportKept
  <2>5. CASE f = e /\ e # None
    BY <2>1, <2>3, <2>5, HeldReport DEF ReportKept
  <2>6. CASE f \in InFlight
    <3>1. PICK g \in Handlers : handlers[g].event = f /\ f # None
      BY <2>6 DEF InFlight
    <3>2. handlers'[g] = handlers[g]
      BY <1>1, <1>2, <3>1 DEF Moves, HandlersFit
    <3>3. QED
      BY <2>1, <3>1, <3>2, HeldReport DEF ReportKept
  <2>7. e # None
    <3>1. Reported(e) /\ ReportShown(e)
      BY <1>1 DEF EventsReported, EventsShown
    <3>2. e \in Event
      BY <3>1 DEF Reported, ReportShown, Event
    <3>3. QED
      BY <3>2, EventAssumption
  <2>8. QED
    BY <2>1, <2>4, <2>5, <2>6, <2>7 DEF OnItsWay, ReportKept
<1>5. QED
  BY <1>3, <1>4

\* No step ends the report of a subscription too early.
LEMMA ReportsKept ==
  ASSUME SettlementInv, [Next]_vars, NEW s \in DOMAIN subs PROVE ReportKept(s)
<1>1. StartInv /\ OutcomeInv'
  BY OutcomeStep DEF SettlementInv, StartInv
<1>2. events = [pending |-> events.pending, acked |-> events.acked]
  BY <1>1 DEF StartInv, OutcomeInv, EventsReported
<1>3. ASSUME NEW h \in Handlers, Step(h) PROVE ReportKept(s)
  <2>1. Evolved
    BY <1>1, <1>3, StepRecords
  <2>2. CASE Restart
    BY <1>1, <2>2, RestartedReport
  <2>3. CASE ~Restart
    <3>1. Knowing(h)
      BY <1>1, <1>3, <2>1, <2>3, SharedStepKnows, RequestStepKnows, WebhookStepKnows,
         CronStepKnows DEF Step
    <3>2. QED
      BY <1>1, <1>3, <2>3, <3>1, StepReport DEF Knowing
  <2>4. QED
    BY <2>2, <2>3
<1>4. ASSUME NEW h \in Handlers,
             \/ Request(h)
             \/ \E e \in events.pending : Deliver(h, e)
             \/ \E u \in Users : CronBegin(h, u)
      PROVE  ReportKept(s)
  <2>1. UNCHANGED <<txs, intents, subs, customers>>
    BY <1>4, ZenonT(30) DEF Request, Call, SubscribeRequest, SwitchRequest, SetTrialRequest,
       SecretRequest, ValidationRequest, CancelNextRequest, UnsubscribeRequest,
       RenovateRequest, InitializeRequest, Deliver, CronBegin, stripe
  <2>2. Evolved
    BY <1>1, <2>1, OtherRecords
  <2>3. Moves(h)
    BY <1>1, <1>4, <2>2, RequestKnows, CronBeginKnows, DeliverKnows DEF Knowing
  <2>4. QED
    BY <1>1, <1>4, <2>3, BeginReport
<1>5. CASE UNCHANGED handlers /\ events.pending \subseteq events'.pending
  BY <1>5 DEF ReportKept, OnItsWay, InFlight
<1>a. ASSUME NEW h \in Handlers, CallFails(h) PROVE ReportKept(s)
  <2>1. UNCHANGED <<txs, intents, subs, customers, events>>
    BY <1>a DEF CallFails, stripe
  <2>2. Moves(h)
    BY <1>1, <1>a, <2>1, OtherRecords, CallFailsKnows DEF Knowing
  <2>3. handlers[h].event # Created(s)
    BY <1>1, <1>a, CallKnown DEF CallFails, Fits, EventFits, Created
  <2>4. QED
    BY <1>1, <2>1, <2>2, <2>3, MovedReport
<1>6. ASSUME NEW i \in DOMAIN intents,
             (\E card \in Cards : Pay(i, card)) \/ Decline(i) \/ CancelIntent(i)
      PROVE  ReportKept(s)
  BY <1>2, <1>5, <1>6, ZenonT(60) DEF Pay, Decline, CancelIntent, Report
<1>7. CASE (\E e \in events.acked \cup InFlight : DeliverAgain(e)) \/ Tick \/ UNCHANGED vars
  BY <1>2, <1>5, <1>7 DEF DeliverAgain, Report, Tick, vars
<1>8. CASE Crash
  BY <1>1, <1>8, RestartedReport DEF Crash
<1>9. QED
  BY <1>3, <1>4, <1>6, <1>7, <1>8, <1>a DEF Next

(* The report of a subscription is done with only when every row that names   *)
(* the subscription reads SUCCESS.  The one exception is a report that is     *)
(* repeated after its answer and lost at the end of the process.              *)
THEOREM LinkedSettle == Spec => LinkedSubscriptionSucceeds
<1>1. SettlementInv /\ [Next]_vars =>
         [\A s \in DOMAIN subs :
             (OnItsWay(Created(s)) /\ ~OnItsWay(Created(s))') =>
                 \/ \A t \in DOMAIN txs' :
                       txs'[t].sub = s => txs'[t].status = "SUCCESS"
                 \/ /\ Created(s) \in events.acked
                    /\ \A h \in Handlers : At(h, "idle")']_vars
  BY ReportsKept DEF ReportKept
<1>2. QED
  BY SettlementAlways, <1>1, PTL DEF Spec, LinkedSubscriptionSucceeds

----------------------------------------------------------------------------
(* The types: what every call holds is a row that still exists, and a call   *)
(* that is to write something has what it writes.                            *)

PlansTyped ==
    /\ Len(plans) <= MaxPlans
    /\ \A p \in DOMAIN plans : plans[p] \in Plan

TxTyped(t) ==
    /\ txs[t].user \in Users /\ txs[t].type \in TxType
    /\ txs[t].status \in {"PENDING", "SUCCESS", "FAILED", "CANCELED"}
    /\ txs[t].tariff \in Maybe(Tariffs) /\ txs[t].plan \in Maybe(DOMAIN plans)
    /\ ~Validates(t) => txs[t].tariff # None

TxsTyped == Len(txs) <= MaxTxs /\ \A t \in DOMAIN txs : TxTyped(t)

StripeTyped ==
    /\ Len(intents) <= MaxIntents /\ Len(subs) <= MaxSubs
    /\ Len(customers) <= MaxCustomers
    /\ \A i \in DOMAIN intents :
          intents[i] \in Intent /\ (intents[i].state = "paid" => intents[i].card \in Cards)
    /\ \A s \in DOMAIN subs : subs[s] \in Sub
    /\ \A c \in DOMAIN customers : customers[c] \in Users

RecordsTyped ==
    /\ \A u \in Users : users[u] \in User
    /\ cards \in [Users -> Wallet]

Locals(r) ==
    /\ r.at \in Place /\ r.task \in Task
    /\ r.user \in Maybe(Users) /\ r.me \in Maybe(User)
    /\ r.tariff \in Maybe(Tariffs) /\ r.type \in Maybe(TxType) /\ r.card \in Maybe(Cards)
    /\ r.customer \in Maybe(1..MaxCustomers)
    /\ r.plan \in Maybe(DOMAIN plans) /\ r.other \in Maybe(DOMAIN plans)
    /\ r.tx \in Maybe(DOMAIN txs) /\ r.intent \in Maybe(DOMAIN intents)
    /\ r.listed \in SUBSET (1..MaxSubs) /\ r.replaces \in BOOLEAN /\ r.round \in 1..2

OnAPlan == {"setActive", "deactivate", "activate", "storeTariff", "storeNext",
            "cronRequire", "cronExpire", "cronSuspend", "cronTariff"}

Party(r) ==
    /\ r.task \in RequestTask => r.me \in User
    /\ r.task \in WebhookTask /\ r.at \notin Searching => r.me \in User
    /\ r.task = "cron" => r.user \in Users
    /\ r.task \in {"subscribe", "cron"} => r.tariff \in Tariffs
    /\ r.task = "getSecret" =>
          \/ r.type = "CARD_VALIDATION"
          \/ r.type = "SUBSCRIPTION" /\ r.tariff \in Tariffs

Asks(r) ==
    /\ r.at \in {"listSubs", "deleteSubs", "createSub"} =>
          r.task \in RequestTask \cup {"intentSucceeded"}
    /\ r.at = "createFirstPlan" => r.task = "initialize"
    /\ r.at \in OnAPlan => r.plan \in DOMAIN plans
    /\ r.at = "cronCreate" => r.other \in DOMAIN plans
    /\ r.at = "createPaidPlan" => r.tx \in DOMAIN txs /\ ~Validates(r.tx)

Needs(r) == Party(r) /\ Asks(r)

Typed(r) == Locals(r) /\ Needs(r)

CallsTyped == \A h \in Handlers : Typed(handlers[h])

TypesInv ==
    /\ PlansTyped /\ TxsTyped /\ StripeTyped /\ RecordsTyped /\ CallsTyped
    /\ now \in Nat /\ budget \in Budget

----------------------------------------------------------------------------
(* Plans.                                                                    *)

TypedState == StartInv /\ PlanRows /\ TypesInv

(* Plans stay, and begin and end when they did.                              *)
PlansGrown ==
    /\ PlansTyped'
    /\ \A p \in DOMAIN plans : p \in DOMAIN plans' /\ plans'[p].start = plans[p].start

\* A call in flight, with all that is known of it.
LEMMA CallTyped ==
  ASSUME TypedState, NEW h \in Handlers
  PROVE  /\ handlers = [g \in Handlers |-> handlers[g]]
         /\ IsHandler(handlers[h]) /\ Fits(handlers[h]) /\ Knows(handlers[h])
         /\ Locals(handlers[h]) /\ Needs(handlers[h])
  BY CallKnown DEF TypedState, TypesInv, CallsTyped, Typed, HandlersFit

\* The state of plans changes, and nothing else of them.
LEMMA PlansRestated ==
  ASSUME PlanRows, PlansTyped, NEW P, NEW state \in {"inactive", "active", "deleted"},
         plans' = [p \in DOMAIN plans |->
                      IF p \in P THEN [plans[p] EXCEPT !.state = state]
                                 ELSE plans[p]]
  PROVE  PlansGrown
<1>1. /\ Len(plans) \in Nat /\ DOMAIN plans = 1..Len(plans)
      /\ plans' = [p \in 1..Len(plans) |-> plans'[p]]
  BY DEF PlanRows, IsTable
<1>2. Len(plans') = Len(plans)
  BY <1>1, LengthOfTable
<1>3. ASSUME NEW p \in DOMAIN plans
      PROVE  plans'[p] \in Plan /\ plans'[p].start = plans[p].start
  <2>1. plans[p] \in Plan
    BY DEF PlansTyped
  <2>2. [plans[p] EXCEPT !.state = state] \in Plan
        /\ [plans[p] EXCEPT !.state = state].start = plans[p].start
    BY <2>1 DEF Plan
  <2>3. QED
    BY <2>1, <2>2
<1>4. QED
  BY <1>1, <1>2, <1>3 DEF PlansGrown, PlansTyped

LEMMA PlanAppended ==
  ASSUME PlanRows, PlansTyped, Len(plans) < MaxPlans,
         NEW u \in Users, NEW tariff \in Tariffs, NEW start \in Nat,
         NEW state \in {"inactive", "active"},
         plans' = Append(plans, NewPlan(u, tariff, start, state))
  PROVE  PlansGrown /\ Len(plans) + 1 \in DOMAIN plans'
<1> DEFINE row == NewPlan(u, tariff, start, state)
<1>1. Grown(plans, row, plans')
  BY AppendedTable DEF PlanRows
<1>2. row \in Plan
  BY DEF NewPlan, Plan
<1> HIDE DEF row
<1>3. Len(plans) \in Nat /\ MaxPlans \in Nat
  BY RoomAssumption DEF PlanRows, IsTable
<1>4. Len(plans') <= MaxPlans
  <2>1. Len(plans') \in Nat /\ 1..Len(plans') = 1..(Len(plans) + 1)
    BY <1>1 DEF Grown, IsTable
  <2>2. QED
    BY <1>3, <2>1
<1>5. ASSUME NEW p \in DOMAIN plans' PROVE p \in DOMAIN plans \/ p = Len(plans) + 1
  BY <1>1, <1>3 DEF Grown
<1>6. QED
  BY <1>1, <1>2, <1>4, <1>5 DEF PlansGrown, PlansTyped, Grown

LEMMA PlansUnwritten ==
  ASSUME PlansTyped, UNCHANGED plans PROVE PlansGrown
  BY DEF PlansGrown, PlansTyped

PlanStart(h) ==
    IF handlers[h].me.status = "trial" \/ handlers[h].plan = None
    THEN now ELSE plans[handlers[h].plan].start + 1

\* The steps of requests that write plans.
LEMMA RequestPlans ==
  ASSUME TypedState, NEW h \in Handlers, DeletePlan(h) \/ CreatePlan(h) \/ CreateFirstPlan(h)
  PROVE  PlansGrown
<1>1. PlanRows /\ PlansTyped /\ now \in Nat
  BY DEF TypedState, TypesInv
<1>2. /\ IsHandler(handlers[h]) /\ Fits(handlers[h]) /\ Knows(handlers[h])
      /\ Locals(handlers[h]) /\ Needs(handlers[h])
  BY CallTyped
<1>3. CASE DeletePlan(h)
  <2> DEFINE P == {handlers[h].other}
  <2>1. plans' = [p \in DOMAIN plans |->
                     IF p \in P THEN [plans[p] EXCEPT !.state = "deleted"]
                                ELSE plans[p]]
    BY <1>3 DEF DeletePlan
  <2>2. QED
    BY <1>1, <2>1, PlansRestated
<1>4. CASE CreatePlan(h)
  <2>1. handlers[h].task = "subscribe"
    BY <1>2, <1>4 DEF CreatePlan, At, Fits, PlaceFits
  <2>2. handlers[h].user \in Users /\ handlers[h].tariff \in Tariffs
    BY <1>2, <2>1 DEF Knows, WhoKnown, RequestTask, Needs, Party
  <2>3. handlers[h].plan = None \/ handlers[h].plan \in DOMAIN plans
    BY <1>2 DEF Locals, Maybe
  <2>4. \A p \in DOMAIN plans : plans[p].start \in Nat
    BY <1>1 DEF PlansTyped, Plan
  <2>5. PlanStart(h) \in Nat
    BY <1>1, <2>3, <2>4 DEF PlanStart
  <2>6. /\ Len(plans) < MaxPlans
        /\ plans' = Append(plans, NewPlan(handlers[h].user, handlers[h].tariff,
                                          PlanStart(h), "inactive"))
    BY <1>4 DEF CreatePlan, PlanStart
  <2>7. QED
    BY <1>1, <2>2, <2>5, <2>6, PlanAppended
<1>5. CASE CreateFirstPlan(h)
  <2>1. CASE UNCHANGED plans
    BY <1>1, <2>1, PlansUnwritten
  <2>2. CASE plans' = Append(plans, NewPlan(handlers[h].user, handlers[h].me.tariff,
                                            now, "active"))
    <3>1. handlers[h].task = "initialize"
      BY <1>2, <1>5 DEF CreateFirstPlan, At, Needs, Asks
    <3>2. handlers[h].user \in Users /\ handlers[h].me \in User
      BY <1>2, <3>1 DEF Knows, WhoKnown, RequestTask, Needs, Party
    <3>3. handlers[h].me.tariff \in Tariffs
      BY <3>2 DEF User
    <3>4. Len(plans) < MaxPlans
      BY <1>5 DEF CreateFirstPlan
    <3>5. QED
      BY <1>1, <2>2, <3>2, <3>3, <3>4, PlanAppended
  <2>3. QED
    BY <1>5, <2>1, <2>2 DEF CreateFirstPlan
<1>6. QED
  BY <1>3, <1>4, <1>5

\* The two updates of activatePlan.
LEMMA SharedPlans ==
  ASSUME TypedState, NEW h \in Handlers, Deactivate(h) \/ Activate(h)
  PROVE  PlansGrown
<1>1. PlanRows /\ PlansTyped
  BY DEF TypedState, TypesInv
<1>2. PICK P, state : /\ state \in {"inactive", "active"}
                      /\ plans' = [p \in DOMAIN plans |->
                                      IF p \in P THEN [plans[p] EXCEPT !.state = state]
                                                 ELSE plans[p]]
  <2>1. CASE Deactivate(h)
    BY <2>1 DEF Deactivate
  <2>2. CASE Activate(h)
    <3> DEFINE P == {p \in PlansOf(handlers[h].user) : p = handlers[h].plan}
    <3>1. plans' = [p \in DOMAIN plans |->
                       IF p \in P THEN [plans[p] EXCEPT !.state = "active"]
                                  ELSE plans[p]]
      BY <2>2 DEF Activate
    <3>2. QED
      BY <3>1
  <2>3. QED
    BY <2>1, <2>2
<1>3. QED
  BY <1>1, <1>2, PlansRestated

\* A webhook inserts a plan for a payment, and the cron renews one.
LEMMA PlansInserted ==
  ASSUME TypedState, NEW h \in Handlers, CreatePaidPlan(h) \/ CronCreate(h)
  PROVE  PlansGrown
<1>1. /\ PlanRows /\ PlansTyped /\ TxsTyped /\ now \in Nat
      /\ \A p \in DOMAIN plans : plans[p].start \in Nat
  BY DEF TypedState, TypesInv, PlansTyped, Plan
<1>2. /\ Fits(handlers[h]) /\ Knows(handlers[h]) /\ Needs(handlers[h])
  BY CallTyped
<1>3. CASE CreatePaidPlan(h)
  <2>1. handlers[h].task = "intentSucceeded" /\ At(h, "createPaidPlan")
    BY <1>2, <1>3 DEF CreatePaidPlan, At, Fits, PlaceFits
  <2>2. handlers[h].user \in Users
    BY <1>2, <2>1 DEF Knows, WhoKnown, Searching, WebhookTask, At
  <2>3. PICK t : t = handlers[h].tx
    OBVIOUS
  <2>4. t \in DOMAIN txs /\ ~Validates(t)
    BY <1>2, <2>1, <2>3 DEF Needs, Asks, At
  <2>5. txs[t].tariff \in Tariffs
    BY <1>1, <2>4 DEF TxsTyped, TxTyped, Maybe
  <2>6. /\ Len(plans) < MaxPlans
        /\ plans' = Append(plans, NewPlan(handlers[h].user, txs[t].tariff, now, "inactive"))
    BY <1>3, <2>3 DEF CreatePaidPlan
  <2>7. QED
    BY <1>1, <2>2, <2>5, <2>6, PlanAppended
<1>4. CASE CronCreate(h)
  <2>1. handlers[h].task = "cron" /\ At(h, "cronCreate")
    BY <1>2, <1>4 DEF CronCreate, At, Fits, PlaceFits
  <2>2. /\ handlers[h].user \in Users /\ handlers[h].tariff \in Tariffs
        /\ handlers[h].other \in DOMAIN plans
    BY <1>2, <2>1 DEF Needs, Party, Asks, At
  <2>3. PICK start : start = plans[handlers[h].other].start + 1
    OBVIOUS
  <2>4. start \in Nat
    BY <1>1, <2>2, <2>3
  <2>5. /\ Len(plans) < MaxPlans
        /\ plans' = Append(plans, NewPlan(handlers[h].user, handlers[h].tariff, start,
                                          "inactive"))
    BY <1>4, <2>3 DEF CronCreate
  <2>6. QED
    BY <1>1, <2>2, <2>4, <2>5, PlanAppended
<1>5. QED
  BY <1>3, <1>4

PlanStepOf(h) ==
    \/ Deactivate(h) \/ Activate(h) \/ DeletePlan(h) \/ CreatePlan(h)
    \/ CreateFirstPlan(h) \/ CreatePaidPlan(h) \/ CronCreate(h)

\* Nothing else writes plans.
LEMMA PlansRead ==
  ASSUME NEW h, Step(h), ~PlanStepOf(h) PROVE UNCHANGED plans
<1>1. CASE SharedStep(h)
  BY <1>1
     DEF SharedStep, PlanStepOf, ListSubs, DeleteSubs, CreateSub, SetStatus, DropNext,
         ActivateFails, stripe
<1>2. CASE RequestStep(h)
  BY <1>2, ZenonT(30)
     DEF RequestStep, PlanStepOf, FindPlans, FindTrialCard, FindCurrent, FindLast, FindCard,
         FindPlan, AttachCard, Supersede, SaveTx, SavePrePayment, FindValidation, FindCustomer,
         CreateCustomer, StoreCustomer, ReuseIntent, NoIntentFound, CreateIntent,
         FindIntentPlan, SaveIntentTx, FindNextPlan, CountPlans, stripe
<1>3. CASE WebhookStep(h)
  BY <1>3, ZenonT(30)
     DEF WebhookStep, PlanStepOf, FindTx, FindPayer, FindUser, SaveCard, Refund, SetActive,
         StoreTariff, SettleById, CancelOthers, SettleRows, FindFailedTx, FindRowToFail,
         FailValidation, FindDebtor, ReplaceIntent, FailTx, FindSubscriber, FindPendingTx,
         ReadPlan, StoreNext, LinkTx, stripe
<1>4. CASE CronStep(h)
  BY <1>4, ZenonT(30)
     DEF CronStep, PlanStepOf, CronUser, CronPlan, CronStatus, CronLast, CronTariff, stripe
<1>5. QED
  BY <1>1, <1>2, <1>3, <1>4 DEF Step

\* What is no step of a call: its beginning, and what happens outside.
Elsewhere ==
    \/ \E h \in Handlers : \/ Request(h) \/ CallFails(h)
                           \/ \E e \in events.pending : Deliver(h, e)
                           \/ \E u \in Users : CronBegin(h, u)
    \/ \E i \in DOMAIN intents :
          (\E card \in Cards : Pay(i, card)) \/ Decline(i) \/ CancelIntent(i)
    \/ \E e \in events.acked \cup InFlight : DeliverAgain(e)
    \/ Crash \/ Tick \/ UNCHANGED vars

LEMMA LeftAlone ==
  ASSUME Elsewhere PROVE UNCHANGED <<users, cards, plans, txs, subs, customers>>
<1>1. ASSUME NEW h \in Handlers, Request(h)
      PROVE  UNCHANGED <<users, cards, plans, txs, subs, customers>>
  BY <1>1, ZenonT(30)
     DEF Request, Call, SubscribeRequest, SwitchRequest, SetTrialRequest, SecretRequest,
         ValidationRequest, CancelNextRequest, UnsubscribeRequest, RenovateRequest,
         InitializeRequest, stripe
<1>2. ASSUME NEW i \in DOMAIN intents,
             (\E card \in Cards : Pay(i, card)) \/ Decline(i) \/ CancelIntent(i)
      PROVE  UNCHANGED <<users, cards, plans, txs, subs, customers>>
  BY <1>2, ZenonT(30) DEF Pay, Decline, CancelIntent, stripe, world
<1>3. ASSUME NEW h \in Handlers,
             \/ CallFails(h) \/ \E e \in events.pending : Deliver(h, e)
             \/ \E u \in Users : CronBegin(h, u)
      PROVE  UNCHANGED <<users, cards, plans, txs, subs, customers>>
  BY <1>3, ZenonT(30) DEF Deliver, CronBegin, CallFails, stripe, world
<1>4. QED
  BY <1>1, <1>2, <1>3 DEF Elsewhere, DeliverAgain, Crash, Tick, vars, stripe, world

\* Every step.
LEMMA PlansStep ==
  ASSUME TypedState, [Next]_vars PROVE PlansGrown
<1>1. PlansTyped
  BY DEF TypedState, TypesInv
<1>2. ASSUME NEW h \in Handlers, Step(h) PROVE PlansGrown
  BY <1>1, <1>2, PlansRead, PlansUnwritten, SharedPlans, RequestPlans, PlansInserted
     DEF PlanStepOf
<1>3. CASE ~\E h \in Handlers : Step(h)
  <2>1. UNCHANGED plans
    BY <1>3, LeftAlone DEF Next, Elsewhere
  <2>2. QED
    BY <1>1, <2>1, PlansUnwritten
<1>4. QED
  BY <1>2, <1>3

----------------------------------------------------------------------------
(* Transactions.                                                             *)

Outcomes == {"PENDING", "SUCCESS", "FAILED", "CANCELED"}

\* What a step may do to a typed row.
RowRestated(t) ==
    /\ txs'[t].user \in Users /\ txs'[t].type = txs[t].type
    /\ txs'[t].status \in Outcomes
    /\ txs'[t].tariff = txs[t].tariff
    /\ txs'[t].plan = txs[t].plan \/ txs'[t].plan \in DOMAIN plans

\* Plans that a call or a row names go on being there.
LEMMA PlansNamed ==
  ASSUME PlansGrown, NEW p, p \in Maybe(DOMAIN plans) PROVE p \in Maybe(DOMAIN plans')
  BY DEF PlansGrown, Maybe

\* Rows that are written, but for their type and tariff.
LEMMA RowsRestated ==
  ASSUME TxRows, TxsTyped, PlansGrown, TxRows', DOMAIN txs' = DOMAIN txs,
         \A t \in DOMAIN txs : RowRestated(t)
  PROVE  TxsTyped'
<1>1. Len(txs') = Len(txs)
  <2>1. /\ Len(txs) \in Nat /\ Len(txs') \in Nat
        /\ DOMAIN txs = 1..Len(txs) /\ DOMAIN txs' = 1..Len(txs')
    BY ZenonT(30) DEF TxRows, IsTable
  <2>2. QED
    BY <2>1
<1>2. ASSUME NEW t \in DOMAIN txs PROVE TxTyped(t)'
  <2>1. TxTyped(t) /\ RowRestated(t)
    BY DEF TxsTyped
  <2>2. txs'[t].plan \in Maybe(DOMAIN plans')
    <3>1. txs'[t].plan \in Maybe(DOMAIN plans)
      BY <2>1 DEF TxTyped, RowRestated, Maybe
    <3>2. QED
      BY <3>1, PlansNamed
  <2>3. QED
    BY <2>1, <2>2 DEF TxTyped, RowRestated, Outcomes, Validates
<1>3. QED
  BY <1>1, <1>2 DEF TxsTyped

\* Rows that nobody writes.
LEMMA RowsLeft ==
  ASSUME TxRows, TxsTyped, PlansGrown, TxRows', UNCHANGED txs PROVE TxsTyped'
<1>1. \A t \in DOMAIN txs : RowRestated(t)
  BY DEF TxsTyped, TxTyped, RowRestated, Outcomes
<1>2. QED
  BY <1>1, RowsRestated

\* An update of the status.
LEMMA StatusRestated ==
  ASSUME TxRows, TxsTyped, PlansGrown, TxRows', NEW T, NEW status \in Outcomes,
         txs' = TxsWithStatus(T, status)
  PROVE  TxsTyped'
<1>1. DOMAIN txs' = DOMAIN txs
  BY DEF TxsWithStatus
<1>2. ASSUME NEW t \in DOMAIN txs PROVE RowRestated(t)
  <2>1. TxTyped(t) /\ IsTx(txs[t])
    BY DEF TxsTyped, TxRows
  <2>2. txs'[t] = txs[t] \/ txs'[t] = [txs[t] EXCEPT !.status = status]
    BY DEF TxsWithStatus
  <2>3. CASE txs'[t] = txs[t]
    BY <2>1, <2>3 DEF TxTyped, RowRestated, Outcomes
  <2>4. CASE txs'[t] = [txs[t] EXCEPT !.status = status]
    BY <2>1, <2>4 DEF TxTyped, RowRestated, IsTx
  <2>5. QED
    BY <2>2, <2>3, <2>4
<1>3. QED
  BY <1>1, <1>2, RowsRestated

\* A new row.
LEMMA RowSaved ==
  ASSUME TxRows, TxsTyped, PlansGrown, Len(txs) < MaxTxs,
         NEW u \in Users, NEW type \in TxType, NEW tariff \in Maybe(Tariffs),
         NEW plan, plan \in Maybe(DOMAIN plans), NEW intent,
         type # "CARD_VALIDATION" => tariff # None,
         txs' = Append(txs, NewTx(u, type, tariff, plan, intent))
  PROVE  TxsTyped'
<1> DEFINE row == NewTx(u, type, tariff, plan, intent)
<1>1. Grown(txs, row, txs')
  BY AppendedTable DEF TxRows
<1>2. /\ row.user = u /\ row.type = type /\ row.status = "PENDING" /\ row.tariff = tariff
      /\ row.plan = plan
  BY DEF NewTx
<1> HIDE DEF row
<1>3. Len(txs) \in Nat /\ MaxTxs \in Nat
  BY RoomAssumption DEF TxRows, IsTable
<1>4. Len(txs') <= MaxTxs
  <2>1. Len(txs') \in Nat /\ 1..Len(txs') = 1..(Len(txs) + 1)
    BY <1>1 DEF Grown, IsTable
  <2>2. QED
    BY <1>3, <2>1
<1>5. ASSUME NEW t \in DOMAIN txs' PROVE TxTyped(t)'
  <2>1. t \in DOMAIN txs \/ t = Len(txs) + 1
    BY <1>1, <1>3 DEF Grown
  <2>2. CASE t \in DOMAIN txs
    <3>1. TxTyped(t) /\ txs'[t] = txs[t]
      BY <1>1, <2>2 DEF TxsTyped, Grown
    <3>2. txs'[t].plan \in Maybe(DOMAIN plans')
      BY <3>1, PlansNamed DEF TxTyped
    <3>3. QED
      BY <3>1, <3>2 DEF TxTyped, Validates
  <2>3. CASE t = Len(txs) + 1
    <3>1. txs'[t] = row
      BY <1>1, <2>3 DEF Grown
    <3>2. plan \in Maybe(DOMAIN plans')
      BY PlansNamed
    <3>3. QED
      BY <1>2, <3>1, <3>2 DEF TxTyped, Validates
  <2>4. QED
    BY <2>1, <2>2, <2>3
<1>6. QED
  BY <1>4, <1>5 DEF TxsTyped

\* Rows are swept, settled by their ids, or fail as validations.
LEMMA SweptTyped ==
  ASSUME TypedState, PlansGrown, TxRows', NEW h \in Handlers,
         Supersede(h) \/ CancelOthers(h) \/ FailValidation(h) \/ SettleById(h)
  PROVE  TxsTyped'
<1>1. TxRows /\ TxsTyped
  BY CallTyped DEF TypedState, TypesInv, StartInv, OutcomeInv, RowsInv
<1>2. \/ UNCHANGED txs
      \/ \E T : \E status \in Outcomes : txs' = TxsWithStatus(T, status)
  <2>1. Supersede(h) => txs' = TxsWithStatus(PendingTxs(handlers[h].user, {"SUBSCRIPTION"}),
                                             "CANCELED")
    BY DEF Supersede
  <2>2. CancelOthers(h) => txs' = TxsWithStatus(PendingTxs(handlers[h].user,
                                             TxType \ {"CARD_VALIDATION"}), "CANCELED")
    BY DEF CancelOthers
  <2>3. FailValidation(h) => txs' = TxsWithStatus({handlers[h].tx}, "FAILED")
    BY DEF FailValidation
  <2>4. SettleById(h) => txs' = TxsWithStatus({handlers[h].tx}, "SUCCESS")
    BY DEF SettleById
  <2>5. QED
    BY <2>1, <2>2, <2>3, <2>4 DEF Outcomes
<1>3. QED
  BY <1>1, <1>2, RowsLeft, StatusRestated

\* The rows of a report get its outcome, and perhaps the plan of the call.
LEMMA SettledTyped ==
  ASSUME TypedState, PlansGrown, TxRows', NEW h \in Handlers, SettleRows(h)
  PROVE  TxsTyped'
<1>1. TxRows /\ TxsTyped
  BY DEF TypedState, TypesInv, StartInv, OutcomeInv, RowsInv
<1>2. PICK outcome, plan : outcome = handlers[h].outcome /\ plan = handlers[h].plan
  OBVIOUS
<1>3. outcome \in Outcomes /\ (plan # None => plan \in DOMAIN plans)
  BY <1>2, CallTyped DEF Knows, WhoKnown, Locals, Maybe, Outcomes
<1>4. DOMAIN txs' = DOMAIN txs
  BY ZenonT(30) DEF SettleRows
<1>5. ASSUME NEW t \in DOMAIN txs PROVE RowRestated(t)
  <2>1. TxTyped(t) /\ IsTx(txs[t])
    BY <1>1 DEF TxsTyped, TxRows
  <2>2. \/ txs'[t] = txs[t]
        \/ txs'[t] = [txs[t] EXCEPT !.status = outcome, !.plan = plan] /\ plan # None
        \/ txs'[t] = [txs[t] EXCEPT !.status = outcome, !.plan = txs[t].plan]
    BY <1>2, ZenonT(30) DEF SettleRows
  <2>3. CASE txs'[t] = txs[t]
    BY <2>1, <2>3 DEF TxTyped, RowRestated, Outcomes
  <2>4. CASE txs'[t] = [txs[t] EXCEPT !.status = outcome, !.plan = plan] /\ plan # None
    BY <1>3, <2>1, <2>4 DEF TxTyped, RowRestated, IsTx
  <2>5. CASE txs'[t] = [txs[t] EXCEPT !.status = outcome, !.plan = txs[t].plan]
    BY <1>3, <2>1, <2>5 DEF TxTyped, RowRestated, IsTx
  <2>6. QED
    BY <2>2, <2>3, <2>4, <2>5
<1>6. QED
  BY <1>1, <1>4, <1>5, RowsRestated

\* A payment fails, or a row is linked to its subscription.
LEMMA RelinkedTyped ==
  ASSUME TypedState, PlansGrown, TxRows', NEW h \in Handlers, FailTx(h) \/ LinkTx(h)
  PROVE  TxsTyped'
<1>1. TxRows /\ TxsTyped
  BY DEF TypedState, TypesInv, StartInv, OutcomeInv, RowsInv
<1>2. Fits(handlers[h]) /\ Knows(handlers[h])
  BY CallTyped
<1>3. CASE \E t, i : txs' = [txs EXCEPT ![t].status = "FAILED",
                                        ![t].user = handlers[h].user,
                                        ![t].newIntent = i] /\ FailTx(h)
  <2>1. PICK t, i, u : /\ txs' = [txs EXCEPT ![t].status = "FAILED", ![t].user = u,
                                             ![t].newIntent = i]
                       /\ u = handlers[h].user /\ FailTx(h)
    BY <1>3, ZenonT(30)
  <2>2. u \in Users
    <3>1. handlers[h].task = "intentFailed" /\ At(h, "failTxRow")
      BY <1>2, <2>1, ZenonT(30) DEF FailTx, At, Fits, PlaceFits
    <3>2. QED
      BY <1>2, <2>1, <3>1 DEF Knows, WhoKnown, Searching, WebhookTask, At
  <2>3. DOMAIN txs' = DOMAIN txs
    BY <2>1
  <2>4. ASSUME NEW s \in DOMAIN txs PROVE RowRestated(s)
    <3>1. TxTyped(s) /\ IsTx(txs[s])
      BY <1>1 DEF TxsTyped, TxRows
    <3>2. \/ txs'[s] = txs[s]
          \/ txs'[s] = [txs[s] EXCEPT !.status = "FAILED", !.user = u, !.newIntent = i]
      BY <2>1
    <3>3. CASE txs'[s] = txs[s]
      BY <3>1, <3>3 DEF TxTyped, RowRestated, Outcomes
    <3>4. CASE txs'[s] = [txs[s] EXCEPT !.status = "FAILED", !.user = u, !.newIntent = i]
      BY <2>2, <3>1, <3>4 DEF RowRestated, IsTx, Outcomes
    <3>5. QED
      BY <3>2, <3>3, <3>4
  <2>5. QED
    BY <1>1, <2>3, <2>4, RowsRestated
<1>4. CASE LinkTx(h)
  <2>1. PICK t, s : txs' = [txs EXCEPT ![t].intent = None, ![t].newIntent = None, ![t].sub = s]
    BY <1>4, ZenonT(30) DEF LinkTx
  <2>2. DOMAIN txs' = DOMAIN txs
    BY <2>1
  <2>3. ASSUME NEW r \in DOMAIN txs PROVE RowRestated(r)
    <3>1. TxTyped(r) /\ IsTx(txs[r])
      BY <1>1 DEF TxsTyped, TxRows
    <3>2. \/ txs'[r] = txs[r]
          \/ txs'[r] = [txs[r] EXCEPT !.intent = None, !.newIntent = None, !.sub = s]
      BY <2>1
    <3>3. /\ txs'[r].user = txs[r].user /\ txs'[r].type = txs[r].type
          /\ txs'[r].status = txs[r].status /\ txs'[r].tariff = txs[r].tariff
          /\ txs'[r].plan = txs[r].plan
      BY <3>1, <3>2 DEF IsTx
    <3>4. QED
      BY <3>1, <3>3 DEF TxTyped, RowRestated, Outcomes
  <2>4. QED
    BY <1>1, <2>2, <2>3, RowsRestated
<1>5. QED
  BY <1>3, <1>4, ZenonT(30) DEF FailTx

\* A request adds a row for its user.
LEMMA SavedTyped ==
  ASSUME TypedState, PlansGrown, NEW h \in Handlers,
         SaveTx(h) \/ SavePrePayment(h) \/ SaveIntentTx(h)
  PROVE  TxsTyped'
<1>1. TxRows /\ TxsTyped
  BY DEF TypedState, TypesInv, StartInv, OutcomeInv, RowsInv
<1>2. /\ Fits(handlers[h]) /\ Knows(handlers[h])
      /\ Locals(handlers[h]) /\ Needs(handlers[h])
  BY CallTyped
<1>3. handlers[h].task \in {"subscribe", "getSecret"}
  BY <1>2 DEF SaveTx, SavePrePayment, SaveIntentTx, At, Fits, PlaceFits
<1>4. /\ handlers[h].user \in Users
      /\ handlers[h].plan \in Maybe(DOMAIN plans) /\ handlers[h].other \in Maybe(DOMAIN plans)
      /\ handlers[h].task = "subscribe" => handlers[h].tariff \in Tariffs
      /\ handlers[h].task = "subscribe" => handlers[h].type \in Subscription
  BY <1>2, <1>3 DEF Knows, WhoKnown, RequestTask, Locals, Needs, Party
<1>5. \A x \in Tariffs : x # None /\ x \in Maybe(Tariffs)
  BY NoneAssumption DEF Maybe
<1>6. Len(txs) < MaxTxs
  BY DEF SaveTx, SavePrePayment, SaveIntentTx
<1>7. CASE SaveTx(h)
  <2>1. handlers[h].task = "subscribe"
    BY <1>2, <1>7 DEF SaveTx, At, Fits, PlaceFits
  <2>2. handlers[h].type \in TxType /\ handlers[h].type # "CARD_VALIDATION"
    BY <1>4, <2>1 DEF Subscription, TxType
  <2>3. txs' = Append(txs, NewTx(handlers[h].user, handlers[h].type,
                                 handlers[h].tariff, handlers[h].plan, None))
    BY <1>7 DEF SaveTx
  <2>4. QED
    BY <1>1, <1>4, <1>5, <1>6, <2>1, <2>2, <2>3, RowSaved
<1>8. CASE SavePrePayment(h)
  <2>1. handlers[h].task = "subscribe"
    BY <1>2, <1>8 DEF SavePrePayment, At, Fits, PlaceFits
  <2>2. txs' = Append(txs, NewTx(handlers[h].user, "PRE_SUBSCRIPTION_PAYMENT",
                                 handlers[h].tariff, handlers[h].plan, handlers[h].intent))
    BY <1>8 DEF SavePrePayment
  <2>3. "PRE_SUBSCRIPTION_PAYMENT" \in TxType
    BY DEF TxType
  <2>4. QED
    BY <1>1, <1>4, <1>5, <1>6, <2>1, <2>2, <2>3, RowSaved
<1>9. CASE SaveIntentTx(h)
  <2>1. CASE ForValidation(h)
    <3>1. txs' = Append(txs, NewTx(handlers[h].user, "CARD_VALIDATION", None,
                                   handlers[h].other, handlers[h].intent))
      BY <1>9, <2>1 DEF SaveIntentTx
    <3>2. "CARD_VALIDATION" \in TxType /\ None \in Maybe(Tariffs)
      BY DEF TxType, Maybe
    <3>3. QED
      BY <1>1, <1>4, <1>6, <3>1, <3>2, RowSaved
  <2>2. CASE ~ForValidation(h)
    <3>1. handlers[h].tariff \in Tariffs
      BY <1>2, <1>3, <2>2 DEF ForValidation, Needs, Party
    <3>2. txs' = Append(txs, NewTx(handlers[h].user, "SUBSCRIPTION", handlers[h].tariff,
                                   None, handlers[h].intent))
      BY <1>9, <2>2 DEF SaveIntentTx
    <3>3. "SUBSCRIPTION" \in TxType /\ None \in Maybe(DOMAIN plans)
      BY DEF TxType, Maybe
    <3>4. QED
      BY <1>1, <1>4, <1>5, <1>6, <3>1, <3>2, <3>3, RowSaved
  <2>3. QED
    BY <2>1, <2>2
<1>10. QED
  BY <1>7, <1>8, <1>9

\* Every step.
LEMMA TxsStep ==
  ASSUME TypedState, PlansGrown, TxRows', [Next]_vars PROVE TxsTyped'
<1>1. TxRows /\ TxsTyped
  BY DEF TypedState, TypesInv, StartInv, OutcomeInv, RowsInv
<1>2. ASSUME NEW h \in Handlers, TxStep(h) PROVE TxsTyped'
  BY <1>2, SweptTyped, SettledTyped, RelinkedTyped, SavedTyped DEF TxStep
<1>3. CASE ~\E h \in Handlers : TxStep(h)
  <2>1. UNCHANGED txs
    BY <1>3, StepKinds, LeftAlone DEF Next, Elsewhere
  <2>2. QED
    BY <1>1, <2>1, RowsLeft
<1>4. QED
  BY <1>2, <1>3

----------------------------------------------------------------------------
(* The objects of Stripe.                                                    *)

IntentTyped(i) == i \in Intent /\ (i.state = "paid" => i.card \in Cards)

IntentsTyped == Len(intents) <= MaxIntents /\ \A i \in DOMAIN intents : IntentTyped(intents[i])
SubsTyped == Len(subs) <= MaxSubs /\ \A s \in DOMAIN subs : subs[s] \in Sub
CustomersTyped ==
    Len(customers) <= MaxCustomers /\ \A c \in DOMAIN customers : customers[c] \in Users

LEMMA StripeParts == StripeTyped <=> IntentsTyped /\ SubsTyped /\ CustomersTyped
  BY DEF StripeTyped, IntentsTyped, IntentTyped, SubsTyped, CustomersTyped

\* A table whose rows are rewritten is as long as before.
LEMMA LengthStays ==
  ASSUME NEW s, NEW table, IsTable(s), IsTable(table), DOMAIN table = DOMAIN s
  PROVE  Len(table) = Len(s)
<1>1. /\ Len(s) \in Nat /\ Len(table) \in Nat
      /\ DOMAIN s = 1..Len(s) /\ DOMAIN table = 1..Len(table)
  BY ZenonT(30) DEF IsTable
<1>2. QED
  BY <1>1

\* A table with one more row is one longer.
LEMMA LengthGrows ==
  ASSUME NEW s, NEW row, NEW table, IsTable(s), Grown(s, row, table)
  PROVE  /\ Len(s) \in Nat /\ Len(table) = Len(s) + 1
         /\ \A k \in DOMAIN table : \/ k \in DOMAIN s /\ table[k] = s[k]
                                    \/ k = Len(s) + 1 /\ table[k] = row
<1>1. /\ Len(s) \in Nat /\ Len(table) \in Nat
      /\ DOMAIN table = 1..(Len(s) + 1) /\ DOMAIN table = 1..Len(table)
      /\ DOMAIN s = 1..Len(s)
  BY ZenonT(30) DEF IsTable, Grown
<1>2. Len(table) = Len(s) + 1
  BY <1>1
<1>3. QED
  BY <1>1, <1>2 DEF Grown

\* One intent changes.
LEMMA IntentRestated ==
  ASSUME StripeRows, IntentsTyped, StripeRows', NEW i, NEW intent,
         intents' = [intents EXCEPT ![i] = intent],
         i \in DOMAIN intents => IntentTyped(intent)
  PROVE  IntentsTyped'
<1>1. DOMAIN intents' = DOMAIN intents
  OBVIOUS
<1>2. Len(intents') = Len(intents)
  BY <1>1, LengthStays DEF StripeRows
<1>3. \A k \in DOMAIN intents : intents'[k] = IF k = i THEN intent ELSE intents[k]
  OBVIOUS
<1>4. \A k \in DOMAIN intents' : IntentTyped(intents'[k])
  BY <1>1, <1>3 DEF IntentsTyped
<1>5. QED
  BY <1>2, <1>4 DEF IntentsTyped, IntentTyped

\* An intent is created.
LEMMA IntentOpened ==
  ASSUME StripeRows, IntentsTyped, NEW c \in 1..MaxCustomers, NEW origin \in 1..MaxIntents,
         Len(intents) < MaxIntents, intents' = Append(intents, NewIntent(c, origin))
  PROVE  IntentsTyped'
<1> DEFINE row == NewIntent(c, origin)
<1>0. PICK s, table : s = intents /\ table = intents'
  OBVIOUS
<1>1. IsTable(s) /\ Grown(s, row, table)
  BY <1>0, AppendedTable DEF StripeRows
<1>2. IntentTyped(row)
  BY DEF NewIntent, Intent, IntentTyped, Maybe
<1> HIDE DEF row
<1>3. MaxIntents \in Nat
  BY RoomAssumption
<1>4. /\ Len(intents) \in Nat /\ Len(intents') = Len(intents) + 1
      /\ \A k \in DOMAIN intents' : \/ k \in DOMAIN intents /\ intents'[k] = intents[k]
                                    \/ k = Len(intents) + 1 /\ intents'[k] = row
  <2>1. /\ Len(s) \in Nat /\ Len(table) = Len(s) + 1
        /\ \A k \in DOMAIN table : \/ k \in DOMAIN s /\ table[k] = s[k]
                                   \/ k = Len(s) + 1 /\ table[k] = row
    BY <1>1, LengthGrows
  <2>2. QED
    BY <1>0, <2>1
<1>5. QED
  BY <1>2, <1>3, <1>4 DEF IntentsTyped, IntentTyped

\* The steps of calls that write intents.
LEMMA IntentsStep ==
  ASSUME TypedState, StripeRows', NEW h \in Handlers, Step(h)
  PROVE  IntentsTyped'
<1>1. /\ StripeRows /\ IntentsTyped /\ HandlersFit
      /\ Fits(handlers[h]) /\ Knows(handlers[h])
      /\ Locals(handlers[h]) /\ Needs(handlers[h]) /\ StartInv
  BY CallTyped, CallKnown, StripeParts DEF TypedState, TypesInv, RowsInv
<1>2. CASE UNCHANGED intents
  BY <1>1, <1>2 DEF IntentsTyped, IntentTyped
<1>3. ASSUME NEW i, \/ intents' = [intents EXCEPT ![i].shown = TRUE]
                    \/ intents' = [intents EXCEPT ![i].refunded = TRUE]
      PROVE  IntentsTyped'
  <2>1. PICK intent : /\ \/ intent = [intents[i] EXCEPT !.shown = TRUE]
                         \/ intent = [intents[i] EXCEPT !.refunded = TRUE]
                      /\ intents' = [intents EXCEPT ![i] = intent]
    BY <1>3
  <2>2. ASSUME i \in DOMAIN intents PROVE IntentTyped(intent)
    <3>1. IntentTyped(intents[i])
      BY <1>1, <2>2 DEF IntentsTyped
    <3>2. QED
      BY <2>1, <3>1 DEF IntentTyped, Intent
  <2>3. QED
    BY <1>1, <2>1, <2>2, IntentRestated
<1>4. CASE CreateIntent(h)
  <2>1. At(h, "createIntent") /\ handlers[h].task \in {"subscribe", "getSecret"}
    BY <1>1, <1>4 DEF CreateIntent, Fits, PlaceFits, At
  <2>2. PICK c : c = CustomerOf(h)
    OBVIOUS
  <2>3. c \in 1..MaxCustomers
    <3>1. CASE handlers[h].task = "subscribe"
      <4>1. handlers[h].me \in User /\ handlers[h].me.customer # None
        BY <1>1, <2>1, <3>1 DEF Needs, Party, RequestTask, Fits, AtFits, At
      <4>2. QED
        BY <2>2, <3>1, <4>1 DEF CustomerOf, User, Maybe
    <3>2. CASE handlers[h].task # "subscribe"
      <4>1. handlers[h].customer \in Maybe(1..MaxCustomers) /\ handlers[h].customer # None
        BY <1>1, <2>1, <3>2 DEF Locals, Fits, AtFits, At
      <4>2. QED
        BY <2>2, <3>2, <4>1 DEF CustomerOf, Maybe
    <3>3. QED
      BY <3>1, <3>2
  <2>4. PICK n : n = Len(intents) + 1
    OBVIOUS
  <2>5. Len(intents) < MaxIntents /\ intents' = Append(intents, NewIntent(c, n))
    BY <1>4, <2>2, <2>4 DEF CreateIntent
  <2>6. n \in 1..MaxIntents
    BY <1>1, <2>4, <2>5, RoomAssumption DEF StripeRows, IsTable
  <2>7. QED
    BY <1>1, <2>3, <2>5, <2>6, IntentOpened
<1>5. CASE ReplaceIntent(h)
  <2>1. At(h, "replaceIntent") /\ handlers[h].task = "intentFailed"
    BY <1>1, <1>5 DEF ReplaceIntent, Fits, PlaceFits, At
  <2>2. handlers[h].me \in User /\ handlers[h].me.customer # None
    BY <1>1, <2>1 DEF Needs, Party, WebhookTask, Searching, Fits, AtFits, At
  <2>3. handlers[h].me.customer \in 1..MaxCustomers
    BY <2>2 DEF User, Maybe
  <2>4. PICK origin : origin = intents[About(h)].origin
    OBVIOUS
  <2>5. origin \in 1..MaxIntents
    <3>1. About(h) \in DOMAIN intents
      BY <1>1, <2>1, WebhookKnows
    <3>2. QED
      BY <1>1, <2>4, <3>1 DEF IntentsTyped, IntentTyped, Intent
  <2>6. /\ Len(intents) < MaxIntents
        /\ intents' = Append(intents, NewIntent(handlers[h].me.customer, origin))
    BY <1>5, <2>4 DEF ReplaceIntent
  <2>7. QED
    BY <1>1, <2>3, <2>5, <2>6, IntentOpened
<1>6. CASE ~CreateIntent(h) /\ ~ReplaceIntent(h)
  <2>1. \/ UNCHANGED intents
        \/ \E i : \/ intents' = [intents EXCEPT ![i].shown = TRUE]
                  \/ intents' = [intents EXCEPT ![i].refunded = TRUE]
    <3>1. CASE TxStep(h)
      <4>1. CASE SaveIntentTx(h)
        BY <4>1 DEF SaveIntentTx, Show
      <4>2. CASE ~SaveIntentTx(h)
        BY <3>1, <4>2, ZenonT(30)
           DEF TxStep, Supersede, CancelOthers, SaveTx, SavePrePayment, SettleById,
           SettleRows, FailValidation, FailTx, LinkTx, stripe
      <4>3. QED
        BY <4>1, <4>2
    <3>2. CASE StripeStep(h)
      <4>1. FindValidation(h) => \/ UNCHANGED intents
                                 \/ \E i : intents' = [intents EXCEPT ![i].shown = TRUE]
        BY DEF FindValidation, Show
      <4>2. ReuseIntent(h) => \/ UNCHANGED intents
                              \/ \E i : intents' = [intents EXCEPT ![i].shown = TRUE]
        <5>1. ReuseIntent(h) => handlers[h].task \in {"subscribe", "getSecret"}
          BY <1>1 DEF ReuseIntent, Fits, PlaceFits, At
        <5>2. QED
          BY <5>1, ZenonT(30) DEF ReuseIntent, Show
      <4>3. Refund(h) => \E i : intents' = [intents EXCEPT ![i].refunded = TRUE]
        BY DEF Refund
      <4>4. DeleteSubs(h) \/ CreateSub(h) \/ CreateCustomer(h) => UNCHANGED intents
        BY DEF DeleteSubs, CreateSub, CreateCustomer
      <4>5. QED
        BY <1>6, <3>2, <4>1, <4>2, <4>3, <4>4 DEF StripeStep
    <3>3. QED
      BY <3>1, <3>2, StepKinds
  <2>2. QED
    BY <1>2, <1>3, <2>1
<1>7. QED
  BY <1>4, <1>5, <1>6

\* Users pay with cards, and intents are canceled.
LEMMA IntentsOutside ==
  ASSUME TypedState, StripeRows', Elsewhere
  PROVE  IntentsTyped'
<1>1. StripeRows /\ IntentsTyped
  BY StripeParts DEF TypedState, TypesInv, StartInv, OutcomeInv, RowsInv
<1>2. CASE UNCHANGED intents
  BY <1>1, <1>2 DEF IntentsTyped, IntentTyped
<1>3. ASSUME NEW i \in DOMAIN intents, NEW card \in Cards, Pay(i, card)
      PROVE  IntentsTyped'
  <2>1. PICK intent : intent = [intents[i] EXCEPT !.state = "paid", !.card = card]
    OBVIOUS
  <2>2. intents' = [intents EXCEPT ![i] = intent]
    BY <1>3, <2>1 DEF Pay
  <2>3. IntentTyped(intents[i])
    BY <1>1 DEF IntentsTyped
  <2>4. IntentTyped(intent)
    BY <2>1, <2>3 DEF IntentTyped, Intent, Maybe
  <2>5. QED
    BY <1>1, <2>2, <2>4, IntentRestated
<1>4. ASSUME NEW i \in DOMAIN intents, CancelIntent(i)
      PROVE  IntentsTyped'
  <2>1. PICK intent : intent = [intents[i] EXCEPT !.state = "canceled"]
    OBVIOUS
  <2>2. intents' = [intents EXCEPT ![i] = intent]
    BY <1>4, <2>1 DEF CancelIntent
  <2>3. IntentTyped(intents[i])
    BY <1>1 DEF IntentsTyped
  <2>4. IntentTyped(intent)
    BY <2>1, <2>3 DEF IntentTyped, Intent, Maybe
  <2>5. QED
    BY <1>1, <2>2, <2>4, IntentRestated
<1>5. CASE \A i \in DOMAIN intents : ~CancelIntent(i) /\ \A card \in Cards : ~Pay(i, card)
  <2>1. ASSUME NEW h \in Handlers, Request(h) PROVE UNCHANGED intents
    BY <2>1, ZenonT(30)
       DEF Request, Call, SubscribeRequest, SwitchRequest, SetTrialRequest, SecretRequest,
           ValidationRequest, CancelNextRequest, UnsubscribeRequest, RenovateRequest,
           InitializeRequest, stripe
  <2>2. UNCHANGED intents
    BY <1>5, <2>1, ZenonT(30)
       DEF Elsewhere, Deliver, CronBegin, CallFails, Decline, DeliverAgain, Crash, Tick, vars,
           stripe
  <2>3. QED
    BY <1>2, <2>2
<1>6. QED
  BY <1>3, <1>4, <1>5

\* A step that is none of the three leaves subscriptions and customers alone.
LEMMA SubsRead ==
  ASSUME NEW h, Step(h), ~(DeleteSubs(h) \/ CreateSub(h) \/ CreateCustomer(h))
  PROVE  UNCHANGED <<subs, customers>>
<1>1. CASE SharedStep(h)
  BY <1>1
     DEF SharedStep, ListSubs, SetStatus, DropNext, Deactivate, Activate, ActivateFails, stripe
<1>2. CASE RequestStep(h)
  BY <1>2, ZenonT(30)
     DEF RequestStep, FindPlans, FindTrialCard, FindCurrent, FindLast, DeletePlan, FindCard,
         FindPlan, CreatePlan, AttachCard, Supersede, SaveTx, SavePrePayment, FindValidation,
         FindCustomer, StoreCustomer, ReuseIntent, NoIntentFound, CreateIntent, FindIntentPlan,
         SaveIntentTx, FindNextPlan, CountPlans, CreateFirstPlan, stripe
<1>3. CASE WebhookStep(h)
  BY <1>3, ZenonT(30)
     DEF WebhookStep, FindTx, FindPayer, FindUser, SaveCard, Refund, CreatePaidPlan, SetActive,
         StoreTariff, SettleById, CancelOthers, SettleRows, FindFailedTx, FindRowToFail,
         FailValidation, FindDebtor, ReplaceIntent, FailTx, FindSubscriber, FindPendingTx,
         ReadPlan, StoreNext, LinkTx, stripe
<1>4. CASE CronStep(h)
  BY <1>4, ZenonT(30)
     DEF CronStep, CronUser, CronPlan, CronStatus, CronLast, CronCreate, CronTariff, stripe
<1>5. QED
  BY <1>1, <1>2, <1>3, <1>4 DEF Step

LEMMA SubsStep ==
  ASSUME TypedState, StripeRows', NEW h \in Handlers, Step(h)
  PROVE  SubsTyped' /\ CustomersTyped'
<1>1. /\ StripeRows /\ SubsTyped /\ CustomersTyped
      /\ Fits(handlers[h]) /\ Knows(handlers[h]) /\ Needs(handlers[h])
  BY CallTyped, StripeParts DEF TypedState, TypesInv, StartInv, OutcomeInv, RowsInv
<1>2. UNCHANGED subs => SubsTyped'
  BY <1>1 DEF SubsTyped
<1>3. UNCHANGED customers => CustomersTyped'
  BY <1>1 DEF CustomersTyped
<1>4. CASE DeleteSubs(h)
  <2>1. UNCHANGED customers /\ DOMAIN subs' = DOMAIN subs
    BY <1>4 DEF DeleteSubs
  <2>2. Len(subs') = Len(subs)
    BY <1>1, <2>1, LengthStays DEF StripeRows
  <2>3. ASSUME NEW s \in DOMAIN subs PROVE subs'[s] \in Sub
    <3>1. subs[s] \in Sub
      BY <1>1 DEF SubsTyped
    <3>2. subs'[s] = subs[s] \/ subs'[s] = [subs[s] EXCEPT !.live = FALSE]
      BY <1>4 DEF DeleteSubs
    <3>3. QED
      BY <3>1, <3>2 DEF Sub
  <2>4. QED
    BY <1>1, <1>3, <2>1, <2>2, <2>3 DEF SubsTyped
<1>5. CASE CreateSub(h) /\ subs' # subs
  <2>1. PICK c, row : c = handlers[h].me.customer /\ row = [live |-> TRUE, customer |-> c]
    OBVIOUS
  <2>2. /\ At(h, "createSub") /\ c # None /\ Len(subs) < MaxSubs
        /\ subs' = Append(subs, row) /\ UNCHANGED customers
    BY <1>5, <2>1 DEF CreateSub
  <2>3. handlers[h].me \in User
    BY <1>1, <2>2 DEF At, Needs, Asks, Party, Searching, WebhookTask
  <2>4. row \in Sub
    BY <2>1, <2>2, <2>3 DEF Sub, User, Maybe
  <2>5. PICK s, table : s = subs /\ table = subs'
    OBVIOUS
  <2>6. IsTable(s) /\ Grown(s, row, table)
    BY <1>1, <2>2, <2>5, AppendedTable DEF StripeRows
  <2>7. /\ Len(s) \in Nat /\ Len(table) = Len(s) + 1
        /\ \A k \in DOMAIN table : \/ k \in DOMAIN s /\ table[k] = s[k]
                                   \/ k = Len(s) + 1 /\ table[k] = row
    BY <2>6, LengthGrows
  <2>8. QED
    BY <1>1, <1>3, <2>2, <2>4, <2>5, <2>7, RoomAssumption DEF SubsTyped
<1>6. CASE CreateCustomer(h)
  <2>1. PICK u : u = handlers[h].user
    OBVIOUS
  <2>2. /\ At(h, "createCustomer") /\ Len(customers) < MaxCustomers
        /\ customers' = Append(customers, u) /\ UNCHANGED subs
    BY <1>6, <2>1 DEF CreateCustomer
  <2>3. u \in Users
    <3>1. handlers[h].task \in {"getSecret", "initialize"}
      BY <1>1, <2>2 DEF At, Fits, PlaceFits
    <3>2. QED
      BY <1>1, <2>1, <3>1 DEF Knows, WhoKnown, RequestTask
  <2>4. PICK s, table : s = customers /\ table = customers'
    OBVIOUS
  <2>5. IsTable(s) /\ Grown(s, u, table)
    BY <1>1, <2>2, <2>4, AppendedTable DEF StripeRows
  <2>6. /\ Len(s) \in Nat /\ Len(table) = Len(s) + 1
        /\ \A k \in DOMAIN table : \/ k \in DOMAIN s /\ table[k] = s[k]
                                   \/ k = Len(s) + 1 /\ table[k] = u
    BY <2>5, LengthGrows
  <2>7. QED
    BY <1>1, <1>2, <2>2, <2>3, <2>4, <2>6, RoomAssumption DEF CustomersTyped
<1>7. CASE UNCHANGED <<subs, customers>>
  BY <1>2, <1>3, <1>7
<1>8. QED
  <2>1. CreateSub(h) => UNCHANGED customers
    BY DEF CreateSub
  <2>2. QED
    BY <1>4, <1>5, <1>6, <1>7, <2>1, SubsRead

\* Every step.
LEMMA StripeStepTyped ==
  ASSUME TypedState, StripeRows', [Next]_vars PROVE StripeTyped'
<1>1. IntentsTyped' /\ SubsTyped' /\ CustomersTyped'
  <2>1. ASSUME NEW h \in Handlers, Step(h)
        PROVE  IntentsTyped' /\ SubsTyped' /\ CustomersTyped'
    BY <2>1, IntentsStep, SubsStep
  <2>2. CASE Elsewhere
    <3>1. SubsTyped /\ CustomersTyped
      BY StripeParts DEF TypedState, TypesInv
    <3>2. UNCHANGED <<subs, customers>>
      BY <2>2, LeftAlone
    <3>3. SubsTyped' /\ CustomersTyped'
      BY <3>1, <3>2 DEF SubsTyped, CustomersTyped
    <3>4. QED
      BY <2>2, <3>3, IntentsOutside
  <2>3. QED
    BY <2>1, <2>2 DEF Next, Elsewhere
<1>2. QED
  BY <1>1 DEF StripeTyped, IntentsTyped, IntentTyped, SubsTyped, CustomersTyped

----------------------------------------------------------------------------
(* The records of the users, and their cards.                                *)

UsersTyped == \A u \in Users : users[u] \in User

\* Nothing but a step of this kind writes the records, and SaveCard the cards.
LEMMA RecordsRead ==
  ASSUME NEW h, Step(h)
  PROVE  (UserStep(h) \/ UNCHANGED users) /\ (SaveCard(h) \/ UNCHANGED cards)
<1>1. CASE SharedStep(h)
  BY <1>1
     DEF SharedStep, UserStep, ListSubs, DeleteSubs, CreateSub, SetStatus, DropNext,
         Deactivate, Activate, ActivateFails, world
<1>2. CASE RequestStep(h)
  BY <1>2, ZenonT(30)
     DEF RequestStep, UserStep, FindPlans, FindTrialCard, FindCurrent, FindLast, DeletePlan,
         FindCard, FindPlan, CreatePlan, AttachCard, Supersede, SaveTx, SavePrePayment,
         FindValidation, FindCustomer, CreateCustomer, StoreCustomer, ReuseIntent,
         NoIntentFound, CreateIntent, FindIntentPlan, SaveIntentTx, FindNextPlan, CountPlans,
         CreateFirstPlan, world
<1>3. CASE WebhookStep(h)
  BY <1>3, ZenonT(30)
     DEF WebhookStep, UserStep, FindTx, FindPayer, FindUser, SaveCard, Refund, CreatePaidPlan,
         SetActive, StoreTariff, SettleById, CancelOthers, SettleRows, FindFailedTx,
         FindRowToFail, FailValidation, FindDebtor, ReplaceIntent, FailTx, FindSubscriber,
         FindPendingTx, ReadPlan, StoreNext, LinkTx, world
<1>4. CASE CronStep(h)
  BY <1>4, ZenonT(30)
     DEF CronStep, UserStep, CronUser, CronPlan, CronStatus, CronLast, CronCreate, CronTariff,
         world
<1>5. QED
  BY <1>1, <1>2, <1>3, <1>4 DEF Step

\* One field of one record is written.
LEMMA UserRestated ==
  ASSUME UserRows, UsersTyped, NEW u, NEW v,
         \/ v \in Status /\ users' = [users EXCEPT ![u].status = v]
         \/ v \in Tariffs /\ users' = [users EXCEPT ![u].tariff = v]
         \/ v \in Maybe(Tariffs) /\ users' = [users EXCEPT ![u].next = v]
         \/ v \in Maybe(1..MaxCustomers) /\ users' = [users EXCEPT ![u].customer = v]
  PROVE  UsersTyped'
<1> SUFFICES ASSUME NEW w \in Users PROVE users'[w] \in User
  BY DEF UsersTyped
<1>1. users[w] \in User
  BY DEF UsersTyped
<1>2. \/ users'[w] = users[w]
      \/ v \in Status /\ users'[w] = [users[w] EXCEPT !.status = v]
      \/ v \in Tariffs /\ users'[w] = [users[w] EXCEPT !.tariff = v]
      \/ v \in Maybe(Tariffs) /\ users'[w] = [users[w] EXCEPT !.next = v]
      \/ v \in Maybe(1..MaxCustomers) /\ users'[w] = [users[w] EXCEPT !.customer = v]
  BY DEF UserRows
<1>3. QED
  BY <1>1, <1>2 DEF User

\* The steps that write records.
LEMMA UserStepTyped ==
  ASSUME TypedState, NEW h \in Handlers, UserStep(h) PROVE UsersTyped'
<1>1. /\ UserRows /\ UsersTyped /\ PlansTyped /\ now \in Nat
      /\ Fits(handlers[h]) /\ Knows(handlers[h]) /\ Locals(handlers[h]) /\ Needs(handlers[h])
  BY CallTyped
     DEF TypedState, TypesInv, StartInv, OutcomeInv, RowsInv, RecordsTyped, UsersTyped
<1>2. PICK u, p : u = handlers[h].user /\ p = handlers[h].plan
  OBVIOUS
<1>3. CASE SetStatus(h) \/ SetActive(h)
  <2>1. PICK v \in Status : users' = [users EXCEPT ![u].status = v]
    BY <1>2, <1>3 DEF SetStatus, SetActive, Status
  <2>2. QED
    BY <1>1, <2>1, UserRestated
<1>4. CASE DropNext(h)
  <2>1. users' = [users EXCEPT ![u].next = None] /\ None \in Maybe(Tariffs)
    BY <1>2, <1>4 DEF DropNext, Maybe
  <2>2. QED
    BY <1>1, <2>1, UserRestated
<1>5. CASE StoreCustomer(h)
  <2>1. PICK v : v = handlers[h].customer
    OBVIOUS
  <2>2. users' = [users EXCEPT ![u].customer = v] /\ v \in Maybe(1..MaxCustomers)
    BY <1>1, <1>2, <1>5, <2>1 DEF StoreCustomer, Locals
  <2>3. QED
    BY <1>1, <2>2, UserRestated
<1>6. ASSUME handlers[h].at \in OnAPlan
      PROVE  p \in DOMAIN plans /\ plans[p] \in Plan /\ plans[p].tariff \in Tariffs
  BY <1>1, <1>2, <1>6 DEF Needs, Asks, PlansTyped, Plan
<1>7. CASE StoreTariff(h) \/ CronTariff(h)
  <2>1. plans[p].tariff \in Tariffs
    BY <1>6, <1>7 DEF StoreTariff, CronTariff, At, OnAPlan
  <2>2. PICK v : v = plans[p].tariff
    OBVIOUS
  <2>3. UNCHANGED users \/ users' = [users EXCEPT ![u].tariff = v]
    BY <1>2, <1>7, <2>2 DEF StoreTariff, CronTariff
  <2>4. CASE UNCHANGED users
    BY <1>1, <2>4 DEF UsersTyped
  <2>5. QED
    BY <1>1, <2>1, <2>2, <2>3, <2>4, UserRestated
<1>8. CASE StoreNext(h)
  <2>1. PICK v : v = plans[p].tariff
    OBVIOUS
  <2>2. v \in Maybe(Tariffs)
    BY <1>6, <1>8, <2>1 DEF StoreNext, At, OnAPlan, Maybe
  <2>3. users' = [users EXCEPT ![u].next = v]
    BY <1>2, <1>8, <2>1 DEF StoreNext
  <2>4. QED
    BY <1>1, <2>2, <2>3, UserRestated
<1>9. CASE CronStatus(h)
  <2>1. PICK v : v = Chosen[handlers[h].at]
    OBVIOUS
  <2>2. v \in Status
    <3>1. handlers[h].at \in {"cronRequire", "cronExpire"}
      BY <1>1, <1>9 DEF CronStatus, Chosen, Locals, Place
    <3>2. QED
      BY <2>1, <3>1 DEF Chosen, Status
  <2>3. users' = [users EXCEPT ![u].status = v]
    BY <1>2, <1>9, <2>1 DEF CronStatus
  <2>4. QED
    BY <1>1, <2>2, <2>3, UserRestated
<1>10. QED
  BY <1>3, <1>4, <1>5, <1>7, <1>8, <1>9 DEF UserStep

\* A card that is saved has paid.
LEMMA CardSaved ==
  ASSUME TypedState, NEW h \in Handlers, SaveCard(h) PROVE cards' \in [Users -> Wallet]
<1>1. /\ cards \in [Users -> Wallet] /\ StripeTyped /\ HandlersFit
      /\ Fits(handlers[h]) /\ Knows(handlers[h])
  BY CallTyped, CallKnown DEF TypedState, TypesInv, RecordsTyped
<1>2. handlers[h].task = "intentSucceeded" /\ At(h, "saveCard")
  BY <1>1 DEF SaveCard, At, Fits, PlaceFits
<1>3. PICK u, card : u = handlers[h].user /\ card = intents[About(h)].card
  OBVIOUS
<1>4. card \in Cards
  <2>1. About(h) \in DOMAIN intents /\ intents[About(h)].state = "paid"
    BY <1>1, <1>2, WebhookKnows
  <2>2. QED
    BY <1>1, <1>3, <2>1 DEF StripeTyped
<1>5. PICK default \in {card, cards[u].default} :
         cards' = [cards EXCEPT ![u].stored = @ \cup {card}, ![u].default = default]
  BY <1>3 DEF SaveCard
<1>6. ASSUME NEW w \in Users PROVE cards'[w] \in Wallet
  <2>1. cards[w] \in Wallet
    BY <1>1
  <2>2. CASE w # u
    BY <1>1, <1>5, <2>1, <2>2
  <2>3. CASE w = u
    <3>1. cards'[w] = [cards[w] EXCEPT !.stored = @ \cup {card}, !.default = default]
      BY <1>1, <1>5, <2>3
    <3>2. PICK stored : stored = cards[w].stored \cup {card}
      OBVIOUS
    <3>3. stored \in SUBSET Cards
      BY <1>4, <2>1, <3>2 DEF Wallet
    <3>4. default \in Maybe(Cards)
      BY <1>4, <1>5, <2>1, <2>3 DEF Wallet, Maybe
    <3>5. cards'[w] = [stored |-> stored, default |-> default]
      BY <2>1, <3>1, <3>2 DEF Wallet
    <3>6. QED
      BY <3>3, <3>4, <3>5 DEF Wallet
  <2>4. QED
    BY <2>2, <2>3
<1>7. cards' = [w \in Users |-> cards'[w]]
  BY <1>1, <1>5
<1>8. QED
  BY <1>6, <1>7

\* Every step.
LEMMA RecordsStep ==
  ASSUME TypedState, [Next]_vars PROVE RecordsTyped'
<1>1. UsersTyped /\ cards \in [Users -> Wallet]
  BY DEF TypedState, TypesInv, RecordsTyped, UsersTyped
<1>2. UNCHANGED users => UsersTyped'
  BY <1>1 DEF UsersTyped
<1>3. UsersTyped' /\ cards' \in [Users -> Wallet]
  <2>1. ASSUME NEW h \in Handlers, Step(h) PROVE UsersTyped' /\ cards' \in [Users -> Wallet]
    BY <1>1, <1>2, <2>1, RecordsRead, UserStepTyped, CardSaved
  <2>2. CASE Elsewhere
    <3>1. UNCHANGED <<users, cards>>
      BY <2>2, LeftAlone
    <3>2. QED
      BY <1>1, <1>2, <3>1
  <2>3. QED
    BY <2>1, <2>2 DEF Next, Elsewhere
<1>4. QED
  BY <1>3 DEF RecordsTyped, UsersTyped

----------------------------------------------------------------------------
(* Calls in flight.                                                          *)

(* What a call goes by is still there after a step.                          *)
Growing ==
    /\ PlansGrown /\ Evolved
    /\ now' \in Nat /\ now' >= now
    /\ \A p \in DOMAIN plans : plans[p].start \in Nat

\* Time goes by, and requests and faults are spent.
LEMMA ClockStep ==
  ASSUME TypedState, [Next]_vars
  PROVE  now' \in Nat /\ now' >= now /\ budget' \in Budget
<1>1. now \in Nat /\ budget \in Budget
  BY DEF TypedState, TypesInv
<1>2. CASE UNCHANGED <<now, budget>>
  BY <1>1, <1>2
<1>3. ASSUME NEW h \in Handlers, Request(h) PROVE UNCHANGED now /\ budget' \in Budget
  <2>1. /\ UNCHANGED now /\ budget.requests > 0
        /\ budget' = [budget EXCEPT !.requests = @ - 1]
    BY <1>3, ZenonT(30)
       DEF Request, Call, SubscribeRequest, SwitchRequest, SetTrialRequest, SecretRequest,
           ValidationRequest, CancelNextRequest, UnsubscribeRequest, RenovateRequest,
           InitializeRequest
  <2>2. QED
    BY <1>1, <2>1 DEF Budget
<1>4. ASSUME UNCHANGED now, Fault PROVE UNCHANGED now /\ budget' \in Budget
  BY <1>1, <1>4 DEF Fault, Budget
<1>5. CASE Tick
  BY <1>1, <1>5 DEF Tick, Budget
<1>6. ASSUME NEW h \in Handlers, Step(h) PROVE UNCHANGED <<now, budget>>
  <2>1. CASE SharedStep(h)
    BY <2>1
       DEF SharedStep, ListSubs, DeleteSubs, CreateSub, SetStatus, DropNext, Deactivate,
           Activate, ActivateFails, world
  <2>2. CASE RequestStep(h)
    BY <2>2, ZenonT(30)
       DEF RequestStep, FindPlans, FindTrialCard, FindCurrent, FindLast, DeletePlan,
           FindCard, FindPlan, CreatePlan, AttachCard, Supersede, SaveTx, SavePrePayment,
           FindValidation, FindCustomer, CreateCustomer, StoreCustomer, ReuseIntent,
           NoIntentFound, CreateIntent, FindIntentPlan, SaveIntentTx, FindNextPlan,
           CountPlans, CreateFirstPlan, world
  <2>3. CASE WebhookStep(h)
    BY <2>3, ZenonT(30)
       DEF WebhookStep, FindTx, FindPayer, FindUser, SaveCard, Refund, CreatePaidPlan,
           SetActive, StoreTariff, SettleById, CancelOthers, SettleRows, FindFailedTx,
           FindRowToFail, FailValidation, FindDebtor, ReplaceIntent, FailTx,
           FindSubscriber, FindPendingTx, ReadPlan, StoreNext, LinkTx, world
  <2>4. CASE CronStep(h)
    BY <2>4, ZenonT(30)
       DEF CronStep, CronUser, CronPlan, CronStatus, CronLast, CronCreate, CronTariff, world
  <2>5. QED
    BY <1>6, <2>1, <2>2, <2>3, <2>4 DEF Step
<1>7. ASSUME NEW h \in Handlers,
             (\E e \in events.pending : Deliver(h, e)) \/ \E u \in Users : CronBegin(h, u)
      PROVE  UNCHANGED <<now, budget>>
  BY <1>7, ZenonT(30) DEF Deliver, CronBegin, world
<1>8. ASSUME NEW i \in DOMAIN intents
      PROVE  /\ (\E card \in Cards : Pay(i, card)) => UNCHANGED <<now, budget>>
             /\ Decline(i) \/ CancelIntent(i) => UNCHANGED now /\ Fault
  BY ZenonT(30) DEF Pay, Decline, CancelIntent, world
<1>9. CASE \/ \E e \in events.acked \cup InFlight : DeliverAgain(e)
           \/ Crash \/ \E h \in Handlers : CallFails(h)
  <2>1. UNCHANGED now /\ Fault
    BY <1>9, ZenonT(30) DEF DeliverAgain, Crash, CallFails
  <2>2. QED
    BY <1>1, <1>4, <2>1
<1>10. CASE UNCHANGED vars
  BY <1>2, <1>10 DEF vars
<1>11. QED
  BY <1>1, <1>2, <1>3, <1>4, <1>5, <1>6, <1>7, <1>8, <1>9, <1>10 DEF Next

\* What a call knew stays true.
LEMMA TypedKept ==
  ASSUME Growing, now \in Nat, NEW r, Typed(r) PROVE Typed(r)'
<1>1. Locals(r) /\ Party(r) /\ Asks(r)
  BY DEF Typed, Needs
<1>2. DOMAIN plans \subseteq DOMAIN plans' /\ DOMAIN txs \subseteq DOMAIN txs'
      /\ DOMAIN intents \subseteq DOMAIN intents'
  BY DEF Growing, PlansGrown, Evolved, Kept
<1>3. Locals(r)'
  BY <1>1, <1>2 DEF Locals, Maybe
<1>4. Party(r)'
  BY <1>1 DEF Party
<1>5. Asks(r)'
  <2>1. r.at = "createPaidPlan" => r.tx \in DOMAIN txs' /\ ~Validates(r.tx)'
    BY <1>1 DEF Asks, Growing, Evolved, Kept, OldRow, Validates
  <2>2. QED
    BY <1>1, <1>2, <2>1 DEF Asks
<1>6. QED
  BY <1>3, <1>4, <1>5 DEF Typed, Needs

\* An idle call is typed.
LEMMA IdleTyped == Typed(IdleHandler)'
<1>1. Locals(IdleHandler)'
  BY DEF Locals, IdleHandler, Place, Task, Maybe
<1>2. Party(IdleHandler)' /\ Asks(IdleHandler)'
  BY DEF Party, Asks, IdleHandler, RequestTask, WebhookTask, OnAPlan
<1>3. QED
  BY <1>1, <1>2 DEF Typed, Needs

(* Places that ask for something more.                                       *)
Demanded == OnAPlan \cup {"listSubs", "deleteSubs", "createSub", "createFirstPlan",
                          "cronCreate", "createPaidPlan"}

\* Other places ask for nothing.
LEMMA FreePlace == ASSUME NEW r, r.at \notin Demanded PROVE Asks(r)'
  BY DEF Asks, Demanded, OnAPlan

\* The call that is about to move.
LEMMA CallMoving ==
  ASSUME TypedState, Growing, NEW h \in Handlers, NEW q, q = handlers[h]
  PROVE  /\ handlers = [g \in Handlers |-> handlers[g]] /\ IsHandler(q)
         /\ Locals(q)' /\ Party(q)' /\ Asks(q) /\ Asks(q)'
<1>1. now \in Nat /\ Typed(q) /\ IsHandler(q) /\ handlers = [g \in Handlers |-> handlers[g]]
  BY CallTyped DEF TypedState, TypesInv, CallsTyped
<1>2. Typed(q)'
  BY <1>1, TypedKept
<1>3. QED
  BY <1>1, <1>2 DEF Typed, Needs

\* A call goes on with its party.
LEMMA GoesTyped ==
  ASSUME NEW q, NEW r, Party(q)', Locals(r)', Asks(r)',
         r.task = q.task, r.user = q.user, r.me = q.me, r.tariff = q.tariff,
         r.type = q.type \/ r.task = "subscribe",
         r.task \in WebhookTask /\ q.at \in Searching => r.at \in Searching
  PROVE  Typed(r)'
<1>1. Party(r)'
  BY DEF Party
<1>2. QED
  BY <1>1 DEF Typed, Needs

\* A call ends.
LEMMA EndTyped ==
  ASSUME TypedState, NEW h \in Handlers, End(h) PROVE Typed(handlers[h])'
<1>1. PICK r : r = IdleHandler
  OBVIOUS
<1>2. Typed(r)'
  BY <1>1, IdleTyped DEF IdleHandler
<1>3. handlers'[h] = r
  BY <1>1, CallTyped DEF End
<1>4. QED
  BY <1>2, <1>3

\* A call goes to another place and does nothing else.
LEMMA GotoTyped ==
  ASSUME TypedState, Growing, NEW h \in Handlers, NEW place \in Place, Goto(h, place),
         NEW q, q = handlers[h],
         place \in Demanded => Asks([q EXCEPT !.at = place])',
         q.task \in WebhookTask /\ q.at \in Searching => place \in Searching
  PROVE  Typed(handlers[h])'
<1>1. /\ handlers = [g \in Handlers |-> handlers[g]] /\ IsHandler(q)
      /\ Locals(q)' /\ Party(q)'
  BY CallMoving
<1>2. PICK r : r = [q EXCEPT !.at = place]
  OBVIOUS
<1>3. handlers'[h] = r
  BY <1>1, <1>2 DEF Goto
<1>4. /\ r.task = q.task /\ r.user = q.user /\ r.me = q.me /\ r.tariff = q.tariff
      /\ r.type = q.type /\ r.at = place
  BY <1>1, <1>2 DEF IsHandler
<1>5. Locals(r)'
  BY <1>1, <1>2 DEF Locals, IsHandler
<1>6. Asks(r)'
  <2>1. CASE place \in Demanded
    <3>1. Asks([q EXCEPT !.at = place])'
      BY <2>1
    <3>2. QED
      BY <1>2, <3>1 DEF Asks
  <2>2. CASE place \notin Demanded
    BY <1>4, <2>2, FreePlace
  <2>3. QED
    BY <2>1, <2>2
<1>7. Typed(r)'
  BY <1>1, <1>4, <1>5, <1>6, GoesTyped
<1>8. QED
  BY <1>3, <1>7

\* A call goes on with other locals.
LEMMA ContinueTyped ==
  ASSUME TypedState, Growing, NEW h \in Handlers, NEW q, q = handlers[h],
         NEW r, Continue(h, r), Locals(r)', r.at \in Demanded => Asks(r)',
         r.task = q.task, r.user = q.user, r.me = q.me, r.tariff = q.tariff,
         r.type = q.type \/ r.task = "subscribe",
         r.task \in WebhookTask /\ q.at \in Searching => r.at \in Searching
  PROVE  Typed(handlers[h])'
<1>1. /\ handlers = [g \in Handlers |-> handlers[g]] /\ Party(q)'
  BY CallMoving
<1>2. Asks(r)'
  BY FreePlace
<1>3. handlers'[h] = r
  BY <1>1 DEF Continue
<1>4. Typed(r)'
  BY <1>1, <1>2, GoesTyped
<1>5. QED
  BY <1>3, <1>4

\* The rows of a table are within its room.
LEMMA WithinRoom ==
  ASSUME NEW s, IsTable(s), NEW room \in Nat, Len(s) <= room PROVE DOMAIN s \subseteq 1..room
  BY DEF IsTable

\* The steps that several kinds of calls go through.
LEMMA SharedTyped ==
  ASSUME TypedState, Growing, NEW h \in Handlers, SharedStep(h), ~Restart
  PROVE  Typed(handlers[h])'
<1>1. PICK q : q = handlers[h]
  OBVIOUS
<1>2. /\ IsHandler(q) /\ Locals(q)' /\ Asks(q) /\ Asks(q)'
  BY <1>1, CallMoving
<1>3. Fits(q) /\ PlaceFits(q) /\ StripeRows /\ StripeTyped
  BY <1>1, CallTyped
     DEF Fits, TypedState, StartInv, OutcomeInv, RowsInv, TypesInv
<1>4. End(h) => Typed(handlers[h])'
  BY EndTyped
<1>5. CASE ListSubs(h) /\ ~End(h)
  <2>1. q.at = "listSubs" /\ q.task \in RequestTask \cup {"intentSucceeded"}
    BY <1>1, <1>2, <1>5 DEF ListSubs, At, Asks
  <2>2. PICK listed : listed = LiveSubs(q.me.customer)
    OBVIOUS
  <2>3. listed \in SUBSET (1..MaxSubs)
    <3>1. DOMAIN subs \subseteq 1..MaxSubs
      BY <1>3, RoomAssumption, WithinRoom DEF StripeRows, StripeTyped
    <3>2. QED
      BY <2>2, <3>1 DEF LiveSubs
  <2>4. PICK r : r = [q EXCEPT !.at = "deleteSubs", !.listed = listed]
    OBVIOUS
  <2>5. Continue(h, r)
    BY <1>1, <1>5, <2>2, <2>4 DEF ListSubs
  <2>6. /\ r.task = q.task /\ r.user = q.user /\ r.me = q.me /\ r.tariff = q.tariff
        /\ r.type = q.type /\ r.at = "deleteSubs"
    BY <1>2, <2>4 DEF IsHandler
  <2>7. Locals(r)'
    BY <1>2, <2>3, <2>4 DEF Locals, IsHandler, Place
  <2>8. Asks(r)'
    BY <2>1, <2>6 DEF Asks, OnAPlan
  <2>9. QED
    BY <1>1, <2>1, <2>5, <2>6, <2>7, <2>8, ContinueTyped DEF Searching
<1>6. CASE DeleteSubs(h) /\ ~End(h)
  <2>1. q.at = "deleteSubs" /\ q.task \in RequestTask \cup {"intentSucceeded"}
    BY <1>1, <1>2, <1>6 DEF DeleteSubs, At, Asks
  <2>2. PICK place \in {"setStatus", "createSub", "settle"},
             outcome \in {q.outcome, "FAILED"} :
           Continue(h, [q EXCEPT !.listed = {}, !.at = place, !.outcome = outcome])
    <3>1. PICK next : next = [q EXCEPT !.listed = {}]
      OBVIOUS
    <3>2. IsHandler(next) /\ next.outcome = q.outcome
      BY <1>2, <3>1 DEF IsHandler
    <3>3. \/ \E place \in {"setStatus", "createSub"} : Continue(h, [next EXCEPT !.at = place])
          \/ Continue(h, [next EXCEPT !.at = "settle", !.outcome = "FAILED"])
      BY <1>1, <1>6, <3>1 DEF DeleteSubs, AfterDelete
    <3>4. ASSUME NEW place
          PROVE  /\ [next EXCEPT !.at = place] =
                       [q EXCEPT !.listed = {}, !.at = place, !.outcome = q.outcome]
                 /\ [next EXCEPT !.at = place, !.outcome = "FAILED"] =
                       [q EXCEPT !.listed = {}, !.at = place, !.outcome = "FAILED"]
      BY <1>2, <3>1 DEF IsHandler
    <3>5. QED
      BY <3>3, <3>4, ZenonT(30)
  <2>3. PICK r : r = [q EXCEPT !.listed = {}, !.at = place, !.outcome = outcome]
    OBVIOUS
  <2>4. /\ r.task = q.task /\ r.user = q.user /\ r.me = q.me /\ r.tariff = q.tariff
        /\ r.type = q.type /\ r.at = place
    BY <1>2, <2>3 DEF IsHandler
  <2>5. Locals(r)'
    BY <1>2, <2>3 DEF Locals, IsHandler, Place
  <2>6. Asks(r)'
    BY <2>1, <2>4 DEF Asks, OnAPlan
  <2>7. QED
    BY <1>1, <2>1, <2>2, <2>3, <2>4, <2>5, <2>6, ContinueTyped, ZenonT(30) DEF Searching
<1>7. CASE CreateSub(h) /\ ~End(h)
  <2>1. q.at = "createSub"
    BY <1>1, <1>7 DEF CreateSub, At
  <2>2. PICK place \in {"dropNext", "setStatus", "settle"} : Goto(h, place)
    BY <1>1, <1>7 DEF CreateSub, AfterCreate
  <2>3. QED
    BY <1>1, <2>1, <2>2, GotoTyped DEF Place, Demanded, OnAPlan, Searching
<1>8. CASE (SetStatus(h) \/ DropNext(h)) /\ ~End(h)
  BY <1>8 DEF SetStatus, DropNext
<1>9. CASE (Deactivate(h) \/ Activate(h)) /\ ~End(h)
  <2>1. q.at \in OnAPlan \ Searching /\ q.plan \in DOMAIN plans'
    BY <1>1, <1>2, <1>9 DEF Deactivate, Activate, At, Asks, OnAPlan, Searching
  <2>2. PICK place \in {"activate", "storeTariff"} : Goto(h, place)
    BY <1>9 DEF Deactivate, Activate
  <2>3. Asks([q EXCEPT !.at = place])'
    <3>1. PICK r : r = [q EXCEPT !.at = place]
      OBVIOUS
    <3>2. r.at = place /\ r.plan = q.plan
      BY <1>2, <3>1 DEF IsHandler
    <3>3. Asks(r)'
      BY <2>1, <3>2 DEF Asks, OnAPlan
    <3>4. QED
      BY <3>1, <3>3 DEF Asks
  <2>4. QED
    BY <1>1, <2>1, <2>2, <2>3, GotoTyped DEF Place
<1>10. CASE ActivateFails(h) /\ ~End(h)
  <2>1. q.at = "activate"
    BY <1>1, <1>10 DEF ActivateFails, At
  <2>2. PICK r : r = [q EXCEPT !.at = "settle", !.outcome = "FAILED"]
    OBVIOUS
  <2>3. q.task \in {"intentSucceeded", "subscriptionCreated", "cron"}
    BY <1>3, <2>1 DEF PlaceFits
  <2>4. Continue(h, r)
    BY <1>1, <1>10, <2>2, <2>3 DEF ActivateFails, Reject
  <2>5. /\ r.task = q.task /\ r.user = q.user /\ r.me = q.me /\ r.tariff = q.tariff
        /\ r.type = q.type /\ r.at = "settle"
    BY <1>2, <2>2 DEF IsHandler
  <2>6. Locals(r)'
    BY <1>2, <2>2 DEF Locals, IsHandler, Place
  <2>7. QED
    BY <1>1, <2>1, <2>4, <2>5, <2>6, ContinueTyped DEF Searching, Demanded, OnAPlan
<1>11. QED
  BY <1>4, <1>5, <1>6, <1>7, <1>8, <1>9, <1>10 DEF SharedStep

\* Of the numbers of some rows one is the greatest.
LEMMA LastOfRows ==
  ASSUME NEW n \in Nat, NEW T, T \subseteq 1..n, T # {}
  PROVE  \E m \in T : \A k \in T : k <= m
<1>1. PICK R : R = OpToRel(<, Nat)
  BY ZenonT(30)
<1>2. IsWellFoundedOn(R, Nat)
  BY <1>1, NatLessThanWellFounded, ZenonT(30)
<1>3. \A x, y \in Nat : x < y => <<x, y>> \in R
  BY <1>1 DEF OpToRel
<1>4. PICK D : D = {n - k : k \in T}
  OBVIOUS
<1>5. D \subseteq Nat /\ D # {}
  <2>1. \A k \in T : n - k \in Nat
    OBVIOUS
  <2>2. QED
    BY <1>4, <2>1
<1>6. PICK d \in D : \A e \in D : ~ (<<e, d>> \in R)
  BY <1>2, <1>5, WFMin
<1>7. PICK m \in T : d = n - m
  BY <1>4
<1>8. ASSUME NEW k \in T PROVE k <= m
  <2>1. PICK e \in D : e = n - k
    BY <1>4
  <2>2. ~ (e < d)
    BY <1>3, <1>5, <1>6
  <2>3. k \in Nat /\ m \in Nat
    OBVIOUS
  <2>4. QED
    BY <1>7, <2>1, <2>2, <2>3
<1>9. QED
  BY <1>8

\* What the queries of plans find is there.
LEMMA PlansFound ==
  ASSUME TypedState, Growing, NEW u
  PROVE  /\ LastForUser(u) \in Maybe(DOMAIN plans) /\ LastForUser(u) \in Maybe(DOMAIN plans')
         /\ \A tariff : \A p \in ActiveForUser(u, tariff) :
               p \in Maybe(DOMAIN plans) /\ p \in Maybe(DOMAIN plans')
<1>1. DOMAIN plans = 1..Len(plans) /\ Len(plans) \in Nat /\ DOMAIN plans \subseteq DOMAIN plans'
  BY DEF TypedState, PlanRows, IsTable, Growing, PlansGrown
<1>2. PlansOf(u) \subseteq DOMAIN plans
  BY DEF PlansOf
<1>3. LastForUser(u) \in Maybe(DOMAIN plans)
  <2>1. PICK T : T = PlansOf(u)
    OBVIOUS
  <2>2. CASE T = {}
    BY <2>1, <2>2 DEF LastForUser, Maybe
  <2>3. CASE T # {}
    <3>1. \E m \in T : \A k \in T : k <= m
      BY <1>1, <1>2, <2>1, <2>3, LastOfRows
    <3>2. LastForUser(u) = CHOOSE m \in T : \A k \in T : k <= m
      BY <2>1, <2>3 DEF LastForUser
    <3>3. LastForUser(u) \in T
      BY <3>1, <3>2
    <3>4. QED
      BY <1>2, <2>1, <3>3 DEF Maybe
  <2>4. QED
    BY <2>2, <2>3
<1>4. \A tariff : \A p \in ActiveForUser(u, tariff) : p \in Maybe(DOMAIN plans)
  BY <1>2 DEF ActiveForUser, ActivePlans, Maybe
<1>5. QED
  BY <1>1, <1>3, <1>4 DEF Maybe

\* The steps of requests that only go to another place.
LEMMA GoneTyped ==
  ASSUME TypedState, Growing, NEW h \in Handlers,
         \/ FindPlans(h) \/ FindTrialCard(h) \/ AttachCard(h) \/ Supersede(h) \/ SaveTx(h)
         \/ SavePrePayment(h) \/ FindValidation(h) \/ StoreCustomer(h) \/ NoIntentFound(h)
         \/ CountPlans(h) \/ CreateFirstPlan(h)
  PROVE  Typed(handlers[h])'
<1>1. PICK q : q = handlers[h]
  OBVIOUS
<1>2. IsHandler(q) /\ Asks(q) /\ Asks(q)' /\ PlaceFits(q)
  BY <1>1, CallMoving, CallTyped DEF Fits
<1>3. End(h) => Typed(handlers[h])'
  BY EndTyped
<1>4. q.task \notin WebhookTask
  <2>1. q.at \in {"findPlans", "findTrialCard", "attachCard", "supersede", "saveTx",
                  "savePrePayment", "findValidation", "storeCustomer", "findIntent",
                  "countPlans", "createFirstPlan"}
    BY <1>1
       DEF FindPlans, FindTrialCard, AttachCard, Supersede, SaveTx, SavePrePayment,
           FindValidation, StoreCustomer, NoIntentFound, CountPlans, CreateFirstPlan, At
  <2>2. q.task \in {"subscribe", "getSecret", "initialize"}
    BY <1>2, <2>1 DEF PlaceFits, Asks
  <2>3. QED
    BY <2>2 DEF WebhookTask
<1>5. ASSUME NEW place \in Place, Goto(h, place),
             \/ place \notin Demanded
             \/ place = "listSubs" /\ q.task \in RequestTask
             \/ place = "createFirstPlan" /\ q.task = "initialize"
      PROVE  Typed(handlers[h])'
  <2>1. place \in Demanded => Asks([q EXCEPT !.at = place])'
    <3>1. PICK r : r = [q EXCEPT !.at = place]
      OBVIOUS
    <3>2. r.at = place /\ r.task = q.task
      BY <1>2, <3>1 DEF IsHandler
    <3>3. place \in Demanded => Asks(r)'
      BY <1>5, <3>2 DEF Asks, OnAPlan
    <3>4. QED
      BY <3>1, <3>3 DEF Asks
  <2>2. QED
    BY <1>1, <1>4, <1>5, <2>1, GotoTyped
<1>6. CASE \/ FindPlans(h) \/ FindTrialCard(h) \/ AttachCard(h) \/ Supersede(h)
           \/ SavePrePayment(h) \/ FindValidation(h) \/ NoIntentFound(h) \/ CountPlans(h)
           \/ CreateFirstPlan(h)
  <2>1. \/ End(h)
        \/ \E place \in {"findCard", "findTrialCard", "findCurrent", "supersede", "saveTx",
                         "findCustomer", "createIntent", "createCustomer"} : Goto(h, place)
    BY <1>6 DEF FindPlans, FindTrialCard, AttachCard, Supersede, SavePrePayment,
       FindValidation, NoIntentFound, CountPlans, CreateFirstPlan, Show
  <2>2. QED
    BY <1>3, <1>5, <2>1 DEF Place, Demanded, OnAPlan
<1>7. CASE SaveTx(h)
  <2>1. q.task \in RequestTask
    BY <1>1, <1>2, <1>7 DEF SaveTx, At, PlaceFits, RequestTask
  <2>2. QED
    BY <1>5, <1>7, <2>1 DEF SaveTx, Place
<1>8. CASE StoreCustomer(h)
  BY <1>1, <1>5, <1>8 DEF StoreCustomer, Place, Demanded, OnAPlan
<1>9. QED
  BY <1>6, <1>7, <1>8

(* A request goes on with what does not change while it runs.                *)
SameRequest(q, r) ==
    /\ r.task = q.task /\ r.user = q.user /\ r.me = q.me /\ r.tariff = q.tariff
    /\ r.tx = q.tx /\ r.listed = q.listed /\ r.replaces = q.replaces /\ r.round = q.round

\* A request goes on with what it has found or created.
LEMMA RequestContinues ==
  ASSUME TypedState, Growing, NEW h \in Handlers, NEW q, q = handlers[h],
         q.task \notin WebhookTask, NEW r, Continue(h, r), SameRequest(q, r),
         r.at \in Place, r.at \in Demanded => Asks(r)',
         r.type = q.type \/ (r.task = "subscribe" /\ r.type \in TxType),
         r.plan \in {q.plan} \cup Maybe(DOMAIN plans'),
         r.other \in {q.other} \cup Maybe(DOMAIN plans'),
         r.card \in {q.card} \cup Maybe(Cards),
         r.customer \in {q.customer} \cup Maybe(1..MaxCustomers),
         r.intent \in {q.intent} \cup Maybe(DOMAIN intents')
  PROVE  Typed(handlers[h])'
<1>1. Locals(q)'
  BY CallMoving
<1>2. Locals(r)'
  BY <1>1 DEF Locals, SameRequest, Maybe
<1>3. QED
  BY <1>2, ContinueTyped DEF SameRequest

\* A request finds a plan.
LEMMA PlanFinderTyped ==
  ASSUME TypedState, Growing, NEW h \in Handlers,
         FindCurrent(h) \/ FindLast(h) \/ FindPlan(h) \/ FindIntentPlan(h) \/ FindNextPlan(h)
  PROVE  Typed(handlers[h])'
<1>1. PICK q : q = handlers[h]
  OBVIOUS
<1>2. IsHandler(q) /\ PlaceFits(q)
  BY <1>1, CallMoving, CallTyped DEF Fits
<1>3. End(h) => Typed(handlers[h])'
  BY EndTyped
<1>4. q.task \notin WebhookTask
  <2>1. q.at \in {"findCurrent", "findLast", "findPlan", "findIntentPlan", "findNextPlan"}
    BY <1>1, ZenonT(30)
       DEF FindCurrent, FindLast, FindPlan, FindIntentPlan, FindNextPlan, At
  <2>2. q.task \in {"subscribe", "getSecret", "cancelNext"}
    BY <1>2, <2>1 DEF PlaceFits
  <2>3. QED
    BY <2>2 DEF WebhookTask
<1>5. ASSUME NEW place \in Place \ Demanded, NEW p \in Maybe(DOMAIN plans'),
             \/ Continue(h, [q EXCEPT !.at = place, !.plan = p])
             \/ Continue(h, [q EXCEPT !.at = place, !.other = p])
      PROVE  Typed(handlers[h])'
  <2>1. PICK r : /\ \/ r = [q EXCEPT !.at = place, !.plan = p]
                    \/ r = [q EXCEPT !.at = place, !.other = p]
                 /\ Continue(h, r)
    BY <1>5
  <2>2. /\ SameRequest(q, r) /\ r.at = place /\ r.type = q.type
        /\ r.plan \in {q.plan, p} /\ r.other \in {q.other, p}
        /\ r.card = q.card /\ r.customer = q.customer /\ r.intent = q.intent
    BY <1>2, <2>1 DEF IsHandler, SameRequest
  <2>3. QED
    BY <1>1, <1>4, <2>1, <2>2, RequestContinues
<1>6. CASE FindCurrent(h) \/ FindPlan(h) \/ FindIntentPlan(h)
  <2>1. PICK p \in ActiveForUser(q.user, q.me.tariff) :
           \/ End(h)
           \/ \E place \in {"findLast", "createPlan"} :
                 Continue(h, [q EXCEPT !.at = place, !.plan = p])
           \/ Continue(h, [q EXCEPT !.at = "saveIntentTx", !.other = p])
    BY <1>1, <1>6, ZenonT(30) DEF FindCurrent, FindPlan, FindIntentPlan
  <2>2. p \in Maybe(DOMAIN plans')
    BY <2>1, PlansFound
  <2>3. QED
    BY <1>3, <1>5, <2>1, <2>2, ZenonT(30) DEF Place, Demanded, OnAPlan
<1>7. CASE FindNextPlan(h)
  <2>1. DOMAIN plans \subseteq DOMAIN plans'
    BY DEF Growing, PlansGrown
  <2>2. \/ End(h)
        \/ \E p \in DOMAIN plans : Continue(h, [q EXCEPT !.at = "deletePlan", !.other = p])
    BY <1>1, <1>7, ZenonT(30) DEF FindNextPlan, PlansOf
  <2>3. QED
    BY <1>3, <1>5, <2>1, <2>2, ZenonT(30) DEF Place, Demanded, OnAPlan, Maybe
<1>8. CASE FindLast(h)
  <2>1. q.at = "findLast"
    BY <1>1, <1>8 DEF FindLast, At
  <2>2. q.task = "subscribe"
    BY <1>2, <2>1 DEF PlaceFits
  <2>3. PICK last : last = LastForUser(q.user)
    OBVIOUS
  <2>4. last \in Maybe(DOMAIN plans')
    BY <2>3, PlansFound
  <2>5. PICK locals : locals = [q EXCEPT !.plan = None, !.type = "DELAYED_SUBSCRIPTION"]
    OBVIOUS
  <2>6. \/ End(h)
        \/ Continue(h, [locals EXCEPT !.at = "findCard"])
        \/ Continue(h, [locals EXCEPT !.at = "deletePlan", !.other = last])
    BY <1>1, <1>8, <2>3, <2>5 DEF FindLast
  <2>7. CASE \/ Continue(h, [locals EXCEPT !.at = "findCard"])
             \/ Continue(h, [locals EXCEPT !.at = "deletePlan", !.other = last])
    <3>1. PICK r : /\ \/ r = [locals EXCEPT !.at = "findCard"]
                      \/ r = [locals EXCEPT !.at = "deletePlan", !.other = last]
                   /\ Continue(h, r)
      BY <2>7
    <3>2. /\ SameRequest(q, r) /\ r.at \in {"findCard", "deletePlan"}
          /\ r.type = "DELAYED_SUBSCRIPTION" /\ r.plan = None /\ r.other \in {q.other, last}
          /\ r.card = q.card /\ r.customer = q.customer /\ r.intent = q.intent
      <4>1. /\ IsHandler(locals) /\ SameRequest(q, locals)
            /\ locals.type = "DELAYED_SUBSCRIPTION" /\ locals.plan = None
            /\ locals.other = q.other /\ locals.card = q.card
            /\ locals.customer = q.customer /\ locals.intent = q.intent
        BY <1>2, <2>5 DEF IsHandler, SameRequest
      <4>2. QED
        BY <3>1, <4>1, ZenonT(30) DEF IsHandler, SameRequest
    <3>3. r.at \in Place \ Demanded /\ r.type \in TxType /\ r.plan \in Maybe(DOMAIN plans')
      BY <3>2 DEF Place, Demanded, OnAPlan, TxType, Maybe
    <3>4. r.task = "subscribe"
      BY <2>2, <3>2 DEF SameRequest
    <3>5. QED
      BY <1>1, <1>4, <2>4, <3>1, <3>2, <3>3, <3>4, RequestContinues
  <2>8. QED
    BY <1>3, <2>6, <2>7
<1>9. QED
  BY <1>6, <1>7, <1>8

\* A request deletes a plan, reads the default card, or creates a plan.
LEMMA PlanMakerTyped ==
  ASSUME TypedState, Growing, NEW h \in Handlers, DeletePlan(h) \/ FindCard(h) \/ CreatePlan(h)
  PROVE  Typed(handlers[h])'
<1>1. PICK q : q = handlers[h]
  OBVIOUS
<1>2. IsHandler(q) /\ PlaceFits(q) /\ Knows(q) /\ PlanRows /\ PlansTyped /\ RecordsTyped
  BY <1>1, CallMoving, CallTyped DEF Fits, TypedState, TypesInv
<1>3. q.task \in {"subscribe", "cancelNext"} /\ q.task \notin WebhookTask
  <2>1. q.at \in {"deletePlan", "findCard", "createPlan"}
    BY <1>1 DEF DeletePlan, FindCard, CreatePlan, At
  <2>2. q.task \in {"subscribe", "cancelNext"}
    BY <1>2, <2>1 DEF PlaceFits
  <2>3. QED
    BY <2>2 DEF WebhookTask
<1>4. CASE DeletePlan(h)
  <2>1. PICK place : /\ place = IF q.task = "cancelNext" THEN "listSubs" ELSE "findCard"
    OBVIOUS
  <2>2. PICK r : r = [q EXCEPT !.other = None, !.at = place]
    OBVIOUS
  <2>3. Continue(h, r)
    BY <1>1, <1>4, <2>1, <2>2 DEF DeletePlan
  <2>4. /\ SameRequest(q, r) /\ r.at = place /\ r.type = q.type /\ r.plan = q.plan
        /\ r.other = None /\ r.card = q.card /\ r.customer = q.customer
        /\ r.intent = q.intent
    BY <1>2, <2>2 DEF IsHandler, SameRequest
  <2>5. r.at \in Place /\ (r.at \in Demanded => Asks(r)')
    <3>1. r.task \in RequestTask
      BY <1>3, <2>4 DEF SameRequest, RequestTask
    <3>2. QED
      BY <2>1, <2>4, <3>1 DEF Place, Demanded, OnAPlan, Asks
  <2>6. QED
    BY <1>1, <1>3, <2>3, <2>4, <2>5, RequestContinues DEF Maybe
<1>5. CASE FindCard(h)
  <2>1. q.user \in Users
    BY <1>2, <1>3 DEF Knows, WhoKnown, RequestTask
  <2>2. PICK card : card = cards[q.user].default
    OBVIOUS
  <2>3. card \in Maybe(Cards)
    BY <1>2, <2>1, <2>2 DEF RecordsTyped, Wallet
  <2>4. PICK r : r = [q EXCEPT !.at = "findPlan", !.card = card]
    OBVIOUS
  <2>5. Continue(h, r)
    BY <1>1, <1>5, <2>2, <2>4 DEF FindCard
  <2>6. /\ SameRequest(q, r) /\ r.at = "findPlan" /\ r.type = q.type /\ r.plan = q.plan
        /\ r.other = q.other /\ r.card = card /\ r.customer = q.customer
        /\ r.intent = q.intent
    BY <1>2, <2>4 DEF IsHandler, SameRequest
  <2>7. r.at \in Place \ Demanded
    BY <2>6 DEF Place, Demanded, OnAPlan
  <2>8. QED
    BY <1>1, <1>3, <2>3, <2>5, <2>6, <2>7, RequestContinues
<1>6. CASE CreatePlan(h)
  <2>1. Len(plans) + 1 \in DOMAIN plans'
    <3>1. PICK row : plans' = Append(plans, row)
      BY <1>6 DEF CreatePlan
    <3>2. Grown(plans, row, plans')
      BY <1>2, <3>1, AppendedTable DEF PlanRows
    <3>3. QED
      BY <3>2 DEF Grown
  <2>2. PICK place, n :
           /\ place \in {"findIntent", "attachCard"} /\ n = Len(plans) + 1
           /\ Continue(h, [q EXCEPT !.plan = n, !.at = place])
    BY <1>1, <1>6, ZenonT(30) DEF CreatePlan
  <2>3. PICK r : r = [q EXCEPT !.plan = n, !.at = place]
    OBVIOUS
  <2>4. /\ SameRequest(q, r) /\ r.at = place /\ r.type = q.type /\ r.plan = n
        /\ r.other = q.other /\ r.card = q.card /\ r.customer = q.customer
        /\ r.intent = q.intent
    BY <1>2, <2>3 DEF IsHandler, SameRequest
  <2>5. r.at \in Place \ Demanded /\ n \in Maybe(DOMAIN plans')
    BY <2>1, <2>2, <2>4 DEF Place, Demanded, OnAPlan, Maybe
  <2>6. QED
    BY <1>1, <1>3, <2>2, <2>3, <2>4, <2>5, RequestContinues
<1>7. QED
  BY <1>4, <1>5, <1>6

\* A request reads or makes the customer of its user.
LEMMA CustomerTyped ==
  ASSUME TypedState, Growing, NEW h \in Handlers, FindCustomer(h) \/ CreateCustomer(h)
  PROVE  Typed(handlers[h])'
<1>1. PICK q : q = handlers[h]
  OBVIOUS
<1>2. /\ IsHandler(q) /\ PlaceFits(q) /\ Knows(q) /\ RecordsTyped /\ StripeTyped /\ StripeRows
  BY <1>1, CallMoving, CallTyped
     DEF Fits, TypedState, TypesInv, StartInv, OutcomeInv, RowsInv
<1>3. q.task \in {"getSecret", "initialize"} /\ q.task \notin WebhookTask /\ q.user \in Users
  <2>1. q.at \in {"findCustomer", "createCustomer"}
    BY <1>1 DEF FindCustomer, CreateCustomer, At
  <2>2. q.task \in {"getSecret", "initialize"}
    BY <1>2, <2>1 DEF PlaceFits
  <2>3. QED
    BY <1>2, <2>2 DEF WebhookTask, Knows, WhoKnown, RequestTask
<1>4. PICK c, place : /\ c \in Maybe(1..MaxCustomers)
                      /\ place \in {"createCustomer", "findIntent", "storeCustomer"}
                      /\ Continue(h, [q EXCEPT !.customer = c, !.at = place])
  <2>1. CASE FindCustomer(h)
    <3>1. users[q.user].customer \in Maybe(1..MaxCustomers)
      BY <1>2, <1>3 DEF RecordsTyped, User
    <3>2. QED
      BY <1>1, <2>1, <3>1, ZenonT(30) DEF FindCustomer
  <2>2. CASE CreateCustomer(h)
    <3>1. PICK n : n = Len(customers) + 1
      OBVIOUS
    <3>2. n \in 1..MaxCustomers
      <4>1. Len(customers) < MaxCustomers
        BY <2>2 DEF CreateCustomer
      <4>2. Len(customers) \in Nat /\ MaxCustomers \in Nat
        BY <1>2, RoomAssumption DEF StripeRows, IsTable
      <4>3. QED
        BY <3>1, <4>1, <4>2
    <3>3. Continue(h, [q EXCEPT !.at = "storeCustomer", !.customer = n])
      BY <1>1, <2>2, <3>1 DEF CreateCustomer
    <3>4. [q EXCEPT !.at = "storeCustomer", !.customer = n] =
             [q EXCEPT !.customer = n, !.at = "storeCustomer"]
      BY <1>2 DEF IsHandler
    <3>5. QED
      BY <3>2, <3>3, <3>4, ZenonT(30) DEF Maybe
  <2>3. QED
    BY <2>1, <2>2, ZenonT(30)
<1>5. PICK r : r = [q EXCEPT !.customer = c, !.at = place]
  OBVIOUS
<1>6. /\ SameRequest(q, r) /\ r.at = place /\ r.type = q.type /\ r.plan = q.plan
      /\ r.other = q.other /\ r.card = q.card /\ r.customer = c /\ r.intent = q.intent
  BY <1>2, <1>5 DEF IsHandler, SameRequest
<1>7. r.at \in Place \ Demanded
  BY <1>4, <1>6 DEF Place, Demanded, OnAPlan
<1>8. QED
  BY <1>1, <1>3, <1>4, <1>5, <1>6, <1>7, RequestContinues

\* A request reuses or creates a payment intent, or saves the row of one.
LEMMA IntentTaken ==
  ASSUME TypedState, Growing, NEW h \in Handlers,
         ReuseIntent(h) \/ CreateIntent(h) \/ SaveIntentTx(h)
  PROVE  Typed(handlers[h])'
<1>1. PICK q : q = handlers[h]
  OBVIOUS
<1>2. IsHandler(q) /\ PlaceFits(q) /\ TxRows /\ StripeRows
  BY <1>1, CallMoving, CallTyped DEF Fits, TypedState, StartInv, OutcomeInv, RowsInv
<1>3. q.task \in {"subscribe", "getSecret"} /\ q.task \notin WebhookTask
  <2>1. q.at \in {"findIntent", "createIntent", "saveIntentTx"}
    BY <1>1, ZenonT(30) DEF ReuseIntent, CreateIntent, SaveIntentTx, At
  <2>2. q.task \in {"subscribe", "getSecret"}
    BY <1>2, <2>1 DEF PlaceFits
  <2>3. QED
    BY <2>2 DEF WebhookTask
<1>4. End(h) => Typed(handlers[h])'
  BY EndTyped
<1>5. ASSUME NEW place \in {"savePrePayment", "findIntentPlan", "saveIntentTx"},
             NEW i \in DOMAIN intents' \cup {q.intent}, NEW p \in {q.other, None},
             Continue(h, [q EXCEPT !.at = place, !.intent = i, !.other = p])
      PROVE  Typed(handlers[h])'
  <2>1. PICK r : r = [q EXCEPT !.at = place, !.intent = i, !.other = p]
    OBVIOUS
  <2>2. /\ SameRequest(q, r) /\ r.at = place /\ r.type = q.type /\ r.plan = q.plan
        /\ r.other = p /\ r.card = q.card /\ r.customer = q.customer /\ r.intent = i
    BY <1>2, <2>1 DEF IsHandler, SameRequest
  <2>3. r.at \in Place \ Demanded
    BY <2>2 DEF Place, Demanded, OnAPlan
  <2>4. QED
    BY <1>1, <1>3, <1>5, <2>1, <2>2, <2>3, RequestContinues DEF Maybe
<1>6. ASSUME NEW place, NEW i
      PROVE  /\ [q EXCEPT !.at = place, !.intent = i] =
                   [q EXCEPT !.at = place, !.intent = i, !.other = q.other]
             /\ [q EXCEPT !.intent = i, !.at = place] =
                   [q EXCEPT !.at = place, !.intent = i, !.other = q.other]
             /\ [q EXCEPT !.at = place, !.other = None] =
                   [q EXCEPT !.at = place, !.intent = q.intent, !.other = None]
  BY <1>2 DEF IsHandler
<1>7. CASE ReuseIntent(h) /\ ~End(h)
  <2>1. PICK t \in DOMAIN txs :
           /\ txs[t].intent # None
           /\ Continue(h, [q EXCEPT !.at = "savePrePayment", !.intent = txs[t].intent])
    <3>1. Unfinished(h) \subseteq DOMAIN txs
      BY <1>1, <1>3 DEF Unfinished, PendingTxs, TxsOf
    <3>2. PICK t \in Unfinished(h) :
             txs[t].intent # None /\
             Continue(h, [q EXCEPT !.at = "savePrePayment", !.intent = txs[t].intent])
      BY <1>1, <1>3, <1>7, ZenonT(30) DEF ReuseIntent, Show
    <3>3. QED
      BY <3>1, <3>2, ZenonT(30)
  <2>2. PICK i : i = txs[t].intent
    OBVIOUS
  <2>3. i \in DOMAIN intents'
    BY <1>2, <2>1, <2>2 DEF TxRows, Growing, Evolved, Kept
  <2>4. Continue(h, [q EXCEPT !.at = "savePrePayment", !.intent = i, !.other = q.other])
    BY <1>6, <2>1, <2>2, ZenonT(30)
  <2>5. QED
    BY <1>5, <2>3, <2>4, ZenonT(30)
<1>8. CASE CreateIntent(h)
  <2>1. PICK i : i = Len(intents) + 1
    OBVIOUS
  <2>2. i \in DOMAIN intents'
    <3>1. PICK row : intents' = Append(intents, row)
      BY <1>8 DEF CreateIntent
    <3>2. Grown(intents, row, intents')
      BY <1>2, <3>1, AppendedTable DEF StripeRows
    <3>3. QED
      BY <2>1, <3>2 DEF Grown
  <2>3. PICK place \in {"findIntentPlan", "saveIntentTx"} :
           Continue(h, [q EXCEPT !.intent = i, !.at = place])
    BY <1>1, <1>8, <2>1 DEF CreateIntent
  <2>4. Continue(h, [q EXCEPT !.at = place, !.intent = i, !.other = q.other])
    BY <1>6, <2>3, ZenonT(30)
  <2>5. QED
    BY <1>5, <2>2, <2>4, ZenonT(30)
<1>9. CASE SaveIntentTx(h) /\ ~End(h)
  <2>1. Continue(h, [q EXCEPT !.at = "savePrePayment", !.other = None])
    BY <1>1, <1>9 DEF SaveIntentTx, Show
  <2>2. QED
    BY <1>5, <1>6, <2>1, ZenonT(30)
<1>10. QED
  BY <1>4, <1>7, <1>8, <1>9

\* Every step of a request.
LEMMA RequestTyped ==
  ASSUME TypedState, Growing, NEW h \in Handlers, RequestStep(h) PROVE Typed(handlers[h])'
  BY GoneTyped, PlanFinderTyped, PlanMakerTyped, CustomerTyped, IntentTaken DEF RequestStep

\* A webhook finds its user.
LEMMA FoundTyped ==
  ASSUME TypedState, Growing, NEW h \in Handlers, FindPayer(h) \/ FindDebtor(h) \/ FindSubscriber(h)
  PROVE  Typed(handlers[h])'
<1>1. PICK q : q = handlers[h]
  OBVIOUS
<1>2. /\ handlers = [g \in Handlers |-> handlers[g]] /\ IsHandler(q) /\ PlaceFits(q)
      /\ Locals(q)' /\ RecordsTyped
  BY <1>1, CallMoving, CallTyped DEF Fits, TypedState, TypesInv
<1>3. q.task \in WebhookTask
  BY <1>1, <1>2 DEF FindPayer, FindDebtor, FindSubscriber, At, PlaceFits, WebhookTask
<1>4. CASE End(h)
  BY <1>4, EndTyped
<1>5. CASE ~End(h)
  <2>1. PICK place \in {"saveCard", "replaceIntent", "findPendingTx"}, u \in Users :
           Continue(h, [q EXCEPT !.at = place, !.user = u, !.me = users[u]])
    BY <1>1, <1>5, ZenonT(30)
       DEF FindPayer, FindDebtor, FindSubscriber, FindUser, UsersByCustomer, Reject
  <2>2. PICK me, r : me = users[u] /\ r = [q EXCEPT !.at = place, !.user = u, !.me = me]
    BY ZenonT(30)
  <2>3. me \in User
    BY <1>2, <2>2 DEF RecordsTyped
  <2>4. r.at = place /\ r.task = q.task /\ r.me = me
    BY <1>2, <2>2 DEF IsHandler
  <2>5. Locals(r)'
    BY <1>2, <2>2, <2>3 DEF Locals, IsHandler, Place, Maybe
  <2>6. Party(r)'
    BY <1>3, <2>3, <2>4 DEF Party, WebhookTask, RequestTask
  <2>7. Asks(r)'
    BY <2>4, FreePlace DEF Demanded, OnAPlan
  <2>8. Typed(r)'
    BY <2>5, <2>6, <2>7 DEF Typed, Needs
  <2>9. handlers'[h] = r
    BY <1>2, <2>1, <2>2 DEF Continue
  <2>10. QED
    BY <2>8, <2>9
<1>6. QED
  BY <1>4, <1>5

\* A webhook finds its row.
LEMMA RowFoundTyped ==
  ASSUME TypedState, Growing, NEW h \in Handlers, FindTx(h) \/ FindPendingTx(h)
  PROVE  Typed(handlers[h])'
<1>1. PICK q : q = handlers[h]
  OBVIOUS
<1>2. IsHandler(q) /\ Locals(q)' /\ TxsTyped
  BY <1>1, CallMoving DEF TypedState, TypesInv
<1>3. CASE End(h)
  BY <1>3, EndTyped
<1>4. ASSUME NEW t \in DOMAIN txs, NEW place, NEW flag \in BOOLEAN,
             \/ q.at = "findTx" /\ place = "findPayer"
             \/ q.at = "findPendingTx" /\ place = "readPlan",
             Continue(h, [q EXCEPT !.at = place, !.tx = t, !.plan = txs[t].plan,
                                   !.replaces = flag])
      PROVE  Typed(handlers[h])'
  <2>1. PICK plan, r : /\ plan = txs[t].plan
                       /\ r = [q EXCEPT !.at = place, !.tx = t, !.plan = plan,
                                        !.replaces = flag]
    BY ZenonT(30)
  <2>2. t \in DOMAIN txs' /\ plan \in Maybe(DOMAIN plans')
    BY <1>2, <2>1, PlansNamed DEF Growing, Evolved, Kept, TxsTyped, TxTyped
  <2>3. /\ r.task = q.task /\ r.user = q.user /\ r.me = q.me /\ r.tariff = q.tariff
        /\ r.type = q.type /\ r.at = place
    BY <1>2, <2>1 DEF IsHandler
  <2>4. Locals(r)'
    BY <1>2, <1>4, <2>1, <2>2 DEF Locals, IsHandler, Place, Maybe
  <2>5. QED
    BY <1>1, <1>4, <2>1, <2>3, <2>4, ContinueTyped, ZenonT(30)
       DEF Demanded, OnAPlan, Searching
<1>5. CASE FindTx(h) /\ ~End(h)
  <2>1. PICK t \in DOMAIN txs :
           Continue(h, [q EXCEPT !.at = "findPayer", !.tx = t, !.plan = txs[t].plan,
                                 !.replaces = (txs[t].newIntent = About(h))])
    BY <1>1, <1>5, ZenonT(30) DEF FindTx, TxsByIntent, Reject
  <2>2. PICK flag \in BOOLEAN : flag = (txs[t].newIntent = About(h))
    OBVIOUS
  <2>3. Continue(h, [q EXCEPT !.at = "findPayer", !.tx = t, !.plan = txs[t].plan,
                              !.replaces = flag])
    BY <2>1, <2>2
  <2>4. q.at = "findTx"
    BY <1>1, <1>5, ZenonT(30) DEF FindTx, At
  <2>5. QED
    BY <1>4, <2>3, <2>4, ZenonT(30)
<1>6. CASE FindPendingTx(h) /\ ~End(h)
  <2>1. PICK t \in DOMAIN txs :
           Continue(h, [q EXCEPT !.at = "readPlan", !.tx = t, !.plan = txs[t].plan])
    BY <1>1, <1>6, ZenonT(30) DEF FindPendingTx, PendingTxs, TxsOf, Reject
  <2>2. PICK plan, flag : plan = txs[t].plan /\ flag = q.replaces
    OBVIOUS
  <2>3. [q EXCEPT !.at = "readPlan", !.tx = t, !.plan = plan] =
           [q EXCEPT !.at = "readPlan", !.tx = t, !.plan = plan, !.replaces = flag]
    BY <1>2, <2>2 DEF IsHandler
  <2>4. Continue(h, [q EXCEPT !.at = "readPlan", !.tx = t, !.plan = txs[t].plan,
                              !.replaces = flag])
    BY <2>1, <2>2, <2>3
  <2>5. q.at = "findPendingTx" /\ flag \in BOOLEAN
    BY <1>1, <1>2, <1>6, <2>2, ZenonT(30) DEF FindPendingTx, At, Locals
  <2>6. QED
    BY <1>4, <2>4, <2>5, ZenonT(30)
<1>7. QED
  BY <1>3, <1>5, <1>6

\* A place for a call that has a plan.
LEMMA PlanPlace ==
  ASSUME TypedState, Growing, NEW h \in Handlers, NEW q, q = handlers[h],
         NEW place \in {"activate", "deactivate", "setActive", "linkTx", "storeNext"},
         Goto(h, place), q.at \notin Searching, q.plan \in DOMAIN plans
  PROVE  Typed(handlers[h])'
<1>1. IsHandler(q) /\ q.plan \in DOMAIN plans'
  BY CallMoving DEF Growing, PlansGrown
<1>2. PICK r : r = [q EXCEPT !.at = place]
  OBVIOUS
<1>3. r.at = place /\ r.plan = q.plan
  BY <1>1, <1>2 DEF IsHandler
<1>4. Asks(r)'
  BY <1>1, <1>3 DEF Asks, OnAPlan
<1>5. Asks([q EXCEPT !.at = place])'
  BY <1>2, <1>4 DEF Asks
<1>6. QED
  BY <1>5, GotoTyped DEF Place

\* A webhook has read, activated or stored a plan.
LEMMA ActivatorTyped ==
  ASSUME TypedState, Growing, NEW h \in Handlers,
         SetActive(h) \/ StoreTariff(h) \/ StoreNext(h) \/ ReadPlan(h)
  PROVE  Typed(handlers[h])'
<1>1. PICK q : q = handlers[h]
  OBVIOUS
<1>2. IsHandler(q) /\ PlaceFits(q) /\ Asks(q) /\ Asks(q)' /\ Locals(q)
  BY <1>1, CallMoving, CallTyped DEF Fits
<1>3. CASE ReadPlan(h)
  <2>1. q.at = "readPlan"
    BY <1>1, <1>3 DEF ReadPlan, At
  <2>2. \/ End(h)
        \/ /\ q.plan # None
           /\ \E place \in {"deactivate", "storeNext"} : Goto(h, place)
    BY <1>1, <1>3 DEF ReadPlan, Reject
  <2>3. q.plan # None => q.plan \in DOMAIN plans
    BY <1>2 DEF Locals, Maybe
  <2>4. QED
    BY <1>1, <2>1, <2>2, <2>3, EndTyped, PlanPlace DEF Searching
<1>4. CASE SetActive(h) \/ StoreTariff(h) \/ StoreNext(h)
  <2>1. q.at \in {"setActive", "storeTariff", "storeNext"}
    BY <1>1, <1>4 DEF SetActive, StoreTariff, StoreNext, At
  <2>2. q.task \in {"intentSucceeded", "subscriptionCreated"} /\ q.plan \in DOMAIN plans
    BY <1>2, <2>1 DEF PlaceFits, Asks, OnAPlan
  <2>3. \/ \E place \in {"deactivate", "linkTx", "setActive"} : Goto(h, place)
        \/ Goto(h, "listSubs") /\ q.task = "intentSucceeded"
    BY <1>1, <1>4, <2>2 DEF SetActive, StoreTariff, StoreNext, AfterTariff
  <2>4. CASE Goto(h, "listSubs") /\ q.task = "intentSucceeded"
    <3>1. PICK r : r = [q EXCEPT !.at = "listSubs"]
      OBVIOUS
    <3>2. r.at = "listSubs" /\ r.task = "intentSucceeded"
      BY <1>2, <2>4, <3>1 DEF IsHandler
    <3>3. Asks(r)'
      BY <3>2 DEF Asks, OnAPlan
    <3>4. Asks([q EXCEPT !.at = "listSubs"])'
      BY <3>1, <3>3 DEF Asks
    <3>5. QED
      BY <1>1, <2>1, <2>4, <3>4, GotoTyped DEF Place, Searching
  <2>5. QED
    BY <1>1, <2>1, <2>2, <2>3, <2>4, PlanPlace DEF Searching
<1>5. QED
  BY <1>3, <1>4

\* The webhook of a payment saves the card, refunds, and inserts a plan.
LEMMA PaymentTyped ==
  ASSUME TypedState, Growing, NEW h \in Handlers,
         SaveCard(h) \/ Refund(h) \/ CreatePaidPlan(h)
  PROVE  Typed(handlers[h])'
<1>1. PICK q : q = handlers[h]
  OBVIOUS
<1>2. /\ IsHandler(q) /\ Locals(q) /\ Locals(q)' /\ Knows(q) /\ PlanRows
  BY <1>1, CallMoving, CallTyped DEF TypedState
<1>3. ASSUME NEW place \in {"refund", "settle", "createPaidPlan"}, Goto(h, place),
             q.at \in {"saveCard", "refund"},
             place = "createPaidPlan" => ~IsValidation(h)
      PROVE  Typed(handlers[h])'
  <2>1. PICK r : r = [q EXCEPT !.at = place]
    OBVIOUS
  <2>2. r.at = place /\ r.tx = q.tx
    BY <1>2, <2>1 DEF IsHandler
  <2>3. q.tx \in DOMAIN txs
    BY <1>2, <1>3 DEF Knows, ClearKnown
  <2>4. q.tx \in DOMAIN txs' /\ txs'[q.tx].type = txs[q.tx].type
    BY <2>3 DEF Growing, Evolved, Kept, OldRow
  <2>5. place = "createPaidPlan" => ~Validates(q.tx)'
    BY <1>1, <1>3, <2>4 DEF IsValidation, Validates
  <2>6. Asks(r)'
    BY <1>3, <2>2, <2>4, <2>5 DEF Asks, OnAPlan
  <2>7. Asks([q EXCEPT !.at = place])'
    BY <2>1, <2>6 DEF Asks
  <2>8. QED
    BY <1>1, <1>3, <2>7, GotoTyped DEF Place, Searching
<1>4. CASE SaveCard(h)
  <2>1. q.at = "saveCard"
    BY <1>1, <1>4 DEF SaveCard, At
  <2>2. \E place \in {"refund", "settle", "createPaidPlan"} :
           Goto(h, place) /\ (place = "createPaidPlan" => ~IsValidation(h))
    BY <1>4 DEF SaveCard, AfterRefund
  <2>3. QED
    BY <1>3, <2>1, <2>2
<1>5. CASE Refund(h)
  <2>1. q.at = "refund"
    BY <1>1, <1>5 DEF Refund, At
  <2>2. \/ \E place \in {"settle", "createPaidPlan"} :
              Goto(h, place) /\ (place = "createPaidPlan" => ~IsValidation(h))
        \/ Continue(h, [q EXCEPT !.at = "settle", !.outcome = "FAILED"])
    BY <1>1, <1>5 DEF Refund, AfterRefund
  <2>3. CASE Continue(h, [q EXCEPT !.at = "settle", !.outcome = "FAILED"])
    <3>1. PICK r : r = [q EXCEPT !.at = "settle", !.outcome = "FAILED"]
      OBVIOUS
    <3>2. /\ r.task = q.task /\ r.user = q.user /\ r.me = q.me /\ r.tariff = q.tariff
          /\ r.type = q.type /\ r.at = "settle"
      BY <1>2, <3>1 DEF IsHandler
    <3>3. Locals(r)'
      BY <1>2, <3>1 DEF Locals, IsHandler, Place
    <3>4. QED
      BY <1>1, <2>1, <2>3, <3>1, <3>2, <3>3, ContinueTyped DEF Searching, Demanded, OnAPlan
  <2>4. QED
    BY <1>3, <2>1, <2>2, <2>3
<1>6. CASE CreatePaidPlan(h)
  <2>1. PICK n, row : n = Len(plans) + 1 /\ plans' = Append(plans, row)
    BY <1>6 DEF CreatePaidPlan
  <2>2. n \in DOMAIN plans'
    <3>1. Grown(plans, row, plans')
      BY <1>2, <2>1, AppendedTable DEF PlanRows
    <3>2. QED
      BY <2>1, <3>1 DEF Grown
  <2>3. PICK r : r = [q EXCEPT !.at = "setActive", !.plan = n]
    OBVIOUS
  <2>4. Continue(h, r) /\ q.at = "createPaidPlan"
    BY <1>1, <1>6, <2>1, <2>3 DEF CreatePaidPlan, At
  <2>5. /\ r.task = q.task /\ r.user = q.user /\ r.me = q.me /\ r.tariff = q.tariff
        /\ r.type = q.type /\ r.at = "setActive" /\ r.plan = n
    BY <1>2, <2>3 DEF IsHandler
  <2>6. Locals(r)'
    BY <1>2, <2>2, <2>3 DEF Locals, IsHandler, Place, Maybe
  <2>7. Asks(r)'
    BY <2>2, <2>5 DEF Asks, OnAPlan
  <2>8. QED
    BY <1>1, <2>4, <2>5, <2>6, <2>7, ContinueTyped DEF Searching
<1>7. QED
  BY <1>4, <1>5, <1>6

\* The end of a webhook.
LEMMA SettlerTyped ==
  ASSUME TypedState, Growing, NEW h \in Handlers,
         SettleById(h) \/ CancelOthers(h) \/ SettleRows(h) \/ LinkTx(h)
  PROVE  Typed(handlers[h])'
<1>1. CASE End(h)
  BY <1>1, EndTyped
<1>2. CASE ~End(h)
  <2>1. PICK q : q = handlers[h]
    OBVIOUS
  <2>2. /\ q.at \in {"settle", "linkTx"}
        /\ \E place \in {"settle", "settleRows"} : Goto(h, place)
    BY <1>2, <2>1, ZenonT(30)
       DEF SettleById, CancelOthers, SettleRows, LinkTx, Acknowledge, At
  <2>3. QED
    BY <2>1, <2>2, GotoTyped DEF Place, Demanded, OnAPlan, Searching
<1>3. QED
  BY <1>1, <1>2

\* The webhook of a failed payment.
LEMMA FailureTyped ==
  ASSUME TypedState, Growing, NEW h \in Handlers,
         \/ FindFailedTx(h) \/ FindRowToFail(h) \/ FailValidation(h)
         \/ ReplaceIntent(h) \/ FailTx(h)
  PROVE  Typed(handlers[h])'
<1>1. PICK q : q = handlers[h]
  OBVIOUS
<1>2. /\ handlers = [g \in Handlers |-> handlers[g]] /\ IsHandler(q) /\ Locals(q)'
      /\ StripeRows
  BY <1>1, CallMoving, CallTyped DEF TypedState, StartInv, OutcomeInv, RowsInv
<1>3. End(h) => Typed(handlers[h])'
  BY EndTyped
<1>4. CASE FindFailedTx(h) /\ ~End(h)
  <2>1. \E place \in {"failValidation", "findDebtor"} : Goto(h, place)
    BY <1>4 DEF FindFailedTx, Reject
  <2>2. QED
    BY <1>1, <2>1, GotoTyped DEF Place, Demanded, OnAPlan, Searching
<1>5. CASE (FailValidation(h) \/ FailTx(h)) /\ ~End(h)
  <2>1. PICK r : /\ r = [IdleHandler EXCEPT !.task = "intentFailed", !.at = "findFailedTx",
                                            !.event = handlers[h].event, !.round = 2]
                 /\ Continue(h, r)
    BY <1>5, ZenonT(30) DEF FailValidation, FailTx, FailedOnce, Acknowledge, Reject
  <2>2. /\ r.at = "findFailedTx" /\ r.task = "intentFailed" /\ r.user = None /\ r.me = None
        /\ r.tariff = None /\ r.type = None /\ r.card = None /\ r.customer = None
        /\ r.plan = None /\ r.other = None /\ r.tx = None /\ r.intent = None
        /\ r.listed = {} /\ r.replaces \in BOOLEAN /\ r.round = 2
    BY <2>1 DEF IdleHandler
  <2>3. Locals(r)'
    <3>1. r.at \in Place /\ r.task \in Task
      BY <2>2 DEF Place, Task
    <3>2. r.listed \in SUBSET (1..MaxSubs)
      BY <2>2, Zenon
    <3>3. \A S : None \in Maybe(S)
      BY DEF Maybe
    <3>4. QED
      BY <2>2, <3>1, <3>2, <3>3 DEF Locals
  <2>4. Party(r)' /\ Asks(r)'
    BY <2>2, FreePlace DEF Party, RequestTask, Searching, Demanded, OnAPlan
  <2>5. Typed(r)'
    BY <2>3, <2>4 DEF Typed, Needs
  <2>6. handlers'[h] = r
    BY <1>2, <2>1 DEF Continue
  <2>7. QED
    BY <2>5, <2>6
<1>6. CASE ReplaceIntent(h)
  <2>1. PICK n, row : n = Len(intents) + 1 /\ intents' = Append(intents, row)
    BY <1>6 DEF ReplaceIntent
  <2>2. n \in DOMAIN intents'
    <3>1. Grown(intents, row, intents')
      BY <1>2, <2>1, AppendedTable DEF StripeRows
    <3>2. QED
      BY <2>1, <3>1 DEF Grown
  <2>3. PICK r : r = [q EXCEPT !.at = "failTx", !.intent = n]
    OBVIOUS
  <2>4. Continue(h, r) /\ q.at = "replaceIntent"
    BY <1>1, <1>6, <2>1, <2>3 DEF ReplaceIntent, At
  <2>5. /\ r.task = q.task /\ r.user = q.user /\ r.me = q.me /\ r.tariff = q.tariff
        /\ r.type = q.type /\ r.at = "failTx"
    BY <1>2, <2>3 DEF IsHandler
  <2>6. Locals(r)'
    BY <1>2, <2>2, <2>3 DEF Locals, IsHandler, Place, Maybe
  <2>7. QED
    BY <1>1, <2>4, <2>5, <2>6, ContinueTyped DEF Searching, Demanded, OnAPlan
<1>7. CASE FindRowToFail(h) /\ ~End(h)
  <2>1. q.at \in {"failTx", "failValidation"}
    BY <1>1, <1>7, ZenonT(30) DEF FindRowToFail, At
  <2>2. PICK t \in TxsByIntent(About(h)) :
           Continue(h, [q EXCEPT !.tx = t, !.at = IF At(h, "failTx") THEN "failTxRow"
                                                               ELSE "failValidationRow"])
    BY <1>1, <1>7, ZenonT(30) DEF FindRowToFail, Reject
  <2>3. PICK place, r : /\ place = IF q.at = "failTx" THEN "failTxRow"
                                                     ELSE "failValidationRow"
                        /\ r = [q EXCEPT !.tx = t, !.at = place] /\ Continue(h, r)
    BY <1>1, <2>2 DEF At
  <2>4. /\ r.task = q.task /\ r.user = q.user /\ r.me = q.me /\ r.tariff = q.tariff
        /\ r.type = q.type /\ r.at = place
    BY <1>2, <2>3 DEF IsHandler
  <2>5. t \in DOMAIN txs'
    BY DEF TxsByIntent, Growing, Evolved, Kept
  <2>6. Locals(r)'
    BY <1>2, <2>3, <2>5 DEF Locals, IsHandler, Place, Maybe
  <2>7. r.at \notin Demanded /\ (q.at \in Searching => r.at \in Searching)
    BY <2>1, <2>3, <2>4 DEF Searching, Demanded, OnAPlan
  <2>8. QED
    BY <1>1, <2>3, <2>4, <2>6, <2>7, ContinueTyped
<1>8. QED
  BY <1>3, <1>4, <1>5, <1>6, <1>7

\* Every step of a webhook.
LEMMA WebhookTyped ==
  ASSUME TypedState, Growing, NEW h \in Handlers, WebhookStep(h) PROVE Typed(handlers[h])'
  BY FoundTyped, RowFoundTyped, ActivatorTyped, PaymentTyped, SettlerTyped, FailureTyped
     DEF WebhookStep

\* Every step of the cron.
LEMMA CronTyped ==
  ASSUME TypedState, Growing, NEW h \in Handlers, CronStep(h), ~Restart
  PROVE  Typed(handlers[h])'
<1>1. PICK q : q = handlers[h]
  OBVIOUS
<1>2. /\ handlers = [g \in Handlers |-> handlers[g]] /\ IsHandler(q) /\ PlaceFits(q)
      /\ Asks(q) /\ Locals(q)' /\ Party(q)' /\ RecordsTyped /\ PlanRows /\ PlansTyped
      /\ now \in Nat
  BY <1>1, CallMoving, CallTyped DEF Fits, TypedState, TypesInv
<1>3. q.task = "cron" /\ q.at \notin Searching
  <2>1. q.at \in {"cronUser", "cronPlan", "cronRequire", "cronExpire", "cronSuspend",
                 "cronLast", "cronCreate", "cronTariff"}
    BY <1>1, <1>2, ZenonT(30)
       DEF CronStep, CronUser, CronPlan, CronStatus, Chosen, CronLast, CronCreate,
           CronTariff, At
  <2>2. QED
    BY <1>2, <2>1 DEF PlaceFits, Searching
<1>4. End(h) => Typed(handlers[h])'
  BY EndTyped
<1>5. CASE CronUser(h)
  <2>1. PICK me, r : me = users[q.user] /\ r = [q EXCEPT !.at = "cronPlan", !.me = me]
    BY ZenonT(30)
  <2>2. q.user \in Users
    BY <1>2, <1>3 DEF Party
  <2>3. me \in User
    BY <1>2, <2>1, <2>2 DEF RecordsTyped
  <2>4. /\ r.task = q.task /\ r.user = q.user /\ r.tariff = q.tariff /\ r.type = q.type
        /\ r.at = "cronPlan" /\ r.me = me
    BY <1>2, <2>1 DEF IsHandler
  <2>5. Locals(r)'
    BY <1>2, <2>1, <2>3 DEF Locals, IsHandler, Place, Maybe
  <2>6. Party(r)' /\ Asks(r)'
    BY <1>2, <1>3, <2>3, <2>4, FreePlace
       DEF Party, RequestTask, WebhookTask, Demanded, OnAPlan
  <2>7. Typed(r)'
    BY <2>5, <2>6 DEF Typed, Needs
  <2>8. handlers'[h] = r
    BY <1>1, <1>2, <1>5, <2>1 DEF CronUser, Continue
  <2>9. QED
    BY <2>7, <2>8
<1>6. CASE CronPlan(h)
  <2>1. PICK p, place :
           /\ p \in ActiveForUser(q.user, q.me.tariff)
           /\ place = IF p = None THEN "cronLast" ELSE AfterPlan(p)
           /\ Continue(h, [q EXCEPT !.plan = p, !.at = place])
    BY <1>1, <1>6, ZenonT(30) DEF CronPlan
  <2>2. p \in Maybe(DOMAIN plans) /\ p \in Maybe(DOMAIN plans')
    BY <2>1, PlansFound
  <2>3. \/ place = "cronLast"
        \/ place \in {"cronRequire", "cronExpire", "cronTariff"} /\ p \in DOMAIN plans
    <3>1. CASE p = None
      BY <2>1, <3>1
    <3>2. CASE p # None
      <4>1. p \in DOMAIN plans
        BY <2>2, <3>2 DEF Maybe
      <4>2. plans[p] \in Plan
        BY <1>2, <4>1 DEF PlansTyped
      <4>3. PICK hours : hours = HoursLeft(p)
        OBVIOUS
      <4>4. hours \in Int
        BY <1>2, <4>2, <4>3 DEF HoursLeft, HoursPerPeriod, Plan
      <4>5. hours <= -24 \/ (-24 < hours /\ hours < 24) \/ hours >= 24
        BY <4>4
      <4>6. AfterDays(DaysDifference(hours)) \in {"cronRequire", "cronExpire", "cronTariff"}
        BY <4>4, <4>5, NeverSuspended
      <4>7. QED
        BY <2>1, <3>2, <4>1, <4>3, <4>6 DEF AfterPlan
    <3>3. QED
      BY <3>1, <3>2
  <2>4. PICK r : r = [q EXCEPT !.plan = p, !.at = place]
    OBVIOUS
  <2>5. /\ r.task = q.task /\ r.user = q.user /\ r.me = q.me /\ r.tariff = q.tariff
        /\ r.type = q.type /\ r.at = place /\ r.plan = p
    BY <1>2, <2>4 DEF IsHandler
  <2>6. Locals(r)'
    BY <1>2, <2>2, <2>3, <2>4 DEF Locals, IsHandler, Place
  <2>7. Asks(r)'
    <3>1. place # "cronLast" => p \in DOMAIN plans'
      BY <2>3 DEF Growing, PlansGrown
    <3>2. QED
      BY <2>3, <2>5, <3>1 DEF Asks, OnAPlan
  <2>8. QED
    BY <1>1, <1>3, <2>1, <2>4, <2>5, <2>6, <2>7, ContinueTyped
<1>7. CASE CronStatus(h)
  <2>1. q.plan \in DOMAIN plans
    BY <1>1, <1>2, <1>7 DEF CronStatus, Chosen, Asks, OnAPlan
  <2>2. q.plan \in DOMAIN plans'
    BY <2>1 DEF Growing, PlansGrown
  <2>3. PICK r : r = [q EXCEPT !.at = "cronTariff"]
    OBVIOUS
  <2>4. r.at = "cronTariff" /\ r.plan = q.plan
    BY <1>2, <2>3 DEF IsHandler
  <2>5. Asks(r)'
    BY <2>2, <2>4 DEF Asks, OnAPlan
  <2>6. Asks([q EXCEPT !.at = "cronTariff"])'
    BY <2>3, <2>5 DEF Asks
  <2>7. Goto(h, "cronTariff")
    BY <1>7 DEF CronStatus
  <2>8. QED
    BY <1>1, <1>3, <2>6, <2>7, GotoTyped DEF Place
<1>8. CASE CronLast(h)
  <2>1. PICK last : last = LastForUser(q.user)
    OBVIOUS
  <2>2. last # None
    BY <1>1, <1>8, <2>1 DEF CronLast
  <2>3. last \in DOMAIN plans'
    BY <2>1, <2>2, PlansFound DEF Maybe
  <2>4. PICK r : r = [q EXCEPT !.at = "cronCreate", !.other = last]
    OBVIOUS
  <2>5. Continue(h, r)
    BY <1>1, <1>8, <2>1, <2>2, <2>4 DEF CronLast
  <2>6. /\ r.task = q.task /\ r.user = q.user /\ r.me = q.me /\ r.tariff = q.tariff
        /\ r.type = q.type /\ r.at = "cronCreate" /\ r.other = last
    BY <1>2, <2>4 DEF IsHandler
  <2>7. Locals(r)'
    BY <1>2, <2>3, <2>4 DEF Locals, IsHandler, Place, Maybe
  <2>8. Asks(r)'
    BY <2>3, <2>6 DEF Asks, OnAPlan
  <2>9. QED
    BY <1>1, <1>3, <2>5, <2>6, <2>7, <2>8, ContinueTyped
<1>9. CASE CronCreate(h)
  <2>1. PICK n, row : n = Len(plans) + 1 /\ plans' = Append(plans, row)
    BY <1>9 DEF CronCreate
  <2>2. n \in DOMAIN plans'
    <3>1. Grown(plans, row, plans')
      BY <1>2, <2>1, AppendedTable DEF PlanRows
    <3>2. QED
      BY <2>1, <3>1 DEF Grown
  <2>3. PICK r : r = [q EXCEPT !.at = "deactivate", !.other = None, !.plan = n]
    OBVIOUS
  <2>4. Continue(h, r)
    BY <1>1, <1>9, <2>1, <2>3 DEF CronCreate
  <2>5. /\ r.task = q.task /\ r.user = q.user /\ r.me = q.me /\ r.tariff = q.tariff
        /\ r.type = q.type /\ r.at = "deactivate" /\ r.plan = n
    BY <1>2, <2>3 DEF IsHandler
  <2>6. Locals(r)'
    BY <1>2, <2>2, <2>3 DEF Locals, IsHandler, Place, Maybe
  <2>7. Asks(r)'
    BY <2>2, <2>5 DEF Asks, OnAPlan
  <2>8. QED
    BY <1>1, <1>3, <2>4, <2>5, <2>6, <2>7, ContinueTyped
<1>10. CASE CronTariff(h)
  <2>1. End(h) \/ Goto(h, "dropNext")
    BY <1>10 DEF CronTariff
  <2>2. QED
    BY <1>1, <1>3, <1>4, <2>1, GotoTyped DEF Place, Demanded, OnAPlan
<1>11. QED
  BY <1>5, <1>6, <1>7, <1>8, <1>9, <1>10 DEF CronStep

(* What a call does not know when it begins.                                 *)
Fresh(r) ==
    /\ r.card = None /\ r.customer = None /\ r.plan = None /\ r.other = None
    /\ r.tx = None /\ r.intent = None /\ r.listed = {} /\ r.replaces \in BOOLEAN
    /\ r.round = 1

\* A call that begins.
LEMMA FreshTyped ==
  ASSUME NEW r, Fresh(r), r.at \in Place, r.task \in Task, r.user \in Maybe(Users),
         r.me \in Maybe(User), r.tariff \in Maybe(Tariffs), r.type \in Maybe(TxType),
         Party(r)', Asks(r)'
  PROVE  Typed(r)'
<1>1. r.listed \in SUBSET (1..MaxSubs) /\ r.replaces \in BOOLEAN
  BY Zenon DEF Fresh
<1>2. \A S : None \in Maybe(S)
  BY DEF Maybe
<1>3. Locals(r)'
  BY <1>1, <1>2 DEF Locals, Fresh
<1>4. QED
  BY <1>3 DEF Typed, Needs

\* A request begins with the record of its user.
LEMMA BeginTyped ==
  ASSUME TypedState, NEW h \in Handlers, NEW u \in Users, NEW endpoint, NEW q,
         Call(h, u, endpoint, q), IsHandler(q), Fresh(q),
         q.tariff \in Maybe(Tariffs), q.type \in Maybe(TxType),
         \/ /\ q.task = "subscribe" /\ q.at \in {"findCard", "findPlans", "findTrialCard"}
            /\ q.tariff \in Tariffs
         \/ /\ q.task = "getSecret" /\ q.at = "findCustomer"
            /\ q.type = "SUBSCRIPTION" /\ q.tariff \in Tariffs
         \/ /\ q.task = "getSecret" /\ q.at = "findValidation"
            /\ q.type = "CARD_VALIDATION"
         \/ q.task = "cancelNext" /\ q.at = "findNextPlan"
         \/ q.task = "unsubscribe" /\ q.at = "listSubs"
         \/ q.task = "renovate" /\ q.at = "createSub"
         \/ q.task = "initialize" /\ q.at = "countPlans"
  PROVE  Typed(handlers[h])'
<1>1. handlers = [g \in Handlers |-> handlers[g]] /\ RecordsTyped
  BY CallTyped DEF TypedState, TypesInv
<1>2. PICK me, r : me = users[u] /\ r = [q EXCEPT !.user = u, !.me = me]
  BY ZenonT(30)
<1>3. me \in User
  BY <1>1, <1>2 DEF RecordsTyped
<1>4. /\ r.at = q.at /\ r.task = q.task /\ r.user = u /\ r.me = me /\ r.tariff = q.tariff
      /\ r.type = q.type /\ r.card = q.card /\ r.customer = q.customer /\ r.plan = q.plan
      /\ r.other = q.other /\ r.tx = q.tx /\ r.intent = q.intent /\ r.listed = q.listed
      /\ r.replaces = q.replaces /\ r.round = q.round
  BY <1>2 DEF IsHandler
<1>5. Fresh(r)
  BY <1>4 DEF Fresh
<1>6. r.at \in Place /\ r.task \in Task /\ r.task \in RequestTask
  BY <1>4 DEF Place, Task, RequestTask
<1>7. r.user \in Maybe(Users) /\ r.me \in Maybe(User)
  BY <1>3, <1>4 DEF Maybe
<1>8. Party(r)'
  BY <1>3, <1>4, <1>6 DEF Party, RequestTask, WebhookTask
<1>9. Asks(r)'
  BY <1>4, <1>6 DEF Asks, OnAPlan
<1>10. Typed(r)'
  BY <1>4, <1>5, <1>6, <1>7, <1>8, <1>9, FreshTyped
<1>11. handlers'[h] = r
  BY <1>1, <1>2 DEF Call, Continue
<1>12. QED
  BY <1>10, <1>11

\* Every request.
LEMMA RequestBegun ==
  ASSUME TypedState, NEW h \in Handlers, Request(h) PROVE Typed(handlers[h])'
<1>1. PICK u \in Users :
         \/ SubscribeRequest(h, u) \/ SetTrialRequest(h, u)
         \/ \E t \in Tariffs : SwitchRequest(h, u, t) \/ SecretRequest(h, u, t)
         \/ ValidationRequest(h, u) \/ CancelNextRequest(h, u)
         \/ UnsubscribeRequest(h, u) \/ RenovateRequest(h, u) \/ InitializeRequest(h, u)
  BY DEF Request
<1>2. users[u].tariff \in Tariffs
  BY DEF TypedState, TypesInv, RecordsTyped, User
<1>3. /\ \A t \in Tariffs : t \in Maybe(Tariffs)
      /\ None \in Maybe(Tariffs) /\ None \in Maybe(TxType)
      /\ "SUBSCRIPTION" \in Maybe(TxType) /\ "CARD_VALIDATION" \in Maybe(TxType)
  BY DEF Maybe, TxType
<1>4. CASE SubscribeRequest(h, u) \/ SetTrialRequest(h, u)
           \/ \E t \in Tariffs : SwitchRequest(h, u, t)
  <2>1. PICK tariff, place, endpoint, q :
           /\ tariff \in Tariffs /\ place \in {"findCard", "findPlans", "findTrialCard"}
           /\ Call(h, u, endpoint, q)
           /\ q = [IdleHandler EXCEPT !.task = "subscribe", !.at = place,
                                      !.type = "SUBSCRIPTION", !.tariff = tariff]
    BY <1>2, <1>4, ZenonT(30) DEF SubscribeRequest, SetTrialRequest, SwitchRequest
  <2>2. /\ IsHandler(q) /\ Fresh(q) /\ q.task = "subscribe" /\ q.at = place
        /\ q.type = "SUBSCRIPTION" /\ q.tariff = tariff
    BY <2>1 DEF IdleHandler, IsHandler, Fresh
  <2>3. QED
    BY <1>3, <2>1, <2>2, BeginTyped
<1>5. CASE \E t \in Tariffs : SecretRequest(h, u, t)
  <2>1. PICK tariff, q :
           /\ tariff \in Tariffs
           /\ Call(h, u, "secret", q)
           /\ q = [IdleHandler EXCEPT !.task = "getSecret", !.at = "findCustomer",
                                      !.type = "SUBSCRIPTION", !.tariff = tariff]
    BY <1>5, ZenonT(30) DEF SecretRequest
  <2>2. /\ IsHandler(q) /\ Fresh(q) /\ q.task = "getSecret" /\ q.at = "findCustomer"
        /\ q.type = "SUBSCRIPTION" /\ q.tariff = tariff
    BY <2>1 DEF IdleHandler, IsHandler, Fresh
  <2>3. QED
    BY <1>3, <2>1, <2>2, BeginTyped
<1>6. CASE ValidationRequest(h, u)
  <2>1. PICK q : /\ Call(h, u, "validate", q)
                 /\ q = [IdleHandler EXCEPT !.task = "getSecret", !.at = "findValidation",
                                            !.type = "CARD_VALIDATION"]
    BY <1>6 DEF ValidationRequest
  <2>2. /\ IsHandler(q) /\ Fresh(q) /\ q.task = "getSecret" /\ q.at = "findValidation"
        /\ q.type = "CARD_VALIDATION" /\ q.tariff = None
    BY <2>1 DEF IdleHandler, IsHandler, Fresh
  <2>3. QED
    BY <1>3, <2>1, <2>2, BeginTyped
<1>7. CASE \/ CancelNextRequest(h, u) \/ UnsubscribeRequest(h, u)
           \/ RenovateRequest(h, u) \/ InitializeRequest(h, u)
  <2>1. PICK endpoint, task, place, q :
           /\ \/ task = "cancelNext" /\ place = "findNextPlan"
              \/ task = "unsubscribe" /\ place = "listSubs"
              \/ task = "renovate" /\ place = "createSub"
              \/ task = "initialize" /\ place = "countPlans"
           /\ Call(h, u, endpoint, q)
           /\ q = [IdleHandler EXCEPT !.task = task, !.at = place]
    BY <1>7, ZenonT(30)
       DEF CancelNextRequest, UnsubscribeRequest, RenovateRequest, InitializeRequest
  <2>2. /\ IsHandler(q) /\ Fresh(q) /\ q.task = task /\ q.at = place /\ q.type = None
        /\ q.tariff = None
    BY <2>1 DEF IdleHandler, IsHandler, Fresh
  <2>3. QED
    BY <1>3, <2>1, <2>2, BeginTyped
<1>8. QED
  BY <1>1, <1>4, <1>5, <1>6, <1>7

\* Webhooks and callbacks of the cron begin.
LEMMA OthersBegun ==
  ASSUME TypedState, NEW h \in Handlers,
         (\E e \in events.pending : Deliver(h, e)) \/ \E u \in Users : CronBegin(h, u)
  PROVE  Typed(handlers[h])'
<1>1. handlers = [g \in Handlers |-> handlers[g]] /\ RecordsTyped
  BY CallTyped DEF TypedState, TypesInv
<1>2. ASSUME NEW r, Fresh(r), handlers'[h] = r, r.me = None, r.type = None,
             \/ r.task = "intentSucceeded" /\ r.at = "findTx"
             \/ r.task = "intentFailed" /\ r.at = "findFailedTx"
             \/ r.task = "subscriptionCreated" /\ r.at = "findSubscriber"
             \/ r.task = "cron" /\ r.at = "cronUser",
             IF r.task = "cron" THEN r.user \in Users /\ r.tariff \in Tariffs
                                ELSE r.user = None /\ r.tariff = None
      PROVE  Typed(handlers[h])'
  <2>1. r.at \in Place /\ r.task \in Task
    BY <1>2 DEF Place, Task
  <2>2. /\ r.user \in Maybe(Users) /\ r.me \in Maybe(User) /\ r.tariff \in Maybe(Tariffs)
        /\ r.type \in Maybe(TxType)
    BY <1>2 DEF Maybe
  <2>3. Party(r)' /\ Asks(r)'
    BY <1>2, FreePlace DEF Party, RequestTask, WebhookTask, Searching, Demanded, OnAPlan
  <2>4. Typed(r)'
    BY <1>2, <2>1, <2>2, <2>3, FreshTyped
  <2>5. QED
    BY <1>2, <2>4
<1>3. CASE \E e \in events.pending : Deliver(h, e)
  <2>1. PICK e \in events.pending : Deliver(h, e)
    BY <1>3
  <2>2. e.type \in EventType
    BY DEF TypedState, StartInv, OutcomeInv, EventsReported, Reported
  <2>3. PICK r : r = Handling(e)
    OBVIOUS
  <2>4. handlers'[h] = r
    BY <1>1, <2>1, <2>3 DEF Deliver, Continue
  <2>5. PICK task, place :
           /\ r = [IdleHandler EXCEPT !.task = task, !.at = place, !.event = e]
           /\ \/ task = "intentSucceeded" /\ place = "findTx"
              \/ task = "intentFailed" /\ place = "findFailedTx"
              \/ task = "subscriptionCreated" /\ place = "findSubscriber"
    BY <2>2, <2>3, ZenonT(30) DEF Handling, EventType
  <2>6. /\ r.user = None /\ r.me = None /\ r.tariff = None /\ r.type = None
        /\ r.task = task /\ r.at = place /\ Fresh(r)
    BY <2>5 DEF IdleHandler, Fresh
  <2>7. QED
    BY <1>2, <2>4, <2>5, <2>6
<1>4. CASE \E u \in Users : CronBegin(h, u)
  <2>1. PICK u \in Users : CronBegin(h, u)
    BY <1>4
  <2>2. PICK tariff, r : /\ tariff = users[u].tariff
                         /\ r = [IdleHandler EXCEPT !.task = "cron", !.at = "cronUser",
                                                    !.user = u, !.tariff = tariff]
    BY ZenonT(30)
  <2>3. handlers'[h] = r
    BY <1>1, <2>1, <2>2, ZenonT(30) DEF CronBegin, Continue
  <2>4. tariff \in Tariffs
    BY <1>1, <2>2 DEF RecordsTyped, User
  <2>5. /\ r.user = u /\ r.me = None /\ r.tariff = tariff /\ r.type = None
        /\ r.task = "cron" /\ r.at = "cronUser" /\ Fresh(r)
    BY <2>2 DEF IdleHandler, Fresh
  <2>6. QED
    BY <1>2, <2>3, <2>4, <2>5
<1>5. QED
  BY <1>3, <1>4

\* A call that fails holds what it held.
LEMMA FailedCallTyped ==
  ASSUME TypedState, Growing, NEW h \in Handlers, CallFails(h)
  PROVE  Typed(handlers[h])'
<1>1. PICK q, S : q = handlers[h] /\ S = {}
  OBVIOUS
<1>2. PICK r : r = [q EXCEPT !.at = "settle", !.outcome = "FAILED", !.listed = S]
  OBVIOUS
<1>3. Continue(h, r) /\ q.task = "intentSucceeded"
      /\ q.at \notin {"findTx", "findPayer", "saveCard"}
  BY <1>1, <1>2, ZenonT(30) DEF CallFails
<1>4. /\ handlers = [g \in Handlers |-> handlers[g]] /\ IsHandler(q) /\ Locals(q)'
      /\ Knows(q)
  BY <1>1, CallMoving, CallTyped DEF TypedState, StartInv, OutcomeInv, RowsInv
<1>5. /\ r.task = q.task /\ r.user = q.user /\ r.me = q.me /\ r.tariff = q.tariff
      /\ r.type = q.type /\ r.at = "settle"
  BY <1>2, <1>4 DEF IsHandler
<1>6. Locals(r)'
  <2>1. S \in SUBSET (1..MaxSubs)
    BY <1>1, Zenon
  <2>2. QED
    BY <1>2, <1>4, <2>1 DEF Locals, IsHandler, Place, Maybe
<1>7. q.at \notin Searching
  BY <1>3, <1>4 DEF Knows, WhereKnown, Charged, Cashed, Searching
<1>8. QED
  BY <1>1, <1>3, <1>5, <1>6, <1>7, ContinueTyped DEF Searching, Demanded, OnAPlan

\* Every step leaves what calls go by.
LEMMA GrowingStep ==
  ASSUME TypedState, [Next]_vars PROVE Growing
<1>1. StartInv /\ PlansTyped
  BY DEF TypedState, TypesInv
<1>2. PlansGrown
  BY PlansStep
<1>3. now' \in Nat /\ now' >= now
  BY ClockStep
<1>4. \A p \in DOMAIN plans : plans[p].start \in Nat
  BY <1>1 DEF PlansTyped, Plan
<1>5. Evolved
  <2>1. ASSUME NEW h \in Handlers, Step(h) PROVE Evolved
    BY <1>1, <2>1, StepRecords
  <2>2. ASSUME NEW i \in DOMAIN intents,
               (\E card \in Cards : Pay(i, card)) \/ CancelIntent(i)
        PROVE  Evolved
    BY <1>1, <2>2, PayRecords
  <2>3. CASE UNCHANGED <<txs, intents, subs, customers>>
    BY <1>1, <2>3, OtherRecords
  <2>4. ASSUME NEW h \in Handlers,
               \/ Request(h) \/ CallFails(h)
               \/ \E e \in events.pending : Deliver(h, e)
               \/ \E u \in Users : CronBegin(h, u)
        PROVE  UNCHANGED <<txs, intents, subs, customers>>
    BY <2>4, ZenonT(30)
       DEF Request, Call, SubscribeRequest, SwitchRequest, SetTrialRequest, SecretRequest,
           ValidationRequest, CancelNextRequest, UnsubscribeRequest, RenovateRequest,
           InitializeRequest, Deliver, CronBegin, CallFails, stripe
  <2>5. ASSUME \/ \E i \in DOMAIN intents : Decline(i)
               \/ \E e \in events.acked \cup InFlight : DeliverAgain(e)
               \/ Crash \/ Tick \/ UNCHANGED vars
        PROVE  UNCHANGED <<txs, intents, subs, customers>>
    BY <2>5 DEF Decline, DeliverAgain, Crash, Tick, vars, stripe
  <2>6. QED
    BY <2>1, <2>2, <2>3, <2>4, <2>5 DEF Next
<1>6. QED
  BY <1>2, <1>3, <1>4, <1>5 DEF Growing

\* The others stay as they are.
LEMMA OneCallMoves ==
  ASSUME TypedState, Growing, NEW h \in Handlers, Moves(h), Typed(handlers[h])'
  PROVE  CallsTyped'
<1>1. ASSUME NEW g \in Handlers PROVE Typed(handlers[g])'
  <2>1. CASE g # h
    <3>1. PICK r : r = handlers[g]
      OBVIOUS
    <3>2. Typed(r) /\ now \in Nat
      BY <3>1 DEF TypedState, TypesInv, CallsTyped
    <3>3. Typed(r)'
      BY <3>2, TypedKept
    <3>4. handlers'[g] = r
      BY <2>1, <3>1, CallTyped DEF Moves
    <3>5. QED
      BY <3>3, <3>4
  <2>2. QED
    BY <2>1
<1>2. QED
  BY <1>1 DEF CallsTyped

\* Nobody moves.
LEMMA CallsWait ==
  ASSUME TypedState, Growing, UNCHANGED handlers PROVE CallsTyped'
<1>1. ASSUME NEW g \in Handlers PROVE Typed(handlers[g])'
  <2>1. PICK r : r = handlers[g]
    OBVIOUS
  <2>2. Typed(r) /\ now \in Nat
    BY <2>1 DEF TypedState, TypesInv, CallsTyped
  <2>3. Typed(r)'
    BY <2>2, TypedKept
  <2>4. QED
    BY <2>1, <2>3
<1>2. QED
  BY <1>1 DEF CallsTyped

\* Everybody is lost.
LEMMA CallsLost ==
  ASSUME Restart PROVE CallsTyped'
<1>1. ASSUME NEW g \in Handlers PROVE Typed(handlers[g])'
  <2>1. PICK r : r = IdleHandler
    OBVIOUS
  <2>2. Typed(r)' /\ r = handlers'[g]
    BY <2>1, IdleTyped DEF Restart
  <2>3. QED
    BY <2>2
<1>2. QED
  BY <1>1 DEF CallsTyped

\* Every step.
LEMMA CallsStep ==
  ASSUME TypedState, OutcomeInv', [Next]_vars PROVE CallsTyped'
<1>1. Growing /\ Evolved /\ StartInv
  BY GrowingStep DEF Growing, TypedState
<1>2. ASSUME NEW h \in Handlers, Step(h), ~Restart PROVE CallsTyped'
  <2>1. Moves(h)
    BY <1>1, <1>2, SharedStepKnows, RequestStepKnows, WebhookStepKnows, CronStepKnows
       DEF Step, Knowing
  <2>2. Typed(handlers[h])'
    BY <1>1, <1>2, SharedTyped, RequestTyped, WebhookTyped, CronTyped DEF Step
  <2>3. QED
    BY <1>1, <2>1, <2>2, OneCallMoves
<1>3. ASSUME NEW h \in Handlers,
             \/ Request(h) \/ CallFails(h)
             \/ \E e \in events.pending : Deliver(h, e)
             \/ \E u \in Users : CronBegin(h, u)
      PROVE  CallsTyped'
  <2>1. Moves(h)
    BY <1>1, <1>3, RequestKnows, CronBeginKnows, DeliverKnows, CallFailsKnows DEF Knowing
  <2>2. Typed(handlers[h])'
    BY <1>1, <1>3, RequestBegun, OthersBegun, FailedCallTyped
  <2>3. QED
    BY <1>1, <2>1, <2>2, OneCallMoves
<1>4. CASE Restart
  BY <1>4, CallsLost
<1>5. CASE UNCHANGED handlers
  BY <1>1, <1>5, CallsWait
<1>6. ASSUME NEW i \in DOMAIN intents,
             (\E card \in Cards : Pay(i, card)) \/ Decline(i) \/ CancelIntent(i)
      PROVE  UNCHANGED handlers
  BY <1>6, ZenonT(30) DEF Pay, Decline, CancelIntent
<1>7. ASSUME \/ \E e \in events.acked \cup InFlight : DeliverAgain(e)
             \/ Crash \/ Tick \/ UNCHANGED vars
      PROVE  Restart \/ UNCHANGED handlers
  BY <1>7 DEF DeliverAgain, Crash, Tick, vars
<1>8. QED
  BY <1>2, <1>3, <1>4, <1>5, <1>6, <1>7 DEF Next

----------------------------------------------------------------------------
(* The types together.                                                       *)

\* Every step keeps them.
LEMMA TypesStep ==
  ASSUME TypedState, OutcomeInv', [Next]_vars PROVE TypesInv'
<1>1. PlansGrown /\ TxRows' /\ StripeRows'
  BY PlansStep DEF OutcomeInv, RowsInv
<1>2. PlansTyped' /\ TxsTyped' /\ StripeTyped' /\ RecordsTyped' /\ CallsTyped'
  BY <1>1, TxsStep, StripeStepTyped, RecordsStep, CallsStep DEF PlansGrown
<1>3. QED
  BY <1>2, ClockStep DEF TypesInv

----------------------------------------------------------------------------
(* The start.                                                                *)

\* Two tables in a row are as long as both.
LEMMA JoinedLength ==
  ASSUME NEW s, IsTable(s), NEW t, IsTable(t) PROVE Len(s \o t) = Len(s) + Len(t)
<1> DEFINE S == {s[k] : k \in 1..Len(s)} \cup {t[k] : k \in 1..Len(t)}
<1>1. s \in [1..Len(s) -> S] /\ t \in [1..Len(t) -> S]
  BY DEF IsTable
<1>2. s \in Seq(S) /\ t \in Seq(S)
  BY <1>1, SeqDef, ZenonT(60) DEF IsTable
<1> HIDE DEF S
<1>3. QED
  BY <1>2, ConcatProperties

\* Their rows are the rows of both.
LEMMA JoinedRows ==
  ASSUME NEW s, IsTable(s), NEW t, IsTable(t), NEW table, table = s \o t
  PROVE  \A k \in DOMAIN table : \/ k \in DOMAIN s /\ table[k] = s[k]
                                 \/ \E j \in DOMAIN t : table[k] = t[j]
  BY JoinedTables

\* The tables of the users that have subscribed.
LEMMA StartRows ==
  ASSUME NEW n \in Nat, NEW card \in Cards, NEW tariff \in Tariffs, NEW live \in BOOLEAN,
         NEW user \in [1..n -> Users], NEW k \in 1..n,
         n <= MaxIntents, n <= MaxCustomers
  PROVE  /\ IntentTyped([NewIntent(k, k) EXCEPT !.state = "paid", !.card = card,
                                                !.refunded = TRUE, !.shown = TRUE])
         /\ [live |-> live, customer |-> k] \in Sub
         /\ NewPlan(user[k], tariff, 0, "active") \in Plan
<1>1. k \in 1..MaxIntents /\ k \in 1..MaxCustomers
  BY RoomAssumption
<1>2. [live |-> live, customer |-> k] \in Sub
  BY <1>1 DEF Sub
<1>3. NewPlan(user[k], tariff, 0, "active") \in Plan
  BY DEF NewPlan, Plan
<1>4. IntentTyped([NewIntent(k, k) EXCEPT !.state = "paid", !.card = card,
                                          !.refunded = TRUE, !.shown = TRUE])
  <2>1. PICK q : q = NewIntent(k, k)
    OBVIOUS
  <2>2. q \in Intent
    BY <1>1, <2>1 DEF NewIntent, Intent, Maybe
  <2>3. PICK r : r = [q EXCEPT !.state = "paid", !.card = card,
                               !.refunded = TRUE, !.shown = TRUE]
    OBVIOUS
  <2>4. r \in Intent /\ r.card = card
    BY <2>2, <2>3 DEF Intent, Maybe
  <2>5. QED
    BY <2>1, <2>3, <2>4 DEF IntentTyped
<1>5. QED
  BY <1>2, <1>3, <1>4

\* A table that is empty, or has a row for every user.
StartTable(s, n, known) == IF known THEN IsTable(s) /\ DOMAIN s = 1..n /\ Len(s) = n
                                    ELSE IsTable(s) /\ DOMAIN s = {} /\ Len(s) = 0

LEMMA StartsTable ==
  ASSUME NEW n \in Nat, NEW known \in BOOLEAN, NEW rows, rows = [k \in 1..n |-> rows[k]],
         NEW s, s = IF known THEN rows ELSE <<>>
  PROVE  StartTable(s, n, known)
<1>1. IsTable(rows) /\ DOMAIN rows = 1..n /\ Len(rows) = n
  BY TableOfLength, LengthOfTable
<1>2. IsTable(<<>>) /\ DOMAIN <<>> = {} /\ Len(<<>>) = 0
  BY EmptyTable
<1>3. QED
  BY <1>1, <1>2 DEF StartTable

\* A row that the users start with.
LEMMA StartTx ==
  ASSUME NEW t \in DOMAIN txs, NEW u \in Users, NEW tariff \in Tariffs,
         NEW k \in DOMAIN plans,
         txs[t] = Validated(u, k) \/ txs[t] = Subscribed(u, k, tariff)
  PROVE  TxTyped(t)
<1>1. tariff # None
  BY NoneAssumption
<1>2. CASE txs[t] = Validated(u, k)
  BY <1>2 DEF Validated, TxTyped, Validates, TxType, Maybe
<1>3. CASE txs[t] = Subscribed(u, k, tariff)
  BY <1>1, <1>3 DEF Subscribed, TxTyped, Validates, TxType, Maybe
<1>4. QED
  BY <1>2, <1>3

LEMMA InitialTypes == ASSUME Init PROVE TypesInv
<1>1. PICK n, profile : n = Cardinality(Users) /\ profile = budget.profile
  OBVIOUS
<1>2. n \in Nat
  BY <1>1, UsersAssumption, FS_CardinalityType
<1>3. PICK tariff \in Tariffs, user \in [1..n -> Users] :
         /\ \A j, k \in DOMAIN user : user[j] = user[k] => j = k
         /\ Start(profile, tariff, user)
  BY <1>1 DEF Init
<1>4. PICK known, subscribed, live :
         /\ known = (profile # "new") /\ subscribed = (profile \in {"active", "lapsed"})
         /\ live = (profile = "active")
  OBVIOUS
<1> known \in BOOLEAN /\ subscribed \in BOOLEAN /\ live \in BOOLEAN
  BY <1>4
<1>5. PICK card \in Cards : card = CHOOSE c \in Cards : TRUE
  BY CardsAssumption
<1> DEFINE number(u) == CHOOSE k \in 1..n : user[k] = u
           plan(k) == NewPlan(user[k], tariff, 0, "active")
           intent(k) == [NewIntent(k, k) EXCEPT !.state = "paid", !.card = card,
                                                !.refunded = TRUE, !.shown = TRUE]
           sub(k) == [live |-> live, customer |-> k]
           validation(k) == [NewTx(user[k], "CARD_VALIDATION", None, k, k)
                                EXCEPT !.status = "SUCCESS"]
           subscription(k) == [NewTx(user[k], "SUBSCRIPTION", tariff, k, None)
                                  EXCEPT !.status = "SUCCESS", !.sub = k]
           plansOf == [k \in 1..n |-> plan(k)]
           intentsOf == [k \in 1..n |-> intent(k)]
           subsOf == [k \in 1..n |-> sub(k)]
           rows1 == [k \in 1..n |-> validation(k)]
           rows2 == [k \in 1..n |-> subscription(k)]
<1>6. /\ users = [u \in Users |->
             [status |-> StartStatus(profile), tariff |-> tariff, next |-> None,
              customer |-> IF known THEN number(u) ELSE None]]
      /\ cards = [u \in Users |->
             IF subscribed THEN [stored |-> {card}, default |-> card]
                           ELSE [stored |-> {}, default |-> None]]
      /\ customers = IF known THEN user ELSE <<>>
      /\ plans = IF known THEN plansOf ELSE <<>>
      /\ intents = IF subscribed THEN intentsOf ELSE <<>>
      /\ subs = IF subscribed THEN subsOf ELSE <<>>
      /\ txs = (IF subscribed THEN rows1 ELSE <<>>) \o (IF subscribed THEN rows2 ELSE <<>>)
  BY <1>1, <1>3, <1>4, <1>5, ZenonT(30) DEF Start
<1>7. ASSUME NEW k \in 1..n
      PROVE  /\ validation(k) = Validated(user[k], k)
             /\ subscription(k) = Subscribed(user[k], k, tariff)
  <2>1. validation(k) = Validated(user[k], k)
    BY DEF NewTx, Validated
  <2>2. subscription(k) = Subscribed(user[k], k, tariff)
    <3>1. PICK q : q = NewTx(user[k], "SUBSCRIPTION", tariff, k, None)
      OBVIOUS
    <3>2. /\ IsTx(q) /\ q.user = user[k] /\ q.type = "SUBSCRIPTION" /\ q.tariff = tariff
          /\ q.plan = k /\ q.intent = None /\ q.newIntent = None
      BY <3>1 DEF IsTx, NewTx
    <3>3. subscription(k) = [q EXCEPT !.status = "SUCCESS", !.sub = k]
      BY <3>1
    <3> HIDE DEF subscription
    <3>4. QED
      BY <3>2, <3>3 DEF IsTx, Subscribed
  <2>3. QED
    BY <2>1, <2>2
<1>8. ASSUME NEW u \in Users PROVE number(u) \in 1..n
  <2>1. \E k \in 1..n : user[k] = u
    BY <1>1, <1>3, EveryUserNumbered, ZenonT(60)
  <2>2. QED
    BY <2>1
<1>9. /\ n <= MaxPlans /\ n <= MaxIntents /\ n <= MaxSubs /\ n <= MaxCustomers
      /\ 2 * n <= MaxTxs
      /\ MaxPlans \in Nat /\ MaxIntents \in Nat /\ MaxSubs \in Nat /\ MaxCustomers \in Nat
      /\ MaxTxs \in Nat
  BY <1>1, RoomAssumption
<1>10. ASSUME NEW k \in 1..n
       PROVE  IntentTyped(intent(k)) /\ sub(k) \in Sub /\ plan(k) \in Plan
  BY <1>2, <1>9, StartRows, ZenonT(30)
<1>11. /\ plansOf = [k \in 1..n |-> plansOf[k]] /\ intentsOf = [k \in 1..n |-> intentsOf[k]]
       /\ subsOf = [k \in 1..n |-> subsOf[k]] /\ user = [k \in 1..n |-> user[k]]
       /\ rows1 = [k \in 1..n |-> rows1[k]] /\ rows2 = [k \in 1..n |-> rows2[k]]
  OBVIOUS
<1>12. /\ \A k \in 1..n : plansOf[k] = plan(k) /\ intentsOf[k] = intent(k) /\ subsOf[k] = sub(k)
       /\ \A k \in 1..n : rows1[k] = validation(k) /\ rows2[k] = subscription(k)
  OBVIOUS
<1> HIDE DEF number, plan, intent, sub, validation, subscription, plansOf, intentsOf,
             subsOf, rows1, rows2
<1>13. /\ StartTable(plans, n, known) /\ StartTable(customers, n, known)
       /\ StartTable(intents, n, subscribed) /\ StartTable(subs, n, subscribed)
  BY <1>2, <1>6, <1>11, StartsTable
<1>14. PlansTyped
  BY <1>2, <1>6, <1>9, <1>10, <1>12, <1>13 DEF PlansTyped, StartTable
<1>15. StripeTyped
  <2>1. IntentsTyped
    BY <1>2, <1>6, <1>9, <1>10, <1>12, <1>13 DEF IntentsTyped, StartTable
  <2>2. SubsTyped
    BY <1>2, <1>6, <1>9, <1>10, <1>12, <1>13 DEF SubsTyped, StartTable
  <2>3. CustomersTyped
    BY <1>2, <1>6, <1>9, <1>13 DEF CustomersTyped, StartTable
  <2>4. QED
    BY <2>1, <2>2, <2>3, StripeParts
<1>16. TxsTyped
  <2>1. PICK ones, twos : /\ ones = IF subscribed THEN rows1 ELSE <<>>
                          /\ twos = IF subscribed THEN rows2 ELSE <<>>
    OBVIOUS
  <2>2. StartTable(ones, n, subscribed) /\ StartTable(twos, n, subscribed)
    BY <1>2, <1>11, <2>1, StartsTable
  <2>3. IsTable(ones) /\ IsTable(twos) /\ txs = ones \o twos
    BY <1>6, <2>1, <2>2 DEF StartTable
  <2>4. Len(txs) <= MaxTxs
    <3>1. Len(txs) = Len(ones) + Len(twos)
      BY <2>3, JoinedLength
    <3>2. Len(ones) \in {0, n} /\ Len(twos) \in {0, n}
      BY <2>2 DEF StartTable
    <3>3. QED
      BY <1>2, <1>9, <3>1, <3>2
  <2>5. \A k \in DOMAIN txs : \/ k \in DOMAIN ones /\ txs[k] = ones[k]
                              \/ \E j \in DOMAIN twos : txs[k] = twos[j]
    BY <2>3, JoinedRows
  <2>6. ASSUME NEW t \in DOMAIN txs PROVE TxTyped(t)
    <3>1. \/ t \in DOMAIN ones /\ txs[t] = ones[t]
          \/ \E j \in DOMAIN twos : txs[t] = twos[j]
      BY <2>5
    <3>2. subscribed
      BY <2>2, <3>1 DEF StartTable
    <3>3. ones = rows1 /\ twos = rows2 /\ DOMAIN ones = 1..n /\ DOMAIN twos = 1..n
      BY <2>1, <2>2, <3>2 DEF StartTable
    <3>4. PICK k \in 1..n : txs[t] = validation(k) \/ txs[t] = subscription(k)
      BY <1>12, <3>1, <3>3
    <3>5. k \in DOMAIN plans
      <4>1. known
        BY <1>4, <3>2
      <4>2. QED
        BY <1>13, <4>1 DEF StartTable
    <3>6. user[k] \in Users
      OBVIOUS
    <3>7. QED
      BY <1>7, <3>4, <3>5, <3>6, StartTx
  <2>7. QED
    BY <2>4, <2>6 DEF TxsTyped
<1>17. RecordsTyped
  <2>1. StartStatus(profile) \in Status
    BY DEF StartStatus, Status
  <2>2. \A u \in Users : number(u) \in 1..MaxCustomers
    BY <1>2, <1>8, <1>9
  <2>3. ASSUME NEW u \in Users PROVE users[u] \in User
    BY <1>6, <2>1, <2>2 DEF User, Maybe
  <2>4. ASSUME NEW u \in Users PROVE cards[u] \in Wallet
    BY <1>6 DEF Wallet, Maybe
  <2>5. cards \in [Users -> Wallet]
    BY <1>6, <2>4
  <2>6. QED
    BY <2>3, <2>5 DEF RecordsTyped
<1>18. CallsTyped
  <2>1. ASSUME NEW h \in Handlers PROVE Typed(handlers[h])
    <3>1. PICK r : r = IdleHandler
      OBVIOUS
    <3>2. Locals(r)
      BY <3>1 DEF Locals, IdleHandler, Place, Task, Maybe
    <3>3. Party(r) /\ Asks(r)
      BY <3>1 DEF Party, Asks, IdleHandler, RequestTask, WebhookTask, OnAPlan
    <3>4. handlers[h] = r
      BY <3>1 DEF Init
    <3>5. QED
      BY <3>2, <3>3, <3>4 DEF Typed, Needs
  <2>2. QED
    BY <2>1 DEF CallsTyped
<1>19. now \in Nat /\ budget \in Budget
  BY ScenariosAssumption DEF Init
<1>20. QED
  BY <1>14, <1>15, <1>16, <1>17, <1>18, <1>19 DEF TypesInv

----------------------------------------------------------------------------
(* The types.                                                                *)

\* A table of rows of a set is a sequence of them.
LEMMA TableOf ==
  ASSUME NEW s, IsTable(s), NEW S, \A k \in DOMAIN s : s[k] \in S PROVE s \in Seq(S)
<1>1. s \in [1..Len(s) -> S] /\ Len(s) \in Nat
  BY DEF IsTable
<1>2. QED
  BY <1>1, SeqDef

\* The types of all that the invariants know.
LEMMA TypesTold ==
  ASSUME TypedState PROVE TypeOK
<1>1. /\ StartInv /\ UserRows /\ TxRows /\ StripeRows /\ EventsReported /\ HandlersFit
      /\ IsTable(plans)
      /\ PlansTyped /\ TxsTyped /\ StripeTyped /\ RecordsTyped /\ CallsTyped
  BY DEF TypedState, StartInv, OutcomeInv, RowsInv, TypesInv, PlanRows
<1>2. /\ IsTable(txs) /\ IsTable(intents) /\ IsTable(subs) /\ IsTable(customers)
  BY <1>1 DEF TxRows, StripeRows
<1>3. /\ MaxPlans \in Nat /\ MaxTxs \in Nat /\ MaxIntents \in Nat /\ MaxSubs \in Nat
      /\ MaxCustomers \in Nat
  BY RoomAssumption
<1>4. /\ DOMAIN plans \subseteq 1..MaxPlans /\ DOMAIN txs \subseteq 1..MaxTxs
      /\ DOMAIN intents \subseteq 1..MaxIntents /\ DOMAIN subs \subseteq 1..MaxSubs
  <2>1. DOMAIN plans \subseteq 1..MaxPlans
    BY <1>1, <1>3, WithinRoom DEF PlansTyped
  <2>2. DOMAIN txs \subseteq 1..MaxTxs
    BY <1>1, <1>2, <1>3, WithinRoom DEF TxsTyped
  <2>3. DOMAIN intents \subseteq 1..MaxIntents /\ DOMAIN subs \subseteq 1..MaxSubs
    BY <1>1, <1>2, <1>3, WithinRoom DEF StripeTyped
  <2>4. QED
    BY <2>1, <2>2, <2>3
<1>5. users \in [Users -> User]
  BY <1>1 DEF UserRows, RecordsTyped
<1>6. plans \in Seq(Plan)
  BY <1>1, TableOf DEF PlansTyped
<1>7. txs \in Seq(Tx)
  <2>1. ASSUME NEW t \in DOMAIN txs PROVE txs[t] \in Tx
    <3>1. PICK r : r = txs[t]
      OBVIOUS
    <3>2. /\ r.user \in Users /\ r.type \in TxType
          /\ r.status \in {"PENDING", "SUCCESS", "FAILED", "CANCELED"}
          /\ r.tariff \in Maybe(Tariffs) /\ r.plan \in Maybe(DOMAIN plans)
      BY <1>1, <3>1 DEF TxsTyped, TxTyped
    <3>3. /\ IsTx(r) /\ r.intent \in Maybe(DOMAIN intents)
          /\ r.newIntent \in Maybe(DOMAIN intents)
      BY <1>1, <3>1 DEF TxRows, Maybe
    <3>4. r.sub \in Maybe(DOMAIN subs)
      BY <1>1, <3>1 DEF StartInv, RecordsInv, RowsFit, RowFits, Maybe
    <3>5. /\ r.plan \in Maybe(1..MaxPlans) /\ r.intent \in Maybe(1..MaxIntents)
          /\ r.newIntent \in Maybe(1..MaxIntents) /\ r.sub \in Maybe(1..MaxSubs)
      BY <1>4, <3>2, <3>3, <3>4 DEF Maybe
    <3>6. r \in Tx
      BY <3>2, <3>3, <3>5 DEF IsTx, Tx
    <3>7. QED
      BY <3>1, <3>6
  <2>2. QED
    BY <1>2, <2>1, TableOf
<1>8. intents \in Seq(Intent) /\ subs \in Seq(Sub) /\ customers \in Seq(Users)
  <2>1. /\ \A i \in DOMAIN intents : intents[i] \in Intent
        /\ \A s \in DOMAIN subs : subs[s] \in Sub
        /\ \A c \in DOMAIN customers : customers[c] \in Users
    BY <1>1 DEF StripeTyped
  <2>2. QED
    BY <1>2, <2>1, TableOf
<1>9. events \in [pending : SUBSET Event, acked : SUBSET Event]
  <2>1. ASSUME NEW e \in events.pending \cup events.acked PROVE e \in Event
    <3>1. e.type \in EventType /\ e.about \in Nat
      BY <1>1 DEF EventsReported, Reported
    <3>2. e = [type |-> e.type, about |-> e.about]
      BY <1>1 DEF StartInv, CallsInv, EventsShown, ReportShown
    <3>3. QED
      BY <3>1, <3>2 DEF Event
  <2>2. events.pending \in SUBSET Event /\ events.acked \in SUBSET Event
    BY <2>1
  <2>3. events = [pending |-> events.pending, acked |-> events.acked]
    BY <1>1 DEF EventsReported
  <2>4. QED
    BY <2>2, <2>3
<1>10. handlers \in [Handlers -> Handler]
  <2>1. ASSUME NEW h \in Handlers PROVE handlers[h] \in Handler
    <3>1. PICK r : r = handlers[h]
      OBVIOUS
    <3>2. IsHandler(r) /\ Locals(r) /\ Fits(r) /\ WhoKnown(r)
      BY <3>1, CallTyped DEF Knows
    <3>3. r.event \in Maybe(Event)
      <4>1. CASE r.event # None
        <5>1. r.event = [type |-> r.event.type, about |-> r.event.about]
          BY <3>2, <4>1 DEF WhoKnown, ReportShown
        <5>2. r.event.type \in EventType /\ r.event.about \in Nat
          BY <3>2, <4>1 DEF Fits, EventFits, Reported
        <5>3. QED
          BY <5>1, <5>2 DEF Event, Maybe
      <4>2. QED
        BY <4>1 DEF Maybe
    <3>4. /\ r.at \in Place /\ r.task \in Task /\ r.user \in Maybe(Users)
          /\ r.me \in Maybe(User) /\ r.tariff \in Maybe(Tariffs) /\ r.type \in Maybe(TxType)
          /\ r.card \in Maybe(Cards) /\ r.customer \in Maybe(1..MaxCustomers)
          /\ r.listed \in SUBSET (1..MaxSubs) /\ r.replaces \in BOOLEAN /\ r.round \in 1..2
          /\ r.outcome \in {"SUCCESS", "FAILED"}
      BY <3>2 DEF Locals, WhoKnown
    <3>5. /\ r.plan \in Maybe(1..MaxPlans) /\ r.other \in Maybe(1..MaxPlans)
          /\ r.tx \in Maybe(1..MaxTxs) /\ r.intent \in Maybe(1..MaxIntents)
      BY <1>4, <3>2 DEF Locals, Maybe
    <3>6. r \in Handler
      BY <3>2, <3>3, <3>4, <3>5 DEF IsHandler, Handler
    <3>7. QED
      BY <3>1, <3>6
  <2>2. handlers = [h \in Handlers |-> handlers[h]]
    BY <1>1 DEF HandlersFit
  <2>3. QED
    BY <2>1, <2>2
<1>11. /\ cards \in [Users -> Wallet] /\ now \in Nat /\ budget \in Budget
       /\ Len(plans) <= MaxPlans /\ Len(txs) <= MaxTxs /\ Len(intents) <= MaxIntents
       /\ Len(subs) <= MaxSubs /\ Len(customers) <= MaxCustomers
  BY DEF TypedState, TypesInv, RecordsTyped, PlansTyped, TxsTyped, StripeTyped
<1>12. QED
  BY <1>5, <1>6, <1>7, <1>8, <1>9, <1>10, <1>11 DEF TypeOK

(* All that is known of the state.                                           *)
WholeInv == SettlementInv /\ PlanInv /\ TypesInv

LEMMA WholeAlways == Spec => []WholeInv
<1>1. Init => WholeInv
  BY InitialSettlement, InitialPlans, InitialTypes DEF WholeInv
<1>2. WholeInv /\ [Next]_vars => WholeInv'
  <2> SUFFICES ASSUME WholeInv, [Next]_vars PROVE WholeInv'
    OBVIOUS
  <2>1. TypedState
    BY DEF WholeInv, TypedState, SettlementInv, StartInv, PlanInv
  <2>2. SettlementInv' /\ PlanInv'
    BY SettlementStep, PlanStep DEF WholeInv
  <2>3. TypesInv'
    BY <2>1, <2>2, TypesStep DEF SettlementInv
  <2>4. QED
    BY <2>2, <2>3 DEF WholeInv
<1>3. QED
  BY <1>1, <1>2, PTL DEF Spec

(* Every table, record, event and call is of its type, and no table outgrows  *)
(* its room: what a call holds is a row that still exists, a call that acts   *)
(* for a user has the user's record, and a plan or a row that is written has  *)
(* a tariff, however far the calls have come when others overtake them.       *)
THEOREM TypesAlways == Spec => []TypeOK
<1>1. WholeInv => TypeOK
  <2> SUFFICES ASSUME WholeInv PROVE TypeOK
    OBVIOUS
  <2>1. TypedState
    BY DEF WholeInv, TypedState, SettlementInv, StartInv, PlanInv
  <2>2. QED
    BY <2>1, TypesTold
<1>2. QED
  BY WholeAlways, <1>1, PTL

----------------------------------------------------------------------------
(* The ledger: each step enters, sweeps, settles, fails or links rows of     *)
(* PaymentLedger, or leaves them alone.                                      *)

(* A row stays what it is in the ledger, its status aside.                   *)
LedgerStays(t) ==
    /\ txs'[t].type = txs[t].type /\ txs'[t].user = txs[t].user
    /\ txs'[t].intent = txs[t].intent
    /\ (txs'[t].sub # None) = (txs[t].sub # None)

NobodyPays ==
    /\ \A i \in DOMAIN intents :
          i \in DOMAIN intents' /\ intents'[i].origin = intents[i].origin
    /\ \A i \in DOMAIN intents :
          (intents'[i].state = "paid") <=> (intents[i].state = "paid")
    /\ \A i \in DOMAIN intents' :
          i \notin DOMAIN intents => intents'[i].state # "paid"

\* The payments that were made are the same ones.
LEMMA PaidStays == ASSUME NobodyPays PROVE UNCHANGED LedgerPaid
<1>1. ASSUME NEW i \in DOMAIN intents, intents[i].state = "paid"
      PROVE  /\ i \in DOMAIN intents' /\ intents'[i].state = "paid"
             /\ intents'[i].origin = intents[i].origin
  BY <1>1 DEF NobodyPays
<1>2. ASSUME NEW i \in DOMAIN intents', intents'[i].state = "paid"
      PROVE  /\ i \in DOMAIN intents /\ intents[i].state = "paid"
             /\ intents'[i].origin = intents[i].origin
  BY <1>2 DEF NobodyPays
<1>3. LedgerPaid = {intents[i].origin : i \in {j \in DOMAIN intents : intents[j].state = "paid"}}
  BY DEF LedgerPaid
<1>4. LedgerPaid' =
         {intents'[i].origin : i \in {j \in DOMAIN intents' : intents'[j].state = "paid"}}
  BY DEF LedgerPaid
<1>5. ASSUME NEW p \in LedgerPaid PROVE p \in LedgerPaid'
  BY <1>1, <1>3, <1>4
<1>6. ASSUME NEW p \in LedgerPaid' PROVE p \in LedgerPaid
  BY <1>2, <1>3, <1>4
<1>7. QED
  BY <1>5, <1>6

\* A row in the ledger.
LEMMA LedgerFields ==
  ASSUME NEW t \in DOMAIN txs
  PROVE  /\ t \in DOMAIN LedgerRows /\ LedgerRows[t] = LedgerRow(t)
         /\ LedgerRow(t).user = txs[t].user /\ LedgerRow(t).type = txs[t].type
         /\ LedgerRow(t).status = txs[t].status
         /\ txs[t].intent = None => LedgerRow(t).payment = None
         /\ txs[t].intent # None =>
               LedgerRow(t).payment = intents[txs[t].intent].origin
         /\ LedgerRow(t).linked = (txs[t].sub # None)
  BY DEF LedgerRows, LedgerRow

\* What becomes of it.
LEMMA LedgerRowStays ==
  ASSUME TxRows, Kept, NEW t \in DOMAIN txs, LedgerStays(t)
  PROVE  LedgerRow(t)' = [LedgerRow(t) EXCEPT !.status = txs'[t].status]
<1>1. txs[t].intent # None =>
         intents'[txs[t].intent].origin = intents[txs[t].intent].origin
  BY DEF TxRows, Kept
<1>2. LedgerRow(t)' =
         [user |-> txs'[t].user, type |-> txs'[t].type, status |-> txs'[t].status,
          payment |-> IF txs'[t].intent = None THEN None
                      ELSE intents'[txs'[t].intent].origin,
          linked |-> txs'[t].sub # None]
  BY DEF LedgerRow
<1>3. QED
  BY <1>1, <1>2 DEF LedgerRow, LedgerStays

\* Rows get a status.
LEMMA LedgerGiven ==
  ASSUME TxRows, Kept, UNCHANGED LedgerPaid, DOMAIN txs' = DOMAIN txs, NEW T, NEW status,
         \A t \in DOMAIN txs :
            /\ LedgerStays(t)
            /\ txs'[t].status = IF t \in T THEN status ELSE txs[t].status
  PROVE  Ledger!Give(T, status)
<1>1. ASSUME NEW t \in DOMAIN txs
      PROVE  LedgerRow(t)' = IF t \in T THEN [LedgerRows[t] EXCEPT !.status = status]
                                        ELSE LedgerRows[t]
  <2>1. LedgerRow(t)' = [LedgerRow(t) EXCEPT !.status = txs'[t].status]
    BY LedgerRowStays
  <2>2. [LedgerRow(t) EXCEPT !.status = txs[t].status] = LedgerRow(t)
    BY DEF LedgerRow
  <2>3. QED
    BY <2>1, <2>2, LedgerFields
<1>2. DOMAIN LedgerRows = DOMAIN txs
  BY DEF LedgerRows
<1>3. LedgerRows' = [t \in DOMAIN txs |-> LedgerRow(t)']
  BY DEF LedgerRows
<1>4. LedgerRows' = [t \in DOMAIN LedgerRows |->
                        IF t \in T THEN [LedgerRows[t] EXCEPT !.status = status]
                                   ELSE LedgerRows[t]]
  BY <1>1, <1>2, <1>3, ZenonT(30)
<1>5. QED
  BY <1>4 DEF Ledger!Give

\* Nobody writes rows, and nobody pays.
LEMMA LedgerUnwritten ==
  ASSUME TxRows, Kept, UNCHANGED LedgerPaid, UNCHANGED txs
  PROVE  UNCHANGED Ledger!vars
<1>1. ASSUME NEW t \in DOMAIN txs PROVE LedgerRow(t)' = LedgerRow(t)
  <2>1. LedgerRow(t)' = [LedgerRow(t) EXCEPT !.status = txs[t].status]
    BY LedgerRowStays DEF LedgerStays
  <2>2. QED
    BY <2>1 DEF LedgerRow
<1>2. LedgerRows' = [t \in DOMAIN txs |-> LedgerRow(t)']
  BY DEF LedgerRows
<1>3. LedgerRows' = LedgerRows
  BY <1>1, <1>2 DEF LedgerRows
<1>4. QED
  BY <1>3 DEF Ledger!vars

\* No call of the program pays.
LEMMA StepPaysNothing ==
  ASSUME StartInv, NEW h \in Handlers, Step(h) PROVE UNCHANGED LedgerPaid
<1>1. StripeRows
  BY CallKnown DEF RowsInv
<1>2. CASE UNCHANGED intents
  BY <1>2 DEF LedgerPaid
<1>3. CASE \/ \E i : intents' = [intents EXCEPT ![i].shown = TRUE]
           \/ \E i : intents' = [intents EXCEPT ![i].refunded = TRUE]
  <2>1. PICK i : \/ intents' = [intents EXCEPT ![i].shown = TRUE]
                 \/ intents' = [intents EXCEPT ![i].refunded = TRUE]
    BY <1>3
  <2>2. DOMAIN intents' = DOMAIN intents
    BY <2>1
  <2>3. ASSUME NEW k \in DOMAIN intents
        PROVE  intents'[k].origin = intents[k].origin /\ intents'[k].state = intents[k].state
    <3>1. IsIntent(intents[k])
      BY <1>1 DEF StripeRows
    <3>2. CASE k # i
      BY <2>1, <3>2
    <3>3. CASE k = i
      <4>1. \/ intents'[k] = [intents[k] EXCEPT !.shown = TRUE]
            \/ intents'[k] = [intents[k] EXCEPT !.refunded = TRUE]
        BY <2>1, <3>3
      <4>2. QED
        BY <3>1, <4>1 DEF IsIntent
    <3>4. QED
      BY <3>2, <3>3
  <2>4. QED
    BY <2>2, <2>3, PaidStays DEF NobodyPays
<1>4. CASE \E c, origin : intents' = Append(intents, NewIntent(c, origin))
  <2>1. PICK c, origin : intents' = Append(intents, NewIntent(c, origin))
    BY <1>4
  <2>2. PICK row : row = NewIntent(c, origin)
    OBVIOUS
  <2>3. Grown(intents, row, intents')
    BY <1>1, <2>1, <2>2, AppendedTable DEF StripeRows
  <2>4. row.state = "open"
    BY <2>2 DEF NewIntent
  <2>5. \A i \in DOMAIN intents' : i \in DOMAIN intents \/ i = Len(intents) + 1
    BY <1>1, <2>3 DEF Grown, StripeRows, IsTable
  <2>6. QED
    BY <2>3, <2>4, <2>5, PaidStays DEF Grown, NobodyPays
<1>5. QED
  <2>1. (\E t \in DOMAIN txs : intents' = [intents EXCEPT ![txs[t].intent].shown = TRUE])
        \/ intents' = [intents EXCEPT ![handlers[h].intent].shown = TRUE]
           => \E i : intents' = [intents EXCEPT ![i].shown = TRUE]
    OBVIOUS
  <2>2. QED
    BY <1>2, <1>3, <1>4, <2>1, IntentsWritten

\* A step, as the ledger has to see it.
LedgerStep == Ledger!Next \/ UNCHANGED Ledger!vars

\* The rows of a user that a newer request or the end of another payment cancels.
LEMMA SweepInLedger ==
  ASSUME TypedState, Kept, NEW h \in Handlers, Supersede(h) \/ CancelOthers(h),
         UNCHANGED LedgerPaid
  PROVE  LedgerStep
<1>1. /\ TxRows /\ Knows(handlers[h]) /\ Fits(handlers[h])
  BY CallKnown DEF TypedState, RowsInv
<1>2. PICK u, types : /\ u = handlers[h].user /\ "CARD_VALIDATION" \notin types
                      /\ txs' = TxsWithStatus(PendingTxs(u, types), "CANCELED")
  <2>1. Supersede(h) => txs' = TxsWithStatus(PendingTxs(handlers[h].user, {"SUBSCRIPTION"}),
                                             "CANCELED")
    BY DEF Supersede
  <2>2. CancelOthers(h) => txs' = TxsWithStatus(PendingTxs(handlers[h].user,
                                             TxType \ {"CARD_VALIDATION"}), "CANCELED")
    BY DEF CancelOthers
  <2>3. QED
    BY <2>1, <2>2
<1>3. u \in Users
  <2>1. \/ handlers[h].task \in RequestTask
        \/ handlers[h].task \in WebhookTask /\ handlers[h].at \notin Searching
    BY <1>1 DEF Supersede, CancelOthers, At, Fits, PlaceFits, RequestTask, WebhookTask,
       Searching
  <2>2. QED
    BY <1>1, <1>2, <2>1 DEF Knows, WhoKnown
<1>4. PICK T : T = PendingTxs(u, types)
  OBVIOUS
<1>5. /\ T \subseteq DOMAIN txs
      /\ \A t \in T : txs[t].user = u /\ txs[t].status = "PENDING"
                      /\ txs[t].type # "CARD_VALIDATION"
  BY <1>2, <1>4 DEF PendingTxs, TxsOf
<1>6. Ledger!Give(T, "CANCELED")
  <2>1. /\ DOMAIN txs' = DOMAIN txs
        /\ \A t \in DOMAIN txs :
              /\ RowStays(t)
              /\ txs'[t].status = IF t \in T THEN "CANCELED" ELSE txs[t].status
    BY <1>1, <1>2, <1>4, StatusWritten
  <2>2. QED
    BY <1>1, <2>1, LedgerGiven DEF RowStays, LedgerStays
<1>7. Ledger!Sweep(u, T)
  BY <1>5, <1>6, LedgerFields DEF Ledger!Sweep
<1>8. T \in SUBSET DOMAIN LedgerRows
  BY <1>5 DEF LedgerRows
<1>9. QED
  BY <1>3, <1>7, <1>8 DEF LedgerStep, Ledger!Next

\* The payments that rows wait for.
LEMMA PaymentsNumbered ==
  ASSUME TypedState
  PROVE  /\ \A i \in DOMAIN intents : intents[i].origin \in 1..MaxIntents
         /\ \A t \in DOMAIN txs : txs[t].user \in Users
         /\ \A i \in DOMAIN intents :
               intents[i].state = "paid" => intents[i].origin \in LedgerPaid
         /\ \A i \in 1..MaxIntents : i # None
  BY NoneAssumption, RoomAssumption
     DEF TypedState, TypesInv, StripeTyped, TxsTyped, TxTyped, Intent, LedgerPaid

\* The row that a webhook found by its replacement was paid, or has got a
\* subscription meanwhile.
LEMMA SettleByIdInLedger ==
  ASSUME TypedState, Kept, NEW h \in Handlers, SettleById(h), UNCHANGED LedgerPaid
  PROVE  LedgerStep
<1>0. /\ TxRows /\ HandlersFit /\ Knows(handlers[h]) /\ Fits(handlers[h])
  BY CallKnown DEF TypedState, RowsInv
<1>1. PICK t, i : t = handlers[h].tx /\ i = About(h)
  OBVIOUS
<1>2. txs' = TxsWithStatus({t}, "SUCCESS") /\ handlers[h].replaces
  BY <1>1 DEF SettleById, UpdatesByIdOnly
<1>3. /\ t \in DOMAIN txs /\ Billed(t)
      /\ handlers[h].task = "intentSucceeded"
      /\ txs[t].intent # None => intents[txs[t].intent].origin = intents[i].origin
  BY <1>0, <1>1, <1>2 DEF Knows, ClearKnown, Fits, CallFits, About
<1>4. i \in DOMAIN intents /\ intents[i].state = "paid"
  BY <1>0, <1>1, <1>3, WebhookKnows
<1>5. Ledger!Give({t}, "SUCCESS")
  <2>1. /\ DOMAIN txs' = DOMAIN txs
        /\ \A s \in DOMAIN txs :
              /\ RowStays(s)
              /\ txs'[s].status = IF s \in {t} THEN "SUCCESS" ELSE txs[s].status
    BY <1>0, <1>2, StatusWritten
  <2>2. QED
    BY <1>0, <2>1, LedgerGiven DEF RowStays, LedgerStays
<1>6. {t} \in SUBSET DOMAIN LedgerRows
  BY <1>3 DEF LedgerRows
<1>7. CASE txs[t].intent # None
  <2>1. PICK p : p = intents[i].origin
    OBVIOUS
  <2>2. p \in 1..MaxIntents /\ p \in LedgerPaid
    BY <1>4, <2>1, PaymentsNumbered
  <2>3. LedgerRows[t].payment = p
    BY <1>3, <1>7, <2>1, LedgerFields
  <2>4. Ledger!SettlePayment(p, {t})
    BY <1>5, <2>2, <2>3 DEF Ledger!SettlePayment
  <2>5. QED
    BY <1>6, <2>2, <2>4 DEF LedgerStep, Ledger!Next
<1>8. CASE txs[t].intent = None
  <2>1. LedgerRows[t].linked /\ LedgerRows[t].user = txs[t].user /\ txs[t].user \in Users
    BY <1>3, <1>8, LedgerFields, PaymentsNumbered DEF Billed
  <2>2. Ledger!SettleSubscription(txs[t].user, {t})
    BY <1>5, <2>1 DEF Ledger!SettleSubscription
  <2>3. QED
    BY <1>6, <2>1, <2>2 DEF LedgerStep, Ledger!Next
<1>9. QED
  BY <1>7, <1>8

\* The rows of an event are those of one payment, or of one user's subscription.
LEMMA SettleRowsInLedger ==
  ASSUME TypedState, Kept, NEW h \in Handlers, SettleRows(h), UNCHANGED LedgerPaid
  PROVE  LedgerStep
<1>0. /\ TxRows /\ HandlersFit /\ Knows(handlers[h]) /\ Fits(handlers[h])
  BY CallKnown DEF TypedState, RowsInv
<1>1. PICK u, i, T, outcome : /\ u = handlers[h].user /\ i = About(h)
                              /\ T = RowsToSettle(h) /\ outcome = handlers[h].outcome
  OBVIOUS
<1>2. /\ At(h, "settleRows") /\ outcome \in {"SUCCESS", "FAILED"}
      /\ handlers[h].task \in {"intentSucceeded", "subscriptionCreated"}
  BY <1>0, <1>1, ZenonT(30) DEF SettleRows, At, Knows, WhoKnown, Fits, PlaceFits
<1>3. u \in Users
  BY <1>0, <1>1, <1>2 DEF Knows, WhoKnown, At, WebhookTask, Searching
<1>4. Ledger!Give(T, outcome)
  <2>1. /\ DOMAIN txs' = DOMAIN txs
        /\ \A t \in DOMAIN txs :
              /\ RowStays(t)
              /\ txs'[t].status = IF t \in T THEN outcome ELSE txs[t].status
    BY <1>0, <1>1, RowsSettled
  <2>2. QED
    BY <1>0, <2>1, LedgerGiven DEF RowStays, LedgerStays
<1>5. T \subseteq DOMAIN txs /\ \A t \in T : txs[t].user = u
  BY <1>1 DEF RowsToSettle, TxsOf
<1>6. T \in SUBSET DOMAIN LedgerRows
  BY <1>5 DEF LedgerRows
<1>7. CASE handlers[h].task = "subscriptionCreated"
  <2>1. outcome = "SUCCESS" /\ i # None
    BY <1>0, <1>1, <1>7, WebhookKnows, NoneAssumption
  <2>2. \A t \in T : txs[t].sub = i
    BY <1>1, <1>7 DEF RowsToSettle
  <2>3. \A t \in T : LedgerRows[t].linked /\ LedgerRows[t].user = u
    BY <1>5, <2>1, <2>2, LedgerFields
  <2>4. Ledger!SettleSubscription(u, T)
    BY <1>4, <2>1, <2>3 DEF Ledger!SettleSubscription
  <2>5. QED
    BY <1>3, <1>6, <2>4 DEF LedgerStep, Ledger!Next
<1>8. CASE handlers[h].task = "intentSucceeded"
  <2>1. i # None /\ i \in DOMAIN intents /\ intents[i].state = "paid"
    BY <1>0, <1>1, <1>8, WebhookKnows, NoneAssumption
  <2>2. PICK p : p = intents[i].origin
    OBVIOUS
  <2>3. p \in 1..MaxIntents /\ p \in LedgerPaid
    BY <2>1, <2>2, PaymentsNumbered
  <2>4. \A t \in T : txs[t].intent = i /\ txs[t].sub = None
    BY <1>0, <1>1, <1>5, <1>8, <2>1 DEF RowsToSettle, TxRows
  <2>5. \A t \in T : LedgerRows[t].payment = p /\ ~LedgerRows[t].linked
    BY <1>5, <2>1, <2>2, <2>4, LedgerFields
  <2>6. CASE outcome = "SUCCESS"
    <3>1. Ledger!SettlePayment(p, T)
      BY <1>4, <2>3, <2>5, <2>6 DEF Ledger!SettlePayment
    <3>2. QED
      BY <1>6, <2>3, <3>1 DEF LedgerStep, Ledger!Next
  <2>7. CASE outcome = "FAILED"
    <3>1. Ledger!FailPayment(p, T)
      BY <1>4, <2>5, <2>7 DEF Ledger!FailPayment
    <3>2. QED
      BY <1>6, <2>3, <3>1 DEF LedgerStep, Ledger!Next
  <2>8. QED
    BY <1>2, <2>6, <2>7
<1>9. QED
  BY <1>2, <1>7, <1>8

\* A row whose payment failed, whichever of those that name the intent it is.
LEMMA FailedInLedger ==
  ASSUME TypedState, Kept, NEW t \in DOMAIN txs, txs[t].intent # None, txs[t].sub = None,
         Ledger!Give({t}, "FAILED")
  PROVE  LedgerStep
<1>1. TxRows
  BY DEF TypedState, StartInv, OutcomeInv, RowsInv
<1>2. PICK p : p = intents[txs[t].intent].origin
  OBVIOUS
<1>3. p \in 1..MaxIntents
  BY <1>1, <1>2, PaymentsNumbered DEF TxRows
<1>4. LedgerRows[t].payment = p /\ ~LedgerRows[t].linked
  BY <1>2, LedgerFields
<1>5. Ledger!FailPayment(p, {t})
  BY <1>4 DEF Ledger!FailPayment
<1>6. {t} \in SUBSET DOMAIN LedgerRows
  BY DEF LedgerRows
<1>7. QED
  BY <1>3, <1>5, <1>6 DEF LedgerStep, Ledger!Next

LEMMA FailInLedger ==
  ASSUME TypedState, Kept, NEW h \in Handlers, FailValidation(h) \/ FailTx(h),
         UNCHANGED LedgerPaid
  PROVE  LedgerStep
<1>0. /\ TxRows /\ RecordsInv /\ HandlersFit /\ Knows(handlers[h]) /\ Fits(handlers[h])
      /\ StartInv /\ RowsInv
  BY CallKnown DEF TypedState, RowsInv, StartInv, OutcomeInv
<1>1. PICK t, u, new : /\ t = handlers[h].tx /\ u = handlers[h].user
                       /\ new = handlers[h].intent
  OBVIOUS
<1>2. t \in DOMAIN txs /\ txs[t].intent # None /\ txs[t].sub = None
  <2>1. At(h, "failValidationRow") \/ At(h, "failTxRow")
    BY ZenonT(30) DEF FailValidation, FailTx
  <2>2. QED
    BY <1>0, <1>1, <2>1, RowToFail
<1>3. ASSUME DOMAIN txs' = DOMAIN txs,
             \A s \in DOMAIN txs :
                /\ LedgerStays(s)
                /\ txs'[s].status = IF s \in {t} THEN "FAILED" ELSE txs[s].status
      PROVE  LedgerStep
  <2>1. Ledger!Give({t}, "FAILED")
    BY <1>0, <1>3, LedgerGiven
  <2>2. QED
    BY <1>2, <2>1, FailedInLedger
<1>4. CASE FailValidation(h)
  <2>1. txs' = TxsWithStatus({t}, "FAILED")
    BY <1>1, <1>4 DEF FailValidation
  <2>2. /\ DOMAIN txs' = DOMAIN txs
        /\ \A s \in DOMAIN txs :
              /\ RowStays(s)
              /\ txs'[s].status = IF s \in {t} THEN "FAILED" ELSE txs[s].status
    BY <1>0, <2>1, StatusWritten
  <2>3. QED
    BY <1>3, <2>2 DEF RowStays, LedgerStays
<1>5. CASE FailTx(h)
  <2>1. txs' = [txs EXCEPT ![t].status = "FAILED", ![t].user = u, ![t].newIntent = new]
    BY <1>1, <1>5, ZenonT(30) DEF FailTx
  <2>2. txs[t].user = u /\ IsTx(txs[t])
    BY <1>0, <1>1, <1>2, <1>5 DEF FailTx, At, Knows, OwnerKnown, TxRows
  <2>3. DOMAIN txs' = DOMAIN txs /\ \A s \in DOMAIN txs : s # t => txs'[s] = txs[s]
    BY <2>1
  <2>4. LedgerStays(t) /\ txs'[t].status = "FAILED"
    <3>1. txs'[t] = [txs[t] EXCEPT !.status = "FAILED", !.user = u, !.newIntent = new]
      BY <1>2, <2>1
    <3>2. QED
      BY <2>2, <3>1 DEF IsTx, LedgerStays
  <2>5. QED
    BY <1>3, <2>3, <2>4 DEF LedgerStays
<1>6. QED
  BY <1>4, <1>5

\* A row that waits for a payment, once it is linked.
LEMMA LinkedRow ==
  ASSUME NEW old, NEW new, NEW user, NEW type, NEW status, NEW payment, NEW linked,
         old = [user |-> user, type |-> type, status |-> status, payment |-> payment,
                linked |-> linked],
         new = [user |-> user, type |-> type, status |-> status, payment |-> None,
                linked |-> TRUE]
  PROVE  new = [old EXCEPT !.payment = None, !.linked = TRUE]
<1>1. PICK yes : yes = TRUE
  OBVIOUS
<1>2. PICK r : r = [old EXCEPT !.payment = None]
  OBVIOUS
<1>3. r = [user |-> user, type |-> type, status |-> status, payment |-> None,
           linked |-> linked]
  BY <1>2
<1>4. PICK s : s = [r EXCEPT !.linked = yes]
  OBVIOUS
<1>5. s = [user |-> user, type |-> type, status |-> status, payment |-> None,
           linked |-> yes]
  BY <1>3, <1>4
<1>6. QED
  BY <1>1, <1>2, <1>4, <1>5, Zenon

\* From then on a row waits for no payment.
LEMMA LinkInLedger ==
  ASSUME TypedState, Kept, NEW h \in Handlers, LinkTx(h), UNCHANGED LedgerPaid
  PROVE  LedgerStep
<1>0. /\ TxRows /\ HandlersFit /\ Knows(handlers[h]) /\ Fits(handlers[h])
  BY CallKnown DEF TypedState, RowsInv
<1>1. PICK t, i : t = handlers[h].tx /\ i = About(h)
  OBVIOUS
<1>2. handlers[h].task = "subscriptionCreated" /\ At(h, "linkTx")
  BY <1>0 DEF LinkTx, At, Fits, PlaceFits
<1>3. /\ t \in DOMAIN txs /\ txs[t].type \in Subscription /\ IsTx(txs[t])
      /\ i # None
  BY <1>0, <1>1, <1>2, WebhookKnows, NoneAssumption
     DEF Knows, LinkKnown, Linking, At, TxRows
<1>4. txs' = [txs EXCEPT ![t].intent = None, ![t].newIntent = None, ![t].sub = i]
  BY <1>1 DEF LinkTx
<1>5. DOMAIN txs' = DOMAIN txs /\ \A s \in DOMAIN txs : s # t => txs'[s] = txs[s]
  BY <1>4
<1>6. LedgerRow(t)' = [LedgerRow(t) EXCEPT !.payment = None, !.linked = TRUE]
  <2>1. txs'[t] = [txs[t] EXCEPT !.intent = None, !.newIntent = None, !.sub = i]
    BY <1>3, <1>4
  <2>2. /\ txs'[t].status = txs[t].status /\ txs'[t].user = txs[t].user
        /\ txs'[t].type = txs[t].type /\ txs'[t].sub # None /\ txs'[t].intent = None
    BY <1>3, <2>1 DEF IsTx
  <2>3. LedgerRow(t)' = [user |-> txs[t].user, type |-> txs[t].type,
                         status |-> txs[t].status, payment |-> None, linked |-> TRUE]
    BY <2>2 DEF LedgerRow
  <2>4. PICK old, new : old = LedgerRow(t) /\ new = LedgerRow(t)'
    OBVIOUS
  <2>5. PICK u, type, status, payment, linked :
           /\ old = [user |-> u, type |-> type, status |-> status,
                     payment |-> payment, linked |-> linked]
           /\ u = txs[t].user /\ type = txs[t].type /\ status = txs[t].status
    BY <2>4, ZenonT(30) DEF LedgerRow
  <2>6. new = [user |-> u, type |-> type, status |-> status, payment |-> None,
               linked |-> TRUE]
    BY <2>3, <2>4, <2>5
  <2>7. new = [old EXCEPT !.payment = None, !.linked = TRUE]
    BY <2>5, <2>6, LinkedRow
  <2>8. QED
    BY <2>4, <2>7, Zenon
<1>7. ASSUME NEW s \in DOMAIN txs, s # t PROVE LedgerRow(s)' = LedgerRow(s)
  <2>1. LedgerRow(s)' = [LedgerRow(s) EXCEPT !.status = txs[s].status]
    BY <1>0, <1>5, <1>7, LedgerRowStays DEF LedgerStays
  <2>2. QED
    BY <2>1 DEF LedgerRow
<1>8. LedgerRows' = [LedgerRows EXCEPT ![t].payment = None, ![t].linked = TRUE]
  <2>1. LedgerRows' = [s \in DOMAIN txs |-> LedgerRow(s)']
    BY <1>5 DEF LedgerRows
  <2>2. LedgerRows' = [s \in DOMAIN txs |->
            IF s = t THEN [LedgerRow(t) EXCEPT !.payment = None, !.linked = TRUE]
                     ELSE LedgerRow(s)]
    BY <1>6, <1>7, <2>1
  <2>3. QED
    BY <1>3, <2>2 DEF LedgerRows
<1>9. Ledger!Link(t) /\ t \in DOMAIN LedgerRows
  BY <1>3, <1>8, LedgerFields DEF Ledger!Link, Ledger!Subscription, Subscription
<1>10. QED
  BY <1>9 DEF LedgerStep, Ledger!Next

\* A table, of which the ledger has the rows.
LEMMA LedgerTable ==
  ASSUME IsTable(txs)
  PROVE  IsTable(LedgerRows) /\ Len(LedgerRows) = Len(txs)
<1>1. PICK n \in Nat : n = Len(txs)
  BY DEF IsTable
<1>2. DOMAIN txs = 1..n
  BY <1>1 DEF IsTable
<1>3. DOMAIN LedgerRows = DOMAIN txs /\ LedgerRows = [t \in DOMAIN txs |-> LedgerRows[t]]
  BY DEF LedgerRows
<1>4. LedgerRows = [t \in 1..n |-> LedgerRows[t]]
  BY <1>2, <1>3, Zenon
<1>5. Len(LedgerRows) = n
  BY <1>4, LengthOfTable
<1>6. QED
  BY <1>1, <1>4, <1>5 DEF IsTable

\* A row that waits is entered, with the payment that its intent stands for.
LEMMA EnterInLedger ==
  ASSUME TypedState, Kept, NEW h \in Handlers,
         SaveTx(h) \/ SavePrePayment(h) \/ SaveIntentTx(h), UNCHANGED LedgerPaid
  PROVE  LedgerStep
<1>0. TxRows /\ Knows(handlers[h]) /\ Fits(handlers[h])
  BY CallKnown DEF TypedState, RowsInv
<1>1. PICK u, type, tariff, plan, intent :
         /\ txs' = Append(txs, NewTx(u, type, tariff, plan, intent))
         /\ u = handlers[h].user
         /\ \/ SaveTx(h) /\ intent = None /\ type = handlers[h].type
            \/ /\ SavePrePayment(h) /\ intent = handlers[h].intent
               /\ type = "PRE_SUBSCRIPTION_PAYMENT"
            \/ /\ SaveIntentTx(h) /\ intent = handlers[h].intent
               /\ type \in {"CARD_VALIDATION", "SUBSCRIPTION"}
  BY DEF SaveTx, SavePrePayment, SaveIntentTx
<1>2. handlers[h].task \in RequestTask /\ u \in Users
  <2>1. handlers[h].task \in RequestTask
    BY <1>0 DEF SaveTx, SavePrePayment, SaveIntentTx, At, Fits, PlaceFits, RequestTask
  <2>2. QED
    BY <1>0, <1>1, <2>1 DEF Knows, WhoKnown
<1>3. SavePrePayment(h) \/ SaveIntentTx(h) => handlers[h].intent \in DOMAIN intents
  BY <1>0 DEF SavePrePayment, SaveIntentTx, Knows, OwnerKnown, Fits, AtFits, At
<1>4. SaveTx(h) => handlers[h].type \in Subscription
  BY <1>0 DEF SaveTx, Fits, PlaceFits, Knows, WhoKnown, At
<1>5. \A i \in DOMAIN intents : i # None
  BY NoneAssumption, CallKnown DEF TypedState, RowsInv, StripeRows, IsTable
<1>6. PICK payment : payment = IF intent = None THEN None ELSE intents[intent].origin
  OBVIOUS
<1>7. /\ payment \in (1..MaxIntents) \cup {None}
      /\ type \notin Subscription => payment # None
      /\ intent # None => intent \in DOMAIN intents /\ intents'[intent].origin = payment
      /\ type \in Ledger!Type
  BY <1>1, <1>3, <1>4, <1>5, <1>6, PaymentsNumbered
     DEF Kept, Ledger!Type, Ledger!Subscription, Subscription
<1>8. PICK new : new = NewTx(u, type, tariff, plan, intent)
  OBVIOUS
<1>9. Grown(txs, new, txs')
  BY <1>0, <1>1, <1>8, AppendedTable DEF TxRows
<1>10. PICK n : n = Len(txs) + 1
  OBVIOUS
<1>11. PICK row : row = [user |-> u, type |-> type, status |-> "PENDING",
                         payment |-> payment, linked |-> FALSE]
  OBVIOUS
<1>12. LedgerRow(n)' = row
  <2>1. /\ txs'[n].user = u /\ txs'[n].type = type /\ txs'[n].status = "PENDING"
        /\ txs'[n].intent = intent /\ txs'[n].sub = None
    BY <1>8, <1>9, <1>10 DEF Grown, NewTx
  <2>2. LedgerRow(n)' = [user |-> u, type |-> type, status |-> "PENDING",
            payment |-> IF intent = None THEN None ELSE intents'[intent].origin,
            linked |-> FALSE]
    BY <2>1 DEF LedgerRow
  <2>3. QED
    BY <1>6, <1>7, <1>11, <2>2
<1>13. ASSUME NEW t \in DOMAIN txs PROVE LedgerRow(t)' = LedgerRows[t]
  <2>1. txs'[t] = txs[t]
    BY <1>9 DEF Grown
  <2>2. LedgerRow(t)' = [LedgerRow(t) EXCEPT !.status = txs[t].status]
    BY <1>0, <2>1, LedgerRowStays DEF LedgerStays
  <2>3. [LedgerRow(t) EXCEPT !.status = txs[t].status] = LedgerRow(t)
    BY DEF LedgerRow
  <2>4. QED
    BY <2>2, <2>3, LedgerFields
<1>14. LedgerRows' = Append(LedgerRows, row)
  <2>1. IsTable(LedgerRows) /\ Len(LedgerRows) = Len(txs)
    BY <1>0, LedgerTable DEF TxRows
  <2>2. Append(LedgerRows, row) = [k \in 1..n |-> IF k = n THEN row ELSE LedgerRows[k]]
    BY <1>10, <2>1, AppendedRow
  <2>3. DOMAIN txs' = 1..n /\ \A k \in 1..n : k # n => k \in DOMAIN txs
    BY <1>0, <1>9, <1>10 DEF Grown, TxRows, IsTable
  <2>4. LedgerRows' = [k \in 1..n |-> LedgerRow(k)']
    BY <2>3 DEF LedgerRows
  <2>5. ASSUME NEW k \in 1..n
        PROVE  LedgerRow(k)' = IF k = n THEN row ELSE LedgerRows[k]
    BY <1>12, <1>13, <2>3
  <2>6. QED
    BY <2>2, <2>4, <2>5
<1>15. Ledger!Enter(u, type, payment)
  BY <1>7, <1>11, <1>14, ZenonT(30)
     DEF Ledger!Enter, Ledger!Subscription, Subscription
<1>16. QED
  BY <1>2, <1>7, <1>15, Zenon DEF LedgerStep, Ledger!Next

\* A step of a call.
LEMMA CallInLedger ==
  ASSUME TypedState, NEW h \in Handlers, Step(h) PROVE LedgerStep
<1>1. StartInv /\ TxRows /\ UNCHANGED LedgerPaid
  BY CallKnown, StepPaysNothing DEF TypedState, RowsInv
<1>2. Kept
  BY <1>1, StepRows DEF StartInv, OutcomeInv, StateInv, StepFine
<1>3. CASE TxStep(h)
  BY <1>1, <1>2, <1>3, SweepInLedger, EnterInLedger, SettleByIdInLedger,
     SettleRowsInLedger, FailInLedger, LinkInLedger DEF TxStep
<1>4. CASE UNCHANGED txs
  BY <1>1, <1>2, <1>4, LedgerUnwritten DEF LedgerStep
<1>5. QED
  BY <1>3, <1>4, StepKinds

\* A customer pays, or the intent is canceled.
LEMMA PayInLedger ==
  ASSUME TypedState, NEW i \in DOMAIN intents,
         (\E card \in Cards : Pay(i, card)) \/ CancelIntent(i)
  PROVE  LedgerStep
<1>1. TxRows /\ StripeRows /\ Kept /\ UNCHANGED txs
  <2>1. TxRows /\ StripeRows /\ Kept
    BY PayFine DEF TypedState, StartInv, OutcomeInv, RowsInv, TxsFine
  <2>2. UNCHANGED txs
    BY ZenonT(30) DEF Pay, CancelIntent
  <2>3. QED
    BY <2>1, <2>2
<1>2. PICK state, card :
         /\ \/ intents' = [intents EXCEPT ![i].state = state, ![i].card = card]
            \/ intents' = [intents EXCEPT ![i].state = state]
         /\ intents[i].state = "open"
         /\ state = "paid" \/ state = "canceled"
  BY ZenonT(30) DEF Pay, CancelIntent, Payable
<1>3. DOMAIN intents' = DOMAIN intents /\ \A k \in DOMAIN intents : k # i => intents'[k] = intents[k]
  BY <1>2
<1>4. intents'[i].state = state /\ intents'[i].origin = intents[i].origin
  <2>1. \/ intents'[i] = [intents[i] EXCEPT !.state = state, !.card = card]
        \/ intents'[i] = [intents[i] EXCEPT !.state = state]
    BY <1>2
  <2>2. IsIntent(intents[i])
    BY <1>1 DEF StripeRows
  <2>3. QED
    BY <2>1, <2>2 DEF IsIntent
<1>5. CASE state = "canceled"
  <2>1. NobodyPays
    BY <1>2, <1>3, <1>4, <1>5 DEF NobodyPays
  <2>2. QED
    BY <1>1, <2>1, PaidStays, LedgerUnwritten DEF LedgerStep
<1>6. CASE state = "paid"
  <2>1. PICK p : p = intents[i].origin
    OBVIOUS
  <2>2. p \in 1..MaxIntents
    BY <2>1, PaymentsNumbered
  <2>3. LedgerPaid = {intents[k].origin : k \in {j \in DOMAIN intents : intents[j].state = "paid"}}
    BY DEF LedgerPaid
  <2>4. LedgerPaid' =
           {intents'[k].origin : k \in {j \in DOMAIN intents' : intents'[j].state = "paid"}}
    BY DEF LedgerPaid
  <2>5. ASSUME NEW q \in LedgerPaid PROVE q \in LedgerPaid'
    <3>1. PICK k \in DOMAIN intents : intents[k].state = "paid" /\ q = intents[k].origin
      BY <2>3, <2>5
    <3>2. k \in DOMAIN intents' /\ intents'[k].state = "paid" /\ intents'[k].origin = q
      BY <1>2, <1>3, <3>1
    <3>3. QED
      BY <2>4, <3>2
  <2>6. ASSUME NEW q \in LedgerPaid', q # p PROVE q \in LedgerPaid
    <3>1. PICK k \in DOMAIN intents' : intents'[k].state = "paid" /\ q = intents'[k].origin
      BY <2>4, <2>6
    <3>2. k \in DOMAIN intents /\ intents[k].state = "paid" /\ intents[k].origin = q
      BY <1>3, <1>4, <2>1, <2>6, <3>1
    <3>3. QED
      BY <2>3, <3>2
  <2>7. p \in LedgerPaid'
    BY <1>3, <1>4, <1>6, <2>1, <2>4
  <2>8. LedgerPaid' = LedgerPaid \cup {p}
    BY <2>5, <2>6, <2>7
  <2>9. UNCHANGED LedgerRows
    <3>1. ASSUME NEW t \in DOMAIN txs PROVE LedgerRow(t)' = LedgerRow(t)
      <4>1. LedgerRow(t)' = [LedgerRow(t) EXCEPT !.status = txs[t].status]
        BY <1>1, LedgerRowStays DEF LedgerStays
      <4>2. QED
        BY <4>1 DEF LedgerRow
    <3>2. LedgerRows' = [t \in DOMAIN txs |-> LedgerRow(t)']
      BY <1>1 DEF LedgerRows
    <3>3. QED
      BY <3>1, <3>2 DEF LedgerRows
  <2>10. Ledger!Receive(p)
    BY <2>8, <2>9 DEF Ledger!Receive
  <2>11. QED
    BY <2>2, <2>10 DEF LedgerStep, Ledger!Next
<1>7. QED
  BY <1>2, <1>5, <1>6

\* Whatever else happens is not the ledger's concern.
LEMMA OutsideLedger ==
  ASSUME TypedState, UNCHANGED <<txs, intents, subs, customers>> PROVE LedgerStep
<1>1. TxRows /\ Kept
  BY TablesStay DEF TypedState, StartInv, OutcomeInv, RowsInv, tables
<1>2. UNCHANGED LedgerPaid
  BY DEF LedgerPaid
<1>3. QED
  BY <1>1, <1>2, LedgerUnwritten DEF LedgerStep

\* Every step.
LEMMA LedgerTakesStep == ASSUME TypedState, [Next]_vars PROVE LedgerStep
<1>1. ASSUME NEW h \in Handlers,
             \/ Request(h) \/ CallFails(h)
             \/ \E e \in events.pending : Deliver(h, e)
             \/ \E u \in Users : CronBegin(h, u)
      PROVE  LedgerStep
  <2>1. UNCHANGED <<txs, intents, subs, customers>>
    BY <1>1, ZenonT(30)
       DEF Request, Call, SubscribeRequest, SwitchRequest, SetTrialRequest, SecretRequest,
           ValidationRequest, CancelNextRequest, UnsubscribeRequest, RenovateRequest,
           InitializeRequest, Deliver, CronBegin, CallFails, stripe
  <2>2. QED
    BY <2>1, OutsideLedger
<1>2. ASSUME NEW h \in Handlers, Step(h) PROVE LedgerStep
  BY <1>2, CallInLedger
<1>3. ASSUME NEW i \in DOMAIN intents, (\E card \in Cards : Pay(i, card)) \/ CancelIntent(i)
      PROVE  LedgerStep
  BY <1>3, PayInLedger
<1>4. CASE \/ \E i \in DOMAIN intents : Decline(i)
           \/ \E e \in events.acked \cup InFlight : DeliverAgain(e)
           \/ Crash \/ Tick \/ UNCHANGED vars
  <2>1. UNCHANGED <<txs, intents, subs, customers>>
    BY <1>4, ZenonT(30) DEF Decline, DeliverAgain, Crash, Tick, vars, stripe
  <2>2. QED
    BY <2>1, OutsideLedger
<1>5. QED
  BY <1>1, <1>2, <1>3, <1>4, ZenonT(30) DEF Next

\* At the start what is settled has been paid or names a subscription.
LEMMA LedgerStarts == ASSUME Init PROVE Ledger!Init
<1>1. TypedState
  BY InitialSettlement, InitialPlans, InitialTypes
     DEF TypedState, SettlementInv, StartInv, PlanInv
<1>2. TxRows /\ TxsTyped /\ IsTable(txs)
  BY <1>1 DEF TypedState, StartInv, OutcomeInv, RowsInv, TypesInv, TxRows
<1>3. ASSUME NEW t \in DOMAIN txs PROVE LedgerRow(t) \in Ledger!Row
  <2>1. /\ txs[t].user \in Users /\ txs[t].type \in Ledger!Type
        /\ txs[t].status \in {"PENDING", "SUCCESS", "FAILED", "CANCELED"}
    BY <1>2 DEF TxsTyped, TxTyped, TxType, Ledger!Type, Ledger!Subscription
  <2>2. txs[t].intent # None => intents[txs[t].intent].origin \in 1..MaxIntents
    BY <1>1, <1>2, PaymentsNumbered DEF TxRows
  <2>3. PICK payment \in (1..MaxIntents) \cup {None} :
           payment = IF txs[t].intent = None THEN None ELSE intents[txs[t].intent].origin
    BY <2>2
  <2>4. PICK linked \in BOOLEAN : linked = (txs[t].sub # None)
    OBVIOUS
  <2>5. LedgerRow(t) = [user |-> txs[t].user, type |-> txs[t].type,
                        status |-> txs[t].status, payment |-> payment, linked |-> linked]
    BY <2>3, <2>4 DEF LedgerRow
  <2>6. QED
    BY <2>1, <2>5 DEF Ledger!Row
<1>4. LedgerRows \in Seq(Ledger!Row)
  <2>1. IsTable(LedgerRows)
    BY <1>2, LedgerTable
  <2>2. \A t \in DOMAIN LedgerRows : LedgerRows[t] \in Ledger!Row
    BY <1>3, LedgerFields DEF LedgerRows
  <2>3. QED
    BY <2>1, <2>2, TableOf
<1>5. LedgerPaid \subseteq 1..MaxIntents
  BY <1>1, PaymentsNumbered DEF LedgerPaid
<1>6. ASSUME NEW t \in DOMAIN LedgerRows PROVE Ledger!Earned(LedgerRows[t])
  <2>1. t \in DOMAIN txs
    BY DEF LedgerRows
  <2>2. PICK n, user, subscribed : StartsAs(n, user, subscribed)
    BY InitialTables
  <2>3. n \in Nat /\ DOMAIN intents = 1..n
        /\ \A k \in 1..n : StartIntent(intents[k], k)
    BY <2>1, <2>2 DEF StartsAs
  <2>4. CASE t \in 1..n /\ txs[t] = Validated(user[t], t)
    <3>1. txs[t].intent = t /\ t # None
      BY <2>3, <2>4, NoneAssumption DEF Validated
    <3>2. intents[t].state = "paid"
      BY <2>3, <2>4 DEF StartIntent
    <3>3. LedgerRows[t].payment = intents[t].origin /\ intents[t].origin \in LedgerPaid
      BY <1>1, <2>1, <2>3, <2>4, <3>1, <3>2, LedgerFields, PaymentsNumbered
    <3>4. QED
      BY <3>3 DEF Ledger!Earned
  <2>5. CASE \E tariff : \E k \in 1..n : txs[t] = Subscribed(user[k], k, tariff)
    <3>1. PICK tariff : \E k \in 1..n : txs[t] = Subscribed(user[k], k, tariff)
      BY <2>5
    <3>2. PICK k \in 1..n : txs[t] = Subscribed(user[k], k, tariff)
      BY <3>1
    <3>3. txs[t].sub = k /\ k # None
      BY <2>3, <3>2, NoneAssumption DEF Subscribed
    <3>4. QED
      BY <2>1, <3>3, LedgerFields DEF Ledger!Earned
  <2>6. QED
    BY <2>1, <2>2, <2>4, <2>5 DEF StartsAs
<1>7. QED
  BY <1>4, <1>5, <1>6 DEF Ledger!Init

(* The program implements PaymentLedger: whatever overlaps, is repeated or is *)
(* cut short, each step enters a row that waits, sweeps those that wait,      *)
(* settles or fails the rows of one payment, settles those of subscriptions,  *)
(* links a row, or leaves all rows alone, and only customers pay.             *)
THEOREM LedgerKept == Spec => KeepsLedger
<1>1. Init => Ledger!Init
  BY LedgerStarts
<1>2. WholeInv /\ [Next]_vars => [Ledger!Next]_(Ledger!vars)
  <2> SUFFICES ASSUME WholeInv, [Next]_vars
               PROVE  Ledger!Next \/ UNCHANGED Ledger!vars
    OBVIOUS
  <2>1. TypedState
    BY DEF WholeInv, TypedState, SettlementInv, StartInv, PlanInv
  <2>2. QED
    BY <2>1, LedgerTakesStep DEF LedgerStep
<1>3. QED
  BY <1>1, <1>2, WholeAlways, PTL DEF Spec, KeepsLedger, Ledger!Spec
=============================================================================
