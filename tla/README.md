# TLA+ models of the dashboard API

`public-dashboard-api` is a NestJS service: one Node.js process in front of a
PostgreSQL database, the authnode service (user records) and Stripe. Its core is
billing: which plan a user has, what was paid for it and which card is charged.
Around it are the notifications of the clients, the tickets of the support desk,
the usage statistics and the listings of the admins. These modules model what
the requests, webhooks, sockets, jobs and cron callbacks read and write, at every
`await` where another call may come in between.

## The system

| Part | State | Operations | What is hard about it |
|---|---|---|---|
| Payment cards (`billing-api/cards`, `UserCardRepository`) | `user_cards` | delete, make default, save after a payment | check, then update, without a transaction |
| Stripe requests (`StripeApiService`) | Stripe's customers, intents, subscriptions; `billing_transactions` | `subscribe`, `getSecret`, `deleteSubscriptions`, `renovateSubscription` | up to a dozen calls to three services, any of which may fail |
| Stripe webhooks (`StripeApiWebhooksService`) | the same, and the user record | intent succeeded / failed / canceled, subscription created | repeated, late and reordered events; crashes half-way; a `case` that falls through |
| Billing transactions (repository) | `billing_transactions` | pending rows, `finishTransaction`, `finishTransaction_Old` | broad updates, lookups by a JSON payload |
| Tariffs and plans (`TariffService`, `UserPlanRepository`) | `user_plan` | switch, cancel the next tariff, initialize, activate | two updates under a unique index |
| Cron (`BillingSevice.checkUserPlan`) | none | renew or downgrade every active user | unawaited callbacks that meet webhooks |
| authnode client | user records, in another service | status, tariff, next tariff, Stripe customer | copies of the record grow stale |
| Notifications (`NotificationsService`, `NotificationsGateway`) | `notifications`, the sockets of each user | send, read, list, connect, disconnect | clients come and go while rows are saved; lists of entities saved over newer rows |
| Tickets (`TicketsService`, `DefaultTopic`) | `support_tickets`, the message for the Telegram chat | open, change, delete, list | entities read, then saved whole; a field shared by all requests |
| Mail queue (Bull, `EmailSupportConsumer`, `Mailer`) | the jobs in Redis | add, take, finish, stall | crashes with a job in hand; a mailer that hides failures |
| Statistics (`statistics`, `admin/statistics`) | none; reads the tables that filenode fills | figures, charts of storage and traffic | many queries while another service writes; days cut out of instants |
| Admin listings (`admin/users`, `admin/custom-tariffs`) | two query builders that live as long as the process; users, companies | list, update, create | conditions, order and offset of one request that reach another one |
| dev-api, CEO api, catalog, storage classes, guide, configuration, templates | | | not modelled, see below |

Parts interact by calls within the process, through the tables, and through
Stripe: `subscribe` creates a subscription, Stripe reports it, and the webhook
activates the plan. What makes each part correct:

- cards: one default card, which can be charged;
- transactions: SUCCESS only for what was paid or created, an outcome for every
  event acknowledged, a validation refunded, and outcomes that stay;
- plans: at most one active per user, and one again after a failure;
- notifications: no connected client misses one, read stays read, a listing shows
  the page it says;
- the user record: `active` only for something, a switch only to another tariff,
  unsubscribed only without a live subscription;
- tickets: each is reported once to the chat and to the mailbox, or lost only to
  a failure, and is as its requests left it;
- statistics: a chart shows what was recorded, day by day, and figures are those
  of one moment of the request;
- admin listings: a request is answered with its own users, its own page, and a
  number of pages that fits.

## Modules

`UserCards` and `Notifications` stand alone, `Statistics` and `AdminListings` share
the operators of `Collections`, and `Support` extends `MailQueue`. The modules of
billing are one specification in layers, each extending the one before:

| Module | Models | Correspondence |
|---|---|---|
| `UserCards` | `cards.service.ts`, `user-card.repository.ts` | one action per query of `deleteUserCard`, `updateDefaultCard`, `saveCard`; `handlers` holds what an operation read |
| `UserCardsProofs` | | theorems about `UserCards` |
| `BillingState` | tables, user records, Stripe objects, events | one record field per column the code looks at; queries as operators over sets of row numbers |
| `SharedSteps` | `deleteSubscriptions`, `createSubscriptionForTariff`, `activatePlan`, last writes | steps that several calls go through; `task` says which call it is |
| `Requests` | the endpoints down to the service methods | `...Request` is the controller with its guard, then one action per awaited call |
| `Webhooks` | `webhook` and its three handlers | `Deliver`, then one action per awaited call; `Acknowledge` is 200, `Reject` is 400 |
| `PlanCron` | `checkUserPlan` | one callback per user, begun from a list that may be old |
| `Billing` | all of it, with the environment, and the properties | Stripe's users, time, repeated events and crashes are actions of their own; `Ledger` is the instance of `PaymentLedger` that it implements |
| `BillingProofs` | | theorems about `Billing`: first plans, then transactions and statuses (the tables, the calls in flight, and the two put together) |
| `PaymentLedger` | what a row of `billing_transactions` promises | abstract: the rows, with the payment each waits for, and the payments made |
| `SettlementProofs` | | theorems about `Billing`, on top of those: what was paid or created is settled, charges are given back, all values keep their types, and `PaymentLedger` is implemented |
| `Notifications` | `notifications.service.ts`, `notifications.gateway.ts`, `notifications.repository.ts` | one action per awaited query, emission or socket event; `todo` and `out` are the callbacks of a call that run side by side |
| `NotificationsProofs` | | theorems about `Notifications` |
| `SupportDesk` | what a customer who opens a ticket is promised | abstract: per ticket, how far the reports to the chat and to the mailbox are |
| `MailQueue` | the queue `support`, `processorSupport.ts`, `emailSendler.ts` | one action per step of a job; a crash stalls the job in hand, which Bull forgives once |
| `Support` | `tickets.service.ts`, `topics/default` | one action per awaited call; `Desk` is the instance of `SupportDesk` that it implements |
| `SupportProofs` | | theorems about `Support`, the refinement among them |
| `Collections` | SUM, ORDER BY, `sort()` | sums over finite sets, and finite sets in an order |
| `CollectionTheorems` | | lemmas about `Collections`, finite sets and loops |
| `Statistics` | both `statistics.service.ts`, the usage repositories | one action per query, the loops that fill the charts as operators over the rows read |
| `StatisticsProofs` | | theorems about `Statistics` |
| `AdminListings` | `users.service.ts`, `custom-tariffs.service.ts` and their builders under `admin` | one action per stretch between two awaits; a builder is a record of its clauses |
| `ListingsProofs` | | theorems about `AdminListings` |
| `MCUserCards`, `MCBilling`, `MCNotifications`, `MCSupport`, `MCStatistics`, `MCReports` | | small instances for TLC; `MCReports` runs `Statistics` or `AdminListings`, which share no state |

A handler is one call in flight: `at` is the place in the code, `me` the copy of
the user record the call was begun with, the other fields its local variables.
Between two steps of a handler anything else may happen. Crashes (`Crash`, and
the rejection in the cron that nobody handles) reset all handlers; Stripe
delivers again what it got no answer to.

### Abstractions

- Tariffs never change; looking one up is no step. Amounts, names, log lines and
  the secret of an intent are left out; the id and the secret of a replacement
  intent name the same intent, as the LIKE of `getByPaymentIntentId` has it.
- Time is a count of billing periods. A plan made in period `n` ends with it, so
  `end_at` is `n + 1`. The 30 days of a trial are one period.
- `findOne` without an order answers with any row that matches. A filter whose
  value is `undefined` or `null` may be ignored or match nothing, as TypeORM
  leaves it open: both are modelled.
- Stripe refuses a call that names no customer, the deletion of a subscription
  already deleted, and a second refund. Any call that the `try` block of
  `paymentIntentSucceeded` awaits may fail, and the `catch` block then writes
  FAILED and the answer is 200 (`CallFails`). A failing call outside of it ends
  the request or the webhook like `Crash` does, which goes no further either.
- In `Billing`, `saveCard` is one step and cards are never deleted; `UserCards`
  has the steps. A deleted plan keeps its number, as ids are never used again.
- In `Notifications`, ids and `createdAt` order rows alike: no two of a user are
  inserted at the same instant. The mail of a notification is left out. A client
  takes the message `{all: true}` to name every notification of its user. Listings
  ask for the pages 1 and 2; that nothing checks the number against a negative
  one, which the database would refuse, is left out.
- A path parameter is a string at run time (`PathParam`).
- TypeORM's `save` of an entity is its two queries: the row is read again, then
  the columns that differ are updated, or the entity is inserted if the row is
  gone. In `Support` these are two steps; in `Notifications` the save is one step
  that writes the copies a call holds, dated or not, over the rows.
- filenode fills the tables of storage and traffic, authnode keeps the users:
  both are external, and what they may write is taken from what the code reads.
- In `Statistics` an instant is half a day, so that a day has a morning and an
  evening; sizes tell the buckets and the directions of traffic apart. Sizes in
  readable units, and names and labels, are left out.
- In `AdminListings` a search is the set of users it matches, and a column of
  `orderBy` is the set of orders it may put everybody in: one for the address,
  which is unique, several where rows agree in it, none for a column that does not
  exist, at which the query fails (`UnknownColumn`).

## Runs

| Run | Question | Instance | Expected |
|---|---|---|---|
| `cards` | is there one default card, and when may it get lost? | 2 users, 3 rows, 2 details, 2 operations in flight | holds |
| `cards-race` | is the default card never a deleted one? | as above | violated |
| `requests` | do transactions, plans, statuses and what Stripe was paid agree? | 8 scenarios: new, trial, active and lapsed users; up to 6 endpoints at once, 2 requests, 1 fault | holds |
| `repair` | does the cron bring an active plan back, does a switch survive it, do the transactions keep the promises of `PaymentLedger`? | switch, 1 request, 2 faults, the clock passing the end of a plan, and the cron; a payment with the cron, or two validations, with a fault; 3 plans, 3 intents | holds |
| `settlement` | does a pending subscription get an outcome? | subscribe and renovate, 2 requests, 1 fault | holds |
| `notifications` | do clients learn what happens, and does a listing show the right page? | 2 users, 3 sockets, 3 rows, 2 calls in flight; 4 budgets | holds |
| `support` | do tickets and their reports keep the promises of `SupportDesk`? | 3 tickets, 2 users, 2 requests in flight; 3 budgets | holds |
| `reports` | do charts, figures and listings show what there is? | 3 days, 3 buckets, 2 users; 3 admin users, up to 3 requests, 2 in flight | holds |
| `filters` | does a listing of all users list them all? | as `reports` | violated |
| `no-card` | is an active user one with a card? | a subscribe from a trial | violated |
| `unsubscribed` | is an unsubscribed user not charged? | unsubscribe and subscribe | violated |
| `same-tariff` | does switch-to refuse the tariff the user has? | one switch | violated |

The violated ones are disagreements of the code with its own comments and error
messages; `PROJECT.json` quotes them under `findings`.

- **cards-race**: `deleteUserCard` reads the flag, `updateDefaultCard` sets it,
  then the first marks the card deleted. `getDefaultCardForUser` finds nothing
  from then on.
- **no-card**: `subscribe` without a card creates the subscription first (Stripe
  allows it, with `trial_end`), and `subscriptionCreated` asks for no payment.
- **unsubscribed**: `DELETE subscriptions` lists the live subscriptions while a
  `subscribe` is between the deletion of the old and the creation of the new one,
  finds none, deletes none, and stores `unsubscribed` although the new one is live.
- **same-tariff**: `===` between a number and the string of the path.
- **filters**: `andWhere` adds to `whereQuery`, which nothing clears; the builder
  belongs to the service, so that a group asked for once filters every listing
  until the process restarts.

### Properties worth a word

`DefaultCardKept` counts a card as the default one if `getDefaultCardForUser`
finds it: flagged and not deleted. `history` says how operations met: `serial`,
`overlapping`, `contending` once a deletion and an `updateDefaultCard` of the same
card have been in flight together, `interrupted` once one was cut short. The
property holds in the first two. In the third it does not: that is the finding of
`cards-race`. Two cards saved at once may both become the default, which the
property allows.

`SettledWhenAcknowledged` exempts the rows `subscribe` adds without a card: such
a row can be added for an intent whose payment is already acknowledged, and then
stays pending. `ValidationRefunded` exempts validations that share their intent
with such a row, since the webhook may look that row up, which is not
refundable. `LinkedSubscriptionSucceeds` is about the
step that finishes with the report of a subscription: when the report is on its
way no more, every row that names the subscription reads SUCCESS. It is not a
property of states: a repeated report of an old subscription may be linked to a
newer pending row, so that a state may well hold a linked pending row whose first
report was acknowledged long ago. If the process dies with such a repetition in
hand, Stripe has its answer already and does not deliver again, and the row
stays pending: this is the exception in the property.
`SubscriptionSettles` is checked without `switch`: a second switch deletes the
plan of a pending row and makes its handling fail for good.

`PlanRestored` is about users that stay `active`: these are the ones that authnode
lists for the cron. A user that the cron itself has made `payment_required` or
`expired` is visited no more, and is promised nothing. It also waits until requests
and webhooks are done with the user, with room for one more plan (`Quiet`). TLC
shows why: as long as a report is delivered again and again, the cron and the
webhook can deactivate one another's plan and be refused by the index night after
night, each time leaving a row behind.

`KeepsLedger` is `PaymentLedger!Spec` under the mapping `LedgerRows` and
`LedgerPaid`. A row waits for the payment that its intent stands for, and a
replacement of a failed intent stands for the same payment as the failed one
(`origin`), so that the ledger sees one payment where Stripe has several intents.
The webhook, which first cancels what is pending, then settles by the payload of
the rows, or by the id of the one it found, may touch the rows of one payment
only; a report that comes late may not take a settled or linked row along.
The ledger does not say which rows of a payment are settled, nor when: that is
`SettledWhenAcknowledged`. It allows a row to read SUCCESS and FAILED in turn, as
the reports of the intents of one payment come in any order.

`DeskSafety` and `DeskFairness` are the two halves of `SupportDesk!Spec`, under
the mapping `ToldState` and `MailState`: a report is due as long as its request or
its job is on the way. A mail that the transport turns down is lost at once,
since `sendMail` swallows the error and the attempts of the queue never happen:
`SupportDesk` allows this as a loss after trouble, and no more than it.
`AsAskedWhenSerial` exempts tickets that two requests had in hand at once: a
change saves the whole entity it read.

`ToldIsRead` has the one exception that the code has: `readAllNotifications`
emits `{all: true}` an await after its update, and a notification saved in between
is unread although the client takes it for read (`late`, until a message names
it). `ReadIsFinal` is about copies: a call saves the entities it looked up, and
`readPageNotifications` saves all of them once for each, over rows that other calls
may have read since. It holds because the callbacks date all copies before the
first of them reaches its `await`. In `RightPage`, a request that names both a
notification and a page gets the rows of the page of the notification under the
number that it asked for, as line 59 of the service has it.

`BandwidthByDay` and `StorageByDay` compare the loops with a definition of the
chart from the rows alone. filenode may measure a bucket as often as it likes, and
the code sums such a day up in two ways: the first query takes the greatest size of
a bucket for each instant, the later one for the whole day. `StorageByDay` bounds
the first from both sides, the greatest sizes of the day and all its sizes, which is
the same when every bucket is measured once, and pins the second down. The chart
starts with up to three queries, and filenode writes between them: the days of the
window are those of the first, the day before them is what one of the two others
finds. Two more things the definition has to follow: the query stops at the end of
the window while the loop includes its day, so that the last day may repeat the one
before; and a day on which all buckets are empty is passed over like a day without
statistics, as the condition on `parseInt` has it, although `fillerRecord` was made
to tell the two apart. `FiguresOfTheRequest` says that each figure was true at some
time between the start of the request and its end, while files come and go, as long
as no bucket of the user does; it does not say that all figures are of one moment.

`NobodyElseListed`, `OwnPageOfUsers` and `PagesMatchTheList` are what is left of a
correct listing under shared builders: nobody is listed who does not match, the
page, column and order are the request's own, and the number of pages is that of the
list. `TariffsFromTheOffsetBefore` states what the code does: it sets the offset
after the query is sent, so a page begins where the request before it asked for.

### Bounds

`MaxPlans`, `MaxTxs`, `MaxIntents`, `MaxSubs` and `MaxCustomers` bound the
tables; an action that needs one more row than there is room for is disabled.
What the environment does is bounded by a scenario, drawn at the start: whom the
user is at first (`profile`), which `endpoints` are called, how many `requests`
there are, how many `faults` (crashes, repeated events, declined and canceled
payments) and how many billing `periods` pass. One user is
enough, as no query of billing reaches rows of another user; two calls in flight
are enough for each race above, and webhooks take their turn in the same two
handlers. Two tariffs tell a switch from a renewal. Handlers, and the tariffs
that nothing orders, are symmetric in `requests`; no run with a liveness property
uses symmetry. Deadlock is not checked in the runs of `Billing`: once the bounds
are used up and all events are acknowledged, nothing is left to do; and so it is
in the other runs that say so. Three intents let a payment that failed be replaced
twice, as the fall-through of `payment_failed` does.

In `Notifications` a budget bounds what the environment does: calls that write,
listings, connections and restarts. Listings meet no socket, so the four
budgets of `MCNotifications` combine either of the two with writing calls: two
writers with clients, the same with a restart, clients that come and go more often,
and a listing with a writer. Up to
two rows, of any users, read or not, are there at first. `RightPage` speaks of
listings during which no row of the user changed: the counts and the page are
separate queries, and the code promises nothing of them otherwise.

The budgets of `MCSupport` are tickets opened while three things go wrong (a job
stalls twice only after two crashes), a ticket that overlapping requests change
and delete, and three tickets for listings of several pages. The situations of
`MCStatistics` fill the tables a request reads in every way with up to three rows,
of several buckets or of one that grows, shrinks and is empty at times, measured
any number of times a day, and let filenode write up to three times between the
queries; three days, with
now in the middle of the third, are the least that have a day inside, one at each
end and one cut in half. The scenarios of `MCReports` are requests after one
another and overlapping, with filters, with pages, with updates and creations
in between, and of tariffs.

### Fairness

`Step` of every handler is weakly fair: an awaited call returns or fails. The cron
begins again and again for each user that is listed as active (strong fairness,
since a handler may be busy, and only while it can begin): it is scheduled every
night, and a callback of one night is over by the next. Reports of subscriptions are
delivered again until acknowledged (strong fairness), as Stripe does. Nothing is
assumed of requests, payments, faults or time.

In `Support` every awaited call returns, and every step of a job is taken in the
end (weak fairness); taking a job from the queue is strongly fair, since the
processor works on one job at a time and Bull hands them out in turn.

## Proofs

`UserCardsProofs` holds for any sets of users, cards and rows and any number of
operations in flight:

- `TypeCorrect`: `TypeOK` is inductive by itself.
- `CardKept`: a usable default card is lost only by an operation cut short or by a
  deletion and a choice of the same card. The inductive invariant `CalmInv` adds
  what `DefaultCardKept` needs: no deletion contends with a choice (`Uncontended`),
  the card that a deletion is about to mark is not the default one, the card that
  a choice is about to flag is not deleted, and a `saveCard` that found another row
  is right about that when it inserts (`Knows`).
- `OneDefaultCard`: as long as operations do not overlap, a user with cards has
  exactly one default one that is not deleted. `SerialInv` adds that the operation
  in hand is alone, and that what it read still holds (`KnowsCards`).

`BillingProofs` holds for any number of users, tariffs and calls in flight and
tables of any size that hold the rows the users start with:

- `OneActive`: `OneActivePlan`. The inductive invariant adds only that `plans` is
  a sequence of rows (`PlanRows`). Two actions make a plan active:
  `CreateFirstPlan`, when the user has no active plan, and `Activate`, when the
  index finds no other one; every other action leaves the active plans alone or
  takes some away.
- `NeverSuspended`: the branch `checkUserPlan` takes at each distance from the end
  of a plan. `dev-api.service.ts:92` expects `suspended` seven days after the end;
  the branch for it is never reached, as the one before takes every negative
  number of days.

Its second and third parts, with the same generality, rest on one invariant,
`OutcomeInv`, of two halves that need each other:

- The rows: an intent in a row exists; the replacement in a row has the origin of
  the intent that failed; a row that names a subscription names no intent; a user
  record names no customer but one made for that user; a user is `active` only
  with a payment or a subscription of theirs (`ActiveEarned`). Steps that write
  them are shown to be fine for them in the second part, table by table; what stays
  in every step (numbers of rows, customers and origins of Stripe's objects, what
  is paid) is `Kept`.
- The calls in flight (`HandlersFit`, in the third part) and the reports on their
  way (`EventsReported`): what Stripe reports is so; a webhook that found its row
  by the replacement deals with a payment of the same origin; the customer that a
  call holds is of the user that it found. Since a call may be overtaken anywhere,
  all of this must survive the steps of the others, which is what `Kept` is for
  (`FitsKept`).

From it follow

- `PaidFirst`: `PaidBeforeSuccess`. SUCCESS is written by the webhook of a payment,
  to rows of the intent or of a replacement, or by that of a subscription, to rows
  that name no intent.
- `ActivationEarned`: `NoFreeActivation`. `active` is written by a webhook, to the
  user that it found by the customer, or by `renovate`, after it has created a
  subscription.
- `OutcomeFinal`: `SubscriptionOutcomeFinal`. The sweeps reach pending rows only, a
  late report of a failed payment looks for rows by an intent, which a linked row
  has no more, and the report of a subscription settles with SUCCESS only.

`SettlementProofs`, still as general, has a second invariant on top of it,
`SettlementInv`. What a webhook may rely on is spread over three services, so the
invariant says for each what the others may not do meanwhile:

- The rows (`RecordsInv`). The intents and the subscription a row names are of
  customers made for the row's user (`RowFits`), so that an event reaches the rows
  of the user it is about and no others. An intent that replaces a failed one is
  never the intent a row was created with, and no two rows are created with the
  same one, those of `subscribe` without a card aside (`OneRowPerIntent`).
- What nobody can have paid yet (`Unsaved`, `SaversFit`, `EventsShown`). Between the
  creation of an intent and the row for it the client does not know the intent, so
  Stripe has no payment of it to report. Without this a payment could be
  acknowledged before the row that it should settle exists.
- What a webhook has found out (`Knows`), from step to step: which user it is
  about, that its charge is given back or none to give back (`Cleared`,
  `Unrefundable`), and that the row it is about to link is a subscription of that
  user (`LinkKnown`). All of it has to survive the steps of the other calls, which
  is where `Evolved` comes in: rows keep their users and types, a refund stays.

Its theorems are

- `PaymentsSettled`: `SettledWhenAcknowledged`. The webhook answers 200 after a
  write to the rows of the intent (or to the one row it found), and
  `OneRowPerIntent` makes that row the only one.
- `ChargesGivenBack`: `ValidationRefunded`. Every way to write SUCCESS, by row or by
  payload, comes after the refund, or after the webhook found a row which shows
  that the intent is shared.
- `LinkedSettle`: `LinkedSubscriptionSucceeds`. A report that is in hand stays in
  hand or goes back to the pending ones when the call is rejected or the process
  dies (`ReportKept`); the step that answers it settles the rows of the
  subscription.
- `TypesAlways`: `TypeOK`. A record that a call keeps across an await is of its
  type only if what it was read from is, what it will be written to allows it, and
  nothing that it refers to goes away meanwhile. `TypesInv` says this of the
  tables and, for every place in the code, of the locals: a call that holds the
  number of a plan, a transaction or an intent holds one of a row that exists
  (`Locals`), a call for a user has the user's record (`Party`), and where the next
  step reads a plan or a row there is one, a row that gets a plan of its own is no
  card validation, which has no tariff (`Asks`). What lets all calls keep theirs
  while one of them steps is `Growing`: no table loses a row. `WholeInv` is this
  invariant with the two before it, which it rests on.
- `LedgerKept`: `KeepsLedger`, the refinement, step by step. The two sweeps are
  `Sweep`, the three ways to save a row are `Enter`, a payment is `Receive`, and
  the steps that settle, fail and link are shown one by one to be theirs; what
  writes neither rows nor payments leaves the ledger alone (`LedgerUnwritten`,
  `StepPaysNothing`). The invariants before it say what the step alone does not:
  that the intent of the report in hand is paid, that the row found by its
  replacement waits for the same payment or has been linked meanwhile (`Billed`),
  that the rows of a reported subscription are of the one user it is for, and that
  only a row without link is found by an intent.

`NotificationsProofs` holds for any users, sockets, calls in flight and size of
the table:

- `NotificationTypes`: `TypeOK`; the invariant adds that a listing under way has
  its query, so that it never skips a negative number of rows.
- `ReadStays`: no save of copies that were looked up earlier takes a date away
  (`RowsKept`: in every step rows stay in the table, of the same user, and read).
  The invariant knows that a call that has begun to save has dated all its copies.
- `ToldTheTruth`, `NoneMissed`, `ArraysInOrder`: the conjuncts of `ClientInv`,
  which is inductive only as a whole: a client is told what the table says, and
  this needs that calls know the rows they speak of (`CallsKnowRows`) and that the
  arrays hold the sockets they should (`SocketsRegistered`).
- `PagesAreRight`: `RightPage`. A listing asks for its rows and for its counts in
  queries of their own. `ListingsFit` says that what the earlier ones found is
  what they would find now, as long as the rows of the user are those that the
  call began with (`BeganEarlier`, `UpToDate`). Rows are only added and read,
  never removed or unread, so that rows which are the same at the end were the
  same all along.

`SupportProofs` holds for any tickets, users, requests in flight and budgets:

- `SupportTypes`: `TypeOK`.
- `SupportKeepsDesk`: `Spec => Desk!Safety`, the refinement. `DeskInv` ties the
  requests to the jobs: a ticket is in the hand of at most one request that
  reports it, it has no job and no mail before that request is over, a request sends the
  text of its own ticket, and there is at most one mail more than stalls of the
  job, each of which is a fault. Each action is then shown to be a step of
  `SupportDesk` or to leave the mapped variables as they are.
- `TicketsAsAsked`: `AsAskedWhenSerial`. `SerialInv` adds that a ticket which was
  never raced for is in the hand of one request at most, and that the copy this
  request saves differs from the row only by the change it was asked for
  (`CopyFits`), so that the columns `save` finds to differ are those of the change.
- `EachOnOnePage`: `PagesPartition`. The n-th ticket of a listing is on page
  `(n - 1) \div PageSize + 1` and on no other (`OnePage`), and every ticket that
  the filter lets through has a place of its own (`PlaceInListing`).

`ListingsProofs` holds for any people, statuses and companies, any tariffs, any
queries that may be asked and any number of requests in flight:

- `ListingsTypes`: `ListingsTypeOK`. The invariant `RequestsFit` adds which kind of
  query a request at each place has, so that the builder is set from a query of
  its kind and rows are rows.
- `OffsetOfTheOneBefore`: `TariffsFromTheOffsetBefore`. While a request is alone the
  builder, or the query sent, is set as it asked, but for the offset (`AloneFits`).
- `NobodyElse`: `NobodyElseListed`. The builder is set and read at once, so that
  from the query on the conditions include the request's own (`AllRowsAsked`),
  whatever conditions of earlier requests are in there too.
- `OwnPages` and `PagesAgree`: `OwnPageOfUsers` and `PagesMatchTheList`. `AnswersFit`
  says what the counts and the rows are of, as long as users do not change. The
  rest is about the operators, for whichever of its orders the database takes:
  `Rows` lists some people by rank, each once
  (`RowsListAll`), with k - 1 of them before the k-th; a page is a
  piece of it (`SliceRows`), with everybody in the row of their place
  (`PlaceOnPage`); and the counts of all statuses sum up to the number of people
  (`SumOfCounts`).

`StatisticsProofs` holds for any users and buckets, any contents of the tables, any
windows, any length of a day and any writes of filenode between the queries of a
request:

- `StatisticsTypes`: `StatisticsTypeOK`.
- `BandwidthShown`: `BandwidthByDay`. Two recursions over the data are in the way.
  The merging of groups by day is followed from group to group (`MergedAll`): the
  records so far have the days so far, in order, with the sums of the groups seen,
  and the group of the other type finds the last record of its day. It needs that
  groups are ordered by day and unique by day and type (`GroupsFound`), in whichever
  order the database has the types. The loop over dates then adds the missing days,
  without a gap (`DaysFollow`) if there is no traffic before the account
  (`TrafficOfUsers`); the window may begin and end at any time of a day.
- `StorageAsMeasured`: `StorageByDay`. However the code groups the rows of a day, the
  sum of the greatest sizes lies between that of the coarser groups and that of all
  rows (`CoarserSum`, `NothingLost`), so that the total of the first query is within
  the bounds (`DayTotalWithin`), and the later query gives the sum by buckets
  (`SizeOfDayIs`). The loop over dates gives the days of the window, each with its
  total (`DaysRead`); the size carried from day to day is that of the last day with
  any (`CarriedOn`, `DaysCarried`). Between the queries filenode may append rows only
  (`Extends`): the last day with rows before the window that the second query found
  is the last one at that time or still is (`LastDayIs`, `LastSize`). `Knows` says
  what a request has found out at each of its places.
- `FiguresTrue`: `FiguresOfTheRequest`. What the figures of the user have been since
  the request began is in `seen`, and each query reads a figure that is true at that
  moment (`QueriesRight`): the buckets found by the first one are still those of the
  user (`FiguresHold`), by name and id, when the later ones ask for their contents,
  and stay so whatever is put into them or taken out (`FiguresStay`).

Its invariant, `StatisticsInv`, has four conjuncts: the tables are what filenode
writes (`TablesInv`), the request fits its place in the code (`RequestFits`), a chart
that was answered stays right as the tables go on growing (`Answers`), and so do the
figures read so far (`FiguresHold`).

A sum over a set is defined by recursion, the rows of an ordered answer are chosen,
and the loops that fill a chart go from one element to the next. That sums add up
and grow with their terms (`SumWithout`, `SumOfCounts`, `SumMonotone`,
`SumReindexed`), that there is an order and where an element is in it
(`OrderExists`, `OrderPlaces`, `InOrderLists`), and that a loop has the values its
body gives it (`LoopExists`) are facts about all finite sets and all lengths. They
are proved in `CollectionTheorems` without an induction theorem: from a smallest
set, or a least number, among those that the fact fails for (`Smallest`, `Least`).

The assumptions on constants are `UsersAssumption` (in `Billing` finitely many
users, as the initial tables number them; elsewhere at least one), `NoneAssumption`
(`None` is none of the values it stands beside), `EventAssumption` (nor is it an
event), `CardsAssumption`, `DetailsAssumption` and `CardIdsAssumption` (not empty),
`TicketsAssumption` (finitely many), `BudgetsAssumption`, `RoomAssumption` and
`PageAssumption` (numbers, a page has room for one row, and in `Billing` the tables
have room for the rows that users start with); in `Billing`, `ScenariosAssumption`
(what may happen are budgets); in `AdminListings`, `ListingAssumption` (finitely
many statuses, none of them the `""` and `"all"` that ask for everybody),
`OrdersAssumption` (finitely many people, and each order of a column holds everybody
once) and `ScenariosAssumption` (what may be asked are queries); in `Statistics`,
`ClockAssumption` (instants are numbers, and now is not on the first day, as the
window of an empty chart begins a day ago), `NamesAssumption` (finitely many users
and buckets) and `SituationsAssumption` (what filenode has recorded are rows, and
nobody has traffic before their account).

Only model-checked: the liveness properties (`PlanRestored`, `SubscriptionSettles`,
`DeskFairness`), which are out of the prover's reach.

## Not modelled

- **dev-api** sets a user up by hand for testers, through the services modelled
  here, into states no user reaches.
- **CEO api, catalog, storage classes, guide**: listings, one e-mail and a list of
  tags. Nothing is kept that two calls share.
- **Configuration, bootstrap, guards, migrations**: set-up. What other parts rely
  on, the unique index of `user_plan` and the user the guard reads, is in their
  models.
- **E-mail templates**: wording and layout.
- In billing, what only reads: the history with its counts, the status of a
  payment, the price prediction (a rate table times the usage), the checkout and
  portal sessions of Stripe. And the copies of plans in the second database and
  of Stripe's events, which nothing here reads again.
- The queue of the notification mails: its processor has the form of the one in
  `MailQueue`, and nothing reads back what became of a mail.

## Plan

Done: the modules, runs and proofs above. What is left, in the order of its worth:

1. The price prediction against the rates, and the pages of the history.
