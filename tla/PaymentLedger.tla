---------------------------- MODULE PaymentLedger ----------------------------
(***************************************************************************)
(* What a row of the transactions promises, whichever calls write it: it   *)
(* stays its user's and of its type, it reads SUCCESS only if it was paid  *)
(* or a subscription stands behind it, and only what still waits is        *)
(* canceled.  A payment that fails and is made again with another intent   *)
(* is still the same one.                                                  *)
(***************************************************************************)
EXTENDS Sequences

CONSTANTS Users, Payments, None

VARIABLES
    rows,       \* the transactions, in the order they were made
    paid        \* the payments that customers have made

vars == <<rows, paid>>

Subscription == {"SUBSCRIPTION", "DELAYED_SUBSCRIPTION"}

Type == Subscription \cup {"CARD_VALIDATION", "PRE_SUBSCRIPTION_PAYMENT"}

(* `payment` is what the row waits for, and `linked` whether it names a      *)
(* subscription, which stands in for the payment.                           *)
Row == [user : Users,
        type : Type,
        status : {"PENDING", "SUCCESS", "FAILED", "CANCELED"},
        payment : Payments \cup {None}, linked : BOOLEAN]

Earned(row) == row.linked \/ row.payment \in paid

\* The rows in T get a status.
Give(T, status) ==
    /\ rows' = [t \in DOMAIN rows |->
                   IF t \in T THEN [rows[t] EXCEPT !.status = status]
                              ELSE rows[t]]
    /\ UNCHANGED paid

Init ==
    /\ rows \in Seq(Row)
    /\ paid \subseteq Payments
    /\ \A t \in DOMAIN rows : rows[t].status = "SUCCESS" => Earned(rows[t])

\* Only a subscription is entered without a payment.
Enter(user, type, payment) ==
    /\ type \notin Subscription => payment # None
    /\ rows' = Append(rows, [user |-> user, type |-> type, status |-> "PENDING",
                             payment |-> payment, linked |-> FALSE])
    /\ UNCHANGED paid

Receive(payment) ==
    /\ paid' = paid \cup {payment}
    /\ UNCHANGED rows

\* A newer request takes the place of those of the user that still wait; the
\* validation of a card goes on.
Sweep(user, T) ==
    /\ \A t \in T : /\ rows[t].user = user
                    /\ rows[t].status = "PENDING"
                    /\ rows[t].type # "CARD_VALIDATION"
    /\ Give(T, "CANCELED")

\* One payment settles all the rows that it is for.
SettlePayment(payment, T) ==
    /\ payment \in paid
    /\ \A t \in T : rows[t].payment = payment
    /\ Give(T, "SUCCESS")

SettleSubscription(user, T) ==
    /\ \A t \in T : rows[t].linked /\ rows[t].user = user
    /\ Give(T, "SUCCESS")

\* A payment that fails never reaches a row that a subscription stands behind.
FailPayment(payment, T) ==
    /\ \A t \in T : rows[t].payment = payment /\ ~rows[t].linked
    /\ Give(T, "FAILED")

\* From here on the row waits for no payment.
Link(t) ==
    /\ rows[t].type \in Subscription
    /\ rows' = [rows EXCEPT ![t].payment = None, ![t].linked = TRUE]
    /\ UNCHANGED paid

Next ==
    \/ \E user \in Users, type \in Type, payment \in Payments \cup {None} :
          Enter(user, type, payment)
    \/ \E payment \in Payments : Receive(payment)
    \/ \E user \in Users, T \in SUBSET DOMAIN rows :
          Sweep(user, T) \/ SettleSubscription(user, T)
    \/ \E payment \in Payments, T \in SUBSET DOMAIN rows :
          SettlePayment(payment, T) \/ FailPayment(payment, T)
    \/ \E t \in DOMAIN rows : Link(t)

Spec == Init /\ [][Next]_vars
=============================================================================
