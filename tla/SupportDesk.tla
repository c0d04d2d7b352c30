----------------------------- MODULE SupportDesk -----------------------------
(***************************************************************************)
(* What the support desk is promised of a ticket that a customer opens:    *)
(* the chat of the staff hears of it once, its mailbox gets a mail of it,  *)
(* and either of them misses it only after something went wrong, a crash   *)
(* of the process or a service that failed.                                *)
(***************************************************************************)
EXTENDS Naturals

CONSTANT Tickets

VARIABLES
    told,       \* for each ticket, how far the report to the chat is
    mailed,     \* and the report to the mailbox
    trouble     \* how often something went wrong

vars == <<told, mailed, trouble>>

(* "none": the ticket is not opened yet.  "due": the report is to come.     *)
(* "done": it has come once, "again": a second time.  "lost": it will never *)
(* come.                                                                    *)
Report == {"none", "due", "done", "again", "lost"}

Init ==
    /\ told = [t \in Tickets |-> "none"]
    /\ mailed = [t \in Tickets |-> "none"]
    /\ trouble = 0

Open(t) ==
    /\ told[t] = "none" /\ mailed[t] = "none"
    /\ told' = [told EXCEPT ![t] = "due"]
    /\ mailed' = [mailed EXCEPT ![t] = "due"]
    /\ UNCHANGED trouble

Tell(t) ==
    /\ told[t] = "due"
    /\ told' = [told EXCEPT ![t] = "done"]
    /\ UNCHANGED <<mailed, trouble>>

Mail(t) ==
    /\ mailed[t] = "due"
    /\ mailed' = [mailed EXCEPT ![t] = "done"]
    /\ UNCHANGED <<told, trouble>>

\* A mail may come twice when the process died before it could note the first.
MailAgain(t) ==
    /\ trouble > 0
    /\ mailed[t] = "done"
    /\ mailed' = [mailed EXCEPT ![t] = "again"]
    /\ UNCHANGED <<told, trouble>>

\* A mail is given up only after something went wrong.
GiveUp(t) ==
    /\ trouble > 0
    /\ mailed[t] = "due"
    /\ mailed' = [mailed EXCEPT ![t] = "lost"]
    /\ UNCHANGED <<told, trouble>>

\* Something goes wrong; reports that were due may be lost by it.
Trouble ==
    /\ trouble' = trouble + 1
    /\ told' \in [Tickets -> Report]
    /\ mailed' \in [Tickets -> Report]
    /\ \A t \in Tickets :
          /\ told'[t] # told[t] => told[t] = "due" /\ told'[t] = "lost"
          /\ mailed'[t] # mailed[t] => mailed[t] = "due" /\ mailed'[t] = "lost"

Next ==
    \/ \E t \in Tickets : Open(t) \/ Tell(t) \/ Mail(t) \/ MailAgain(t) \/ GiveUp(t)
    \/ Trouble

Safety == Init /\ [][Next]_vars

Fairness == \A t \in Tickets : WF_vars(Tell(t)) /\ WF_vars(Mail(t))

Spec == Safety /\ Fairness
=============================================================================
