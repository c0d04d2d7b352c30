------------------------------ MODULE MailQueue ------------------------------
(***************************************************************************)
(* The Bull queue `support`, its processor and the mailer.  A job is added *)
(* by a command to Redis that nobody awaits; the processor works on one    *)
(* job at a time and calls Mailer.sendMail, which logs a failure and       *)
(* returns, so that the job counts as completed and is not tried again.    *)
(***************************************************************************)
EXTENDS Naturals

CONSTANTS
    Tickets,    \* the ids that tickets may get (bounds the table)
    Budgets     \* what the environment may do in a behaviour

(* `faults` bounds the crashes and the failed calls of other services; the  *)
(* other fields bound the requests.                                         *)
Budget == [creates : Nat, changes : Nat, faults : Nat]

ASSUME BudgetsAssumption == Budgets \subseteq Budget

VARIABLES
    jobs,       \* the job of each ticket
    mails,      \* how many mails of a ticket the support mailbox got
    faults,     \* crashes and failures so far
    budget      \* what may happen; its requests are counted down

(* "adding": the command is on its way to Redis.  "sent": sendMail has      *)
(* returned, and the queue does not know yet.  `stalls` counts how often    *)
(* the process died with the job in hand.                                   *)
JobPlace == {"none", "adding", "waiting", "active", "sent", "completed", "failed"}

Job == [at : JobPlace, stalls : 0..1]

NoJob == [at |-> "none", stalls |-> 0]

Fault ==
    /\ faults < budget.faults
    /\ faults' = faults + 1

Move(t, from, to) ==
    /\ jobs[t].at = from
    /\ jobs' = [jobs EXCEPT ![t].at = to]

QueueInit ==
    /\ jobs = [t \in Tickets |-> NoJob]
    /\ mails = [t \in Tickets |-> 0]
    /\ faults = 0
    /\ budget \in Budgets

----------------------------------------------------------------------------
JobAdded(t) ==
    /\ Move(t, "adding", "waiting")
    /\ UNCHANGED <<mails, faults>>

\* The catch clause of createTicket logs the error.
AddFails(t) ==
    /\ Move(t, "adding", "failed")
    /\ Fault
    /\ UNCHANGED mails

\* Which job is next does not matter: no job depends on another.
TakeJob(t) ==
    /\ \A s \in Tickets : jobs[s].at \notin {"active", "sent"}
    /\ Move(t, "waiting", "active")
    /\ UNCHANGED <<mails, faults>>

\* sendMail, called by EmailSupportConsumer.transcode for support's address.
SendMail(t) ==
    /\ Move(t, "active", "sent")
    /\ mails' = [mails EXCEPT ![t] = @ + 1]
    /\ UNCHANGED faults

\* The transport turns the mail down: the error is logged and swallowed.
SendMailFails(t) ==
    /\ Move(t, "active", "sent")
    /\ Fault
    /\ UNCHANGED mails

\* Mutant: the queue is never told that a job is done.
FinishJobForgotten(t) ==
    /\ Move(t, "sent", "sent")
    /\ UNCHANGED <<mails, faults>>

FinishJob(t) ==
    /\ Move(t, "sent", "completed")
    /\ UNCHANGED <<mails, faults>>

(* The process dies.  A command on its way to Redis may have got there or   *)
(* not; a job in hand is stalled, which the queue forgives once.            *)
AfterCrash(job, arrived) ==
    CASE job.at = "adding" ->
            [job EXCEPT !.at = IF arrived THEN "waiting" ELSE "failed"]
      [] job.at \in {"active", "sent"} ->
            IF job.stalls = 0 THEN [at |-> "waiting", stalls |-> 1]
                              ELSE [job EXCEPT !.at = "failed"]
      [] OTHER -> job

QueueCrash ==
    /\ \E arrived \in SUBSET {t \in Tickets : jobs[t].at = "adding"} :
          jobs' = [t \in Tickets |-> AfterCrash(jobs[t], t \in arrived)]
    /\ UNCHANGED mails

WorkerStep(t) == TakeJob(t) \/ SendMail(t) \/ FinishJob(t)
=============================================================================
