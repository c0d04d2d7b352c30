------------------------------- MODULE Support -------------------------------
(***************************************************************************)
(* Support tickets: the table support_tickets, the requests that open,     *)
(* change, delete and list tickets, the message to the Telegram chat of    *)
(* the staff, and the mail to support through the queue.  Requests run     *)
(* interleaved in one process, each awaited call is an action, and what    *)
(* was read before is a field of the handler.                              *)
(***************************************************************************)
EXTENDS MailQueue, FiniteSets

CONSTANTS
    Users, Handlers, None

ASSUME UsersAssumption == Users # {}
ASSUME NoneAssumption == None \notin Tickets
ASSUME TicketsAssumption == IsFiniteSet(Tickets)

VARIABLES
    rows,       \* support_tickets: for each id its row
    message,    \* DefaultTopic.message, one field for all requests
    chat,       \* how many messages about a ticket the chat got
    handlers,
    clock,      \* counts the instants that rows are stamped with
    asked,      \* what the answered requests asked for (no part of the program)
    raced       \* tickets that two requests had in hand at once (no part of it)

queue == <<jobs, mails, faults>>
history == <<asked, raced>>
vars == <<queue, rows, message, chat, handlers, clock, budget, history>>

----------------------------------------------------------------------------
\* TicketsEntity, as far as anything depends on it.
Row == [state : {"none", "stored", "deleted"}, user : Users,
        status : {"open", "close"}, unread : BOOLEAN, updated : Nat]

UnusedRow == [state |-> "none", user |-> CHOOSE u \in Users : TRUE,
              status |-> "open", unread |-> FALSE, updated |-> 0]

Stored(t) == rows[t].state = "stored"

(* `copy` is the entity a change read and saves, `columns` those of its     *)
(* columns that save found to differ from the row, or "all" for an INSERT.  *)
IdleHandler ==
    [at |-> "idle", user |-> None, ticket |-> None, text |-> None,
     change |-> [column |-> "none", value |-> FALSE], copy |-> UnusedRow,
     columns |-> {}]

At(h, place) == handlers[h].at = place
Continue(h, locals) == handlers' = [handlers EXCEPT ![h] = locals]
End(h) == Continue(h, IdleHandler)

InHand(t) == \E h \in Handlers : handlers[h].ticket = t

Init ==
    /\ QueueInit
    /\ rows = [t \in Tickets |-> UnusedRow]
    /\ message = None
    /\ chat = [t \in Tickets |-> 0]
    /\ handlers = [h \in Handlers |-> IdleHandler]
    /\ clock = 0
    /\ asked = rows
    /\ raced = {}

Request(kind) ==
    /\ budget[kind] > 0
    /\ budget' = [budget EXCEPT ![kind] = @ - 1]

----------------------------------------------------------------------------
\* POST tickets.

CreateRequest(h, u) ==
    /\ At(h, "idle")
    /\ Request("creates")
    /\ Continue(h, [IdleHandler EXCEPT !.at = "saveTicket", !.user = u])
    /\ UNCHANGED <<queue, rows, message, chat, clock, history>>

\* The id is a random uuid; which of the unused ones it is does not matter.
Unused == {t \in Tickets : rows[t].state = "none"}

SaveTicket(h, t) ==
    /\ At(h, "saveTicket")
    /\ Unused # {} /\ t = CHOOSE s \in Unused : TRUE
    /\ clock' = clock + 1
    /\ rows' = [rows EXCEPT ![t] = [UnusedRow EXCEPT
                   !.state = "stored", !.user = handlers[h].user,
                   !.updated = clock + 1]]
    /\ asked' = [asked EXCEPT ![t] = rows'[t]]
    /\ Continue(h, [handlers[h] EXCEPT !.at = "prepare", !.ticket = t])
    /\ UNCHANGED <<queue, message, chat, budget, raced>>

\* Mutant: a prepare that awaits a lookup between the field and the call.
PrepareAndSendApart(h) ==
    /\ At(h, "prepare")
    /\ IF handlers[h].text = None
       THEN /\ message' = handlers[h].ticket
            /\ Continue(h, [handlers[h] EXCEPT !.text = handlers[h].ticket])
       ELSE /\ Continue(h, [handlers[h] EXCEPT !.at = "sending", !.text = message])
            /\ UNCHANGED message
    /\ UNCHANGED <<queue, rows, chat, clock, budget, history>>

(* prepare awaits nothing but its own return, so that send reads the field  *)
(* before another request runs: the two are one step.                       *)
PrepareAndSend(h) ==
    /\ At(h, "prepare")
    /\ message' = handlers[h].ticket
    /\ Continue(h, [handlers[h] EXCEPT !.at = "sending", !.text = message'])
    /\ UNCHANGED <<queue, rows, chat, clock, budget, history>>

\* Telegram has answered or failed; the job is added, and the request is over.
Enqueue(h) ==
    /\ jobs' = [jobs EXCEPT ![handlers[h].ticket].at = "adding"]
    /\ End(h)
    /\ UNCHANGED <<mails, rows, message, clock, budget, history>>

SentToChat(h) ==
    /\ At(h, "sending")
    /\ chat' = [chat EXCEPT ![handlers[h].text] = @ + 1]
    /\ Enqueue(h)
    /\ UNCHANGED faults

ChatFails(h) ==
    /\ At(h, "sending")
    /\ Fault
    /\ Enqueue(h)
    /\ UNCHANGED chat

----------------------------------------------------------------------------
(* PUT tickets/:id/status and tickets/:id/read-status.  The entity is read, *)
(* one column and the stamp are set, and all of it is saved: save reads the *)
(* row once more, then updates the columns that differ from the entity, or  *)
(* inserts the entity if there is no row.                                   *)

ChangeRequest(h, t, change) ==
    /\ At(h, "idle")
    /\ rows[t].state # "none"
    /\ Request("changes")
    /\ Continue(h, [IdleHandler EXCEPT !.at = "findTicket", !.ticket = t,
                                       !.change = change])
    /\ raced' = IF InHand(t) THEN raced \cup {t} ELSE raced
    /\ UNCHANGED <<queue, rows, message, chat, clock, asked>>

\* Mutant: a status that the enum of the column does not have.
ChangedNamed(row, change, stamp) ==
    IF change.column = "status"
    THEN [row EXCEPT !.status = IF change.value THEN "closed" ELSE "open",
                     !.updated = stamp]
    ELSE [row EXCEPT !.unread = change.value, !.updated = stamp]

Changed(row, change, stamp) ==
    CASE change.column = "status" ->
            [row EXCEPT !.status = IF change.value THEN "close" ELSE "open",
                        !.updated = stamp]
      [] change.column = "unread" ->
            [row EXCEPT !.unread = change.value, !.updated = stamp]

\* Mutant: the entity is made from the id alone if there is no row.
FindTicketUnchecked(h) ==
    /\ At(h, "findTicket")
    /\ clock' = clock + 1
    /\ Continue(h, [handlers[h] EXCEPT !.at = "loadTicket",
           !.copy = Changed([rows[handlers[h].ticket] EXCEPT !.state = "stored"],
                            handlers[h].change, clock + 1)])
    /\ UNCHANGED <<queue, rows, message, chat, budget, history>>

FindTicket(h) ==
    /\ At(h, "findTicket")
    /\ LET t == handlers[h].ticket
       IN  IF Stored(t)
           THEN /\ clock' = clock + 1
                /\ Continue(h, [handlers[h] EXCEPT !.at = "loadTicket",
                       !.copy = Changed(rows[t], handlers[h].change, clock + 1)])
           ELSE End(h) /\ UNCHANGED clock
    /\ UNCHANGED <<queue, rows, message, chat, budget, history>>

LoadTicket(h) ==
    /\ At(h, "loadTicket")
    /\ LET t == handlers[h].ticket
           copy == handlers[h].copy
       IN  Continue(h, [handlers[h] EXCEPT !.at = "writeTicket",
              !.columns = IF Stored(t)
                          THEN {c \in {"status", "unread", "updated"} :
                                   copy[c] # rows[t][c]}
                          ELSE {"all"}])
    /\ UNCHANGED <<queue, rows, message, chat, clock, budget, history>>

(* An UPDATE of a row that is gone changes nothing; an INSERT of one that   *)
(* another change has inserted meanwhile fails on the primary key.          *)
Written(t, copy, columns) ==
    CASE columns = {"all"} /\ ~Stored(t) -> copy
      [] columns # {"all"} /\ Stored(t) ->
            [c \in DOMAIN rows[t] |-> IF c \in columns THEN copy[c] ELSE rows[t][c]]
      [] OTHER -> rows[t]

WriteTicket(h) ==
    /\ At(h, "writeTicket")
    /\ LET t == handlers[h].ticket
       IN  /\ rows' = [rows EXCEPT ![t] = Written(t, handlers[h].copy,
                                                  handlers[h].columns)]
           /\ asked' = [asked EXCEPT ![t] = Changed(@, handlers[h].change,
                                                    handlers[h].copy.updated)]
    /\ End(h)
    /\ UNCHANGED <<queue, message, chat, clock, budget, raced>>

\* DELETE tickets/:id, one query.
DeleteTicket(t) ==
    /\ rows[t].state # "none"
    /\ Request("changes")
    /\ rows' = [rows EXCEPT ![t].state = "deleted"]
    /\ asked' = [asked EXCEPT ![t].state = "deleted"]
    /\ raced' = IF InHand(t) THEN raced \cup {t} ELSE raced
    /\ UNCHANGED <<queue, message, chat, handlers, clock>>

----------------------------------------------------------------------------
(* GET tickets and tickets/by-user: the tickets that match, the last        *)
(* updated first, a page of them and the number of pages.                   *)

Any == "any"

Matching(user, status) ==
    {t \in Tickets : /\ Stored(t)
                     /\ user \in {Any, rows[t].user}
                     /\ status \in {Any, rows[t].status}}

\* The place of a ticket in the order, from 1.
Position(t, S) == Cardinality({s \in S : rows[s].updated >= rows[t].updated})

\* Mutant: the rows to skip, for pages counted from zero.
PageFromZero(S, page, perPage) ==
    {t \in S : Position(t, S) \in page * perPage + 1 .. (page + 1) * perPage}

Page(S, page, perPage) ==
    {t \in S : Position(t, S) \in (page - 1) * perPage + 1 .. page * perPage}

PageCount(S, perPage) == (Cardinality(S) + perPage - 1) \div perPage

----------------------------------------------------------------------------
\* Requests in hand are lost; the changes they did not get to write are, too.
Crash ==
    /\ \/ \E h \in Handlers : ~At(h, "idle")
       \/ \E t \in Tickets : jobs[t].at \in {"adding", "active", "sent"}
    /\ Fault
    /\ QueueCrash
    /\ message' = None
    /\ handlers' = [h \in Handlers |-> IdleHandler]
    /\ UNCHANGED <<rows, chat, clock, budget, history>>

Changes == [column : {"status", "unread"}, value : BOOLEAN]

Step(h) ==
    \/ \E t \in Tickets : SaveTicket(h, t)
    \/ PrepareAndSend(h) \/ SentToChat(h)
    \/ FindTicket(h) \/ LoadTicket(h) \/ WriteTicket(h)

QueueStep(t) ==
    /\ JobAdded(t) \/ WorkerStep(t)
    /\ UNCHANGED <<rows, message, chat, handlers, clock, budget, history>>

QueueFails(t) ==
    /\ AddFails(t) \/ SendMailFails(t)
    /\ UNCHANGED <<rows, message, chat, handlers, clock, budget, history>>

Next ==
    \/ \E h \in Handlers :
          \/ \E u \in Users : CreateRequest(h, u)
          \/ \E t \in Tickets, change \in Changes : ChangeRequest(h, t, change)
          \/ Step(h)
          \/ ChatFails(h)
    \/ \E t \in Tickets : DeleteTicket(t) \/ QueueStep(t) \/ QueueFails(t)
    \/ Crash

Spec == Init /\ [][Next]_vars

(* Every awaited call returns, and the queue delivers its jobs.  Each job   *)
(* is fair by itself: Bull takes the jobs in turn.                          *)
Fairness ==
    /\ \A h \in Handlers : WF_vars(Step(h))
    /\ \A t \in Tickets :
          /\ WF_vars((JobAdded(t) \/ SendMail(t) \/ FinishJob(t)) /\ QueueStep(t))
          /\ SF_vars(TakeJob(t) /\ QueueStep(t))

FairSpec == Spec /\ Fairness

----------------------------------------------------------------------------
\* Properties.

Place == {"idle", "saveTicket", "prepare", "sending", "findTicket",
          "loadTicket", "writeTicket"}

Handler == [at : Place, user : Users \cup {None}, ticket : Tickets \cup {None},
            text : Tickets \cup {None},
            change : [column : {"none", "status", "unread"}, value : BOOLEAN],
            copy : Row, columns : SUBSET {"status", "unread", "updated", "all"}]

TypeOK ==
    /\ jobs \in [Tickets -> Job]
    /\ mails \in [Tickets -> Nat]
    /\ faults \in Nat
    /\ budget \in Budget
    /\ rows \in [Tickets -> Row]
    /\ message \in Tickets \cup {None}
    /\ chat \in [Tickets -> Nat]
    /\ handlers \in [Handlers -> Handler]
    /\ clock \in Nat
    /\ asked \in [Tickets -> Row]
    /\ raced \subseteq Tickets

(* A ticket is as its requests left it: the status and the mark of the last *)
(* change of each, and gone once deleted, whatever requests about other     *)
(* tickets and jobs are under way, as long as no two requests about this    *)
(* one overlapped.  (Then a change saves the whole entity it read: it takes *)
(* back another one's column, or brings a deleted ticket back.)             *)
AsAskedWhenSerial ==
    \A t \in Tickets \ raced :
        /\ rows[t].state = asked[t].state
        /\ Stored(t) => rows[t] = asked[t]

(* A listing read to its last page shows every ticket that matches, once.   *)
PagesPartition ==
    \A user \in Users \cup {Any}, status \in {"open", "close", Any},
       perPage \in 1..Cardinality(Tickets) :
        LET S == Matching(user, status)
            pages == 1..PageCount(S, perPage)
        IN  \A t \in S : Cardinality({p \in pages : t \in Page(S, p, perPage)}) = 1

\* A request that opened t has not reported it yet.
Reporting(h, t) ==
    handlers[h].ticket = t /\ handlers[h].at \in {"prepare", "sending"}

Due(t) == \E h \in Handlers : Reporting(h, t)

\* How far the reports about a ticket are, in the terms of SupportDesk.
Missing(t) == IF rows[t].state = "none" THEN "none" ELSE "lost"

ToldState(t) ==
    CASE chat[t] = 0 -> IF Due(t) THEN "due" ELSE Missing(t)
      [] chat[t] = 1 -> "done"
      [] OTHER -> "again"

MailState(t) ==
    CASE mails[t] = 0 ->
            IF Due(t) \/ jobs[t].at \in {"adding", "waiting", "active", "sent"}
            THEN "due" ELSE Missing(t)
      [] mails[t] = 1 -> "done"
      [] mails[t] = 2 -> "again"
      [] OTHER -> "yet again"

Desk == INSTANCE SupportDesk WITH
    told <- [t \in Tickets |-> ToldState(t)],
    mailed <- [t \in Tickets |-> MailState(t)],
    trouble <- faults

(* createTicket, the shared field with the message, the queue and the       *)
(* mailer implement SupportDesk, in spite of crashes and services that      *)
(* fail: a ticket is reported to the chat at most once and under its own    *)
(* name, to the mailbox at most twice, and no report is lost unless         *)
(* something went wrong.                                                    *)
DeskSafety == Desk!Safety

(* Nor does a report stay due for ever: it comes, or is lost to a failure.  *)
(* One job is worked on at a time, so that any job that hangs would hold up *)
(* the mails of all the tickets behind it.                                  *)
DeskFairness == Desk!Fairness
=============================================================================
