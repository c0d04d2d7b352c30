---------------------------- MODULE SupportProofs ----------------------------
(* Proofs about the support tickets, for any sets of tickets, users and      *)
(* requests in flight and any budget: types, that Support implements the     *)
(* promises of SupportDesk, the fairness aside, and that tickets are as      *)
(* their requests left them.                                                 *)
EXTENDS Support, Integers, FiniteSetTheorems, TLAPS

LEMMA BlankTypes ==
  /\ UnusedRow \in Row /\ UnusedRow.state = "none"
  /\ IdleHandler \in Handler /\ IdleHandler.at = "idle"
  BY UsersAssumption DEF UnusedRow, IdleHandler, Row, Handler, Place

LEMMA TypeInit == Init => TypeOK
  BY BlankTypes, BudgetsAssumption
     DEF Init, QueueInit, TypeOK, NoJob, Job, JobPlace

LEMMA ChangedType ==
  ASSUME NEW row \in Row, NEW change \in Changes, NEW stamp \in Nat
  PROVE  /\ Changed(row, change, stamp) \in Row
         /\ Changed(row, change, stamp).state = row.state
  BY DEF Changed, Changes, Row

LEMMA RequestType ==
  ASSUME budget \in Budget, NEW kind \in {"creates", "changes"}, Request(kind)
  PROVE  budget' \in Budget
  BY DEF Request, Budget

\* Commands to the queue keep the types of the queue.
LEMMA QueueTypes ==
  ASSUME TypeOK, NEW t \in Tickets,
         JobAdded(t) \/ WorkerStep(t) \/ AddFails(t) \/ SendMailFails(t)
  PROVE  /\ jobs' \in [Tickets -> Job]
         /\ mails' \in [Tickets -> Nat]
         /\ faults' \in Nat
<1>1. ASSUME NEW from \in JobPlace, NEW to \in JobPlace, Move(t, from, to)
      PROVE  jobs' \in [Tickets -> Job]
  BY <1>1 DEF TypeOK, Move, Job
<1>2. CASE JobAdded(t)
  BY <1>1, <1>2 DEF JobAdded, TypeOK, JobPlace
<1>3. CASE TakeJob(t)
  BY <1>1, <1>3 DEF TakeJob, TypeOK, JobPlace
<1>4. CASE SendMail(t)
  <2>1. jobs' \in [Tickets -> Job] /\ faults' \in Nat
    BY <1>1, <1>4 DEF SendMail, TypeOK, JobPlace
  <2>2. mails' \in [Tickets -> Nat]
    BY <1>4 DEF SendMail, TypeOK
  <2>3. QED
    BY <2>1, <2>2
<1>5. CASE FinishJob(t)
  BY <1>1, <1>5 DEF FinishJob, TypeOK, JobPlace
<1>6. CASE AddFails(t)
  BY <1>1, <1>6 DEF AddFails, TypeOK, JobPlace, Fault
<1>7. CASE SendMailFails(t)
  BY <1>1, <1>7 DEF SendMailFails, TypeOK, JobPlace, Fault
<1>8. QED
  BY <1>2, <1>3, <1>4, <1>5, <1>6, <1>7 DEF WorkerStep

LEMMA CrashTypes ==
  ASSUME TypeOK, NEW t \in Tickets, NEW arrived
  PROVE  AfterCrash(jobs[t], t \in arrived) \in Job
  BY DEF TypeOK, AfterCrash, Job, JobPlace

----------------------------------------------------------------------------
(* The inductive invariant: what a handler relies on between its steps, and  *)
(* how many messages and mails there can be when the job is where it is.     *)

Changing(h) == handlers[h].at \in {"findTicket", "loadTicket", "writeTicket"}

Unreported(t) ==
    /\ rows[t].state # "none"
    /\ chat[t] = 0 /\ mails[t] = 0 /\ jobs[t] = NoJob

HandlerInv(h) ==
    /\ handlers[h].at = "saveTicket" => handlers[h].user \in Users
    /\ Changing(h) =>
          /\ handlers[h].change \in Changes
          /\ handlers[h].ticket \in Tickets
          /\ rows[handlers[h].ticket].state # "none"
    /\ handlers[h].at \in {"loadTicket", "writeTicket"} =>
          handlers[h].copy.state = "stored"
    /\ handlers[h].at \in {"prepare", "sending"} =>
          handlers[h].ticket \in Tickets /\ Unreported(handlers[h].ticket)
    /\ handlers[h].at = "sending" => handlers[h].text = handlers[h].ticket

OneReporter ==
    \A g, h \in Handlers, t \in Tickets :
        Reporting(g, t) /\ Reporting(h, t) => g = h

MailsOfJob(t) ==
    /\ jobs[t].at = "none" => jobs[t] = NoJob /\ mails[t] = 0
    /\ jobs[t].at = "adding" => jobs[t].stalls = 0
    /\ jobs[t].at \in {"adding", "waiting", "active"} => mails[t] <= jobs[t].stalls
    /\ jobs[t].at \in {"sent", "completed", "failed"} => mails[t] <= jobs[t].stalls + 1
    /\ jobs[t].stalls = 1 => faults > 0
    /\ jobs[t].at \in {"sent", "completed"} /\ mails[t] = 0 => faults > 0

TicketInv(t) ==
    /\ rows[t].state = "none" => chat[t] = 0 /\ jobs[t] = NoJob
    /\ chat[t] <= 1
    /\ MailsOfJob(t)

DeskInv ==
    /\ TypeOK
    /\ \A h \in Handlers : HandlerInv(h)
    /\ OneReporter
    /\ \A t \in Tickets : TicketInv(t)

LEMMA DeskInit == Init => DeskInv
<1> SUFFICES ASSUME Init PROVE DeskInv
  OBVIOUS
<1>1. TypeOK
  BY TypeInit
<1>2. QED
  BY <1>1, BlankTypes
     DEF Init, QueueInit, DeskInv, HandlerInv, Changing, OneReporter, Reporting,
         TicketInv, MailsOfJob, NoJob

----------------------------------------------------------------------------
(* The steps of requests.  One handler moves; the rows, the jobs and the     *)
(* counts of one ticket change with it.                                      *)

LEMMA RequestsKeep ==
  ASSUME DeskInv, NEW h \in Handlers, NEW u \in Users, CreateRequest(h, u)
  PROVE  DeskInv'
<1>1. UNCHANGED <<jobs, mails, faults, rows, message, chat, clock, asked, raced>>
  BY DEF CreateRequest, queue, history
<1>2. handlers' = [handlers EXCEPT ![h] =
                     [IdleHandler EXCEPT !.at = "saveTicket", !.user = u]]
  BY DEF CreateRequest, Continue
<1>3. TypeOK'
  BY <1>1, <1>2, BlankTypes, RequestType DEF CreateRequest, DeskInv, TypeOK, Handler, Place
<1>4. \A g \in Handlers : /\ g # h => handlers'[g] = handlers[g]
                          /\ handlers'[h].at = "saveTicket"
                          /\ handlers'[h].user = u
  BY <1>2, BlankTypes DEF DeskInv, TypeOK, Handler
<1>5. QED
  BY <1>1, <1>3, <1>4
     DEF DeskInv, HandlerInv, Changing, Unreported, OneReporter, Reporting,
         TicketInv, MailsOfJob

LEMMA ChangeRequestKeeps ==
  ASSUME DeskInv, NEW h \in Handlers, NEW t \in Tickets, NEW change \in Changes,
         ChangeRequest(h, t, change)
  PROVE  DeskInv'
<1>1. UNCHANGED <<jobs, mails, faults, rows, message, chat, clock, asked>>
  BY DEF ChangeRequest, queue
<1> DEFINE locals == [IdleHandler EXCEPT !.at = "findTicket", !.ticket = t,
                                         !.change = change]
<1>2. handlers' = [handlers EXCEPT ![h] = locals]
  BY DEF ChangeRequest, Continue
<1>3. locals \in Handler /\ locals.at = "findTicket" /\ locals.ticket = t
      /\ locals.change = change
  BY BlankTypes DEF Handler, Place, Changes
<1> HIDE DEF locals
<1>4. TypeOK'
  BY <1>1, <1>2, <1>3, RequestType DEF ChangeRequest, DeskInv, TypeOK
<1>5. \A g \in Handlers : /\ g # h => handlers'[g] = handlers[g]
                          /\ handlers'[h] = locals
  BY <1>2 DEF DeskInv, TypeOK
<1>6. rows[t].state # "none"
  BY DEF ChangeRequest
<1>7. QED
  BY <1>1, <1>3, <1>4, <1>5, <1>6
     DEF DeskInv, HandlerInv, Changing, Unreported, OneReporter, Reporting,
         TicketInv, MailsOfJob

LEMMA SaveTicketKeeps ==
  ASSUME DeskInv, NEW h \in Handlers, NEW t \in Tickets, SaveTicket(h, t)
  PROVE  DeskInv'
<1>1. UNCHANGED <<jobs, mails, faults, message, chat, budget, raced>>
  BY DEF SaveTicket, queue
<1> DEFINE row == [UnusedRow EXCEPT !.state = "stored", !.user = handlers[h].user,
                                    !.updated = clock + 1]
           locals == [handlers[h] EXCEPT !.at = "prepare", !.ticket = t]
<1>2. /\ rows' = [rows EXCEPT ![t] = row]
      /\ asked' = [asked EXCEPT ![t] = rows'[t]]
      /\ handlers' = [handlers EXCEPT ![h] = locals]
      /\ clock' = clock + 1
  BY DEF SaveTicket, Continue
<1>3. rows[t].state = "none" /\ handlers[h].at = "saveTicket"
  BY DEF SaveTicket, Unused, At
<1>4. /\ row.state = "stored" /\ row \in Row
      /\ locals.at = "prepare" /\ locals.ticket = t /\ locals \in Handler
  <2>1. handlers[h].user \in Users /\ clock + 1 \in Nat /\ handlers[h] \in Handler
    BY <1>3 DEF DeskInv, TypeOK, HandlerInv
  <2>2. row.state = "stored" /\ row \in Row
    BY <2>1, BlankTypes DEF Row
  <2>3. locals.at = "prepare" /\ locals.ticket = t /\ locals \in Handler
    BY <2>1 DEF Handler, Place
  <2>4. QED
    BY <2>2, <2>3
<1> HIDE DEF row, locals
<1>5. TypeOK'
  BY <1>1, <1>2, <1>4 DEF DeskInv, TypeOK
<1>6. /\ handlers'[h] = locals
      /\ \A g \in Handlers \ {h} : handlers'[g] = handlers[g]
      /\ rows'[t] = row
      /\ \A s \in Tickets \ {t} : rows'[s] = rows[s]
  BY <1>2 DEF DeskInv, TypeOK
<1>7. Unreported(t)'
  BY <1>1, <1>3, <1>4, <1>6 DEF DeskInv, TicketInv, MailsOfJob, Unreported, NoJob
<1>8. ASSUME NEW g \in Handlers
      PROVE  HandlerInv(g)' /\ (g # h => ~Reporting(g, t)')
  BY <1>1, <1>3, <1>4, <1>6, <1>7
     DEF DeskInv, HandlerInv, Changing, Reporting, Unreported
<1>9. OneReporter'
  BY <1>4, <1>6, <1>8 DEF DeskInv, OneReporter, Reporting
<1>10. \A s \in Tickets : TicketInv(s)'
  BY <1>1, <1>4, <1>6 DEF DeskInv, TicketInv, MailsOfJob
<1>11. QED
  BY <1>5, <1>8, <1>9, <1>10 DEF DeskInv

LEMMA PrepareAndSendKeeps ==
  ASSUME DeskInv, NEW h \in Handlers, PrepareAndSend(h)
  PROVE  DeskInv'
<1>1. UNCHANGED <<jobs, mails, faults, rows, chat, clock, budget, asked, raced>>
  BY DEF PrepareAndSend, queue, history
<1> DEFINE t == handlers[h].ticket
           locals == [handlers[h] EXCEPT !.at = "sending", !.text = t]
<1>2. /\ message' = t
      /\ handlers' = [handlers EXCEPT ![h] = locals]
      /\ handlers[h].at = "prepare"
  BY DEF PrepareAndSend, Continue, At
<1>3. t \in Tickets /\ Unreported(t) /\ handlers[h] \in Handler
  BY <1>2 DEF DeskInv, HandlerInv, TypeOK
<1>4. /\ locals.at = "sending" /\ locals.ticket = t /\ locals.text = t
      /\ locals \in Handler
  BY <1>3 DEF Handler, Place
<1> HIDE DEF t, locals
<1>5. TypeOK'
  BY <1>1, <1>2, <1>3, <1>4 DEF DeskInv, TypeOK
<1>6. /\ handlers'[h] = locals
      /\ \A g \in Handlers \ {h} : handlers'[g] = handlers[g]
  BY <1>2 DEF DeskInv, TypeOK
<1>7. \A g \in Handlers : HandlerInv(g)'
  BY <1>1, <1>3, <1>4, <1>6 DEF DeskInv, HandlerInv, Changing, Unreported
<1>8. OneReporter'
  BY <1>2, <1>4, <1>6 DEF DeskInv, OneReporter, Reporting, t
<1>9. \A s \in Tickets : TicketInv(s)'
  BY <1>1 DEF DeskInv, TicketInv, MailsOfJob
<1>10. QED
  BY <1>5, <1>7, <1>8, <1>9 DEF DeskInv

(* Both ways for Telegram to answer: the chat has heard of the ticket, or a  *)
(* fault is counted, and the job is on its way.                              *)
LEMMA EnqueueKeeps ==
  ASSUME DeskInv, NEW h \in Handlers, SentToChat(h) \/ ChatFails(h)
  PROVE  DeskInv'
<1>1. UNCHANGED <<mails, rows, message, clock, budget, asked, raced>>
  BY DEF SentToChat, ChatFails, Enqueue, history
<1>2. /\ jobs' = [jobs EXCEPT ![handlers[h].ticket].at = "adding"]
      /\ handlers' = [handlers EXCEPT ![h] = IdleHandler]
      /\ handlers[h].at = "sending"
  BY DEF SentToChat, ChatFails, Enqueue, End, Continue, At
<1>3. PICK t \in Tickets : t = handlers[h].ticket /\ t = handlers[h].text
                           /\ Unreported(t)
  BY <1>2 DEF DeskInv, HandlerInv
<1>4. /\ chat' \in [Tickets -> Nat] /\ faults' \in Nat /\ faults' >= faults
      /\ chat'[t] \in {0, 1}
      /\ \A s \in Tickets \ {t} : chat'[s] = chat[s]
  BY <1>3 DEF SentToChat, ChatFails, Fault, DeskInv, TypeOK, Unreported
<1>5. /\ jobs' \in [Tickets -> Job]
      /\ jobs'[t] = [at |-> "adding", stalls |-> 0]
      /\ \A s \in Tickets \ {t} : jobs'[s] = jobs[s]
  BY <1>2, <1>3 DEF DeskInv, TypeOK, Job, JobPlace, Unreported, NoJob
<1>6. /\ handlers'[h] = IdleHandler
      /\ \A g \in Handlers \ {h} : handlers'[g] = handlers[g]
  BY <1>2 DEF DeskInv, TypeOK
<1>7. TypeOK'
  BY <1>1, <1>2, <1>4, <1>5, BlankTypes DEF DeskInv, TypeOK
<1>8. \A g \in Handlers \ {h} : ~Reporting(g, t)
  BY <1>2, <1>3 DEF DeskInv, OneReporter, Reporting
<1>9. \A g \in Handlers : HandlerInv(g)'
  BY <1>1, <1>3, <1>4, <1>5, <1>6, <1>8, BlankTypes
     DEF DeskInv, HandlerInv, Changing, Unreported, Reporting
<1>10. OneReporter'
  BY <1>6, BlankTypes DEF DeskInv, OneReporter, Reporting
<1>11. \A s \in Tickets : TicketInv(s)'
  <2>1. TicketInv(t)'
    BY <1>1, <1>3, <1>4, <1>5 DEF TicketInv, MailsOfJob, Unreported, NoJob
  <2>2. \A s \in Tickets \ {t} : TicketInv(s)'
    BY <1>1, <1>4, <1>5 DEF DeskInv, TypeOK, TicketInv, MailsOfJob
  <2>3. QED
    BY <2>1, <2>2
<1>12. QED
  BY <1>7, <1>9, <1>10, <1>11 DEF DeskInv

(* A change moves its own handler only, until it writes.                     *)
LEMMA ChangingKeeps ==
  ASSUME DeskInv, NEW h \in Handlers, NEW locals \in Handler,
         handlers' = [handlers EXCEPT ![h] = locals],
         UNCHANGED <<jobs, mails, faults, rows, message, chat, budget, asked, raced>>,
         clock' \in Nat,
         \/ locals = IdleHandler
         \/ /\ locals.at \in {"loadTicket", "writeTicket"}
            /\ locals.ticket = handlers[h].ticket
            /\ locals.change = handlers[h].change
            /\ locals.copy.state = "stored"
            /\ Changing(h)
  PROVE  DeskInv'
<1>1. TypeOK'
  BY DEF DeskInv, TypeOK
<1>2. /\ handlers'[h] = locals
      /\ \A g \in Handlers \ {h} : handlers'[g] = handlers[g]
  BY DEF DeskInv, TypeOK
<1>3. \A g \in Handlers : HandlerInv(g)'
  BY <1>2, BlankTypes DEF DeskInv, HandlerInv, Changing, Unreported
<1>4. OneReporter'
  BY <1>2, BlankTypes DEF DeskInv, OneReporter, Reporting
<1>5. \A s \in Tickets : TicketInv(s)'
  BY DEF DeskInv, TicketInv, MailsOfJob
<1>6. QED
  BY <1>1, <1>3, <1>4, <1>5 DEF DeskInv

LEMMA FindTicketKeeps ==
  ASSUME DeskInv, NEW h \in Handlers, FindTicket(h)
  PROVE  DeskInv'
<1>1. UNCHANGED <<jobs, mails, faults, rows, message, chat, budget, asked, raced>>
  BY DEF FindTicket, queue, history
<1>2. PICK t \in Tickets : t = handlers[h].ticket
  BY DEF FindTicket, At, DeskInv, HandlerInv, Changing
<1>3. CASE ~Stored(t)
  BY <1>1, <1>2, <1>3, BlankTypes, ChangingKeeps
     DEF FindTicket, End, Continue, DeskInv, TypeOK
<1>4. CASE Stored(t)
  <2> DEFINE copy == Changed(rows[t], handlers[h].change, clock + 1)
             locals == [handlers[h] EXCEPT !.at = "loadTicket", !.copy = copy]
  <2>1. /\ handlers' = [handlers EXCEPT ![h] = locals]
        /\ clock' = clock + 1
        /\ handlers[h].at = "findTicket"
    BY <1>2, <1>4 DEF FindTicket, Continue, At
  <2>2. handlers[h].change \in Changes /\ handlers[h] \in Handler
        /\ rows[t] \in Row /\ clock + 1 \in Nat
    BY <2>1 DEF DeskInv, HandlerInv, Changing, TypeOK
  <2>3. copy \in Row /\ copy.state = "stored"
    BY <1>4, <2>2, ChangedType DEF Stored
  <2> HIDE DEF copy
  <2>4. /\ locals \in Handler /\ locals.at = "loadTicket" /\ locals.copy = copy
        /\ locals.ticket = handlers[h].ticket /\ locals.change = handlers[h].change
    BY <2>2, <2>3 DEF Handler, Place
  <2> HIDE DEF locals
  <2>5. QED
    BY <1>1, <2>1, <2>2, <2>3, <2>4, ChangingKeeps DEF Changing
<1>5. QED
  BY <1>3, <1>4

LEMMA LoadTicketKeeps ==
  ASSUME DeskInv, NEW h \in Handlers, LoadTicket(h)
  PROVE  DeskInv'
<1>1. UNCHANGED <<jobs, mails, faults, rows, message, chat, clock, budget, asked, raced>>
  BY DEF LoadTicket, queue, history
<1> DEFINE differing == IF Stored(handlers[h].ticket)
                        THEN {c \in {"status", "unread", "updated"} :
                                 handlers[h].copy[c] # rows[handlers[h].ticket][c]}
                        ELSE {"all"}
           locals == [handlers[h] EXCEPT !.at = "writeTicket", !.columns = differing]
<1>2. /\ handlers' = [handlers EXCEPT ![h] = locals]
      /\ handlers[h].at = "loadTicket"
  BY DEF LoadTicket, Continue, At
<1>3. /\ handlers[h] \in Handler /\ handlers[h].copy.state = "stored"
      /\ differing \subseteq {"status", "unread", "updated", "all"}
      /\ clock \in Nat
  BY <1>2 DEF DeskInv, TypeOK, HandlerInv
<1> HIDE DEF differing
<1>4. /\ locals \in Handler /\ locals.at = "writeTicket"
      /\ locals.ticket = handlers[h].ticket /\ locals.change = handlers[h].change
      /\ locals.copy = handlers[h].copy
  BY <1>3 DEF Handler, Place
<1> HIDE DEF locals
<1>5. QED
  BY <1>1, <1>2, <1>3, <1>4, ChangingKeeps DEF Changing

LEMMA WrittenType ==
  ASSUME TypeOK, NEW t \in Tickets, rows[t].state # "none",
         NEW copy \in Row, copy.state = "stored",
         NEW columns \in SUBSET {"status", "unread", "updated", "all"}
  PROVE  Written(t, copy, columns) \in Row
         /\ Written(t, copy, columns).state # "none"
<1>1. rows[t] \in Row
  BY DEF TypeOK
<1>2. DOMAIN rows[t] = {"state", "user", "status", "unread", "updated"}
  BY <1>1 DEF Row
<1> DEFINE merged == [c \in DOMAIN rows[t] |-> IF c \in columns THEN copy[c]
                                                                 ELSE rows[t][c]]
<1>3. merged = [state |-> rows[t].state, user |-> rows[t].user,
                status |-> IF "status" \in columns THEN copy.status ELSE rows[t].status,
                unread |-> IF "unread" \in columns THEN copy.unread ELSE rows[t].unread,
                updated |-> IF "updated" \in columns THEN copy.updated
                                                     ELSE rows[t].updated]
  BY <1>2
<1>4. merged \in Row /\ merged.state = rows[t].state
  BY <1>1, <1>3 DEF Row
<1> HIDE DEF merged
<1>5. Written(t, copy, columns) \in {copy, merged, rows[t]}
  BY DEF Written, merged
<1>6. QED
  BY <1>1, <1>4, <1>5

LEMMA WriteTicketKeeps ==
  ASSUME DeskInv, NEW h \in Handlers, WriteTicket(h)
  PROVE  DeskInv'
<1>1. UNCHANGED <<jobs, mails, faults, message, chat, clock, budget, raced>>
  BY DEF WriteTicket, queue
<1>2. PICK t \in Tickets : t = handlers[h].ticket /\ rows[t].state # "none"
  BY DEF WriteTicket, At, DeskInv, HandlerInv, Changing
<1>3. /\ handlers[h] \in Handler /\ handlers[h].copy.state = "stored"
      /\ handlers[h].copy \in Row /\ handlers[h].change \in Changes
      /\ handlers[h].columns \in SUBSET {"status", "unread", "updated", "all"}
      /\ asked[t] \in Row
  BY DEF WriteTicket, At, DeskInv, HandlerInv, TypeOK, Handler, Changing
<1> DEFINE row == Written(t, handlers[h].copy, handlers[h].columns)
           wish == Changed(asked[t], handlers[h].change, handlers[h].copy.updated)
<1>4. /\ rows' = [rows EXCEPT ![t] = row]
      /\ asked' = [asked EXCEPT ![t] = wish]
      /\ handlers' = [handlers EXCEPT ![h] = IdleHandler]
  BY <1>2 DEF WriteTicket, End, Continue
<1>5. row \in Row /\ row.state # "none" /\ wish \in Row
  <2>1. handlers[h].copy.updated \in Nat
    BY <1>3 DEF Row
  <2>2. QED
    BY <1>2, <1>3, <2>1, WrittenType, ChangedType DEF DeskInv
<1> HIDE DEF row, wish
<1>6. TypeOK'
  BY <1>1, <1>4, <1>5, BlankTypes DEF DeskInv, TypeOK
<1>7. /\ handlers'[h] = IdleHandler
      /\ \A g \in Handlers \ {h} : handlers'[g] = handlers[g]
      /\ rows'[t].state # "none"
      /\ \A s \in Tickets \ {t} : rows'[s] = rows[s]
  BY <1>4, <1>5 DEF DeskInv, TypeOK
<1>8. \A g \in Handlers : HandlerInv(g)'
  BY <1>1, <1>2, <1>7, BlankTypes DEF DeskInv, HandlerInv, Changing, Unreported
<1>9. OneReporter'
  BY <1>7, BlankTypes DEF DeskInv, OneReporter, Reporting
<1>10. \A s \in Tickets : TicketInv(s)'
  BY <1>1, <1>7 DEF DeskInv, TicketInv, MailsOfJob
<1>11. QED
  BY <1>6, <1>8, <1>9, <1>10 DEF DeskInv

LEMMA DeleteTicketKeeps ==
  ASSUME DeskInv, NEW t \in Tickets, DeleteTicket(t)
  PROVE  DeskInv'
<1>1. UNCHANGED <<jobs, mails, faults, message, chat, handlers, clock>>
  BY DEF DeleteTicket, queue
<1>2. /\ rows' = [rows EXCEPT ![t].state = "deleted"]
      /\ asked' = [asked EXCEPT ![t].state = "deleted"]
      /\ raced' \subseteq Tickets
      /\ budget' \in Budget
  BY RequestType DEF DeleteTicket, DeskInv, TypeOK
<1>3. rows' \in [Tickets -> Row] /\ asked' \in [Tickets -> Row]
  BY <1>2 DEF DeskInv, TypeOK, Row
<1>4. TypeOK'
  BY <1>1, <1>2, <1>3 DEF DeskInv, TypeOK
<1>5. /\ rows'[t].state = "deleted"
      /\ \A s \in Tickets \ {t} : rows'[s] = rows[s]
  BY <1>2 DEF DeskInv, TypeOK, Row
<1>6. \A g \in Handlers : HandlerInv(g)'
  BY <1>1, <1>5 DEF DeskInv, HandlerInv, Changing, Unreported
<1>7. OneReporter'
  BY <1>1 DEF DeskInv, OneReporter, Reporting
<1>8. \A s \in Tickets : TicketInv(s)'
  BY <1>1, <1>5, DeleteTicket(t) DEF DeskInv, TicketInv, MailsOfJob, DeleteTicket
<1>9. QED
  BY <1>4, <1>6, <1>7, <1>8 DEF DeskInv

----------------------------------------------------------------------------
(* The steps of the queue: one job moves, and its ticket has been reported.  *)

LEMMA JobMoves ==
  ASSUME DeskInv, NEW t \in Tickets, NEW from \in JobPlace, NEW to \in JobPlace,
         Move(t, from, to)
  PROVE  /\ jobs[t].at = from /\ jobs'[t].at = to
         /\ jobs'[t].stalls = jobs[t].stalls
         /\ jobs[t].stalls \in 0..1
         /\ \A s \in Tickets \ {t} : jobs'[s] = jobs[s]
  BY DEF Move, DeskInv, TypeOK, Job

LEMMA MailSent ==
  ASSUME DeskInv, NEW t \in Tickets,
         JobAdded(t) \/ WorkerStep(t) \/ AddFails(t) \/ SendMailFails(t)
  PROVE  /\ jobs[t].at # "none" /\ jobs'[t].at # "none"
         /\ MailsOfJob(t)'
         /\ \A s \in Tickets \ {t} : jobs'[s] = jobs[s] /\ mails'[s] = mails[s]
         /\ faults' >= faults
<1> USE DEF JobPlace
<1>1. faults \in Nat /\ mails \in [Tickets -> Nat] /\ MailsOfJob(t)
  BY DEF DeskInv, TypeOK, TicketInv
<1>2. CASE JobAdded(t)
  BY <1>1, <1>2, JobMoves DEF JobAdded, MailsOfJob
<1>3. CASE TakeJob(t)
  BY <1>1, <1>3, JobMoves DEF TakeJob, MailsOfJob
<1>4. CASE SendMail(t)
  <2>1. /\ mails'[t] = mails[t] + 1
        /\ \A s \in Tickets \ {t} : mails'[s] = mails[s]
    BY <1>1, <1>4 DEF SendMail
  <2>2. QED
    BY <1>1, <1>4, <2>1, JobMoves DEF SendMail, MailsOfJob
<1>5. CASE FinishJob(t)
  BY <1>1, <1>5, JobMoves DEF FinishJob, MailsOfJob
<1>6. CASE AddFails(t)
  BY <1>1, <1>6, JobMoves DEF AddFails, MailsOfJob, Fault
<1>7. CASE SendMailFails(t)
  BY <1>1, <1>7, JobMoves DEF SendMailFails, MailsOfJob, Fault
<1>8. QED
  BY <1>2, <1>3, <1>4, <1>5, <1>6, <1>7 DEF WorkerStep

LEMMA QueueKeeps ==
  ASSUME DeskInv, NEW t \in Tickets, QueueStep(t) \/ QueueFails(t)
  PROVE  DeskInv'
<1>1. UNCHANGED <<rows, message, chat, handlers, clock, budget, asked, raced>>
  BY DEF QueueStep, QueueFails, history
<1>2. JobAdded(t) \/ WorkerStep(t) \/ AddFails(t) \/ SendMailFails(t)
  BY DEF QueueStep, QueueFails
<1>3. TypeOK'
  BY <1>1, <1>2, QueueTypes DEF DeskInv, TypeOK
<1>4. /\ jobs[t].at # "none" /\ jobs'[t].at # "none"
      /\ MailsOfJob(t)'
      /\ \A s \in Tickets \ {t} : jobs'[s] = jobs[s] /\ mails'[s] = mails[s]
      /\ faults' >= faults /\ faults \in Nat /\ faults' \in Nat
  BY <1>2, <1>3, MailSent DEF DeskInv, TypeOK
<1>5. jobs[t] # NoJob
  BY <1>4 DEF NoJob
<1>6. \A g \in Handlers : HandlerInv(g)'
  BY <1>1, <1>4, <1>5 DEF DeskInv, HandlerInv, Changing, Unreported
<1>7. OneReporter'
  BY <1>1 DEF DeskInv, OneReporter, Reporting
<1>8. \A s \in Tickets : TicketInv(s)'
  <2>1. TicketInv(t)'
    BY <1>1, <1>4, <1>5 DEF DeskInv, TicketInv
  <2>2. \A s \in Tickets \ {t} : TicketInv(s)'
    BY <1>1, <1>4 DEF DeskInv, TicketInv, MailsOfJob
  <2>3. QED
    BY <2>1, <2>2
<1>9. QED
  BY <1>3, <1>6, <1>7, <1>8 DEF DeskInv

LEMMA JobAfterCrash ==
  ASSUME DeskInv, NEW t \in Tickets, NEW arrived,
         jobs'[t] = AfterCrash(jobs[t], t \in arrived),
         mails'[t] = mails[t], faults' = faults + 1
  PROVE  /\ MailsOfJob(t)'
         /\ jobs[t] = NoJob => jobs'[t] = NoJob
<1>1. /\ jobs[t] \in Job /\ faults \in Nat /\ mails[t] \in Nat
      /\ MailsOfJob(t)
  BY DEF DeskInv, TypeOK, TicketInv
<1>2. CASE jobs[t].at = "adding"
  <2>1. /\ jobs'[t].at \in {"waiting", "failed"}
        /\ jobs'[t].stalls = jobs[t].stalls
    BY <1>1, <1>2 DEF AfterCrash, Job
  <2>2. QED
    BY <1>1, <1>2, <2>1 DEF MailsOfJob, NoJob, Job
<1>3. CASE jobs[t].at \in {"active", "sent"} /\ jobs[t].stalls = 0
  <2>1. jobs'[t] = [at |-> "waiting", stalls |-> 1]
    BY <1>3 DEF AfterCrash
  <2>2. QED
    BY <1>1, <1>3, <2>1 DEF MailsOfJob, NoJob
<1>4. CASE jobs[t].at \in {"active", "sent"} /\ jobs[t].stalls = 1
  <2>1. jobs'[t].at = "failed" /\ jobs'[t].stalls = 1
    BY <1>1, <1>4 DEF AfterCrash, Job
  <2>2. QED
    BY <1>1, <1>4, <2>1 DEF MailsOfJob, NoJob
<1>5. CASE jobs[t].at \notin {"adding", "active", "sent"}
  <2>1. jobs'[t] = jobs[t]
    BY <1>5 DEF AfterCrash
  <2>2. QED
    BY <1>1, <1>5, <2>1 DEF MailsOfJob
<1>6. QED
  BY <1>1, <1>2, <1>3, <1>4, <1>5 DEF Job

LEMMA CrashKeeps ==
  ASSUME DeskInv, Crash
  PROVE  DeskInv'
<1>1. UNCHANGED <<rows, chat, clock, budget, asked, raced, mails>>
  BY DEF Crash, QueueCrash, history
<1>2. /\ handlers' = [h \in Handlers |-> IdleHandler]
      /\ message' = None
      /\ faults' = faults + 1
  BY DEF Crash, Fault
<1>3. PICK arrived \in SUBSET Tickets :
          jobs' = [t \in Tickets |-> AfterCrash(jobs[t], t \in arrived)]
  BY DEF Crash, QueueCrash
<1>4. jobs' \in [Tickets -> Job]
  <2>1. \A t \in Tickets : AfterCrash(jobs[t], t \in arrived) \in Job
    BY CrashTypes DEF DeskInv
  <2>2. QED
    BY <1>3, <2>1
<1>5. TypeOK'
  BY <1>1, <1>2, <1>4, BlankTypes DEF DeskInv, TypeOK
<1>6. \A g \in Handlers : handlers'[g] = IdleHandler
  BY <1>2
<1>7. \A t \in Tickets : TicketInv(t)'
  <2>1. \A t \in Tickets : MailsOfJob(t)' /\ (jobs[t] = NoJob => jobs'[t] = NoJob)
    <3>1. \A t \in Tickets : jobs'[t] = AfterCrash(jobs[t], t \in arrived)
                             /\ mails'[t] = mails[t]
      BY <1>1, <1>3
    <3>2. QED
      BY <1>2, <3>1, JobAfterCrash
  <2>2. QED
    BY <1>1, <2>1 DEF DeskInv, TicketInv
<1>8. QED
  BY <1>5, <1>6, <1>7, BlankTypes
     DEF DeskInv, HandlerInv, Changing, OneReporter, Reporting

LEMMA DeskNext == DeskInv /\ [Next]_vars => DeskInv'
<1> SUFFICES ASSUME DeskInv, [Next]_vars PROVE DeskInv'
  OBVIOUS
<1>1. ASSUME NEW h \in Handlers, NEW u \in Users, CreateRequest(h, u) PROVE DeskInv'
  BY <1>1, RequestsKeep
<1>2. ASSUME NEW h \in Handlers, NEW t \in Tickets, NEW change \in Changes,
             ChangeRequest(h, t, change)
      PROVE  DeskInv'
  BY <1>2, ChangeRequestKeeps
<1>3. ASSUME NEW h \in Handlers, Step(h) \/ ChatFails(h) PROVE DeskInv'
  BY <1>3, SaveTicketKeeps, PrepareAndSendKeeps, EnqueueKeeps, FindTicketKeeps,
     LoadTicketKeeps, WriteTicketKeeps DEF Step
<1>4. ASSUME NEW t \in Tickets, DeleteTicket(t) \/ QueueStep(t) \/ QueueFails(t)
      PROVE  DeskInv'
  BY <1>4, DeleteTicketKeeps, QueueKeeps
<1>5. CASE Crash
  BY <1>5, CrashKeeps
<1>6. CASE UNCHANGED vars
  BY <1>6 DEF vars, queue, history, DeskInv, TypeOK, HandlerInv, Changing, Unreported,
     OneReporter, Reporting, TicketInv, MailsOfJob
<1>7. QED
  BY <1>1, <1>2, <1>3, <1>4, <1>5, <1>6 DEF Next

(* Tickets, requests in hand, jobs and counters have their types in every    *)
(* reachable state: a request never writes a row it did not read.            *)
THEOREM SupportTypes == Spec => []TypeOK
<1>1. DeskInv => TypeOK
  BY DEF DeskInv
<1>2. QED
  BY DeskInit, DeskNext, <1>1, PTL DEF Spec

----------------------------------------------------------------------------
(* The steps as SupportDesk sees them.  Most of them it does not see: the    *)
(* reports are where they were.                                              *)

InQueue(t) == jobs[t].at \in {"adding", "waiting", "active", "sent"}

LEMMA Unseen ==
  ASSUME NEW s \in Tickets, chat'[s] = chat[s], mails'[s] = mails[s],
         rows'[s].state = "none" <=> rows[s].state = "none",
         Due(s)' <=> Due(s), InQueue(s)' <=> InQueue(s)
  PROVE  ToldState(s)' = ToldState(s) /\ MailState(s)' = MailState(s)
  BY DEF ToldState, MailState, Missing, InQueue

LEMMA MailCount ==
  ASSUME DeskInv, NEW t \in Tickets
  PROVE  mails[t] \in {0, 1, 2}
<1>1. mails[t] \in Nat /\ jobs[t] \in Job /\ MailsOfJob(t)
  BY DEF DeskInv, TypeOK, TicketInv
<1>2. mails[t] <= 2
  BY <1>1 DEF MailsOfJob, Job, JobPlace
<1>3. QED
  BY <1>1, <1>2

LEMMA MailUnmoved ==
  ASSUME NEW t \in Tickets, mails[t] \in {1, 2}, mails'[t] = mails[t]
  PROVE  MailState(t)' = MailState(t)
<1>1. CASE mails[t] = 1
  BY <1>1 DEF MailState
<1>2. CASE mails[t] = 2
  BY <1>2 DEF MailState
<1>3. QED
  BY <1>1, <1>2

\* A mail that has not come: once its job is out of the queue it is lost.
LEMMA MailMissing ==
  ASSUME NEW t \in Tickets, mails[t] = 0, mails'[t] = 0,
         Due(t) \/ InQueue(t) => rows[t].state # "none",
         rows' = rows, Due(t)' \/ InQueue(t)' => Due(t) \/ InQueue(t)
  PROVE  MailState(t)' = MailState(t) \/ (MailState(t) = "due" /\ MailState(t)' = "lost")
<1>1. MailState(t) = IF Due(t) \/ InQueue(t) THEN "due" ELSE Missing(t)
  BY DEF MailState, InQueue
<1>2. MailState(t)' = IF Due(t)' \/ InQueue(t)' THEN "due" ELSE Missing(t)
  BY DEF MailState, InQueue, Missing
<1>3. QED
  BY <1>1, <1>2 DEF Missing

LEMMA Stutters ==
  ASSUME UNCHANGED <<chat, mails, faults, jobs>>,
         \A s \in Tickets : rows'[s].state = "none" <=> rows[s].state = "none",
         \A s \in Tickets : Due(s)' <=> Due(s)
  PROVE  UNCHANGED Desk!vars
<1>1. \A s \in Tickets : ToldState(s)' = ToldState(s) /\ MailState(s)' = MailState(s)
  BY Unseen DEF InQueue
<1>2. QED
  BY <1>1 DEF Desk!vars

\* What is due depends on the handlers that report, and on no other.
LEMMA DueKeeps ==
  ASSUME DeskInv, NEW h \in Handlers,
         \A g \in Handlers \ {h} : handlers'[g] = handlers[g],
         \A t \in Tickets : Reporting(h, t)' <=> Reporting(h, t)
  PROVE  \A t \in Tickets : Due(t)' <=> Due(t)
  BY DEF Due, Reporting

LEMMA LosesReports ==
  ASSUME DeskInv', faults' = faults + 1,
         \A t \in Tickets :
            /\ ToldState(t)' = ToldState(t) \/ (ToldState(t) = "due" /\ ToldState(t)' = "lost")
            /\ MailState(t)' = MailState(t) \/ (MailState(t) = "due" /\ MailState(t)' = "lost")
  PROVE  Desk!Trouble
<1>1. ASSUME NEW t \in Tickets
      PROVE  ToldState(t)' \in Desk!Report /\ MailState(t)' \in Desk!Report
  <2>1. /\ chat'[t] \in Nat /\ chat'[t] <= 1
        /\ mails'[t] \in Nat /\ jobs'[t] \in Job /\ MailsOfJob(t)'
    BY DEF DeskInv, TypeOK, TicketInv
  <2>2. mails'[t] <= 2
    BY <2>1 DEF MailsOfJob, Job, JobPlace
  <2>3. chat'[t] \in {0, 1} /\ mails'[t] \in {0, 1, 2}
    BY <2>1, <2>2
  <2>4. QED
    BY <2>3 DEF ToldState, MailState, Missing, Desk!Report
<1>2. QED
  BY <1>1 DEF Desk!Trouble

LEMMA UnseenRequests ==
  ASSUME DeskInv, NEW h \in Handlers,
         \/ \E u \in Users : CreateRequest(h, u)
         \/ \E t \in Tickets, change \in Changes : ChangeRequest(h, t, change)
         \/ PrepareAndSend(h) \/ FindTicket(h) \/ LoadTicket(h)
  PROVE  UNCHANGED Desk!vars
<1>1. UNCHANGED <<chat, mails, faults, jobs, rows>>
  BY DEF CreateRequest, ChangeRequest, PrepareAndSend, FindTicket, LoadTicket, queue
<1>2. /\ \A g \in Handlers \ {h} : handlers'[g] = handlers[g]
      /\ \A t \in Tickets : Reporting(h, t)' <=> Reporting(h, t)
  <2>1. handlers[h] \in Handler
    BY DEF DeskInv, TypeOK
  <2>2. CASE PrepareAndSend(h)
    BY <2>1, <2>2 DEF PrepareAndSend, Continue, At, DeskInv, TypeOK, Handler, Reporting
  <2>3. CASE ~PrepareAndSend(h)
    <3>1. \E locals : /\ handlers' = [handlers EXCEPT ![h] = locals]
                      /\ locals.at \notin {"prepare", "sending"}
                      /\ handlers[h].at \notin {"prepare", "sending"}
      <4>1. ASSUME NEW u \in Users, CreateRequest(h, u)
            PROVE  handlers'[h].at = "saveTicket" /\ handlers[h].at = "idle"
                   /\ handlers' = [handlers EXCEPT ![h] = handlers'[h]]
        BY <4>1, BlankTypes DEF CreateRequest, Continue, At, DeskInv, TypeOK, Handler
      <4>2. ASSUME NEW t \in Tickets, NEW change \in Changes, ChangeRequest(h, t, change)
            PROVE  handlers'[h].at = "findTicket" /\ handlers[h].at = "idle"
                   /\ handlers' = [handlers EXCEPT ![h] = handlers'[h]]
        BY <4>2, BlankTypes DEF ChangeRequest, Continue, At, DeskInv, TypeOK, Handler
      <4>3. CASE FindTicket(h)
        <5> DEFINE copy == Changed(rows[handlers[h].ticket], handlers[h].change, clock + 1)
                   locals == [handlers[h] EXCEPT !.at = "loadTicket", !.copy = copy]
        <5>1. \/ handlers' = [handlers EXCEPT ![h] = IdleHandler]
              \/ handlers' = [handlers EXCEPT ![h] = locals]
          BY <4>3 DEF FindTicket, End, Continue
        <5> HIDE DEF copy
        <5>2. locals.at = "loadTicket" /\ handlers[h].at = "findTicket"
          BY <2>1, <4>3 DEF FindTicket, At, Handler
        <5> HIDE DEF locals
        <5>3. QED
          BY <5>1, <5>2, BlankTypes
      <4>4. CASE LoadTicket(h)
        <5>1. /\ handlers'[h].at = "writeTicket"
              /\ handlers' = [handlers EXCEPT ![h] = handlers'[h]]
          BY <2>1, <4>4 DEF LoadTicket, Continue, DeskInv, TypeOK, Handler
        <5>2. QED
          BY <4>4, <5>1 DEF LoadTicket, At
      <4>5. QED
        BY <2>3, <4>1, <4>2, <4>3, <4>4
    <3>2. QED
      BY <3>1 DEF DeskInv, TypeOK, Reporting
  <2>4. QED
    BY <2>2, <2>3
<1>3. QED
  BY <1>1, <1>2, DueKeeps, Stutters

LEMMA UnseenChanges ==
  ASSUME DeskInv,
         (\E h \in Handlers : WriteTicket(h)) \/ (\E t \in Tickets : DeleteTicket(t))
  PROVE  UNCHANGED Desk!vars
<1>1. ASSUME NEW h \in Handlers, WriteTicket(h)
      PROVE  UNCHANGED Desk!vars
  <2>1. PICK t \in Tickets : t = handlers[h].ticket /\ rows[t].state # "none"
    BY <1>1 DEF WriteTicket, At, DeskInv, HandlerInv, Changing
  <2>2. Written(t, handlers[h].copy, handlers[h].columns).state # "none"
    <3>1. /\ handlers[h].copy.state = "stored" /\ handlers[h].copy \in Row
          /\ handlers[h].columns \in SUBSET {"status", "unread", "updated", "all"}
      BY <1>1 DEF WriteTicket, At, DeskInv, HandlerInv, TypeOK, Handler
    <3>2. QED
      BY <2>1, <3>1, WrittenType DEF DeskInv
  <2>3. /\ UNCHANGED <<chat, mails, faults, jobs>>
        /\ \A s \in Tickets : rows'[s].state = "none" <=> rows[s].state = "none"
    BY <1>1, <2>1, <2>2 DEF WriteTicket, queue, DeskInv, TypeOK
  <2>4. /\ handlers' = [handlers EXCEPT ![h] = IdleHandler]
        /\ handlers[h].at = "writeTicket"
    BY <1>1 DEF WriteTicket, At, End, Continue
  <2>5. \A s \in Tickets : Due(s)' <=> Due(s)
    BY <2>4, BlankTypes, DueKeeps DEF Reporting, DeskInv, TypeOK
  <2>6. QED
    BY <2>3, <2>5, Stutters
<1>2. ASSUME NEW t \in Tickets, DeleteTicket(t)
      PROVE  UNCHANGED Desk!vars
  <2>1. /\ UNCHANGED <<chat, mails, faults, jobs, handlers>>
        /\ rows' = [rows EXCEPT ![t].state = "deleted"]
        /\ rows[t].state # "none"
    BY <1>2 DEF DeleteTicket, queue
  <2>2. \A s \in Tickets : rows'[s].state = "none" <=> rows[s].state = "none"
    BY <2>1 DEF DeskInv, TypeOK, Row
  <2>3. \A s \in Tickets : Due(s)' <=> Due(s)
    BY <2>1 DEF Due, Reporting
  <2>4. QED
    BY <2>1, <2>2, <2>3, Stutters
<1>3. QED
  BY <1>1, <1>2

LEMMA SavingOpens ==
  ASSUME DeskInv, NEW h \in Handlers, NEW t \in Tickets, SaveTicket(h, t)
  PROVE  Desk!Open(t)
<1>1. UNCHANGED <<jobs, mails, faults, chat>>
  BY DEF SaveTicket, queue
<1>2. rows[t].state = "none" /\ handlers[h].at = "saveTicket"
  BY DEF SaveTicket, Unused, At
<1>3. chat[t] = 0 /\ jobs[t] = NoJob /\ mails[t] = 0 /\ ~Due(t)
  BY <1>2 DEF DeskInv, HandlerInv, TicketInv, MailsOfJob, NoJob, Due, Reporting, Unreported
<1>4. /\ \A g \in Handlers \ {h} : handlers'[g] = handlers[g]
      /\ handlers'[h].at = "prepare" /\ handlers'[h].ticket = t
      /\ \A s \in Tickets \ {t} : rows'[s] = rows[s]
  BY DEF SaveTicket, Continue, DeskInv, TypeOK, Handler
<1>5. Due(t)'
  BY <1>4 DEF Due, Reporting
<1>6. \A s \in Tickets \ {t} : Due(s)' <=> Due(s)
  BY <1>2, <1>4 DEF Due, Reporting
<1>7. \A s \in Tickets \ {t} : ToldState(s)' = ToldState(s) /\ MailState(s)' = MailState(s)
  BY <1>1, <1>4, <1>6, Unseen DEF InQueue
<1>8. /\ ToldState(t) = "none" /\ MailState(t) = "none"
      /\ ToldState(t)' = "due" /\ MailState(t)' = "due"
  BY <1>1, <1>2, <1>3, <1>5 DEF ToldState, MailState, Missing, NoJob
<1>9. QED
  BY <1>1, <1>7, <1>8 DEF Desk!Open

(* Whether Telegram answers or fails, the mail stays due and the report to   *)
(* the chat is decided.                                                      *)
LEMMA ReportDecided ==
  ASSUME DeskInv, NEW h \in Handlers, SentToChat(h) \/ ChatFails(h)
  PROVE  \E t \in Tickets :
            /\ t = handlers[h].ticket /\ t = handlers[h].text
            /\ ToldState(t) = "due" /\ rows'[t].state # "none" /\ ~Due(t)'
            /\ chat[t] = 0
            /\ MailState(t)' = MailState(t)
            /\ \A s \in Tickets \ {t} : /\ chat'[s] = chat[s]
                                        /\ ToldState(s)' = ToldState(s)
                                        /\ MailState(s)' = MailState(s)
<1>1. UNCHANGED <<mails, rows>>
  BY DEF SentToChat, ChatFails, Enqueue
<1>2. /\ jobs' = [jobs EXCEPT ![handlers[h].ticket].at = "adding"]
      /\ handlers' = [handlers EXCEPT ![h] = IdleHandler]
      /\ handlers[h].at = "sending"
  BY DEF SentToChat, ChatFails, Enqueue, End, Continue, At
<1>3. PICK t \in Tickets : t = handlers[h].ticket /\ t = handlers[h].text
                           /\ Unreported(t)
  BY <1>2 DEF DeskInv, HandlerInv
<1>4. /\ jobs'[t].at = "adding"
      /\ \A s \in Tickets \ {t} : jobs'[s] = jobs[s] /\ chat'[s] = chat[s]
  BY <1>2, <1>3 DEF SentToChat, ChatFails, DeskInv, TypeOK, Job
<1>5. /\ handlers'[h].at = "idle"
      /\ \A g \in Handlers \ {h} : handlers'[g] = handlers[g]
  BY <1>2, BlankTypes DEF DeskInv, TypeOK
<1>6. Due(t) /\ ~Due(t)'
  <2>1. Reporting(h, t)
    BY <1>2, <1>3 DEF Reporting
  <2>2. \A g \in Handlers \ {h} : ~Reporting(g, t)
    BY <2>1 DEF DeskInv, OneReporter
  <2>3. QED
    BY <1>5, <2>1, <2>2 DEF Due, Reporting
<1>7. \A s \in Tickets \ {t} : Due(s)' <=> Due(s)
  BY <1>3, <1>5 DEF Due, Reporting
<1>8. \A s \in Tickets \ {t} : ToldState(s)' = ToldState(s) /\ MailState(s)' = MailState(s)
  BY <1>1, <1>4, <1>7, Unseen DEF InQueue
<1>9. /\ ToldState(t) = "due" /\ MailState(t) = "due" /\ MailState(t)' = "due"
      /\ rows'[t].state # "none" /\ chat[t] = 0
  BY <1>1, <1>3, <1>4, <1>6 DEF ToldState, MailState, Unreported
<1>10. QED
  BY <1>3, <1>4, <1>6, <1>8, <1>9

LEMMA SendingTells ==
  ASSUME DeskInv, NEW h \in Handlers, SentToChat(h)
  PROVE  \E t \in Tickets : Desk!Tell(t)
<1>1. PICK t \in Tickets :
            /\ t = handlers[h].ticket /\ t = handlers[h].text
            /\ ToldState(t) = "due" /\ rows'[t].state # "none" /\ ~Due(t)'
            /\ chat[t] = 0
            /\ MailState(t)' = MailState(t)
            /\ \A s \in Tickets \ {t} : /\ chat'[s] = chat[s]
                                        /\ ToldState(s)' = ToldState(s)
                                        /\ MailState(s)' = MailState(s)
  BY ReportDecided
<1>2. chat'[t] = 1 /\ faults' = faults
  BY <1>1 DEF SentToChat, DeskInv, TypeOK
<1>3. ToldState(t)' = "done"
  BY <1>2 DEF ToldState
<1>4. QED
  BY <1>1, <1>2, <1>3 DEF Desk!Tell

LEMMA ChatTrouble ==
  ASSUME DeskInv, DeskInv', NEW h \in Handlers, ChatFails(h)
  PROVE  Desk!Trouble
<1>1. PICK t \in Tickets :
            /\ ToldState(t) = "due" /\ rows'[t].state # "none" /\ ~Due(t)'
            /\ chat[t] = 0
            /\ MailState(t)' = MailState(t)
            /\ \A s \in Tickets \ {t} : /\ ToldState(s)' = ToldState(s)
                                        /\ MailState(s)' = MailState(s)
  BY ReportDecided
<1>2. chat' = chat /\ faults' = faults + 1
  BY DEF ChatFails, Fault
<1>3. ToldState(t)' = "lost"
  BY <1>1, <1>2 DEF ToldState, Missing
<1>4. QED
  BY <1>1, <1>2, <1>3, LosesReports

\* A job that fails, in Redis or with the mailer.
LEMMA QueueTrouble ==
  ASSUME DeskInv, DeskInv', NEW t \in Tickets, QueueFails(t)
  PROVE  Desk!Trouble
<1>1. /\ UNCHANGED <<rows, chat, handlers, mails>>
      /\ faults' = faults + 1
      /\ AddFails(t) \/ SendMailFails(t)
  BY DEF QueueFails, AddFails, SendMailFails, Fault, history
<1>2. \A s \in Tickets : Due(s)' <=> Due(s)
  BY <1>1 DEF Due, Reporting
<1>3. /\ InQueue(t) /\ \A s \in Tickets \ {t} : jobs'[s] = jobs[s]
      /\ rows[t].state # "none"
  BY <1>1, JobMoves DEF AddFails, SendMailFails, InQueue, JobPlace, Move,
     DeskInv, TicketInv, NoJob
<1>4. \A s \in Tickets \ {t} : ToldState(s)' = ToldState(s) /\ MailState(s)' = MailState(s)
  BY <1>1, <1>2, <1>3, Unseen DEF InQueue
<1>5. ToldState(t)' = ToldState(t)
  BY <1>1, <1>2 DEF ToldState, Missing
<1>6. MailState(t)' = MailState(t) \/ (MailState(t) = "due" /\ MailState(t)' = "lost")
  <2>1. CASE mails[t] = 0
    BY <1>1, <1>2, <1>3, <2>1, MailMissing
  <2>2. CASE mails[t] # 0
    BY <1>1, <2>2, MailCount, MailUnmoved
  <2>3. QED
    BY <2>1, <2>2
<1>7. QED
  BY <1>1, <1>4, <1>5, <1>6, LosesReports

\* A job that moves is not seen; a mail comes, comes again, or is given up.
LEMMA QueueWorks ==
  ASSUME DeskInv, NEW t \in Tickets, QueueStep(t)
  PROVE  Desk!Mail(t) \/ Desk!MailAgain(t) \/ Desk!GiveUp(t) \/ UNCHANGED Desk!vars
<1>1. UNCHANGED <<rows, chat, handlers, faults>>
  BY DEF QueueStep, JobAdded, WorkerStep, TakeJob, SendMail, FinishJob, history
<1>2. \A s \in Tickets : Due(s)' <=> Due(s)
  BY <1>1 DEF Due, Reporting
<1>3. JobAdded(t) \/ TakeJob(t) \/ SendMail(t) \/ FinishJob(t)
  BY DEF QueueStep, WorkerStep
<1>4. /\ InQueue(t) /\ \A s \in Tickets \ {t} : jobs'[s] = jobs[s] /\ mails'[s] = mails[s]
      /\ rows[t].state # "none" /\ ~Due(t)
  <2>1. jobs[t].at \in {"adding", "waiting", "active", "sent"}
    BY <1>3 DEF JobAdded, TakeJob, SendMail, FinishJob, Move
  <2>2. \A s \in Tickets \ {t} : jobs'[s] = jobs[s]
    BY <1>3, JobMoves DEF JobAdded, TakeJob, SendMail, FinishJob, JobPlace
  <2>3. \A s \in Tickets \ {t} : mails'[s] = mails[s]
    BY <1>3 DEF JobAdded, TakeJob, SendMail, FinishJob, DeskInv, TypeOK
  <2>4. jobs[t] # NoJob
    BY <2>1 DEF NoJob
  <2>5. rows[t].state # "none" /\ ~Due(t)
    BY <2>4 DEF DeskInv, TicketInv, HandlerInv, Due, Reporting, Unreported
  <2>6. QED
    BY <2>1, <2>2, <2>3, <2>5 DEF InQueue
<1>5. \A s \in Tickets \ {t} : ToldState(s)' = ToldState(s) /\ MailState(s)' = MailState(s)
  BY <1>1, <1>2, <1>4, Unseen DEF InQueue
<1>6. ToldState(t)' = ToldState(t)
  BY <1>1, <1>2 DEF ToldState, Missing
<1>7. CASE JobAdded(t) \/ TakeJob(t)
  <2>1. InQueue(t)' /\ mails' = mails
    BY <1>7, JobMoves DEF JobAdded, TakeJob, InQueue, JobPlace
  <2>2. MailState(t)' = MailState(t)
    BY <1>1, <1>2, <1>4, <2>1, Unseen
  <2>3. QED
    BY <1>1, <1>5, <1>6, <2>2 DEF Desk!vars
<1>8. CASE SendMail(t)
  <2>1. /\ mails'[t] = mails[t] + 1 /\ jobs[t].at = "active"
    BY <1>8 DEF SendMail, Move, DeskInv, TypeOK
  <2>2. /\ mails[t] \in Nat /\ mails[t] <= jobs[t].stalls /\ jobs[t].stalls \in 0..1
        /\ faults \in Nat /\ (jobs[t].stalls = 1 => faults > 0)
    BY <2>1 DEF DeskInv, TypeOK, TicketInv, MailsOfJob, Job
  <2>3. CASE mails[t] = 0
    <3>1. MailState(t) = "due" /\ MailState(t)' = "done"
      BY <1>4, <2>1, <2>3 DEF MailState, InQueue
    <3>2. QED
      BY <1>1, <1>5, <1>6, <3>1 DEF Desk!Mail
  <2>4. CASE mails[t] = 1
    <3>1. MailState(t) = "done" /\ MailState(t)' = "again" /\ faults > 0
      BY <2>1, <2>2, <2>4 DEF MailState
    <3>2. QED
      BY <1>1, <1>5, <1>6, <3>1 DEF Desk!MailAgain
  <2>5. QED
    BY <2>2, <2>3, <2>4
<1>9. CASE FinishJob(t)
  <2>1. mails' = mails /\ jobs[t].at = "sent" /\ jobs'[t].at = "completed"
    BY <1>9, JobMoves DEF FinishJob, JobPlace
  <2>2. CASE mails[t] = 0
    <3>1. MailState(t) = "due" /\ MailState(t)' = "lost"
      BY <1>1, <1>2, <1>4, <2>1, <2>2 DEF MailState, Missing
    <3>2. faults > 0
      BY <2>1, <2>2 DEF DeskInv, TicketInv, MailsOfJob
    <3>3. QED
      BY <1>1, <1>5, <1>6, <3>1, <3>2 DEF Desk!GiveUp
  <2>3. CASE mails[t] # 0
    <3>1. MailState(t)' = MailState(t)
      BY <2>1, <2>3, MailCount, MailUnmoved
    <3>2. QED
      BY <1>1, <1>5, <1>6, <3>1 DEF Desk!vars
  <2>4. QED
    BY <2>2, <2>3
<1>10. QED
  BY <1>3, <1>7, <1>8, <1>9

LEMMA CrashTrouble ==
  ASSUME DeskInv, DeskInv', Crash
  PROVE  Desk!Trouble
<1>1. /\ UNCHANGED <<rows, chat, mails>>
      /\ faults' = faults + 1
      /\ handlers' = [h \in Handlers |-> IdleHandler]
  BY DEF Crash, QueueCrash, Fault
<1>2. \A t \in Tickets : ~Due(t)'
  BY <1>1, BlankTypes DEF Due, Reporting
<1>3. ASSUME NEW t \in Tickets
      PROVE  /\ Due(t) \/ InQueue(t) => rows[t].state # "none"
             /\ InQueue(t)' => InQueue(t)
  <2>1. Due(t) \/ InQueue(t) => rows[t].state # "none"
    BY DEF DeskInv, HandlerInv, TicketInv, Due, Reporting, Unreported, InQueue, NoJob
  <2>2. PICK arrived : jobs'[t] = AfterCrash(jobs[t], t \in arrived)
    BY DEF Crash, QueueCrash
  <2>3. InQueue(t)' => InQueue(t)
    BY <2>2 DEF AfterCrash, InQueue
  <2>4. QED
    BY <2>1, <2>3
<1>4. ASSUME NEW t \in Tickets
      PROVE  /\ ToldState(t)' = ToldState(t) \/ (ToldState(t) = "due" /\ ToldState(t)' = "lost")
             /\ MailState(t)' = MailState(t) \/ (MailState(t) = "due" /\ MailState(t)' = "lost")
  <2>1. ToldState(t)' = ToldState(t) \/ (ToldState(t) = "due" /\ ToldState(t)' = "lost")
    BY <1>1, <1>2, <1>3 DEF ToldState, Missing
  <2>2. MailState(t)' = MailState(t) \/ (MailState(t) = "due" /\ MailState(t)' = "lost")
    <3>1. CASE mails[t] = 0
      BY <1>1, <1>2, <1>3, <3>1, MailMissing
    <3>2. CASE mails[t] # 0
      BY <1>1, <3>2, MailCount, MailUnmoved
    <3>3. QED
      BY <3>1, <3>2
  <2>3. QED
    BY <2>1, <2>2
<1>5. QED
  BY <1>1, <1>4, LosesReports

(* The reports are kept as SupportDesk promises, whatever crashes and        *)
(* whichever service fails: createTicket tells the chat at most once and     *)
(* under the ticket's own name, the queue mails at most twice, and either    *)
(* report is lost only together with a fault (the fairness aside).           *)
THEOREM SupportKeepsDesk == Spec => DeskSafety
<1>1. Init => Desk!Init
  <2> SUFFICES ASSUME Init PROVE Desk!Init
    OBVIOUS
  <2>1. ASSUME NEW t \in Tickets
        PROVE  /\ chat[t] = 0 /\ mails[t] = 0 /\ rows[t].state = "none" /\ ~Due(t)
               /\ jobs[t].at = "none"
    BY BlankTypes DEF Init, QueueInit, NoJob, Due, Reporting
  <2>2. ASSUME NEW t \in Tickets
        PROVE  ToldState(t) = "none" /\ MailState(t) = "none"
    <3>1. ToldState(t) = "none"
      BY <2>1 DEF ToldState, Missing
    <3>2. MailState(t) = "none"
      BY <2>1 DEF MailState, Missing
    <3>3. QED
      BY <3>1, <3>2
  <2>3. QED
    BY <2>2 DEF Init, QueueInit, Desk!Init
<1>2. DeskInv /\ DeskInv' /\ [Next]_vars => [Desk!Next]_(Desk!vars)
  <2> SUFFICES ASSUME DeskInv, DeskInv', [Next]_vars
               PROVE  Desk!Next \/ UNCHANGED Desk!vars
    OBVIOUS
  <2>1. ASSUME NEW h \in Handlers, NEW u \in Users, CreateRequest(h, u)
        PROVE  UNCHANGED Desk!vars
    BY <2>1, UnseenRequests
  <2>2. ASSUME NEW h \in Handlers, NEW t \in Tickets, NEW change \in Changes,
               ChangeRequest(h, t, change)
        PROVE  UNCHANGED Desk!vars
    BY <2>2, UnseenRequests
  <2>3. ASSUME NEW h \in Handlers, Step(h)
        PROVE  Desk!Next \/ UNCHANGED Desk!vars
    BY <2>3, UnseenRequests, UnseenChanges, SavingOpens, SendingTells DEF Step, Desk!Next
  <2>4. ASSUME NEW h \in Handlers, ChatFails(h)
        PROVE  Desk!Next
    BY <2>4, ChatTrouble DEF Desk!Next
  <2>5. ASSUME NEW t \in Tickets, DeleteTicket(t)
        PROVE  UNCHANGED Desk!vars
    BY <2>5, UnseenChanges
  <2>6. ASSUME NEW t \in Tickets, QueueStep(t) \/ QueueFails(t)
        PROVE  Desk!Next \/ UNCHANGED Desk!vars
    BY <2>6, QueueWorks, QueueTrouble DEF Desk!Next
  <2>7. CASE Crash
    BY <2>7, CrashTrouble DEF Desk!Next
  <2>8. CASE UNCHANGED vars
    BY <2>8 DEF vars, queue, history, Desk!vars, ToldState, MailState, Missing,
       Due, Reporting
  <2>9. QED
    BY <2>1, <2>2, <2>3, <2>4, <2>5, <2>6, <2>7, <2>8 DEF Next
<1>3. QED
  BY DeskInit, DeskNext, <1>1, <1>2, PTL DEF Spec, DeskSafety, Desk!Safety

----------------------------------------------------------------------------
(* The second invariant: a change that had its ticket for itself carries a   *)
(* copy that differs from the row by what it was asked for and nothing else. *)

Saving(h) == handlers[h].at \in {"loadTicket", "writeTicket"}

\* The columns in which a copy differs from the row it was made from.
Differing(t, copy) ==
    {c \in {"status", "unread", "updated"} : copy[c] # rows[t][c]}

CopyFits(h) ==
    \A t \in Tickets \ raced :
        Saving(h) /\ handlers[h].ticket = t =>
            /\ Stored(t)
            /\ handlers[h].copy =
                   Changed(rows[t], handlers[h].change, handlers[h].copy.updated)
            /\ handlers[h].at = "writeTicket" =>
                   handlers[h].columns = Differing(t, handlers[h].copy)

AloneInHand ==
    \A g, h \in Handlers, t \in Tickets \ raced :
        handlers[g].ticket = t /\ handlers[h].ticket = t => g = h

SerialInv ==
    /\ AsAskedWhenSerial
    /\ AloneInHand
    /\ \A h \in Handlers :
          /\ handlers[h].at \in {"idle", "saveTicket"} => handlers[h].ticket = None
          /\ CopyFits(h)

LEMMA SerialInit == Init => SerialInv
  BY NoneAssumption, BlankTypes
     DEF Init, SerialInv, AsAskedWhenSerial, AloneInHand, CopyFits, Saving, IdleHandler

\* A change sets its column and the stamp, and leaves the others alone.
LEMMA ChangedColumns ==
  ASSUME NEW row \in Row, NEW change \in Changes, NEW stamp \in Nat
  PROVE  /\ Changed(row, change, stamp).user = row.user
         /\ Changed(row, change, stamp).updated = stamp
  BY DEF Changed, Changes, Row

(* Save merges the columns that differ into the row: when nobody touched     *)
(* the row since it was read, that makes it the copy.                        *)
LEMMA MergesToTheCopy ==
  ASSUME TypeOK, NEW t \in Tickets, Stored(t), NEW copy \in Row,
         copy.state = "stored", copy.user = rows[t].user
  PROVE  Written(t, copy, Differing(t, copy)) = copy
<1>1. rows[t] \in Row /\ rows[t].state = "stored"
  BY DEF TypeOK, Stored
<1>2. DOMAIN rows[t] = {"state", "user", "status", "unread", "updated"}
      /\ DOMAIN copy = {"state", "user", "status", "unread", "updated"}
  BY <1>1 DEF Row
<1> DEFINE columns == Differing(t, copy)
           merged == [c \in DOMAIN rows[t] |-> IF c \in columns THEN copy[c]
                                                                 ELSE rows[t][c]]
<1>3. columns # {"all"}
  BY DEF Differing
<1>4. Written(t, copy, columns) = merged
  BY <1>3 DEF Written
<1>5. \A c \in DOMAIN rows[t] : merged[c] = copy[c]
  BY <1>1, <1>2 DEF Differing
<1>6. merged = copy
  <2>1. copy = [c \in DOMAIN copy |-> copy[c]]
    BY DEF Row
  <2>2. QED
    BY <1>2, <1>5, <2>1
<1>7. QED
  BY <1>4, <1>6

\* Nobody has a ticket in hand that was not opened.
LEMMA UnopenedIsFree ==
  ASSUME DeskInv, SerialInv, NEW t \in Tickets, rows[t].state = "none",
         NEW h \in Handlers
  PROVE  handlers[h].ticket # t
<1>1. handlers[h].at \in Place
  BY DEF DeskInv, TypeOK, Handler
<1>2. CASE handlers[h].at \in {"idle", "saveTicket"}
  BY <1>2, NoneAssumption DEF SerialInv
<1>3. CASE handlers[h].at \notin {"idle", "saveTicket"}
  BY <1>1, <1>3 DEF Place, DeskInv, HandlerInv, Changing, Unreported
<1>4. QED
  BY <1>2, <1>3

----------------------------------------------------------------------------
(* A handler that moves on by itself, the tables as they were.               *)
LEMMA MovesAlone ==
  ASSUME DeskInv, SerialInv, NEW h \in Handlers, NEW locals,
         handlers' = [handlers EXCEPT ![h] = locals],
         UNCHANGED <<rows, asked, raced>>,
         locals.ticket \in {None, handlers[h].ticket},
         locals.at \in {"idle", "saveTicket"} => locals.ticket = None,
         locals.at \notin {"loadTicket", "writeTicket"}
  PROVE  SerialInv'
<1>1. /\ handlers'[h] = locals
      /\ \A g \in Handlers \ {h} : handlers'[g] = handlers[g]
  BY DEF DeskInv, TypeOK
<1>2. AsAskedWhenSerial'
  BY DEF SerialInv, AsAskedWhenSerial, Stored
<1>3. AloneInHand'
  BY <1>1, NoneAssumption DEF SerialInv, AloneInHand
<1>4. ASSUME NEW g \in Handlers
      PROVE  /\ handlers'[g].at \in {"idle", "saveTicket"} => handlers'[g].ticket = None
             /\ CopyFits(g)'
  BY <1>1, <1>4 DEF SerialInv, CopyFits, Saving, Stored, Differing
<1>5. QED
  BY <1>2, <1>3, <1>4 DEF SerialInv

LEMMA SerialOpening ==
  ASSUME DeskInv, SerialInv, NEW h \in Handlers,
         \/ \E u \in Users : CreateRequest(h, u)
         \/ PrepareAndSend(h) \/ SentToChat(h) \/ ChatFails(h)
  PROVE  SerialInv'
<1>1. CASE \E u \in Users : CreateRequest(h, u)
  <2>1. PICK u \in Users : CreateRequest(h, u)
    BY <1>1
  <2>2. PICK locals : locals = [IdleHandler EXCEPT !.at = "saveTicket", !.user = u]
    OBVIOUS
  <2>3. locals.at = "saveTicket" /\ locals.ticket = None
    BY <2>2 DEF IdleHandler
  <2>4. QED
    BY <2>1, <2>2, <2>3, MovesAlone DEF CreateRequest, Continue, history
<1>2. CASE PrepareAndSend(h)
  <2>1. PICK locals : locals = [handlers[h] EXCEPT !.at = "sending",
                                                   !.text = handlers[h].ticket]
    OBVIOUS
  <2>2. locals.at = "sending" /\ locals.ticket = handlers[h].ticket
    BY <2>1 DEF DeskInv, TypeOK, Handler
  <2>3. QED
    BY <1>2, <2>1, <2>2, MovesAlone DEF PrepareAndSend, Continue, history
<1>3. CASE SentToChat(h) \/ ChatFails(h)
  <2>1. PICK locals : locals = IdleHandler
    OBVIOUS
  <2>2. locals.at = "idle" /\ locals.ticket = None
    BY <2>1 DEF IdleHandler
  <2>3. QED
    BY <1>3, <2>1, <2>2, MovesAlone
       DEF SentToChat, ChatFails, Enqueue, End, Continue, history
<1>4. QED
  BY <1>1, <1>2, <1>3

LEMMA SerialSaving ==
  ASSUME DeskInv, SerialInv, NEW h \in Handlers, NEW t \in Tickets, SaveTicket(h, t)
  PROVE  SerialInv'
<1>1. /\ raced' = raced /\ rows[t].state = "none"
      /\ rows' = [rows EXCEPT ![t] = rows'[t]]
      /\ asked' = [asked EXCEPT ![t] = rows'[t]]
  BY DEF SaveTicket, Unused, DeskInv, TypeOK
<1>2. /\ \A s \in Tickets \ {t} : rows'[s] = rows[s] /\ asked'[s] = asked[s]
      /\ asked'[t] = rows'[t]
  BY <1>1 DEF DeskInv, TypeOK
<1>3. /\ handlers'[h].at = "prepare" /\ handlers'[h].ticket = t
      /\ \A g \in Handlers \ {h} : handlers'[g] = handlers[g]
  BY DEF SaveTicket, Continue, DeskInv, TypeOK, Handler
<1>4. \A g \in Handlers : handlers[g].ticket # t
  BY <1>1, UnopenedIsFree
<1>5. handlers[h].ticket = None
  BY DEF SaveTicket, At, SerialInv
<1>6. AsAskedWhenSerial'
  BY <1>1, <1>2 DEF SerialInv, AsAskedWhenSerial, Stored
<1>7. AloneInHand'
  BY <1>1, <1>3, <1>4, <1>5 DEF SerialInv, AloneInHand
<1>8. ASSUME NEW g \in Handlers
      PROVE  /\ handlers'[g].at \in {"idle", "saveTicket"} => handlers'[g].ticket = None
             /\ CopyFits(g)'
  BY <1>1, <1>2, <1>3, <1>4 DEF SerialInv, CopyFits, Saving, Stored, Differing
<1>9. QED
  BY <1>6, <1>7, <1>8 DEF SerialInv

LEMMA SerialAsking ==
  ASSUME DeskInv, SerialInv, NEW h \in Handlers, NEW t \in Tickets,
         NEW change \in Changes, ChangeRequest(h, t, change)
  PROVE  SerialInv'
<1>1. UNCHANGED <<rows, asked>> /\ raced \subseteq raced'
  BY DEF ChangeRequest
<1>2. t \notin raced' => \A g \in Handlers : handlers[g].ticket # t
  BY DEF ChangeRequest, InHand
<1>3. /\ handlers'[h].at = "findTicket" /\ handlers'[h].ticket = t
      /\ \A g \in Handlers \ {h} : handlers'[g] = handlers[g]
  BY DEF ChangeRequest, Continue, DeskInv, TypeOK, IdleHandler
<1>4. AsAskedWhenSerial'
  BY <1>1 DEF SerialInv, AsAskedWhenSerial, Stored
<1>5. AloneInHand'
  BY <1>1, <1>2, <1>3 DEF SerialInv, AloneInHand
<1>6. ASSUME NEW g \in Handlers
      PROVE  /\ handlers'[g].at \in {"idle", "saveTicket"} => handlers'[g].ticket = None
             /\ CopyFits(g)'
  BY <1>1, <1>3 DEF SerialInv, CopyFits, Saving, Stored, Differing
<1>7. QED
  BY <1>4, <1>5, <1>6 DEF SerialInv

(* The steps of a change before it writes: the copy is made from the row as  *)
(* it is, and compared with it while no other request could touch it.        *)
LEMMA SerialReading ==
  ASSUME DeskInv, SerialInv, NEW h \in Handlers, FindTicket(h) \/ LoadTicket(h)
  PROVE  SerialInv'
<1>1. UNCHANGED <<rows, asked, raced>>
  BY DEF FindTicket, LoadTicket, history
<1>2. PICK t \in Tickets : t = handlers[h].ticket
  BY DEF FindTicket, LoadTicket, At, DeskInv, HandlerInv, Changing
<1>3. /\ handlers[h].change \in Changes /\ handlers[h] \in Handler
      /\ rows[t] \in Row /\ clock + 1 \in Nat
  BY DEF FindTicket, LoadTicket, At, DeskInv, HandlerInv, Changing, TypeOK
<1>4. CASE FindTicket(h) /\ ~Stored(t)
  <2>1. PICK locals : locals = IdleHandler
    OBVIOUS
  <2>2. locals.at = "idle" /\ locals.ticket = None
    BY <2>1 DEF IdleHandler
  <2>3. QED
    BY <1>1, <1>2, <1>4, <2>1, <2>2, MovesAlone DEF FindTicket, End, Continue
<1>5. CASE (FindTicket(h) /\ Stored(t)) \/ LoadTicket(h)
  <2>1. \A g \in Handlers \ {h} : handlers'[g] = handlers[g]
    BY <1>2, <1>5 DEF FindTicket, LoadTicket, Continue, DeskInv, TypeOK
  <2>2. /\ handlers'[h].ticket = t
        /\ handlers'[h].at \in {"loadTicket", "writeTicket"}
        /\ t \notin raced =>
              /\ Stored(t)
              /\ handlers'[h].copy =
                     Changed(rows[t], handlers'[h].change, handlers'[h].copy.updated)
              /\ handlers'[h].at = "writeTicket" =>
                     handlers'[h].columns = Differing(t, handlers'[h].copy)
    <3>1. CASE FindTicket(h) /\ Stored(t)
      <4>1. PICK copy : copy = Changed(rows[t], handlers[h].change, clock + 1)
        OBVIOUS
      <4>2. copy.updated = clock + 1
        BY <1>3, <4>1, ChangedColumns
      <4>3. handlers'[h] = [handlers[h] EXCEPT !.at = "loadTicket", !.copy = copy]
        BY <1>2, <3>1, <4>1 DEF FindTicket, Continue, DeskInv, TypeOK
      <4>4. /\ handlers'[h].at = "loadTicket" /\ handlers'[h].copy = copy
            /\ handlers'[h].ticket = t /\ handlers'[h].change = handlers[h].change
        BY <1>2, <1>3, <4>3 DEF Handler
      <4>5. QED
        BY <3>1, <4>1, <4>2, <4>4
    <3>2. CASE LoadTicket(h)
      <4>1. PICK columns :
               /\ handlers'[h] = [handlers[h] EXCEPT !.at = "writeTicket",
                                                     !.columns = columns]
               /\ Stored(t) => columns = Differing(t, handlers[h].copy)
        BY <1>2, <3>2 DEF LoadTicket, Continue, DeskInv, TypeOK, Differing
      <4>2. /\ handlers'[h].at = "writeTicket" /\ handlers'[h].columns = columns
            /\ handlers'[h].ticket = t /\ handlers'[h].change = handlers[h].change
            /\ handlers'[h].copy = handlers[h].copy
        BY <1>2, <1>3, <4>1 DEF Handler
      <4>3. t \notin raced =>
               /\ Stored(t)
               /\ handlers[h].copy =
                     Changed(rows[t], handlers[h].change, handlers[h].copy.updated)
        BY <1>2, <3>2 DEF LoadTicket, At, SerialInv, CopyFits, Saving
      <4>4. QED
        BY <4>1, <4>2, <4>3
    <3>3. QED
      BY <1>5, <3>1, <3>2
  <2>3. AsAskedWhenSerial'
    BY <1>1 DEF SerialInv, AsAskedWhenSerial, Stored
  <2>4. AloneInHand'
    BY <1>1, <1>2, <2>1, <2>2 DEF SerialInv, AloneInHand
  <2>5. CopyFits(h)'
    BY <1>1, <2>2 DEF CopyFits, Saving, Stored, Differing
  <2>6. ASSUME NEW g \in Handlers \ {h}
        PROVE  /\ handlers'[g].at \in {"idle", "saveTicket"} => handlers'[g].ticket = None
               /\ CopyFits(g)'
    BY <1>1, <2>1 DEF SerialInv, CopyFits, Saving, Stored, Differing
  <2>7. QED
    BY <2>2, <2>3, <2>4, <2>5, <2>6 DEF SerialInv
<1>6. QED
  BY <1>4, <1>5

(* The write: the row becomes the copy, that is what was asked of the ticket *)
(* before and the change, unless another request had the ticket in hand.     *)
LEMMA SerialWriting ==
  ASSUME DeskInv, SerialInv, NEW h \in Handlers, WriteTicket(h)
  PROVE  SerialInv'
<1>1. raced' = raced /\ handlers[h].at = "writeTicket"
  BY DEF WriteTicket, At
<1>2. PICK t \in Tickets : t = handlers[h].ticket
  BY <1>1 DEF DeskInv, HandlerInv, Changing
<1>3. PICK copy \in Row : copy = handlers[h].copy /\ copy.state = "stored"
  BY <1>1 DEF DeskInv, HandlerInv, TypeOK, Handler
<1>4. handlers[h].change \in Changes /\ copy.updated \in Nat /\ rows[t] \in Row
  BY <1>1, <1>2, <1>3 DEF DeskInv, HandlerInv, Changing, TypeOK, Row
<1>5. /\ rows'[t] = Written(t, copy, handlers[h].columns)
      /\ asked'[t] = Changed(asked[t], handlers[h].change, copy.updated)
      /\ \A s \in Tickets \ {t} : rows'[s] = rows[s] /\ asked'[s] = asked[s]
  BY <1>2, <1>3 DEF WriteTicket, DeskInv, TypeOK
<1>6. /\ handlers'[h].at = "idle" /\ handlers'[h].ticket = None
      /\ \A g \in Handlers \ {h} : handlers'[g] = handlers[g]
  BY DEF WriteTicket, End, Continue, DeskInv, TypeOK, IdleHandler
<1>7. t \notin raced => rows'[t] = asked'[t]
  <2> SUFFICES ASSUME t \notin raced PROVE rows'[t] = asked'[t]
    OBVIOUS
  <2>1. /\ Stored(t)
        /\ copy = Changed(rows[t], handlers[h].change, copy.updated)
        /\ handlers[h].columns = Differing(t, copy)
    BY <1>1, <1>2, <1>3 DEF SerialInv, CopyFits, Saving
  <2>2. copy.user = rows[t].user
    BY <1>4, <2>1, ChangedColumns
  <2>3. rows'[t] = copy
    BY <1>3, <1>5, <2>1, <2>2, MergesToTheCopy DEF DeskInv
  <2>4. rows[t] = asked[t]
    BY <2>1 DEF SerialInv, AsAskedWhenSerial
  <2>5. QED
    BY <1>5, <2>1, <2>3, <2>4
<1>8. AsAskedWhenSerial'
  BY <1>1, <1>5, <1>7 DEF SerialInv, AsAskedWhenSerial, Stored
<1>9. AloneInHand'
  BY <1>1, <1>6, NoneAssumption DEF SerialInv, AloneInHand
<1>10. CopyFits(h)'
  BY <1>6 DEF CopyFits, Saving
<1>11. ASSUME NEW g \in Handlers \ {h}
       PROVE  /\ handlers'[g].at \in {"idle", "saveTicket"} => handlers'[g].ticket = None
              /\ CopyFits(g)'
  <2>1. t \notin raced => handlers[g].ticket # t
    BY <1>2 DEF SerialInv, AloneInHand
  <2>2. QED
    BY <1>1, <1>5, <1>6, <2>1 DEF SerialInv, CopyFits, Saving, Stored, Differing
<1>12. QED
  BY <1>6, <1>8, <1>9, <1>10, <1>11 DEF SerialInv

LEMMA SerialDeleting ==
  ASSUME DeskInv, SerialInv, NEW t \in Tickets, DeleteTicket(t)
  PROVE  SerialInv'
<1>1. handlers' = handlers /\ raced \subseteq raced'
  BY DEF DeleteTicket
<1>2. t \notin raced' => \A g \in Handlers : handlers[g].ticket # t
  BY DEF DeleteTicket, InHand
<1>3. /\ rows'[t].state = "deleted" /\ asked'[t].state = "deleted"
      /\ \A s \in Tickets \ {t} : rows'[s] = rows[s] /\ asked'[s] = asked[s]
  BY DEF DeleteTicket, DeskInv, TypeOK, Row
<1>4. AsAskedWhenSerial'
  BY <1>1, <1>3 DEF SerialInv, AsAskedWhenSerial, Stored
<1>5. AloneInHand'
  BY <1>1 DEF SerialInv, AloneInHand
<1>6. ASSUME NEW g \in Handlers
      PROVE  /\ handlers'[g].at \in {"idle", "saveTicket"} => handlers'[g].ticket = None
             /\ CopyFits(g)'
  BY <1>1, <1>2, <1>3 DEF SerialInv, CopyFits, Saving, Stored, Differing
<1>7. QED
  BY <1>4, <1>5, <1>6 DEF SerialInv

LEMMA SerialElsewhere ==
  ASSUME DeskInv, SerialInv,
         Crash \/ UNCHANGED vars \/ \E t \in Tickets : QueueStep(t) \/ QueueFails(t)
  PROVE  SerialInv'
<1>1. UNCHANGED <<rows, asked, raced>>
  BY DEF Crash, QueueStep, QueueFails, vars, history
<1>2. handlers' = handlers \/ handlers' = [h \in Handlers |-> IdleHandler]
  BY DEF Crash, QueueStep, QueueFails, vars
<1>3. IdleHandler.at = "idle" /\ IdleHandler.ticket = None
  BY DEF IdleHandler
<1>4. AsAskedWhenSerial'
  BY <1>1 DEF SerialInv, AsAskedWhenSerial, Stored
<1>5. AloneInHand'
  BY <1>1, <1>2, <1>3, NoneAssumption DEF SerialInv, AloneInHand
<1>6. ASSUME NEW g \in Handlers
      PROVE  /\ handlers'[g].at \in {"idle", "saveTicket"} => handlers'[g].ticket = None
             /\ CopyFits(g)'
  <2>1. handlers'[g] = handlers[g] \/ handlers'[g] = IdleHandler
    BY <1>2
  <2>2. QED
    BY <1>1, <1>3, <2>1 DEF SerialInv, CopyFits, Saving, Stored, Differing
<1>7. QED
  BY <1>4, <1>5, <1>6 DEF SerialInv

(* Every ticket is as the requests about it left it, whatever goes on around *)
(* it: the requests that update and delete a ticket do what they were asked, *)
(* unless two of them had the same ticket in hand at once.                   *)
THEOREM TicketsAsAsked == Spec => []AsAskedWhenSerial
<1>1. DeskInv /\ SerialInv /\ [Next]_vars => SerialInv'
  <2> SUFFICES ASSUME DeskInv, SerialInv, [Next]_vars
               PROVE  SerialInv'
    OBVIOUS
  <2>1. ASSUME NEW h \in Handlers, Step(h)
        PROVE  SerialInv'
    BY <2>1, SerialSaving, SerialOpening, SerialReading, SerialWriting DEF Step
  <2>2. QED
    BY <2>1, SerialOpening, SerialAsking, SerialDeleting, SerialElsewhere DEF Next
<1>2. SerialInv => AsAskedWhenSerial
  BY DEF SerialInv
<1>3. QED
  BY DeskInit, DeskNext, SerialInit, <1>1, <1>2, PTL DEF Spec

----------------------------------------------------------------------------
(* Listings.  The n-th ticket of a listing, for pages of k tickets, is on    *)
(* page (n - 1) \div k + 1.                                                  *)

LEMMA Division ==
  ASSUME NEW a \in Nat, NEW k \in Nat, k >= 1
  PROVE  /\ a \div k \in Nat
         /\ k * (a \div k) <= a
         /\ a < k * (a \div k) + k
OBVIOUS

LEMMA QuotientBounds ==
  ASSUME NEW k \in Nat, k >= 1, NEW a \in Nat, NEW q \in Nat,
         NEW r \in Nat, k * q <= a, a < k * r + k
  PROVE  q <= r
<1>1. SUFFICES ASSUME q >= r + 1
               PROVE  FALSE
  OBVIOUS
<1>2. PICK d \in Nat : q = r + 1 + d
  <2>1. q - (r + 1) \in Nat
    BY <1>1
  <2>2. q = r + 1 + (q - (r + 1))
    OBVIOUS
  <2>3. QED
    BY <2>1, <2>2
<1>3. k * q = k * r + k + k * d
  BY <1>2
<1>4. k * d >= 0
  OBVIOUS
<1>5. k * q \in Int /\ k * r \in Int /\ k * d \in Int
  OBVIOUS
<1>6. QED
  BY <1>3, <1>4, <1>5

LEMMA OnePage ==
  ASSUME NEW k \in Nat, k >= 1, NEW c \in Nat, NEW n \in 1..c
  PROVE  \E q \in 1..(c + k - 1) \div k :
            \A p \in 1..(c + k - 1) \div k :
               n \in (p - 1) * k + 1..p * k <=> p = q
<1> DEFINE last == (c + k - 1) \div k
           q    == (n - 1) \div k
<1>1. n - 1 \in Nat /\ c + k - 1 \in Nat
  OBVIOUS
<1>2. q \in Nat /\ k * q <= n - 1 /\ n - 1 < k * q + k
  BY <1>1, Division
<1>3. last \in Nat /\ c + k - 1 < k * last + k
  BY <1>1, Division
<1> HIDE DEF last, q
<1>4. q + 1 \in 1..last
  <2>1. k * (q + 1) = k * q + k /\ k * q \in Int
    BY <1>2
  <2>2. k * (q + 1) <= c + k - 1
    BY <1>2, <2>1
  <2>3. QED
    BY <1>1, <1>2, <1>3, <2>2, QuotientBounds
<1>5. ASSUME NEW p \in 1..last
      PROVE  n \in (p - 1) * k + 1..p * k <=> p = q + 1
  <2>1. p - 1 \in Nat /\ last \in Nat /\ p \in Nat
    BY <1>3
  <2>2. (p - 1) * k = k * (p - 1) /\ p * k = k * (p - 1) + k /\ k * (p - 1) \in Int
    BY <2>1
  <2>3. n \in (p - 1) * k + 1..p * k <=>
           k * (p - 1) <= n - 1 /\ n - 1 < k * (p - 1) + k
    BY <2>2
  <2>4. CASE p = q + 1
    <3>1. p - 1 = q
      BY <2>4, <1>2
    <3>2. QED
      BY <2>3, <2>4, <3>1, <1>2
  <2>5. CASE k * (p - 1) <= n - 1 /\ n - 1 < k * (p - 1) + k
    <3>1. p - 1 <= q
      BY <1>1, <1>2, <2>1, <2>5, QuotientBounds
    <3>2. q <= p - 1
      BY <1>1, <1>2, <2>1, <2>5, QuotientBounds
    <3>3. p = q + 1
      BY <1>2, <2>1, <3>1, <3>2
    <3>4. QED
      BY <2>3, <2>5, <3>3
  <2>6. QED
    BY <2>3, <2>4, <2>5
<1>6. QED
  BY <1>4, <1>5 DEF last

\* The place of a ticket in a listing is one of 1 up to the length of the listing.
LEMMA PlaceInListing ==
  ASSUME NEW S, S \subseteq Tickets, NEW t \in S, TypeOK
  PROVE  Cardinality(S) \in Nat /\ Position(t, S) \in 1..Cardinality(S)
<1> DEFINE before == {s \in S : rows[s].updated >= rows[t].updated}
<1>1. IsFiniteSet(S) /\ Cardinality(S) \in Nat
  BY TicketsAssumption, FS_Subset, FS_CardinalityType
<1>2. before \subseteq S
  OBVIOUS
<1>3. IsFiniteSet(before) /\ Cardinality(before) <= Cardinality(S)
  BY <1>1, <1>2, FS_Subset
<1>4. Cardinality(before) \in Nat
  BY <1>3, FS_CardinalityType
<1>5. t \in before
  BY DEF TypeOK, Row
<1>6. Cardinality(before) # 0
  BY <1>3, <1>5, FS_EmptySet
<1>7. QED
  BY <1>1, <1>3, <1>4, <1>6 DEF Position

(* A listing of tickets, filtered in any way, shows each of its tickets on   *)
(* exactly one of its pages, whatever the length of a page: the number of    *)
(* pages that a request is told leaves no ticket out, and no ticket is shown *)
(* again on the next page.                                                   *)
THEOREM EachOnOnePage == Spec => []PagesPartition
<1>1. TypeOK => PagesPartition
  <2> SUFFICES ASSUME TypeOK,
                      NEW user \in Users \cup {Any},
                      NEW status \in {"open", "close", Any},
                      NEW perPage \in 1..Cardinality(Tickets),
                      NEW t \in Matching(user, status)
               PROVE  LET S == Matching(user, status)
                          pages == 1..PageCount(S, perPage)
                      IN  Cardinality({p \in pages : t \in Page(S, p, perPage)}) = 1
    BY DEF PagesPartition
  <2> DEFINE S == Matching(user, status)
             pages == 1..PageCount(S, perPage)
             shown == {p \in pages : t \in Page(S, p, perPage)}
  <2>1. S \subseteq Tickets
    BY DEF Matching
  <2>2. Cardinality(S) \in Nat /\ Position(t, S) \in 1..Cardinality(S)
    BY <2>1, PlaceInListing
  <2>3. Cardinality(Tickets) \in Nat
    BY TicketsAssumption, FS_CardinalityType
  <2>4. perPage \in Nat /\ perPage >= 1
    BY <2>3
  <2>5. \E q \in pages : \A p \in pages :
           Position(t, S) \in (p - 1) * perPage + 1..p * perPage <=> p = q
    BY <2>2, <2>4, OnePage DEF PageCount
  <2>6. \E q \in pages : shown = {q}
    BY <2>5 DEF Page
  <2>7. QED
    BY <2>6, FS_Singleton
<1>2. QED
  BY SupportTypes, <1>1, PTL
=============================================================================
