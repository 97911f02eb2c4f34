------------------------------ MODULE DomainEvents ------------------------------
(***************************************************************************)
(* The job of one domain event: it runs the webhook fan-out and the e-mail *)
(* handler side by side (Promise.all), and is tried again as soon as one   *)
(* of them throws, while the other goes on.  Workers, the database, Redis  *)
(* and the mail server fail.                                               *)
(***************************************************************************)
EXTENDS Integers, Sequences

CONSTANTS
  Occurrences,   \* events: type, user, organization, counterparty, active users
  AdminsOf,      \* the owners and admins of an organization, in listMembers' order
  EventTries,    \* attempts of a domain-event job
  MaxEventFaults \* bound on failures and crashes

ASSUME DomainEventsAssumption ==
  /\ EventTries \in Nat \ {0} /\ MaxEventFaults \in Nat
  /\ \A o \in DOMAIN AdminsOf : AdminsOf[o] \in Seq(STRING)
  /\ \A e \in Occurrences : e.organization \in DOMAIN AdminsOf \cup {"nobody"}

VARIABLES
  occurred,   \* the event
  eventJob,   \* the job of the domain event
  fan, mail,  \* where each attempt's handlers are
  enabled,    \* whether the organization's endpoint is enabled
  inserted,   \* whether the row of webhook_deliveries exists
  queued,     \* whether the delivery's job was added to its queue
  email,      \* rows of email_notifications, and how often each mail went out
  eventFaults

eventVars == <<occurred, eventJob, fan, mail, enabled, inserted, queued, email, eventFaults>>

Attempts == 1..EventTries
Nobody == "nobody"

-----------------------------------------------------------------------------
(* notification-rules.ts *)

To(template, user) == IF user = Nobody THEN <<>> ELSE <<<<template, user>>>>

\* The user, or else the owners and admins of the organization.
ToOwner(template, e) ==
  IF e.user # Nobody \/ e.organization = Nobody THEN To(template, e.user)
  ELSE [i \in DOMAIN AdminsOf[e.organization] |-> <<template, AdminsOf[e.organization][i]>>]

\* The e-mails of an event: money events of organizations reach them by webhook, and only
\* payout problems and new destinations by e-mail too.
NotificationRules(e) ==
  CASE e.type = "payment.successful" -> To("payment_received", e.user)
    [] e.type = "refund.successful" -> To("refund_sent", e.user)
    [] e.type = "payout.successful" -> To("payout_sent", e.user)
    [] e.type = "payout.failed" -> ToOwner("payout_failed", e)
    [] e.type = "payout.reversed" -> ToOwner("payout_reversed", e)
    [] e.type = "payout_destination.added" -> ToOwner("payout_destination_added", e)
    [] e.type = "transfer.completed" -> To("transfer_sent", e.user) \o To("transfer_received", e.counterparty)
    [] OTHER -> <<>>

Mails == NotificationRules(occurred)

\* Users that are not active get none.
Active(n) == Mails[n][2] \in occurred.active

\* handle goes through the e-mails one by one.
NextMail(n) == IF n < Len(Mails) THEN [at |-> "record", n |-> n + 1] ELSE [at |-> "done", n |-> n]
MailAt(a, place) == mail[a].at = place
GoesTo(a, place) == mail' = [mail EXCEPT ![a].at = place]
GoesOn(a) == mail' = [mail EXCEPT ![a] = NextMail(mail[a].n)]

EventsInit ==
  /\ occurred \in Occurrences
  /\ eventJob = [at |-> "none", tries |-> 0]
  /\ fan = [a \in Attempts |-> "off"]
  /\ mail = [a \in Attempts |-> [at |-> "off", n |-> 0]]
  /\ enabled = TRUE
  /\ inserted = FALSE
  /\ queued = FALSE
  /\ email = [n \in {m \in 1..Len(Mails) : Active(m)} |-> [row |-> "none", sent |-> 0]]
  /\ eventFaults = 0

EventFault == eventFaults < MaxEventFaults /\ eventFaults' = eventFaults + 1

-----------------------------------------------------------------------------
(* DomainEventsProcessor *)

\* The outbox relay adds the job of an event (see Outbox).
PublishEvent ==
  /\ eventJob.at = "none"
  /\ eventJob' = [eventJob EXCEPT !.at = "queued"]
  /\ UNCHANGED <<occurred, fan, mail, enabled, inserted, queued, email, eventFaults>>

\* Promise.all starts both handlers.
TakeEvent ==
  /\ eventJob.at = "queued"
  /\ LET a == eventJob.tries + 1 IN
       /\ eventJob' = [at |-> "running", tries |-> a]
       /\ fan' = [fan EXCEPT ![a] = "find"]
       /\ mail' = [mail EXCEPT ![a] = NextMail(0)]
  /\ UNCHANGED <<occurred, enabled, inserted, queued, email, eventFaults>>

\* The job ends when both have; it is tried again as soon as one has thrown.
EventJobDone ==
  /\ eventJob.at = "running"
  /\ fan[eventJob.tries] = "done" /\ MailAt(eventJob.tries, "done")
  /\ eventJob' = [eventJob EXCEPT !.at = "done"]
  /\ UNCHANGED <<occurred, enabled, fan, mail, inserted, queued, email, eventFaults>>

EventJobFails_Swallowed ==
  /\ eventJob.at = "running"
  /\ "failed" \in {fan[eventJob.tries], mail[eventJob.tries].at}
  /\ eventJob' = [eventJob EXCEPT !.at = "done"]
  /\ UNCHANGED <<occurred, enabled, fan, mail, inserted, queued, email, eventFaults>>

EventJobFails ==
  /\ eventJob.at = "running"
  /\ "failed" \in {fan[eventJob.tries], mail[eventJob.tries].at}
  /\ eventJob' = [eventJob EXCEPT !.at = IF eventJob.tries < EventTries THEN "queued" ELSE "dead"]
  /\ UNCHANGED <<occurred, enabled, fan, mail, inserted, queued, email, eventFaults>>

\* The worker stops: both handlers with it; the stalled job is taken again.
EventWorkerDies ==
  /\ eventJob.at = "running" /\ eventJob.tries < EventTries /\ EventFault
  /\ eventJob' = [eventJob EXCEPT !.at = "queued"]
  /\ fan' = [fan EXCEPT ![eventJob.tries] = "off"]
  /\ mail' = [mail EXCEPT ![eventJob.tries].at = "off"]
  /\ UNCHANGED <<occurred, enabled, inserted, queued, email>>

(* OutboundWebhooksService.fanOut *)

\* The enabled endpoints that subscribe.
FindSubscribed(a) ==
  /\ fan[a] = "find"
  /\ fan' = [fan EXCEPT ![a] = IF enabled THEN "insert" ELSE "done"]
  /\ UNCHANGED <<occurred, enabled, eventJob, mail, inserted, queued, email, eventFaults>>

\* ON CONFLICT DO NOTHING: only the attempt that inserts the row enqueues it.
InsertDelivery(a) ==
  /\ fan[a] = "insert"
  /\ IF ~inserted
     THEN /\ inserted' = TRUE
          /\ fan' = [fan EXCEPT ![a] = "enqueue"]
     ELSE /\ fan' = [fan EXCEPT ![a] = "done"]
          /\ UNCHANGED inserted
  /\ UNCHANGED <<occurred, enabled, eventJob, mail, queued, email, eventFaults>>

EnqueueDelivery(a) ==
  /\ fan[a] = "enqueue"
  /\ queued' = TRUE
  /\ fan' = [fan EXCEPT ![a] = "done"]
  /\ UNCHANGED <<occurred, enabled, eventJob, mail, inserted, email, eventFaults>>

FanOutFails(a) ==
  /\ fan[a] \in {"find", "insert", "enqueue"} /\ EventFault
  /\ fan' = [fan EXCEPT ![a] = "failed"]
  /\ UNCHANGED <<occurred, enabled, eventJob, mail, inserted, queued, email>>

(* NotificationsService *)

Row(a) == email[mail[a].n].row

PassedOver(a) ==
  /\ MailAt(a, "record") /\ ~Active(mail[a].n)
  /\ GoesOn(a)
  /\ UNCHANGED <<occurred, enabled, eventJob, fan, inserted, queued, email, eventFaults>>

RecordEmail_NoRow(a) ==
  /\ MailAt(a, "record") /\ Active(mail[a].n)
  /\ email' = [email EXCEPT ![mail[a].n].row = "pending"]
  /\ GoesTo(a, "send")
  /\ UNCHANGED <<occurred, enabled, eventJob, fan, inserted, queued, eventFaults>>

RecordEmail_AsSent(a) ==
  /\ MailAt(a, "record") /\ Active(mail[a].n)
  /\ email' = [email EXCEPT ![mail[a].n].row = "sent"]
  /\ IF Row(a) = "sent" THEN GoesOn(a) ELSE GoesTo(a, "send")
  /\ UNCHANGED <<occurred, enabled, eventJob, fan, inserted, queued, eventFaults>>

\* Inserts the row unless it is there, and reads it: one that was sent is passed over.
RecordEmail(a) ==
  /\ MailAt(a, "record") /\ Active(mail[a].n)
  /\ email' = [email EXCEPT ![mail[a].n].row = IF @ = "none" THEN "pending" ELSE @]
  /\ IF Row(a) = "sent" THEN GoesOn(a) ELSE GoesTo(a, "send")
  /\ UNCHANGED <<occurred, enabled, eventJob, fan, inserted, queued, eventFaults>>

SendEmail(a) ==
  /\ MailAt(a, "send")
  /\ email' = [email EXCEPT ![mail[a].n].sent = @ + 1]
  /\ GoesTo(a, "mark")
  /\ UNCHANGED <<occurred, enabled, eventJob, fan, inserted, queued, eventFaults>>

\* The mail server refuses: the row becomes failed, and the handler throws, so that the
\* e-mails after it wait for the next attempt.
SendEmailFails(a) ==
  /\ MailAt(a, "send") /\ EventFault
  /\ email' = [email EXCEPT ![mail[a].n].row = "failed"]
  /\ GoesTo(a, "failed")
  /\ UNCHANGED <<occurred, enabled, eventJob, fan, inserted, queued>>

MarkSent(a) ==
  /\ MailAt(a, "mark")
  /\ email' = [email EXCEPT ![mail[a].n].row = "sent"]
  /\ GoesOn(a)
  /\ UNCHANGED <<occurred, enabled, eventJob, fan, inserted, queued, eventFaults>>

MailStatementFails(a) ==
  /\ mail[a].at \in {"record", "mark"} /\ EventFault
  /\ GoesTo(a, "failed")
  /\ UNCHANGED <<occurred, enabled, eventJob, fan, inserted, queued, email>>

-----------------------------------------------------------------------------

\* The organization disables or enables its endpoint.
Toggle ==
  /\ enabled' = ~enabled
  /\ UNCHANGED <<occurred, eventJob, fan, mail, inserted, queued, email, eventFaults>>

FanStep(a) == FindSubscribed(a) \/ InsertDelivery(a) \/ EnqueueDelivery(a)
MailStep(a) == PassedOver(a) \/ RecordEmail(a) \/ SendEmail(a) \/ MarkSent(a)

EventsNext ==
  \/ PublishEvent \/ TakeEvent \/ EventJobDone \/ EventJobFails \/ EventWorkerDies \/ Toggle
  \/ \E a \in Attempts : FanStep(a) \/ FanOutFails(a) \/ MailStep(a) \/ SendEmailFails(a) \/ MailStatementFails(a)

EventsSpec == EventsInit /\ [][EventsNext]_eventVars

\* Workers take the jobs of their queue and go on with what they have taken.
EventsFairness ==
  /\ WF_eventVars(TakeEvent \/ EventJobDone \/ EventJobFails)
  /\ \A a \in Attempts : WF_eventVars(FanStep(a)) /\ WF_eventVars(MailStep(a))

-----------------------------------------------------------------------------
(* Properties *)

\* States are well formed, and an e-mail counts as sent only if it went out.
EventsTypeOK ==
  /\ eventJob.at \in {"none", "queued", "running", "done", "dead"} /\ eventJob.tries \in 0..EventTries
  /\ \A n \in DOMAIN email :
       /\ email[n].row \in {"none", "pending", "sent", "failed"} /\ email[n].sent \in 0..EventTries
       /\ email[n].row = "sent" => email[n].sent > 0

\* Once an e-mail is recorded as sent, no attempt sets out to send it again, also not the
\* one that retries for an e-mail to somebody else.
NoneIsRepeated ==
  \A n \in DOMAIN email : email[n].row = "sent" =>
    \A a \in Attempts : mail'[a] = [at |-> "send", n |-> n] => mail[a] = mail'[a]

SentIsNotRepeated == [][NoneIsRepeated]_eventVars

\* With fewer failures than attempts, the event's job ends well, and every e-mail has gone
\* out, whichever handler failed and however its attempts overlap.
EventIsHandled ==
  MaxEventFaults < EventTries /\ eventJob.at = "queued" ~>
    (eventJob.at = "done" /\ \A n \in DOMAIN email : email[n].sent > 0)

\* E-mails go out, and those that are recorded as sent do not go out again.
EmailsGoOut == SentIsNotRepeated /\ EventIsHandled

\* Receivers get each event at least once.  (Violated: a fan-out that fails between the
\* row and its job is tried again, finds the row and enqueues nothing.)
HandledIsQueued == eventJob.at = "done" /\ inserted => queued
=================================================================================
