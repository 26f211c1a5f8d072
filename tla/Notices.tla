------------------------------ MODULE Notices ------------------------------
(***************************************************************************)
(* E-mails and the tasks that send them unasked: the reminders of a         *)
(* domain's expiry (domain-expiry-reminder.scheduler.ts), the alerts about  *)
(* a failing task (automation-alert.service.ts), the digest of a period     *)
(* (automation-digest.service.ts), and what the staff or a handler sends    *)
(* (email.service.ts and its callers).                                      *)
(*                                                                          *)
(* A task sends first and records afterwards that it did; it may fail or    *)
(* die between. Its lock lets it run once at a time, unless a run outlives   *)
(* the lease (automation-task-lock.service.ts:9), which is left out here, and *)
(* no two tasks share a record: one run is under way at a time.             *)
(* Left out: what the mails say, and whom of its receivers one reaches.     *)
(***************************************************************************)
EXTENDS Integers, FiniteSets

CONSTANTS
    Registered,     \* DomainServiceDetails documents
    ReminderDays,   \* days before its expiry a client is reminded of a domain
    Threshold,      \* failures in a row before an alert
    Repeat,         \* failures in a row before another
    Term,           \* days by which a renewal moves the expiry
    LastDay,        \* bound: days
    MaxFailures     \* bound: failures in a row

NoticeDays == ReminderDays \subseteq Nat \ {0} /\ LastDay \in Nat /\ Term \in Nat \ {0}
NoticeCounts == Threshold \in Nat \ {0} /\ Repeat \in Nat \ {0} /\ MaxFailures \in Nat

VARIABLES
    transport,  \* whether SMTP is configured
    mailLog,    \* statuses of the EmailLog documents there are
    portal,     \* categories of the notifications there are
    today,
    expires,    \* day each domain expires
    notified,   \* DomainReminderLog and AutomationDigestLog documents
    alert,      \* AutomationAlertState document of a task
    recipients, \* whether an active user has the permission of the alerts
    task,       \* the run under way
    told        \* sent: notices sent; again: those sent a second time; lapsed: those a run sent and
                \* did not record; heard: failures in a row the last alert told of; deaf: an alert
                \* since had no recipient

noticeVars == <<transport, mailLog, portal, today, expires, notified, alert, recipients, task, told>>

Expired == 0    \* stands for DOMAIN_EXPIRED among the kinds of reminders
ExpiryKinds == ReminderDays \cup {Expired}
NoticeSet == (Registered \X ExpiryKinds) \cup ({"digest"} \X (0..LastDay))
NoNotice == <<"none", 0>>
NoTask == [at |-> "idle", day |-> 0, left |-> {}, todo |-> {}, now |-> NoNotice]
NoAlert == [fails |-> 0, alerted |-> 0, open |-> FALSE]

NoticeTypeOK ==
    /\ transport \in {"set", "unset"} /\ mailLog \subseteq {"sent", "failed"} /\ portal \subseteq {"service", "billing", "automation"}
    /\ recipients \in BOOLEAN
    /\ today \in 0..LastDay /\ expires \in [Registered -> 0..LastDay + Term]
    /\ notified \subseteq NoticeSet
    /\ alert \in [fails : 0..MaxFailures, alerted : 0..MaxFailures, open : BOOLEAN]
    /\ task.at \in {"idle", "window", "domain", "portal", "log", "alert", "save", "recovery", "digest", "digestlog"}
    /\ told.sent \cup told.again \cup told.lapsed \subseteq NoticeSet /\ told.heard \in 0..MaxFailures

NoticeInit ==
    /\ transport \in {"set", "unset"} /\ mailLog = {} /\ portal = {} /\ recipients \in BOOLEAN
    /\ today = 0 /\ expires \in [Registered -> 1..LastDay]
    /\ notified = {} /\ alert = NoAlert /\ task = NoTask
    /\ told = [sent |-> {}, again |-> {}, lapsed |-> {}, heard |-> 0, deaf |-> FALSE]

-----------------------------------------------------------------------------
(* One e-mail *)

Delivered == IF transport = "set" THEN {"sent"} ELSE {}

\* sendEmail. Without a configured transport the mail counts as failed.
Raw == {"failed"} \cup Delivered

\* sendTemplatedEmail. Of properties that do not validate nothing is logged.
Templated == {"invalid"} \cup Raw

\* sendEmailByTemplate, by a name of old that is mapped to a template, and by no
\* other. Without a transport a stub stands for it and sends nothing.
ByOldName == {"unknown"} \cup (IF transport = "set" THEN Templated ELSE {})

\* The row of the log is an effort only.
MailAnswered(r) == mailLog' \in {mailLog} \cup (IF r \in {"invalid", "unknown"} THEN {} ELSE {mailLog \cup {r}})

Mail(R) == \E r \in R : MailAnswered(r)

Sent(n) == [told EXCEPT !.sent = @ \cup {n}, !.again = IF n \in told.sent THEN @ \cup {n} ELSE @]

-----------------------------------------------------------------------------
(* What the staff or a handler sends, to a client that has an address *)

AccountMail == Mail(Templated) /\ UNCHANGED portal
HostingMail == Mail(Templated) /\ UNCHANGED portal

\* A document that cannot be made is left away.
InvoiceMail == Mail(Templated) /\ UNCHANGED portal

\* The staff writes to a client, or sends it a template of a service of its own.
ClientMail == (Mail(Raw) \/ Mail(Templated)) /\ UNCHANGED portal

\* To many at once, only over a transport that answers first.
BulkMail == transport = "set" /\ Mail(Raw) /\ UNCHANGED portal

\* What was done to a service, told by mail if there is an address and then,
\* whatever became of it, in the portal; neither fails the action.
Tell(R) == (Mail(R) \/ UNCHANGED mailLog) /\ portal' \in {portal, portal \cup {"service"}}
ServiceTemplate == Tell(Templated)
ServiceGeneric == Tell(Raw)
ActionNotice == ServiceTemplate \/ ServiceGeneric

-----------------------------------------------------------------------------
(* DomainExpiryReminderScheduler.processDomainExpiryReminders *)

StartReminders ==
    /\ task = NoTask
    /\ task' = [NoTask EXCEPT !.at = "window", !.day = today, !.left = ExpiryKinds]
    /\ UNCHANGED <<transport, mailLog, portal, today, expires, notified, alert, recipients, told>>

\* The domains that expire on that very day; those that have expired come last.
Window(k) ==
    {d \in Registered : IF k = Expired THEN expires[d] < task.day ELSE expires[d] = task.day + k}

FindWindow ==
    /\ task.at = "window"
    /\ \E k \in task.left :
          /\ k = Expired => task.left = {Expired}
          /\ task' = [task EXCEPT !.at = "domain", !.left = @ \ {k}, !.todo = Window(k) \X {k}]
    /\ UNCHANGED <<transport, mailLog, portal, today, expires, notified, alert, recipients, told>>

EndWindow ==
    /\ task.at = "domain" /\ task.todo = {}
    /\ task' = IF task.left = {} THEN NoTask ELSE [task EXCEPT !.at = "window"]
    /\ UNCHANGED <<transport, mailLog, portal, today, expires, notified, alert, recipients, told>>

\* Mistake: the notice that a domain expired is not looked up.
NeedlessReminder(n) == n \in notified /\ n[2] # Expired

Needless(n) == n \in notified

\* A domain without a client or an address is passed over.
SkipDomain(n) ==
    /\ task.at = "domain" /\ n \in task.todo
    /\ task' = [task EXCEPT !.todo = @ \ {n}]
    /\ UNCHANGED <<transport, mailLog, portal, today, expires, notified, alert, recipients, told>>

SendExpiryReminder(n) ==
    /\ task.at = "domain" /\ n \in task.todo /\ ~Needless(n)
    /\ \E r \in ByOldName :
          /\ MailAnswered(r)
          /\ IF r = "sent"
             THEN /\ task' = [task EXCEPT !.todo = @ \ {n}, !.now = n, !.at = IF n[2] = Expired THEN "log" ELSE "portal"]
                  /\ told' = Sent(n)
             ELSE task' = [task EXCEPT !.todo = @ \ {n}] /\ UNCHANGED told
    /\ UNCHANGED <<transport, portal, today, expires, notified, alert, recipients>>

NotifyPortal ==
    /\ task.at = "portal"
    /\ task' = [task EXCEPT !.at = "log"]
    /\ portal' \in {portal, portal \cup {"billing"}}
    /\ UNCHANGED <<transport, mailLog, today, expires, notified, alert, recipients, told>>

LogExpiryReminder ==
    /\ task.at = "log"
    /\ notified' = notified \cup {task.now}
    /\ task' = [task EXCEPT !.at = "domain", !.now = NoNotice]
    /\ UNCHANGED <<transport, mailLog, portal, today, expires, alert, recipients, told>>

\* The notification or the log is refused; the run goes on with the next domain.
ReminderFails ==
    /\ task.at \in {"portal", "log"}
    /\ task' = [task EXCEPT !.at = "domain", !.now = NoNotice]
    /\ told' = [told EXCEPT !.lapsed = @ \cup {task.now}]
    /\ UNCHANGED <<transport, mailLog, portal, today, expires, notified, alert, recipients>>

-----------------------------------------------------------------------------
(* AutomationAlertService, of a task whose run has ended *)

AlertDue(fails) == fails >= Threshold /\ (alert.alerted = 0 \/ fails - alert.alerted >= Repeat)

RecordFailure ==
    /\ task = NoTask /\ alert.fails < MaxFailures
    /\ task' = [NoTask EXCEPT !.at = IF AlertDue(alert.fails + 1) THEN "alert" ELSE "save"]
    /\ UNCHANGED <<transport, mailLog, portal, today, expires, notified, alert, recipients, told>>

\* adminAlertService.notify: whoever has the permission is told in the portal and
\* by mail, both an effort only.
NotifyAdmins == Mail(Raw) /\ portal' \in {portal, portal \cup {"automation"}}

SendFailureAlert ==
    /\ task.at = "alert"
    /\ IF recipients
       THEN /\ NotifyAdmins
            /\ told' = [told EXCEPT !.heard = alert.fails + 1, !.deaf = FALSE]
            /\ task' = [task EXCEPT !.at = "save", !.now = <<"alerted", 0>>]
       ELSE /\ told' = [told EXCEPT !.deaf = TRUE]
            /\ task' = [task EXCEPT !.at = "save"] /\ UNCHANGED <<mailLog, portal>>
    /\ UNCHANGED <<transport, today, expires, notified, alert, recipients>>

SaveFailure ==
    /\ task.at = "save"
    /\ alert' = [fails |-> alert.fails + 1,
                 alerted |-> IF task.now # NoNotice THEN alert.fails + 1 ELSE alert.alerted,
                 open |-> alert.open \/ task.now # NoNotice]
    /\ task' = NoTask
    /\ UNCHANGED <<transport, mailLog, portal, today, expires, notified, recipients, told>>

\* Mistake: a success leaves the count at which the last alert was sent.
RecoveredLeaves(doc) == [doc EXCEPT !.fails = 0, !.open = FALSE]

Recovered(doc) == [doc EXCEPT !.fails = 0, !.alerted = 0, !.open = FALSE]

\* A run that succeeds, by the clock or by hand, closes the alert.
RecordSuccess ==
    /\ task = NoTask
    /\ alert' = Recovered(alert)
    /\ task' = IF alert.open THEN [NoTask EXCEPT !.at = "recovery"] ELSE NoTask
    /\ told' = [told EXCEPT !.heard = 0, !.deaf = FALSE]
    /\ UNCHANGED <<transport, mailLog, portal, today, expires, notified, recipients>>

SendRecovery ==
    /\ task.at = "recovery"
    /\ IF recipients THEN NotifyAdmins ELSE UNCHANGED <<mailLog, portal>>
    /\ task' = NoTask
    /\ UNCHANGED <<transport, today, expires, notified, alert, recipients, told>>

-----------------------------------------------------------------------------
(* AutomationDigestService.sendLatestDigest *)

\* The period that ended last; one already sent, or without activity, is skipped.
StartDigest ==
    LET n == <<"digest", today>> IN
    /\ task = NoTask /\ ~Needless(n)
    /\ task' = [NoTask EXCEPT !.at = "digest", !.now = n]
    /\ UNCHANGED <<transport, mailLog, portal, today, expires, notified, alert, recipients, told>>

SendDigest ==
    /\ task.at = "digest"
    /\ IF recipients THEN NotifyAdmins /\ told' = Sent(task.now)
                     ELSE UNCHANGED <<mailLog, portal, told>>
    /\ task' = [task EXCEPT !.at = "digestlog"]
    /\ UNCHANGED <<transport, today, expires, notified, alert, recipients>>

\* Logged as sent also where there was no recipient.
LogDigest ==
    /\ task.at = "digestlog"
    /\ notified' = notified \cup {task.now}
    /\ task' = NoTask
    /\ UNCHANGED <<transport, mailLog, portal, today, expires, alert, recipients, told>>

-----------------------------------------------------------------------------
\* The process dies, or a call no handler catches fails.
TaskDies ==
    /\ task # NoTask /\ task' = NoTask
    /\ told' = IF task.at \in {"portal", "log", "digestlog"} THEN [told EXCEPT !.lapsed = @ \cup {task.now}] ELSE told
    /\ UNCHANGED <<transport, mailLog, portal, today, expires, notified, alert, recipients>>

\* A day passes, a domain is renewed, roles and users change.
NextDay ==
    /\ today < LastDay /\ today' = today + 1
    /\ UNCHANGED <<transport, mailLog, portal, expires, notified, alert, recipients, task, told>>
DomainRenewed(d) ==
    /\ expires[d] <= LastDay /\ expires' = [expires EXCEPT ![d] = @ + Term]
    /\ UNCHANGED <<transport, mailLog, portal, today, notified, alert, recipients, task, told>>
RecipientsChange ==
    /\ recipients' = ~recipients
    /\ UNCHANGED <<transport, mailLog, portal, today, expires, notified, alert, task, told>>

MailNext ==
    /\ AccountMail \/ HostingMail \/ InvoiceMail \/ ClientMail \/ BulkMail \/ ActionNotice
    /\ UNCHANGED <<transport, today, expires, notified, alert, recipients, task, told>>
ReminderNext ==
    \/ StartReminders \/ FindWindow \/ EndWindow \/ NotifyPortal \/ LogExpiryReminder \/ ReminderFails
    \/ \E n \in Registered \X ExpiryKinds : SkipDomain(n) \/ SendExpiryReminder(n)
AlertNext == RecordFailure \/ SendFailureAlert \/ SaveFailure \/ RecordSuccess \/ SendRecovery
DigestNext == StartDigest \/ SendDigest \/ LogDigest

NoticeNext ==
    \/ MailNext \/ ReminderNext \/ AlertNext \/ DigestNext \/ TaskDies
    \/ NextDay \/ RecipientsChange \/ \E d \in Registered : DomainRenewed(d)

NoticeSpec == NoticeInit /\ [][NoticeNext]_noticeVars

-----------------------------------------------------------------------------
(* Properties *)

\* A reminder of a domain, the notice that it expired and the digest of a
\* period are sent once, however often their task runs, unless a run sent one
\* and failed or died before it was recorded.
NoticeOnce == told.again \subseteq told.lapsed

\* While a task keeps failing its alert is repeated: of any Repeat failures in
\* a row from the Threshold on one was told of, unless the last alert that was
\* due had no recipient (automation-alert.service.ts, recordFailure).
AdminsHear ==
    alert.fails >= Threshold /\ ~told.deaf => told.heard >= Threshold /\ told.heard > alert.fails - Repeat

-----------------------------------------------------------------------------
(* Why: what was sent is recorded, lapsed, or about to be recorded by the    *)
(* run, which looked before it sent; and no alert that is due is left out.   *)

TaskDoc == [at : {"idle", "window", "domain", "portal", "log", "alert", "save", "recovery", "digest", "digestlog"},
            day : 0..LastDay, left : SUBSET ExpiryKinds, todo : SUBSET (Registered \X ExpiryKinds),
            now : NoticeSet \cup {NoNotice, <<"alerted", 0>>}]
ToldDoc == [sent : SUBSET NoticeSet, again : SUBSET NoticeSet, lapsed : SUBSET NoticeSet, heard : 0..MaxFailures,
            deaf : BOOLEAN]

Recording == task.at \in {"portal", "log", "digestlog"}

RecordsOK ==
    /\ Recording \/ task.at = "digest" => task.now \in NoticeSet
    /\ task.at = "digest" => ~Needless(task.now)
    /\ told.sent \subseteq notified \cup told.lapsed \cup {n \in {task.now} : Recording}

AlertsOK ==
    /\ task.at \in {"alert", "save"} => alert.fails < MaxFailures
    /\ task.at = "alert" => AlertDue(alert.fails + 1) /\ task.now = NoNotice
    /\ task.at = "save" => \/ task.now # NoNotice /\ told.heard = alert.fails + 1 /\ told.heard >= Threshold
                           \/ task.now = NoNotice /\ (told.deaf \/ ~AlertDue(alert.fails + 1))
    /\ alert.alerted # 0 => alert.alerted >= Threshold /\ alert.alerted <= told.heard

NoticeInv == NoticeTypeOK /\ task \in TaskDoc /\ told \in ToldDoc /\ RecordsOK /\ AlertsOK /\ NoticeOnce /\ AdminsHear
=============================================================================
