------------------------------- MODULE Mailer -------------------------------
(***************************************************************************)
(* The Celery worker that sends the e-mails.  The web process queues a     *)
(* task that renders a template and queues a second one, which talks to    *)
(* the SMTP server and is queued again, at most MaxRetries times, when     *)
(* that fails.                                                             *)
(*                                                                         *)
(* Messages are acknowledged late: when the task has ended, whichever way. *)
(* A child process that is killed has ended too, but when the worker as a  *)
(* whole dies the broker delivers again what it had not acknowledged.      *)
(* Nothing in the deployment starts a dead worker again: Restart may never *)
(* come.  The broker itself loses nothing here.                            *)
(***************************************************************************)
EXTENDS Naturals

CONSTANTS
  Mails,       \* the e-mails that may be asked for
  Children,    \* the processes of the worker, its concurrency
  MaxRetries,  \* send_email_task's max_retries
  MaxDeaths,   \* how often the worker dies: a bound
  None

ASSUME MaxRetriesAssumption == MaxRetries \in Nat
ASSUME MaxDeathsAssumption == MaxDeaths \in Nat

\* A task as it is queued: send_..._email(...), or send_email_task with its retries.
Message ==
  [mail : Mails, task : {"render"}, retries : {0}]
    \cup [mail : Mails, task : {"send"}, retries : 0 .. MaxRetries]

ASSUME NoneAssumption == None \notin Message

VARIABLES
  asked,        \* the e-mails some request has asked for
  queue,        \* [Message -> Nat], how often each message is in the broker
  child,        \* [Children -> [step, message]], the message each process holds
  up,           \* whether the worker runs
  sent,         \* [Mails -> Nat], how often the SMTP server took the e-mail
  lost,         \* history: the e-mails a task of which has failed for good
  tries,        \* history: [Mails -> Nat], the attempts at sending
  redelivered,  \* history: [Mails -> Nat], the messages delivered again
  doubted,      \* history: [Mails -> Nat], failures after the server had taken it
  deaths        \* how often the worker has died

vars == <<asked, queue, child, up, sent, lost, tries, redelivered, doubted, deaths>>

Render(m) == [mail |-> m, task |-> "render", retries |-> 0]
SendTask(m, n) == [mail |-> m, task |-> "send", retries |-> n]

Idle == [step |-> "idle", message |-> None]

TypeOK ==
  /\ asked \subseteq Mails
  /\ queue \in [Message -> Nat]
  /\ child \in [Children -> [step : {"idle", "run", "done"}, message : Message \cup {None}]]
  /\ \A c \in Children : child[c].message = None <=> child[c].step = "idle"
  /\ up \in BOOLEAN
  /\ sent \in [Mails -> Nat]
  /\ lost \subseteq Mails
  /\ tries \in [Mails -> Nat]
  /\ redelivered \in [Mails -> Nat]
  /\ doubted \in [Mails -> Nat]
  /\ deaths \in 0 .. MaxDeaths

Init ==
  /\ asked = {}
  /\ queue = [msg \in Message |-> 0]
  /\ child = [c \in Children |-> Idle]
  /\ up = TRUE
  /\ sent = [m \in Mails |-> 0]
  /\ lost = {}
  /\ tries = [m \in Mails |-> 0]
  /\ redelivered = [m \in Mails |-> 0]
  /\ doubted = [m \in Mails |-> 0]
  /\ deaths = 0

Queued(msg) == [queue EXCEPT ![msg] = @ + 1]

\* send_..._email.delay(...), in a web process.
Ask(m) ==
  /\ m \notin asked
  /\ asked' = asked \cup {m}
  /\ queue' = Queued(Render(m))
  /\ UNCHANGED <<child, up, sent, lost, tries, redelivered, doubted, deaths>>

\* A process reserves one message (prefetch 1) and keeps it until its task has ended.
Take(c, msg) ==
  /\ up
  /\ child[c] = Idle
  /\ queue[msg] > 0
  /\ queue' = [queue EXCEPT ![msg] = @ - 1]
  /\ child' = [child EXCEPT ![c] = [step |-> "run", message |-> msg]]
  /\ UNCHANGED <<asked, up, sent, lost, tries, redelivered, doubted, deaths>>

Runs(c, task) == up /\ child[c].step = "run" /\ child[c].message.task = task

End(c) == child' = [child EXCEPT ![c].step = "done"]

\* A mutant of RenderAndQueue: nothing is queued.
RenderOnly(c) ==
  /\ Runs(c, "render")
  /\ End(c)
  /\ UNCHANGED <<asked, queue, up, sent, lost, tries, redelivered, doubted, deaths>>

\* _render, and send_email_task.delay.
RenderAndQueue(c) ==
  /\ Runs(c, "render")
  /\ queue' = Queued(SendTask(child[c].message.mail, 0))
  /\ End(c)
  /\ UNCHANGED <<asked, up, sent, lost, tries, redelivered, doubted, deaths>>

\* send_mail, which the server may have accepted although it raises.
Attempt(m, accepted) ==
  /\ tries' = [tries EXCEPT ![m] = @ + 1]
  /\ sent' = IF accepted THEN [sent EXCEPT ![m] = @ + 1] ELSE sent

Send(c) ==
  /\ Runs(c, "send")
  /\ Attempt(child[c].message.mail, TRUE)
  /\ End(c)
  /\ UNCHANGED <<asked, queue, up, lost, redelivered, doubted, deaths>>

RetriesLeft(msg) == msg.retries < MaxRetries

\* A mutant of NextTry: the count is not handed on.
SameTry(msg) == SendTask(msg.mail, 0)

NextTry(msg) == SendTask(msg.mail, msg.retries + 1)

\* self.retry, on any exception: the SMTP server's, or SoftTimeLimitExceeded after
\* 25 minutes.
Retry(c, accepted) ==
  LET msg == child[c].message IN
  /\ Runs(c, "send")
  /\ RetriesLeft(msg)
  /\ Attempt(msg.mail, accepted)
  /\ queue' = Queued(NextTry(msg))
  /\ doubted' = IF accepted THEN [doubted EXCEPT ![msg.mail] = @ + 1] ELSE doubted
  /\ End(c)
  /\ UNCHANGED <<asked, up, lost, redelivered, deaths>>

\* A mutant of GiveUp: the exception is swallowed.
GiveUpSilently(c, accepted) ==
  LET msg == child[c].message IN
  /\ Runs(c, "send")
  /\ ~ RetriesLeft(msg)
  /\ Attempt(msg.mail, accepted)
  /\ End(c)
  /\ UNCHANGED <<asked, queue, up, lost, redelivered, doubted, deaths>>

\* The last retry raises the exception itself.
GiveUp(c, accepted) ==
  LET msg == child[c].message IN
  /\ Runs(c, "send")
  /\ ~ RetriesLeft(msg)
  /\ Attempt(msg.mail, accepted)
  /\ lost' = lost \cup {msg.mail}
  /\ End(c)
  /\ UNCHANGED <<asked, queue, up, redelivered, doubted, deaths>>

\* A task that ends without a retry: the template cannot be rendered, the broker refuses
\* the next message, the process is killed (by the 30 minutes of the hard limit, too), which
\* may be after send_mail.
Drop(c) ==
  LET msg == child[c].message IN
  /\ up
  /\ child[c].step = "run"
  /\ \/ UNCHANGED <<sent, tries>>
     \/ msg.task = "send" /\ \E accepted \in BOOLEAN : Attempt(msg.mail, accepted)
  /\ lost' = lost \cup {msg.mail}
  /\ End(c)
  /\ UNCHANGED <<asked, queue, up, redelivered, doubted, deaths>>

\* A mutant of Acknowledge: the message of a task that has ended goes back.
Requeue(c) ==
  /\ up
  /\ child[c].step = "done"
  /\ queue' = Queued(child[c].message)
  /\ child' = [child EXCEPT ![c] = Idle]
  /\ UNCHANGED <<asked, up, sent, lost, tries, redelivered, doubted, deaths>>

\* task_acks_late, and task_acks_on_failure_or_timeout, its default.
Acknowledge(c) ==
  /\ up
  /\ child[c].step = "done"
  /\ child' = [child EXCEPT ![c] = Idle]
  /\ UNCHANGED <<asked, queue, up, sent, lost, tries, redelivered, doubted, deaths>>

-----------------------------------------------------------------------------
(***************************************************************************)
(* Deaths of the worker.                                                   *)
(***************************************************************************)
Die ==
  /\ up
  /\ deaths < MaxDeaths
  /\ up' = FALSE
  /\ deaths' = deaths + 1
  /\ UNCHANGED <<asked, queue, child, sent, lost, tries, redelivered, doubted>>

\* A mutant of Redeliver: what a dead process held is taken as done.
Forget(c) ==
  /\ ~ up
  /\ child[c] # Idle
  /\ child' = [child EXCEPT ![c] = Idle]
  /\ UNCHANGED <<asked, queue, up, sent, lost, tries, redelivered, doubted, deaths>>

\* The broker gives back a message that stayed unacknowledged, also that of a task which
\* had ended: after the visibility timeout, which is longer than a task may run.
Redeliver(c) ==
  LET msg == child[c].message IN
  /\ ~ up
  /\ child[c] # Idle
  /\ queue' = Queued(msg)
  /\ redelivered' = [redelivered EXCEPT ![msg.mail] = @ + 1]
  /\ child' = [child EXCEPT ![c] = Idle]
  /\ UNCHANGED <<asked, up, sent, lost, tries, doubted, deaths>>

Restart ==
  /\ ~ up
  /\ \A c \in Children : child[c] = Idle
  /\ up' = TRUE
  /\ UNCHANGED <<asked, queue, child, sent, lost, tries, redelivered, doubted, deaths>>

\* What a process does with the message it holds.
Work(c) ==
  \/ RenderAndQueue(c) \/ Send(c) \/ Drop(c)
  \/ \E accepted \in BOOLEAN : Retry(c, accepted) \/ GiveUp(c, accepted)
  \/ Acknowledge(c)

Next ==
  \/ \E m \in Mails : Ask(m)
  \/ \E c \in Children : Work(c) \/ Redeliver(c) \/ \E msg \in Message : Take(c, msg)
  \/ Die
  \/ Restart

Spec == Init /\ [][Next]_vars

\* A process that is up goes on taking messages and ends its tasks, which the time limits
\* see to, and the broker gives back what a dead one held.  That a dead worker is started
\* again is not assumed.
FairSpec ==
  /\ Spec
  /\ \A c \in Children :
       /\ WF_vars(\E msg \in Message : Take(c, msg))
       /\ WF_vars(Work(c))
       /\ WF_vars(Redeliver(c))

-----------------------------------------------------------------------------
(***************************************************************************)
(* Properties.                                                             *)
(***************************************************************************)
\* A task for m is still to run: what is only waiting to be acknowledged does not count.
Carried(m) ==
  \E msg \in Message :
    /\ msg.mail = m
    /\ queue[msg] > 0 \/ \E c \in Children : child[c] = [step |-> "run", message |-> msg]

\* Late acknowledgement loses no e-mail to a crash: one that was asked for is still to be
\* sent, or was sent, or a task of it has failed for good.
NothingForgotten == \A m \in asked : Carried(m) \/ sent[m] > 0 \/ m \in lost

\* An e-mail arrives once, and once more at most for each message that was delivered again
\* and each failure of the server after it had taken the e-mail.
DuplicatesHaveCause == \A m \in Mails : sent[m] <= 1 + redelivered[m] + doubted[m]

\* "retries on failure" (apps/notifications/tasks.py) ends: a delivery costs max_retries
\* attempts and one, even when a dying worker leaves two chains of retries behind.
TriesAreBounded == \A m \in Mails : tries[m] <= (MaxRetries + 1) * (1 + redelivered[m])

\* If the worker is always started again, every e-mail that is asked for is sent, or one
\* of its tasks fails for good.
EveryMailSettles ==
  ([]<>up) => \A m \in Mails : (m \in asked) ~> (sent[m] > 0 \/ m \in lost)

\* The worker implements a delivery at least once, or a failure.
Fate(m) ==
  IF m \notin asked THEN "unasked"
  ELSE IF sent[m] > 0 THEN "delivered"
  ELSE IF m \in lost THEN "failed"
  ELSE IF Carried(m) THEN "pending" ELSE "forgotten"
Delivery == INSTANCE AtLeastOnce WITH fate <- [m \in Mails |-> Fate(m)]
DeliverySpec == Delivery!Spec
=============================================================================
