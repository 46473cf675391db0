---------------------------- MODULE MailerProofs ----------------------------
(***************************************************************************)
(* Proofs about Mailer, for any e-mails, processes, retries and deaths: no *)
(* e-mail is forgotten, the worker implements AtLeastOnce, and it neither  *)
(* sends nor tries an e-mail more often than something accounts for.       *)
(***************************************************************************)
EXTENDS Mailer, FiniteSetTheorems, TLAPS

-----------------------------------------------------------------------------
(***************************************************************************)
(* Messages.                                                               *)
(***************************************************************************)
\* The tasks that are queued are messages.
LEMMA MessagesAre ==
  /\ \A m \in Mails : Render(m) \in Message
  /\ \A m \in Mails, n \in 0 .. MaxRetries : SendTask(m, n) \in Message
  /\ \A msg \in Message : msg.mail \in Mails /\ msg.retries \in 0 .. MaxRetries
BY MaxRetriesAssumption DEF Message, Render, SendTask

\* A retry, while one is left, is a message for the same e-mail.
LEMMA NextTryIsMessage ==
  ASSUME NEW msg \in Message, RetriesLeft(msg)
  PROVE  NextTry(msg) \in Message /\ NextTry(msg).mail = msg.mail
<1>1. msg.retries + 1 \in 0 .. MaxRetries
  BY MessagesAre, MaxRetriesAssumption DEF RetriesLeft
<1>2. NextTry(msg) = SendTask(msg.mail, msg.retries + 1)
  BY DEF NextTry
<1> QED BY <1>1, <1>2, MessagesAre DEF SendTask

\* Queueing counts one message more, and touches no other.
LEMMA QueuedCounts ==
  ASSUME queue \in [Message -> Nat], NEW msg \in Message
  PROVE  /\ Queued(msg) \in [Message -> Nat]
         /\ Queued(msg)[msg] > 0
         /\ \A x \in Message : Queued(msg)[x] >= queue[x]
BY DEF Queued

\* What a process that is busy holds is a message.
LEMMA HeldIsMessage ==
  ASSUME TypeOK, NEW c \in Children, child[c].step # "idle"
  PROVE  child[c].message \in Message
BY NoneAssumption DEF TypeOK

-----------------------------------------------------------------------------
(***************************************************************************)
(* Types.                                                                  *)
(***************************************************************************)
LEMMA InitTypes == Init => TypeOK
BY MaxDeathsAssumption, NoneAssumption DEF Init, TypeOK, Idle

LEMMA NextTypes ==
  ASSUME TypeOK, [Next]_vars
  PROVE  TypeOK'
<1>1. ASSUME NEW m \in Mails, Ask(m) PROVE TypeOK'
  BY <1>1, MessagesAre, QueuedCounts DEF TypeOK, Ask
<1>2. ASSUME NEW c \in Children, NEW msg \in Message, Take(c, msg) PROVE TypeOK'
  <2>1. queue' \in [Message -> Nat]
    BY <1>2 DEF TypeOK, Take
  <2> QED BY <1>2, <2>1, NoneAssumption DEF TypeOK, Take
<1>3. ASSUME NEW c \in Children, RenderAndQueue(c) PROVE TypeOK'
  <2>1. child[c].message \in Message
    BY <1>3, HeldIsMessage DEF RenderAndQueue, Runs
  <2>2. SendTask(child[c].message.mail, 0) \in Message
    BY <2>1, MessagesAre, MaxRetriesAssumption
  <2> QED BY <1>3, <2>1, <2>2, QueuedCounts, NoneAssumption DEF TypeOK, RenderAndQueue, Runs, End
<1>4. ASSUME NEW c \in Children, Send(c) PROVE TypeOK'
  BY <1>4, HeldIsMessage, NoneAssumption, MessagesAre DEF TypeOK, Send, Runs, End, Attempt
<1>5. ASSUME NEW c \in Children, Drop(c) PROVE TypeOK'
  <2>1. child[c].message \in Message /\ child[c].message.mail \in Mails
    BY <1>5, HeldIsMessage, MessagesAre DEF Drop
  <2>2. sent' \in [Mails -> Nat] /\ tries' \in [Mails -> Nat]
    BY <1>5, <2>1 DEF TypeOK, Drop, Attempt
  <2> QED BY <1>5, <2>1, <2>2, NoneAssumption DEF TypeOK, Drop, End
<1>6. ASSUME NEW c \in Children, NEW accepted \in BOOLEAN, Retry(c, accepted) PROVE TypeOK'
  <2>1. child[c].message \in Message
    BY <1>6, HeldIsMessage DEF Retry, Runs
  <2>2. queue' \in [Message -> Nat]
    BY <1>6, <2>1, NextTryIsMessage, QueuedCounts DEF TypeOK, Retry
  <2> QED BY <1>6, <2>1, <2>2, MessagesAre, NoneAssumption DEF TypeOK, Retry, Runs, End, Attempt
<1>7. ASSUME NEW c \in Children, NEW accepted \in BOOLEAN, GiveUp(c, accepted) PROVE TypeOK'
  BY <1>7, HeldIsMessage, NoneAssumption, MessagesAre DEF TypeOK, GiveUp, Runs, End, Attempt
<1>8. ASSUME NEW c \in Children, Acknowledge(c) PROVE TypeOK'
  BY <1>8 DEF TypeOK, Acknowledge, Idle
<1>9. ASSUME NEW c \in Children, Redeliver(c) PROVE TypeOK'
  <2>1. child[c].message \in Message
    BY <1>9, HeldIsMessage DEF TypeOK, Redeliver, Idle
  <2>2. queue' \in [Message -> Nat]
    BY <1>9, <2>1, QueuedCounts DEF TypeOK, Redeliver
  <2> QED BY <1>9, <2>1, <2>2, MessagesAre DEF TypeOK, Redeliver, Idle
<1>10. CASE Die
  <2>1. deaths + 1 \in 0 .. MaxDeaths
    BY <1>10, MaxDeathsAssumption DEF TypeOK, Die
  <2> QED BY <1>10, <2>1 DEF TypeOK, Die
<1>11. CASE Restart
  BY <1>11 DEF TypeOK, Restart
<1>12. CASE UNCHANGED vars
  BY <1>12 DEF TypeOK, vars
<1> QED
  BY <1>1, <1>2, <1>3, <1>4, <1>5, <1>6, <1>7, <1>8, <1>9, <1>10, <1>11, <1>12 DEF Next, Work

\* Type correctness of the worker: no message but the tasks of tasks.py is ever queued, no
\* retry is numbered past max_retries, and an idle process holds nothing.
THEOREM TypeCorrect == Spec => []TypeOK
<1> QED BY InitTypes, NextTypes, PTL DEF Spec

-----------------------------------------------------------------------------
(***************************************************************************)
(* What is still to be sent.  Only a task that has ended stops carrying    *)
(* its e-mail, and it has sent it, queued the next message or failed.      *)
(***************************************************************************)
Settled(m) == sent[m] > 0 \/ m \in lost

\* A message in the queue carries its e-mail.
LEMMA QueueCarries ==
  ASSUME NEW msg \in Message, queue[msg] > 0
  PROVE  Carried(msg.mail)
BY DEF Carried

\* What happens to a process and to the queue keeps every e-mail that another message
\* carries: the queue holds no less, and all other processes are as they were.
LEMMA OthersCarry ==
  ASSUME TypeOK,
         NEW c \in Children, NEW m \in Mails, Carried(m),
         \A x \in Message : queue'[x] >= queue[x],
         queue' \in [Message -> Nat],
         \A d \in Children \ {c} : child'[d] = child[d],
         child[c].step = "run" => child[c].message.mail # m
  PROVE  Carried(m)'
<1>1. PICK msg \in Message : /\ msg.mail = m
                             /\ queue[msg] > 0 \/ \E d \in Children :
                                  child[d] = [step |-> "run", message |-> msg]
  BY DEF Carried
<1>2. CASE queue[msg] > 0
  BY <1>1, <1>2 DEF Carried, TypeOK
<1>3. CASE \E d \in Children : child[d] = [step |-> "run", message |-> msg]
  <2>1. PICK d \in Children : child[d] = [step |-> "run", message |-> msg]
    BY <1>3
  <2>2. d # c
    BY <1>1, <2>1
  <2> QED BY <1>1, <2>1, <2>2 DEF Carried
<1> QED BY <1>1, <1>2, <1>3

\* No step takes the last message of an e-mail away without settling it.
LEMMA NextCarries ==
  ASSUME TypeOK, [Next]_vars, NEW m \in Mails, Carried(m)
  PROVE  Carried(m)' \/ Settled(m)'
<1>1. ASSUME NEW n \in Mails, Ask(n) PROVE Carried(m)'
  BY <1>1, MessagesAre, QueuedCounts DEF TypeOK, Ask, Carried
<1>2. ASSUME NEW c \in Children, NEW msg \in Message, Take(c, msg) PROVE Carried(m)'
  <2>1. child'[c] = [step |-> "run", message |-> msg]
    BY <1>2 DEF TypeOK, Take
  <2>2. \A d \in Children \ {c} : child'[d] = child[d]
    BY <1>2 DEF TypeOK, Take
  <2>3. \A x \in Message \ {msg} : queue'[x] = queue[x]
    BY <1>2 DEF TypeOK, Take
  <2>4. child[c].step = "idle"
    BY <1>2 DEF Take, Idle
  <2>5. PICK x \in Message : /\ x.mail = m
                             /\ queue[x] > 0 \/ \E d \in Children :
                                  child[d] = [step |-> "run", message |-> x]
    BY DEF Carried
  <2>6. CASE x = msg
    BY <2>1, <2>5, <2>6 DEF Carried
  <2>7. CASE x # msg /\ queue[x] > 0
    BY <2>3, <2>5, <2>7 DEF Carried
  <2>8. CASE \E d \in Children : child[d] = [step |-> "run", message |-> x]
    <3>1. PICK d \in Children : child[d] = [step |-> "run", message |-> x]
      BY <2>8
    <3>2. d # c
      BY <2>4, <3>1
    <3> QED BY <2>2, <2>5, <3>1, <3>2 DEF Carried
  <2> QED BY <2>5, <2>6, <2>7, <2>8
<1>3. ASSUME NEW c \in Children, RenderAndQueue(c) PROVE Carried(m)'
  <2> DEFINE msg == SendTask(child[c].message.mail, 0)
  <2>1. child[c].message \in Message
    BY <1>3, HeldIsMessage DEF RenderAndQueue, Runs
  <2>2. msg \in Message /\ msg.mail = child[c].message.mail
    BY <2>1, MessagesAre, MaxRetriesAssumption DEF SendTask
  <2>3. queue' = Queued(msg) /\ \A d \in Children \ {c} : child'[d] = child[d]
    BY <1>3 DEF TypeOK, RenderAndQueue, End
  <2> HIDE DEF msg
  <2>4. /\ queue' \in [Message -> Nat] /\ queue'[msg] > 0
        /\ \A x \in Message : queue'[x] >= queue[x]
    BY <2>2, <2>3, QueuedCounts DEF TypeOK
  <2>5. CASE child[c].message.mail = m
    BY <2>2, <2>4, <2>5 DEF Carried
  <2>6. CASE child[c].message.mail # m
    BY <2>3, <2>4, <2>6, OthersCarry
  <2> QED BY <2>5, <2>6
<1>4. ASSUME NEW c \in Children, Send(c) PROVE Carried(m)' \/ Settled(m)'
  <2>1. child[c].message \in Message
    BY <1>4, HeldIsMessage DEF Send, Runs
  <2>2. CASE child[c].message.mail = m
    BY <1>4, <2>2 DEF TypeOK, Send, Attempt, Settled
  <2>3. CASE child[c].message.mail # m
    <3>1. queue' = queue /\ \A d \in Children \ {c} : child'[d] = child[d]
      BY <1>4 DEF TypeOK, Send, End
    <3> QED BY <2>3, <3>1, OthersCarry DEF TypeOK
  <2> QED BY <2>2, <2>3
<1>5. ASSUME NEW c \in Children, Drop(c) PROVE Carried(m)' \/ Settled(m)'
  <2>1. CASE child[c].message.mail = m
    BY <1>5, <2>1 DEF Drop, Settled
  <2>2. CASE child[c].message.mail # m
    <3>1. queue' = queue /\ \A d \in Children \ {c} : child'[d] = child[d]
      BY <1>5 DEF TypeOK, Drop, End
    <3> QED BY <2>2, <3>1, OthersCarry DEF TypeOK
  <2> QED BY <2>1, <2>2
<1>6. ASSUME NEW c \in Children, NEW accepted \in BOOLEAN, Retry(c, accepted)
      PROVE  Carried(m)'
  <2> DEFINE msg == NextTry(child[c].message)
  <2>1. child[c].message \in Message
    BY <1>6, HeldIsMessage DEF Retry, Runs
  <2>2. msg \in Message /\ msg.mail = child[c].message.mail
    BY <1>6, <2>1, NextTryIsMessage DEF Retry
  <2>3. queue' = Queued(msg) /\ \A d \in Children \ {c} : child'[d] = child[d]
    BY <1>6 DEF TypeOK, Retry, End
  <2> HIDE DEF msg
  <2>4. /\ queue' \in [Message -> Nat] /\ queue'[msg] > 0
        /\ \A x \in Message : queue'[x] >= queue[x]
    BY <2>2, <2>3, QueuedCounts DEF TypeOK
  <2>5. CASE child[c].message.mail = m
    BY <2>2, <2>4, <2>5 DEF Carried
  <2>6. CASE child[c].message.mail # m
    BY <2>3, <2>4, <2>6, OthersCarry
  <2> QED BY <2>5, <2>6
<1>7. ASSUME NEW c \in Children, NEW accepted \in BOOLEAN, GiveUp(c, accepted)
      PROVE  Carried(m)' \/ Settled(m)'
  <2>1. CASE child[c].message.mail = m
    BY <1>7, <2>1 DEF GiveUp, Settled
  <2>2. CASE child[c].message.mail # m
    <3>1. queue' = queue /\ \A d \in Children \ {c} : child'[d] = child[d]
      BY <1>7 DEF TypeOK, GiveUp, End
    <3> QED BY <2>2, <3>1, OthersCarry DEF TypeOK
  <2> QED BY <2>1, <2>2
<1>8. ASSUME NEW c \in Children, Acknowledge(c) PROVE Carried(m)'
  <2>1. queue' = queue /\ \A d \in Children \ {c} : child'[d] = child[d]
    BY <1>8 DEF TypeOK, Acknowledge
  <2>2. child[c].step # "run"
    BY <1>8 DEF Acknowledge
  <2> QED BY <2>1, <2>2, OthersCarry DEF TypeOK
<1>9. ASSUME NEW c \in Children, Redeliver(c) PROVE Carried(m)'
  <2> DEFINE msg == child[c].message
  <2>1. msg \in Message
    BY <1>9, HeldIsMessage DEF TypeOK, Redeliver, Idle
  <2>2. queue' = Queued(msg) /\ \A d \in Children \ {c} : child'[d] = child[d]
    BY <1>9 DEF TypeOK, Redeliver
  <2> HIDE DEF msg
  <2>3. /\ queue' \in [Message -> Nat] /\ queue'[msg] > 0
        /\ \A x \in Message : queue'[x] >= queue[x]
    BY <2>1, <2>2, QueuedCounts DEF TypeOK
  <2>4. CASE msg.mail = m
    BY <2>1, <2>3, <2>4 DEF Carried
  <2>5. CASE msg.mail # m
    BY <2>2, <2>3, <2>5, OthersCarry DEF msg
  <2> QED BY <2>4, <2>5
<1>10. CASE Die \/ Restart \/ UNCHANGED vars
  BY <1>10 DEF Die, Restart, vars, Carried
<1> QED
  BY <1>1, <1>2, <1>3, <1>4, <1>5, <1>6, <1>7, <1>8, <1>9, <1>10 DEF Next, Work

\* What has settled stays settled.
LEMMA NextSettled ==
  ASSUME TypeOK, [Next]_vars, NEW m \in Mails, Settled(m)
  PROVE  Settled(m)'
<1>1. ASSUME NEW n, NEW accepted \in BOOLEAN, Attempt(n, accepted) PROVE sent'[m] >= sent[m]
  BY <1>1 DEF Attempt, TypeOK
<1>2. sent' = sent \/ \E n : \E accepted \in BOOLEAN : Attempt(n, accepted)
  BY DEF Next, Work, vars, Ask, Take, RenderAndQueue, Send, Drop, Retry, GiveUp,
    Acknowledge, Redeliver, Die, Restart
<1>3. sent'[m] >= sent[m]
  BY <1>1, <1>2 DEF TypeOK
<1>4. lost \subseteq lost'
  BY DEF Next, Work, vars, Ask, Take, RenderAndQueue, Send, Drop, Retry, GiveUp,
    Acknowledge, Redeliver, Die, Restart
<1>5. sent[m] \in Nat /\ sent'[m] \in Nat
  BY NextTypes DEF TypeOK
<1> QED BY <1>3, <1>4, <1>5 DEF Settled

LEMMA NextForgetsNothing ==
  ASSUME TypeOK, NothingForgotten, [Next]_vars
  PROVE  NothingForgotten'
<1> SUFFICES ASSUME NEW m \in asked' PROVE Carried(m)' \/ Settled(m)'
  BY DEF NothingForgotten, Settled
<1>1. m \in Mails
  BY NextTypes DEF TypeOK
<1>2. CASE m \in asked
  BY <1>1, <1>2, NextCarries, NextSettled DEF NothingForgotten, Settled
<1>3. CASE m \notin asked
  <2>1. Ask(m)
    BY <1>3 DEF Next, Work, vars, Ask, Take, RenderAndQueue, Send, Drop, Retry, GiveUp,
      Acknowledge, Redeliver, Die, Restart
  <2>2. queue'[Render(m)] > 0
    BY <1>1, <2>1, MessagesAre, QueuedCounts DEF Ask, TypeOK
  <2> QED BY <1>1, <2>2, MessagesAre DEF Carried, Render
<1> QED BY <1>2, <1>3

\* Late acknowledgement loses no e-mail to a crash: for any number of processes, retries
\* and deaths, one that was asked for is still to be sent, or was sent, or a task of it
\* has failed for good (send_email_task, CELERY_TASK_ACKS_LATE).
THEOREM NoneForgotten == Spec => []NothingForgotten
<1>1. Init => NothingForgotten
  BY DEF Init, NothingForgotten
<1> QED BY <1>1, InitTypes, NextTypes, NextForgetsNothing, PTL DEF Spec

-----------------------------------------------------------------------------
(***************************************************************************)
(* The refinement of AtLeastOnce.                                          *)
(***************************************************************************)
\* Nothing is done for an e-mail before it is asked for.
OnlyAsked ==
  /\ \A msg \in Message : queue[msg] > 0 => msg.mail \in asked
  /\ \A c \in Children : child[c].step # "idle" => child[c].message.mail \in asked
  /\ \A m \in Mails : Settled(m) => m \in asked

LEMMA NextOnlyAsked ==
  ASSUME TypeOK, OnlyAsked, [Next]_vars
  PROVE  OnlyAsked'
<1>1. asked \subseteq asked'
  BY DEF Next, Work, vars, Ask, Take, RenderAndQueue, Send, Drop, Retry, GiveUp,
    Acknowledge, Redeliver, Die, Restart
<1>2. ASSUME NEW m \in Mails, Ask(m) PROVE OnlyAsked'
  <2>1. \A x \in Message : queue'[x] > 0 => x = Render(m) \/ queue[x] > 0
    BY <1>2, MessagesAre DEF TypeOK, Ask, Queued
  <2> QED BY <1>1, <1>2, <2>1 DEF OnlyAsked, Ask, Render, Settled
<1>3. ASSUME NEW c \in Children, NEW msg \in Message, Take(c, msg) PROVE OnlyAsked'
  <2>1. \A x \in Message : queue'[x] > 0 => queue[x] > 0
    BY <1>3 DEF TypeOK, Take
  <2>2. child'[c].message = msg /\ msg.mail \in asked
    BY <1>3 DEF TypeOK, Take, OnlyAsked
  <2> QED BY <1>1, <1>3, <2>1, <2>2 DEF TypeOK, OnlyAsked, Take, Settled
<1>4. ASSUME NEW c \in Children, NEW msg \in Message, queue' = Queued(msg) \/ queue' = queue,
             child[c].step # "idle", msg.mail = child[c].message.mail,
             child' = [child EXCEPT ![c].step = "done"] \/ child' = [child EXCEPT ![c] = Idle],
             \A m \in Mails \ {msg.mail} : sent'[m] = sent[m] /\ (m \in lost' => m \in lost)
      PROVE  OnlyAsked'
  <2>1. msg.mail \in asked
    BY <1>4 DEF OnlyAsked
  <2>2. \A x \in Message : queue'[x] > 0 => x = msg \/ queue[x] > 0
    BY <1>4 DEF TypeOK, Queued
  <2>3. \A d \in Children : child'[d].step # "idle" =>
          child'[d].message = child[d].message /\ child[d].step # "idle"
    BY <1>4 DEF TypeOK, Idle
  <2> QED BY <1>1, <1>4, <2>1, <2>2, <2>3 DEF OnlyAsked, Settled
<1>5. ASSUME NEW c \in Children, RenderAndQueue(c) PROVE OnlyAsked'
  <2> DEFINE msg == SendTask(child[c].message.mail, 0)
  <2>1. child[c].message \in Message /\ child[c].step # "idle"
    BY <1>5, HeldIsMessage DEF RenderAndQueue, Runs
  <2>2. msg \in Message /\ msg.mail = child[c].message.mail
    BY <2>1, MessagesAre, MaxRetriesAssumption DEF SendTask
  <2> QED BY <1>4, <1>5, <2>1, <2>2 DEF RenderAndQueue, End
<1>6. ASSUME NEW c \in Children, NEW accepted \in BOOLEAN, Retry(c, accepted) PROVE OnlyAsked'
  <2> DEFINE msg == NextTry(child[c].message)
  <2>1. child[c].message \in Message /\ child[c].step # "idle"
    BY <1>6, HeldIsMessage DEF Retry, Runs
  <2>2. msg \in Message /\ msg.mail = child[c].message.mail
    BY <1>6, <2>1, NextTryIsMessage DEF Retry
  <2>3. \A m \in Mails \ {msg.mail} : sent'[m] = sent[m]
    BY <1>6, <2>1, <2>2, MessagesAre DEF Retry, Attempt, TypeOK
  <2> QED BY <1>4, <1>6, <2>1, <2>2, <2>3 DEF Retry, End
<1>7. ASSUME NEW c \in Children,
             \/ Send(c) \/ Drop(c) \/ Acknowledge(c) \/ Redeliver(c)
             \/ \E accepted \in BOOLEAN : GiveUp(c, accepted)
      PROVE  OnlyAsked'
  <2> DEFINE msg == child[c].message
  <2>1. msg \in Message /\ child[c].step # "idle"
    BY <1>7, HeldIsMessage, NoneAssumption
    DEF TypeOK, Send, Drop, Acknowledge, Redeliver, GiveUp, Runs, Idle
  <2>2. \A m \in Mails \ {msg.mail} : sent'[m] = sent[m] /\ (m \in lost' => m \in lost)
    BY <1>7, <2>1, MessagesAre
    DEF TypeOK, Send, Drop, Acknowledge, Redeliver, GiveUp, Attempt
  <2>3. queue' = Queued(msg) \/ queue' = queue
    BY <1>7 DEF Send, Drop, Acknowledge, Redeliver, GiveUp
  <2>4. child' = [child EXCEPT ![c].step = "done"] \/ child' = [child EXCEPT ![c] = Idle]
    BY <1>7 DEF Send, Drop, Acknowledge, Redeliver, GiveUp, End
  <2> QED BY <1>4, <2>1, <2>2, <2>3, <2>4
<1>8. CASE Die \/ Restart \/ UNCHANGED vars
  BY <1>8 DEF Die, Restart, vars, OnlyAsked, Settled
<1> QED
  BY <1>2, <1>3, <1>5, <1>6, <1>7, <1>8 DEF Next, Work

\* While nothing is forgotten, the fate of an e-mail is read off these three sets.
LEMMA FateIs ==
  ASSUME NothingForgotten, NEW m \in Mails
  PROVE  Fate(m) = IF m \notin asked THEN "unasked"
                   ELSE IF sent[m] > 0 THEN "delivered"
                   ELSE IF m \in lost THEN "failed" ELSE "pending"
BY DEF NothingForgotten, Fate

Fates == [m \in Mails |-> Fate(m)]

\* A step that changes one e-mail's fate at most, in a way the promise allows, is a step of
\* the promise or none.
LEMMA OneFate ==
  ASSUME NothingForgotten, NothingForgotten', NEW m \in Mails,
         \A n \in Mails \ {m} : Fate(n)' = Fate(n),
         \/ Fate(m)' = Fate(m)
         \/ Fate(m) = "unasked" /\ Fate(m)' = "pending"
         \/ Fate(m) \in {"pending", "failed"} /\ Fate(m)' = "delivered"
         \/ Fate(m) = "pending" /\ Fate(m)' = "failed"
  PROVE  [Delivery!Next]_Fates
<1>1. CASE Fate(m)' = Fate(m)
  BY <1>1 DEF Fates
<1>2. CASE Fate(m)' # Fate(m)
  <2>1. Fates' = [Fates EXCEPT ![m] = Fate(m)'] /\ Fates[m] = Fate(m)
    BY DEF Fates
  <2>2. \/ Fates[m] = "unasked" /\ Fates' = [Fates EXCEPT ![m] = "pending"]
        \/ Fates[m] \in {"pending", "failed"} /\ Fates' = [Fates EXCEPT ![m] = "delivered"]
        \/ Fates[m] = "pending" /\ Fates' = [Fates EXCEPT ![m] = "failed"]
    BY <1>2, <2>1
  <2> QED
    BY <2>2 DEF Delivery!Next, Delivery!Ask, Delivery!Deliver, Delivery!Report, Fates
<1> QED BY <1>1, <1>2

LEMMA NextFate ==
  ASSUME TypeOK, OnlyAsked, NothingForgotten, NothingForgotten', [Next]_vars
  PROVE  [Delivery!Next]_Fates
<1> USE FateIs
<1>1. ASSUME NEW m \in Mails, Ask(m) PROVE [Delivery!Next]_Fates
  <2>1. m \notin asked /\ asked' = asked \cup {m} /\ sent' = sent /\ lost' = lost
    BY <1>1 DEF Ask
  <2>2. ~ Settled(m)
    BY <2>1 DEF OnlyAsked
  <2>3. \A n \in Mails : Fate(n)' = IF n \notin asked' THEN "unasked"
                   ELSE IF sent'[n] > 0 THEN "delivered"
                   ELSE IF n \in lost' THEN "failed" ELSE "pending"
    BY DEF NothingForgotten, Fate
  <2>4. Fate(m) = "unasked" /\ Fate(m)' = "pending"
    BY <2>1, <2>2, <2>3 DEF Settled
  <2>5. \A n \in Mails \ {m} : Fate(n)' = Fate(n)
    BY <2>1, <2>3
  <2> QED BY <2>4, <2>5, OneFate
<1>2. ASSUME NEW m \in Mails, NEW accepted \in BOOLEAN,
             asked' = asked, m \in asked,
             sent' = sent \/ sent' = [sent EXCEPT ![m] = @ + 1],
             lost' = lost \/ lost' = lost \cup {m}
      PROVE  [Delivery!Next]_Fates
  <2>1. \A n \in Mails : Fate(n)' = IF n \notin asked' THEN "unasked"
                   ELSE IF sent'[n] > 0 THEN "delivered"
                   ELSE IF n \in lost' THEN "failed" ELSE "pending"
    BY DEF NothingForgotten, Fate
  <2>2. \A n \in Mails \ {m} : Fate(n)' = Fate(n)
    BY <1>2, <2>1 DEF TypeOK
  <2>3. sent'[m] >= sent[m] /\ sent[m] \in Nat /\ sent'[m] \in Nat
    BY <1>2 DEF TypeOK
  <2>4. \/ Fate(m)' = Fate(m)
        \/ Fate(m) \in {"pending", "failed"} /\ Fate(m)' = "delivered"
        \/ Fate(m) = "pending" /\ Fate(m)' = "failed"
    BY <1>2, <2>1, <2>3
  <2> QED BY <2>2, <2>4, OneFate
<1>3. ASSUME asked' = asked, sent' = sent, lost' = lost PROVE [Delivery!Next]_Fates
  <2>1. \A n \in Mails : Fate(n)' = IF n \notin asked' THEN "unasked"
                   ELSE IF sent'[n] > 0 THEN "delivered"
                   ELSE IF n \in lost' THEN "failed" ELSE "pending"
    BY DEF NothingForgotten, Fate
  <2>2. \A n \in Mails : Fate(n)' = Fate(n)
    BY <1>3, <2>1
  <2> QED BY <2>2 DEF Fates
<1>4. ASSUME NEW c \in Children, NEW accepted \in BOOLEAN,
             Send(c) \/ Drop(c) \/ Retry(c, accepted) \/ GiveUp(c, accepted)
      PROVE  [Delivery!Next]_Fates
  <2> DEFINE m == child[c].message.mail
  <2>1. child[c].message \in Message /\ child[c].step # "idle"
    BY <1>4, HeldIsMessage DEF Send, Drop, Retry, GiveUp, Runs
  <2>2. m \in Mails /\ m \in asked
    BY <2>1, MessagesAre DEF OnlyAsked
  <2>3. asked' = asked /\ (sent' = sent \/ sent' = [sent EXCEPT ![m] = @ + 1])
    BY <1>4 DEF Send, Drop, Retry, GiveUp, Attempt
  <2>4. lost' = lost \/ lost' = lost \cup {m}
    BY <1>4 DEF Send, Drop, Retry, GiveUp
  <2> QED BY <1>2, <2>2, <2>3, <2>4
<1>5. CASE \/ \E c \in Children : \/ RenderAndQueue(c) \/ Acknowledge(c) \/ Redeliver(c)
                                  \/ \E msg \in Message : Take(c, msg)
           \/ Die \/ Restart \/ UNCHANGED vars
  BY <1>3, <1>5 DEF RenderAndQueue, Acknowledge, Redeliver, Take, Die, Restart, vars
<1> QED
  BY <1>1, <1>4, <1>5 DEF Next, Work

\* The worker implements AtLeastOnce (apps/notifications/tasks.py): an e-mail that was asked
\* for is pending until it is delivered or a task of it has failed, a failure may only be
\* made good, and a delivery is never taken back, whatever dies in between.
THEOREM ImplementsDelivery == Spec => DeliverySpec
<1>1. Init => OnlyAsked /\ NothingForgotten
  BY DEF Init, OnlyAsked, NothingForgotten, Idle, Settled
<1>2. Init => Delivery!Init
  BY DEF Init, Delivery!Init, Fate
<1>3. Spec => [][Delivery!Next]_Fates
  BY <1>1, InitTypes, NextTypes, NextForgetsNothing, NextOnlyAsked, NextFate, PTL DEF Spec
<1> QED BY <1>2, <1>3, PTL DEF Spec, DeliverySpec, Delivery!Spec, Fates


-----------------------------------------------------------------------------
(***************************************************************************)
(* Sums over finitely many members of a domain, of which there may be      *)
(* infinitely many: f[x] is counted as the pairs of x with 1 to f[x].      *)
(***************************************************************************)
Area(D, f) == {t \in D \X Nat : t[2] \in 1 .. f[t[1]]}

Total(D, f) == Cardinality(Area(D, f))

\* A union of two sets without a common element has the elements of both.
LEMMA Disjoint ==
  ASSUME NEW S, IsFiniteSet(S), NEW T, IsFiniteSet(T), S \cap T = {}
  PROVE  IsFiniteSet(S \cup T) /\ Cardinality(S \cup T) = Cardinality(S) + Cardinality(T)
<1>1. Cardinality(S) \in Nat /\ Cardinality(T) \in Nat /\ Cardinality({}) = 0
  BY FS_CardinalityType, FS_EmptySet
<1>2. Cardinality(S \cup T) = Cardinality(S) + Cardinality(T) - Cardinality(S \cap T)
  BY FS_Union
<1>3. Cardinality(S \cap T) = 0
  BY <1>1
<1>4. IsFiniteSet(S \cup T)
  BY FS_Union
<1> QED BY <1>1, <1>2, <1>3, <1>4

\* The pairs of one x are as many as the numbers it is paired with.
LEMMA ColumnCounts ==
  ASSUME NEW x, NEW k \in Nat
  PROVE  IsFiniteSet({x} \X (1 .. k)) /\ Cardinality({x} \X (1 .. k)) = k
<1>1. IsFiniteSet({x}) /\ Cardinality({x}) = 1
  BY FS_Singleton
<1>2. IsFiniteSet(1 .. k) /\ Cardinality(1 .. k) = IF 1 > k THEN 0 ELSE k - 1 + 1
  BY FS_Interval
<1>3. Cardinality(1 .. k) = k
  BY <1>2
<1>4. /\ IsFiniteSet({x} \X (1 .. k))
      /\ Cardinality({x} \X (1 .. k)) = Cardinality({x}) * Cardinality(1 .. k)
  BY <1>1, <1>2, FS_Product
<1>5. Cardinality({x}) * Cardinality(1 .. k) = k
  BY <1>1, <1>3
<1> QED BY <1>4, <1>5

\* All the pairs but those of one x.
Others(D, f, x) == {t \in D \X Nat : t[1] # x /\ t[2] \in 1 .. f[t[1]]}

LEMMA AreaSplits ==
  ASSUME NEW D, NEW f \in [D -> Nat], NEW x \in D
  PROVE  /\ Area(D, f) = Others(D, f, x) \cup ({x} \X (1 .. f[x]))
         /\ Others(D, f, x) \cap ({x} \X (1 .. f[x])) = {}
BY DEF Area, Others

\* What changes at one x changes the sum by as much.
LEMMA TotalChanges ==
  ASSUME NEW D, NEW f \in [D -> Nat], NEW g \in [D -> Nat], NEW x \in D,
         \A y \in D \ {x} : g[y] = f[y], IsFiniteSet(Area(D, f))
  PROVE  /\ IsFiniteSet(Area(D, g))
         /\ Total(D, f) \in Nat /\ Total(D, g) \in Nat
         /\ f[x] <= Total(D, f)
         /\ Total(D, g) = Total(D, f) - f[x] + g[x]
<1> DEFINE R == Others(D, f, x)
           F == {x} \X (1 .. f[x])
           G == {x} \X (1 .. g[x])
<1>1. f[x] \in Nat /\ g[x] \in Nat
  OBVIOUS
<1>2. IsFiniteSet(F) /\ Cardinality(F) = f[x]
  BY <1>1, ColumnCounts
<1>3. IsFiniteSet(G) /\ Cardinality(G) = g[x]
  BY <1>1, ColumnCounts
<1>4. Area(D, f) = R \cup F /\ R \cap F = {}
  BY AreaSplits
<1>5. Others(D, g, x) = R
  BY DEF Others
<1>6. Area(D, g) = R \cup G /\ R \cap G = {}
  BY <1>5, AreaSplits
<1> HIDE DEF R, F, G
<1>7. IsFiniteSet(R)
  <2>1. R \in SUBSET Area(D, f)
    BY <1>4
  <2> QED BY <2>1, FS_Subset
<1>8. Cardinality(R) \in Nat
  BY <1>7, FS_CardinalityType
<1>9. Cardinality(Area(D, f)) = Cardinality(R) + Cardinality(F)
  BY <1>2, <1>4, <1>7, Disjoint
<1>10. IsFiniteSet(Area(D, g)) /\ Cardinality(Area(D, g)) = Cardinality(R) + Cardinality(G)
  BY <1>3, <1>6, <1>7, Disjoint
<1> QED BY <1>1, <1>2, <1>3, <1>8, <1>9, <1>10 DEF Total

\* Nothing sums up to 0.
LEMMA TotalOfNone ==
  ASSUME NEW D, NEW f, \A y \in D : f[y] = 0
  PROVE  IsFiniteSet(Area(D, f)) /\ Total(D, f) = 0
<1>1. Area(D, f) = {}
  BY DEF Area
<1> QED BY <1>1, FS_EmptySet DEF Total

-----------------------------------------------------------------------------
(***************************************************************************)
(* How often an e-mail is sent, and tried.  A message that is queued or    *)
(* run stands for an e-mail still to come, and for the attempts it has     *)
(* left: its own and those of its retries.                                 *)
(***************************************************************************)
Counted == {"mails", "tries"}

Price(of, msg) == IF of = "tries" THEN MaxRetries + 1 - msg.retries ELSE 1

InQueue(of, m) ==
  [msg \in Message |-> IF msg.mail = m THEN queue[msg] * Price(of, msg) ELSE 0]

InHand(of, m) ==
  [c \in Children |->
     IF child[c].step = "run" /\ child[c].message.mail = m
     THEN Price(of, child[c].message) ELSE 0]

Load(of, m) == Total(Message, InQueue(of, m)) + Total(Children, InHand(of, m))

Countable ==
  \A m \in Mails, of \in Counted :
    IsFiniteSet(Area(Message, InQueue(of, m))) /\ IsFiniteSet(Area(Children, InHand(of, m)))

\* What m may be sent for, but for doubts: that it was asked for, and each new delivery.
Causes(m) == redelivered[m] + (IF m \in asked THEN 1 ELSE 0)

Bound(n) == (MaxRetries + 1) * n

\* What was sent, and what is still to come, has a cause; what was tried, and what may
\* still be tried, is within the bound.
Accounted(m) ==
  /\ sent[m] + Load("mails", m) <= Causes(m) + doubted[m]
  /\ tries[m] + Load("tries", m) <= Bound(Causes(m))

LoadInv == Countable /\ \A m \in Mails : Accounted(m)

\* The part of a message's price that is m's.
Share(of, msg, m) == IF msg.mail = m THEN Price(of, msg) ELSE 0

\* Prices are numbers, and a message stands for one attempt at least.
LEMMA Prices ==
  ASSUME NEW msg \in Message
  PROVE  /\ \A of \in Counted : Price(of, msg) \in Nat
         /\ \A of \in Counted, m \in Mails : Share(of, msg, m) \in Nat
         /\ Price("mails", msg) = 1
         /\ Price("tries", msg) >= 1
BY MessagesAre, MaxRetriesAssumption DEF Price, Share, Counted

\* A retry stands for one attempt less than the message it follows; the
\* message that follows the rendering for as many.
LEMMA NextPrices ==
  /\ \A msg \in Message : RetriesLeft(msg) => Price("tries", NextTry(msg)) = Price("tries", msg) - 1
  /\ \A m \in Mails : Price("tries", Render(m)) = MaxRetries + 1
  /\ \A m \in Mails : Price("tries", SendTask(m, 0)) = MaxRetries + 1
BY MessagesAre, MaxRetriesAssumption DEF Price, RetriesLeft, NextTry, Render, SendTask

\* The loads are sums of numbers, before a step and after it.
LEMMA QueueWeights ==
  ASSUME TypeOK, NEW m \in Mails, NEW of \in Counted
  PROVE  InQueue(of, m) \in [Message -> Nat]
<1>1. \A msg \in Message : queue[msg] \in Nat /\ Price(of, msg) \in Nat
  BY Prices DEF TypeOK
<1>2. \A a, b \in Nat : a * b \in Nat
  OBVIOUS
<1> QED BY <1>1, <1>2 DEF InQueue

LEMMA HandWeights ==
  ASSUME TypeOK, NEW m \in Mails, NEW of \in Counted
  PROVE  InHand(of, m) \in [Children -> Nat]
<1>1. \A c \in Children : child[c].step = "run" => Price(of, child[c].message) \in Nat
  BY HeldIsMessage, Prices
<1> QED BY <1>1 DEF InHand

LEMMA NextWeights ==
  ASSUME TypeOK', NEW m \in Mails, NEW of \in Counted
  PROVE  InQueue(of, m)' \in [Message -> Nat] /\ InHand(of, m)' \in [Children -> Nat]
<1>1. \A msg \in Message : queue'[msg] \in Nat /\ Price(of, msg) \in Nat
  BY Prices DEF TypeOK
<1>2. \A a, b \in Nat : a * b \in Nat
  OBVIOUS
<1>3. InQueue(of, m)' \in [Message -> Nat]
  BY <1>1, <1>2 DEF InQueue, Price
<1>4. \A c \in Children : child'[c].step = "run" => child'[c].message \in Message
  BY NoneAssumption DEF TypeOK
<1>5. \A c \in Children : child'[c].step = "run" => Price(of, child'[c].message) \in Nat
  BY <1>4, Prices
<1>6. InHand(of, m)' \in [Children -> Nat]
  BY <1>5 DEF InHand, Price
<1> QED BY <1>3, <1>6

\* What a step does to one count of the queue, and to one process, is what it does to the load.
LEMMA QueueLoads ==
  ASSUME TypeOK, TypeOK', Countable, NEW m \in Mails, NEW of \in Counted,
         NEW msg \in Message, \A x \in Message \ {msg} : queue'[x] = queue[x]
  PROVE  LET P == Total(Message, InQueue(of, m))
         IN  /\ IsFiniteSet(Area(Message, InQueue(of, m))')
             /\ P \in Nat /\ P' \in Nat
             /\ P' = P - queue[msg] * Share(of, msg, m) + queue'[msg] * Share(of, msg, m)
<1> DEFINE f == InQueue(of, m)
           g == InQueue(of, m)'
<1>1. f \in [Message -> Nat] /\ g \in [Message -> Nat]
  BY QueueWeights, NextWeights
<1>2. \A x \in Message \ {msg} : g[x] = f[x]
  BY DEF InQueue, Price
<1>3. IsFiniteSet(Area(Message, f))
  BY DEF Countable
<1>4. queue[msg] \in Nat /\ queue'[msg] \in Nat /\ Share(of, msg, m) \in Nat
  BY Prices DEF TypeOK
<1>5. f[msg] = queue[msg] * Share(of, msg, m) /\ g[msg] = queue'[msg] * Share(of, msg, m)
  BY <1>4 DEF InQueue, Share, Price
<1> HIDE DEF f, g
<1>6. /\ IsFiniteSet(Area(Message, g))
      /\ Total(Message, f) \in Nat /\ Total(Message, g) \in Nat
      /\ Total(Message, g) = Total(Message, f) - f[msg] + g[msg]
  BY <1>1, <1>2, <1>3, TotalChanges
<1>7. Area(Message, InQueue(of, m))' = Area(Message, g)
  BY DEF Area, g
<1>8. Total(Message, InQueue(of, m))' = Total(Message, g)
  BY <1>7 DEF Total
<1>9. Total(Message, InQueue(of, m)) = Total(Message, f)
  BY DEF f
<1> QED BY <1>5, <1>6, <1>7, <1>8, <1>9

\* A message that is queued adds its price to the load of its e-mail, one that is taken
\* from the queue subtracts it, and with the same queue nothing changes.
LEMMA QueueEffects ==
  ASSUME TypeOK, TypeOK', Countable, NEW m \in Mails, NEW of \in Counted
  PROVE  LET P == Total(Message, InQueue(of, m)) IN
         /\ \A msg \in Message : queue' = Queued(msg) =>
              /\ IsFiniteSet(Area(Message, InQueue(of, m))')
              /\ P \in Nat /\ P' \in Nat /\ P' = P + Share(of, msg, m)
         /\ \A msg \in Message : queue' = [queue EXCEPT ![msg] = @ - 1] =>
              /\ IsFiniteSet(Area(Message, InQueue(of, m))')
              /\ P \in Nat /\ P' \in Nat /\ P' = P - Share(of, msg, m)
         /\ queue' = queue =>
              IsFiniteSet(Area(Message, InQueue(of, m))') /\ P \in Nat /\ P' = P
<1> DEFINE P == Total(Message, InQueue(of, m))
<1>1. ASSUME NEW msg \in Message, queue' = Queued(msg)
      PROVE  /\ IsFiniteSet(Area(Message, InQueue(of, m))')
             /\ P \in Nat /\ P' \in Nat /\ P' = P + Share(of, msg, m)
  <2>1. /\ \A x \in Message \ {msg} : queue'[x] = queue[x]
        /\ queue[msg] \in Nat /\ queue'[msg] = queue[msg] + 1
    BY <1>1 DEF TypeOK, Queued
  <2>2. /\ IsFiniteSet(Area(Message, InQueue(of, m))') /\ P \in Nat /\ P' \in Nat
        /\ P' = P - queue[msg] * Share(of, msg, m) + queue'[msg] * Share(of, msg, m)
    BY <2>1, QueueLoads
  <2>3. Share(of, msg, m) \in Nat
    BY Prices
  <2> DEFINE s == Share(of, msg, m)
             q == queue[msg]
  <2> HIDE DEF s, q, P
  <2>4. (q + 1) * s = q * s + s /\ q * s \in Nat
    BY <2>1, <2>3 DEF s, q
  <2> QED BY <2>1, <2>2, <2>3, <2>4 DEF s, q
<1>2. ASSUME NEW msg \in Message, queue' = [queue EXCEPT ![msg] = @ - 1]
      PROVE  /\ IsFiniteSet(Area(Message, InQueue(of, m))')
             /\ P \in Nat /\ P' \in Nat /\ P' = P - Share(of, msg, m)
  <2>1. /\ \A x \in Message \ {msg} : queue'[x] = queue[x]
        /\ queue[msg] \in Nat /\ queue'[msg] = queue[msg] - 1
    BY <1>2 DEF TypeOK
  <2>2. /\ IsFiniteSet(Area(Message, InQueue(of, m))') /\ P \in Nat /\ P' \in Nat
        /\ P' = P - queue[msg] * Share(of, msg, m) + queue'[msg] * Share(of, msg, m)
    BY <2>1, QueueLoads
  <2>3. Share(of, msg, m) \in Nat
    BY Prices
  <2> DEFINE s == Share(of, msg, m)
             q == queue[msg]
  <2> HIDE DEF s, q, P
  <2>4. (q - 1) * s = q * s - s /\ q * s \in Nat
    BY <2>1, <2>3 DEF s, q
  <2> QED BY <2>1, <2>2, <2>3, <2>4 DEF s, q
<1>3. ASSUME queue' = queue
      PROVE  IsFiniteSet(Area(Message, InQueue(of, m))') /\ P \in Nat /\ P' = P
  <2>1. InQueue(of, m)' = InQueue(of, m)
    BY <1>3 DEF InQueue, Price
  <2>2. IsFiniteSet(Area(Message, InQueue(of, m)))
    BY DEF Countable
  <2>3. Area(Message, InQueue(of, m))' = Area(Message, InQueue(of, m))
    BY <2>1 DEF Area
  <2>4. P' = P
    BY <2>3 DEF Total
  <2>5. P \in Nat
    BY <2>2, FS_CardinalityType DEF Total
  <2> QED BY <2>2, <2>3, <2>4, <2>5
<1> QED BY <1>1, <1>2, <1>3

\* A step of one process changes the load by what it has at hand before and afterwards.
LEMMA HandEffects ==
  ASSUME TypeOK, TypeOK', Countable, NEW m \in Mails, NEW of \in Counted
  PROVE  LET H == Total(Children, InHand(of, m)) IN
         /\ \A c \in Children : (\A d \in Children \ {c} : child'[d] = child[d]) =>
              /\ IsFiniteSet(Area(Children, InHand(of, m))')
              /\ H \in Nat /\ H' \in Nat
              /\ InHand(of, m)[c] \in Nat /\ InHand(of, m)[c] <= H
              /\ H' = H - InHand(of, m)[c] + InHand(of, m)'[c]
         /\ child' = child =>
              IsFiniteSet(Area(Children, InHand(of, m))') /\ H \in Nat /\ H' = H
<1> DEFINE H == Total(Children, InHand(of, m))
<1>1. ASSUME NEW c \in Children, \A d \in Children \ {c} : child'[d] = child[d]
      PROVE  /\ IsFiniteSet(Area(Children, InHand(of, m))')
             /\ H \in Nat /\ H' \in Nat
             /\ InHand(of, m)[c] \in Nat /\ InHand(of, m)[c] <= H
             /\ H' = H - InHand(of, m)[c] + InHand(of, m)'[c]
  <2> DEFINE f == InHand(of, m)
             g == InHand(of, m)'
  <2>1. f \in [Children -> Nat] /\ g \in [Children -> Nat]
    BY HandWeights, NextWeights
  <2>2. \A x \in Children \ {c} : g[x] = f[x]
    BY <1>1 DEF InHand, Price
  <2>3. IsFiniteSet(Area(Children, f))
    BY DEF Countable
  <2> HIDE DEF f, g
  <2>4. /\ IsFiniteSet(Area(Children, g))
        /\ Total(Children, f) \in Nat /\ Total(Children, g) \in Nat
        /\ f[c] \in Nat /\ f[c] <= Total(Children, f)
        /\ Total(Children, g) = Total(Children, f) - f[c] + g[c]
    BY <2>1, <2>2, <2>3, TotalChanges
  <2>5. Area(Children, InHand(of, m))' = Area(Children, g)
    BY DEF Area, g
  <2>6. H' = Total(Children, g)
    BY <2>5 DEF Total
  <2>7. H = Total(Children, f)
    BY DEF f
  <2> QED BY <2>4, <2>5, <2>6, <2>7 DEF f, g
<1>2. ASSUME child' = child
      PROVE  IsFiniteSet(Area(Children, InHand(of, m))') /\ H \in Nat /\ H' = H
  <2>1. InHand(of, m)' = InHand(of, m)
    BY <1>2 DEF InHand, Price
  <2>2. IsFiniteSet(Area(Children, InHand(of, m)))
    BY DEF Countable
  <2>3. Area(Children, InHand(of, m))' = Area(Children, InHand(of, m))
    BY <2>1 DEF Area
  <2>4. H' = H
    BY <2>3 DEF Total
  <2>5. H \in Nat
    BY <2>2, FS_CardinalityType DEF Total
  <2> QED BY <2>2, <2>3, <2>4, <2>5
<1> QED BY <1>1, <1>2

\* A process at work on a message has its price at hand.
LEMMA AtHand ==
  ASSUME NEW c \in Children, child[c].step = "run", NEW m, NEW of
  PROVE  InHand(of, m)[c] = Share(of, child[c].message, m)
BY DEF InHand, Share

\* One that is not at work has none.
LEMMA NotAtHand ==
  ASSUME NEW c \in Children, NEW m, NEW of
  PROVE  /\ child[c].step # "run" => InHand(of, m)[c] = 0
         /\ child'[c].step # "run" => InHand(of, m)'[c] = 0
BY DEF InHand, Price

\* The effects of the actions on the load of every e-mail: asking for it ...
LEMMA AskLoads ==
  ASSUME TypeOK, TypeOK', Countable, NEW n \in Mails, Ask(n), NEW m \in Mails, NEW of \in Counted
  PROVE  /\ IsFiniteSet(Area(Message, InQueue(of, m))')
         /\ IsFiniteSet(Area(Children, InHand(of, m))')
         /\ Load(of, m) \in Nat
         /\ Load(of, m)' = Load(of, m) + Share(of, Render(n), m)
<1>1. Render(n) \in Message /\ queue' = Queued(Render(n)) /\ child' = child
  BY MessagesAre DEF Ask
<1>2. Share(of, Render(n), m) \in Nat
  BY <1>1, Prices
<1> QED BY <1>1, <1>2, QueueEffects, HandEffects DEF Load

\* ... taking a message of the queue, which then is at hand ...
LEMMA TakeLoads ==
  ASSUME TypeOK, TypeOK', Countable, NEW c \in Children, NEW msg \in Message, Take(c, msg),
         NEW m \in Mails, NEW of \in Counted
  PROVE  /\ IsFiniteSet(Area(Message, InQueue(of, m))')
         /\ IsFiniteSet(Area(Children, InHand(of, m))')
         /\ Load(of, m) \in Nat
         /\ Load(of, m)' = Load(of, m)
<1>1. queue' = [queue EXCEPT ![msg] = @ - 1] /\ \A d \in Children \ {c} : child'[d] = child[d]
  BY DEF Take, TypeOK
<1>2. child[c].step # "run" /\ child'[c] = [step |-> "run", message |-> msg]
  BY DEF Take, TypeOK, Idle
<1>3. Share(of, msg, m) \in Nat
  BY Prices
<1>4. InHand(of, m)[c] = 0
  BY <1>2, NotAtHand
<1>5. InHand(of, m)'[c] = Share(of, msg, m)
  BY <1>2 DEF InHand, Share, Price
<1> DEFINE P == Total(Message, InQueue(of, m))
           H == Total(Children, InHand(of, m))
<1>6. /\ IsFiniteSet(Area(Message, InQueue(of, m))')
      /\ P \in Nat /\ P' \in Nat /\ P' = P - Share(of, msg, m)
  BY <1>1, QueueEffects
<1>7. /\ IsFiniteSet(Area(Children, InHand(of, m))')
      /\ H \in Nat /\ H' = H - 0 + Share(of, msg, m)
  BY <1>1, <1>4, <1>5, HandEffects
<1>8. Load(of, m) = P + H /\ Load(of, m)' = P' + H'
  BY DEF Load
<1> HIDE DEF P, H
<1> QED BY <1>3, <1>6, <1>7, <1>8

\* ... ending a task with nothing queued ...
LEMMA EndLoads ==
  ASSUME TypeOK, TypeOK', Countable, NEW c \in Children, child[c].step = "run", End(c),
         queue' = queue, NEW m \in Mails, NEW of \in Counted
  PROVE  /\ IsFiniteSet(Area(Message, InQueue(of, m))')
         /\ IsFiniteSet(Area(Children, InHand(of, m))')
         /\ Load(of, m) \in Nat /\ Load(of, m)' \in Nat
         /\ Load(of, m)' = Load(of, m) - Share(of, child[c].message, m)
<1>1. child'[c].step # "run" /\ \A d \in Children \ {c} : child'[d] = child[d]
  BY DEF End, TypeOK
<1>2. InHand(of, m)[c] = Share(of, child[c].message, m)
  BY AtHand
<1>3. InHand(of, m)'[c] = 0
  BY <1>1, NotAtHand
<1> QED BY <1>1, <1>2, <1>3, QueueEffects, HandEffects DEF Load

\* ... or with the next message queued ...
LEMMA ReplaceLoads ==
  ASSUME TypeOK, TypeOK', Countable, NEW c \in Children, child[c].step = "run", End(c),
         NEW next \in Message, queue' = Queued(next), NEW m \in Mails, NEW of \in Counted
  PROVE  /\ IsFiniteSet(Area(Message, InQueue(of, m))')
         /\ IsFiniteSet(Area(Children, InHand(of, m))')
         /\ Load(of, m) \in Nat /\ Load(of, m)' \in Nat
         /\ Load(of, m)'
              = Load(of, m) - Share(of, child[c].message, m) + Share(of, next, m)
<1>1. child'[c].step # "run" /\ \A d \in Children \ {c} : child'[d] = child[d]
  BY DEF End, TypeOK
<1>2. InHand(of, m)[c] = Share(of, child[c].message, m)
  BY AtHand
<1>3. InHand(of, m)'[c] = 0
  BY <1>1, NotAtHand
<1>4. Share(of, next, m) \in Nat
  BY Prices
<1> QED BY <1>1, <1>2, <1>3, <1>4, QueueEffects, HandEffects DEF Load

\* ... and giving back a message a dead process held, for which it may have done its work.
LEMMA RedeliverLoads ==
  ASSUME TypeOK, TypeOK', Countable, NEW c \in Children, Redeliver(c),
         NEW m \in Mails, NEW of \in Counted
  PROVE  /\ IsFiniteSet(Area(Message, InQueue(of, m))')
         /\ IsFiniteSet(Area(Children, InHand(of, m))')
         /\ Load(of, m) \in Nat /\ Load(of, m)' \in Nat
         /\ Load(of, m)' <= Load(of, m) + Share(of, child[c].message, m)
<1>1. child'[c].step # "run" /\ \A d \in Children \ {c} : child'[d] = child[d]
  BY DEF Redeliver, TypeOK, Idle
<1>2. child[c].message \in Message /\ queue' = Queued(child[c].message)
  BY HeldIsMessage DEF Redeliver, TypeOK, Idle
<1>3. InHand(of, m)'[c] = 0
  BY <1>1, NotAtHand
<1>4. Share(of, child[c].message, m) \in Nat
  BY <1>2, Prices
<1> QED BY <1>1, <1>2, <1>3, <1>4, QueueEffects, HandEffects DEF Load

\* A step that leaves the queue alone, and no more than acknowledges, changes no load.
LEMMA IdleLoads ==
  ASSUME TypeOK, TypeOK', Countable, queue' = queue,
         child' = child \/ \E c \in Children : Acknowledge(c),
         NEW m \in Mails, NEW of \in Counted
  PROVE  /\ IsFiniteSet(Area(Message, InQueue(of, m))')
         /\ IsFiniteSet(Area(Children, InHand(of, m))')
         /\ Load(of, m) \in Nat
         /\ Load(of, m)' = Load(of, m)
<1>1. CASE child' = child
  <2>1. /\ IsFiniteSet(Area(Message, InQueue(of, m))')
        /\ Total(Message, InQueue(of, m)) \in Nat
        /\ Total(Message, InQueue(of, m))' = Total(Message, InQueue(of, m))
    BY QueueEffects
  <2>2. /\ IsFiniteSet(Area(Children, InHand(of, m))')
        /\ Total(Children, InHand(of, m)) \in Nat
        /\ Total(Children, InHand(of, m))' = Total(Children, InHand(of, m))
    BY <1>1, HandEffects
  <2> QED BY <2>1, <2>2 DEF Load
<1>2. ASSUME NEW c \in Children, Acknowledge(c)
      PROVE  /\ IsFiniteSet(Area(Message, InQueue(of, m))')
             /\ IsFiniteSet(Area(Children, InHand(of, m))')
             /\ Load(of, m) \in Nat
             /\ Load(of, m)' = Load(of, m)
  <2>1. /\ child[c].step # "run" /\ child'[c].step # "run"
        /\ \A d \in Children \ {c} : child'[d] = child[d]
    BY <1>2 DEF Acknowledge, TypeOK, Idle
  <2>2. InHand(of, m)[c] = 0 /\ InHand(of, m)'[c] = 0
    BY <2>1, NotAtHand
  <2> QED BY <2>1, <2>2, QueueEffects, HandEffects DEF Load
<1> QED BY <1>1, <1>2

-----------------------------------------------------------------------------
(***************************************************************************)
(* The invariant, and what it gives.                                       *)
(***************************************************************************)
\* The bound for one cause more, and for none.
LEMMA Bounds ==
  /\ \A n \in Nat : Bound(n) \in Nat /\ Bound(n + 1) = Bound(n) + (MaxRetries + 1)
  /\ Bound(0) = 0
BY MaxRetriesAssumption DEF Bound

\* The counts are numbers, and an e-mail has no cause but these.
LEMMA CausesAre ==
  ASSUME TypeOK, NEW m \in Mails
  PROVE  /\ sent[m] \in Nat /\ tries[m] \in Nat /\ doubted[m] \in Nat /\ Causes(m) \in Nat
         /\ m \in asked => Causes(m) = redelivered[m] + 1
         /\ m \notin asked => Causes(m) = redelivered[m]
         /\ redelivered[m] \in Nat
BY DEF TypeOK, Causes

\* An e-mail stays accounted for if what it is sent and still to be sent in a step grows by
\* no more than its causes and its doubts, and what it is tried and still to be tried by no
\* more than the bound.
LEMMA StaysAccounted ==
  ASSUME TypeOK, NEW m \in Mails, Accounted(m),
         NEW r \in {0, 1}, NEW s \in {0, 1}, NEW t \in {0, 1}, NEW d \in {0, 1},
         Load("mails", m) \in Nat, Load("tries", m) \in Nat,
         Load("mails", m)' \in Nat, Load("tries", m)' \in Nat,
         Causes(m)' = Causes(m) + r,
         sent'[m] = sent[m] + s, tries'[m] = tries[m] + t, doubted'[m] = doubted[m] + d,
         Load("mails", m)' + s <= Load("mails", m) + r + d,
         Load("tries", m)' + t <= Load("tries", m) + (IF r = 1 THEN MaxRetries + 1 ELSE 0)
  PROVE  Accounted(m)'
<1>1. /\ sent[m] + Load("mails", m) <= Causes(m) + doubted[m]
      /\ tries[m] + Load("tries", m) <= Bound(Causes(m))
  BY DEF Accounted
<1>2. sent[m] \in Nat /\ tries[m] \in Nat /\ doubted[m] \in Nat /\ Causes(m) \in Nat
  BY CausesAre
<1>3. Bound(Causes(m)) \in Nat /\ Bound(Causes(m) + 1) = Bound(Causes(m)) + (MaxRetries + 1)
  BY <1>2, Bounds
<1>4. sent'[m] + Load("mails", m)' <= Causes(m)' + doubted'[m]
  BY <1>1, <1>2
<1>5. tries'[m] + Load("tries", m)' <= Bound(Causes(m) + r)
  <2>1. CASE r = 0
    BY <1>1, <1>2, <1>3, <2>1
  <2>2. CASE r = 1
    BY <1>1, <1>2, <1>3, <2>2, MaxRetriesAssumption
  <2> QED BY <2>1, <2>2
<1>6. Bound(Causes(m))' = Bound(Causes(m) + r)
  BY DEF Bound
<1> QED BY <1>4, <1>5, <1>6 DEF Accounted

\* At first nothing is queued or run.
LEMMA InitLoads == Init => LoadInv
<1> SUFFICES ASSUME Init PROVE LoadInv
  OBVIOUS
<1>1. ASSUME NEW m \in Mails, NEW of \in Counted
      PROVE  /\ IsFiniteSet(Area(Message, InQueue(of, m)))
             /\ IsFiniteSet(Area(Children, InHand(of, m)))
             /\ Load(of, m) = 0
  <2>1. \A msg \in Message : InQueue(of, m)[msg] = 0
    <3>1. \A msg \in Message : queue[msg] = 0 /\ Price(of, msg) \in Nat
      BY Prices DEF Init
    <3> QED BY <3>1 DEF InQueue
  <2>2. \A c \in Children : InHand(of, m)[c] = 0
    BY NotAtHand DEF Init, Idle
  <2>3. IsFiniteSet(Area(Message, InQueue(of, m))) /\ Total(Message, InQueue(of, m)) = 0
    BY <2>1, TotalOfNone
  <2>4. IsFiniteSet(Area(Children, InHand(of, m))) /\ Total(Children, InHand(of, m)) = 0
    BY <2>2, TotalOfNone
  <2> QED BY <2>3, <2>4 DEF Load
<1>2. ASSUME NEW m \in Mails PROVE Accounted(m)
  <2>1. sent[m] = 0 /\ tries[m] = 0 /\ redelivered[m] = 0 /\ doubted[m] = 0 /\ m \notin asked
    BY DEF Init
  <2>2. Causes(m) = 0
    BY <2>1 DEF Causes
  <2>3. Bound(Causes(m)) = 0
    BY <2>2, Bounds
  <2> QED BY <1>1, <2>1, <2>2, <2>3 DEF Accounted, Counted
<1> QED BY <1>1, <1>2 DEF LoadInv, Countable

\* What a task or a delivery adds to the accounts of the e-mail of its message, and to no other.
LEMMA NextLoads ==
  ASSUME TypeOK, TypeOK', LoadInv, [Next]_vars
  PROVE  LoadInv'
<1> DEFINE Finite(m, of) ==
      /\ IsFiniteSet(Area(Message, InQueue(of, m)))
      /\ IsFiniteSet(Area(Children, InHand(of, m)))
<1> HIDE DEF Finite
<1> SUFFICES ASSUME NEW m \in Mails
             PROVE  Accounted(m)' /\ \A of \in Counted : Finite(m, of)'
  BY DEF LoadInv, Countable, Finite
<1>1. Countable /\ Accounted(m)
  BY DEF LoadInv
<1>2. /\ sent[m] \in Nat /\ tries[m] \in Nat /\ redelivered[m] \in Nat /\ doubted[m] \in Nat
      /\ Causes(m) \in Nat /\ "mails" \in Counted /\ "tries" \in Counted /\ MaxRetries \in Nat
  BY CausesAre, MaxRetriesAssumption DEF Counted
<1>3. ASSUME NEW n \in Mails, Ask(n) PROVE Accounted(m)' /\ \A of \in Counted : Finite(m, of)'
  <2> DEFINE r == IF n = m THEN 1 ELSE 0
  <2>1. \A of \in Counted : /\ Finite(m, of)' /\ Load(of, m) \in Nat
                            /\ Load(of, m)' = Load(of, m) + Share(of, Render(n), m)
    BY <1>1, <1>3, AskLoads DEF Finite
  <2>2. /\ Share("mails", Render(n), m) = r
        /\ Share("tries", Render(n), m) = IF r = 1 THEN MaxRetries + 1 ELSE 0
    BY MessagesAre, Prices, NextPrices DEF Share, Render
  <2>3. /\ sent'[m] = sent[m] + 0 /\ tries'[m] = tries[m] + 0 /\ doubted'[m] = doubted[m] + 0
        /\ Causes(m)' = Causes(m) + r
    BY <1>2, <1>3 DEF Ask, Causes
  <2>4. /\ Load("mails", m) \in Nat /\ Load("mails", m)' \in Nat
        /\ Load("tries", m) \in Nat /\ Load("tries", m)' \in Nat
        /\ Load("mails", m)' + 0 <= Load("mails", m) + r + 0
        /\ Load("tries", m)' + 0 <= Load("tries", m) + (IF r = 1 THEN MaxRetries + 1 ELSE 0)
    BY <1>2, <2>1, <2>2
  <2>5. r \in {0, 1} /\ 0 \in {0, 1}
    OBVIOUS
  <2> HIDE DEF r
  <2>6. Accounted(m)'
    BY <1>1, <2>3, <2>4, <2>5, StaysAccounted
  <2> QED BY <2>1, <2>6
<1>4. ASSUME \A of \in Counted :
               Finite(m, of)' /\ Load(of, m) \in Nat /\ Load(of, m)' = Load(of, m),
             sent' = sent, tries' = tries, doubted' = doubted, redelivered' = redelivered,
             asked' = asked
      PROVE  Accounted(m)' /\ \A of \in Counted : Finite(m, of)'
  <2>1. Causes(m)' = Causes(m)
    BY <1>4 DEF Causes
  <2>2. Bound(Causes(m))' = Bound(Causes(m))
    BY <2>1 DEF Bound
  <2>3. Load("mails", m)' = Load("mails", m) /\ Load("tries", m)' = Load("tries", m)
    BY <1>2, <1>4
  <2> QED BY <1>1, <1>4, <2>1, <2>2, <2>3 DEF Accounted
<1>5. ASSUME NEW c \in Children, NEW msg \in Message, Take(c, msg)
      PROVE  Accounted(m)' /\ \A of \in Counted : Finite(m, of)'
  <2>1. \A of \in Counted : Finite(m, of)' /\ Load(of, m) \in Nat /\ Load(of, m)' = Load(of, m)
    BY <1>1, <1>5, TakeLoads DEF Finite
  <2> QED BY <1>4, <1>5, <2>1 DEF Take
<1>6. ASSUME queue' = queue, child' = child \/ \E c \in Children : Acknowledge(c),
             sent' = sent, tries' = tries, doubted' = doubted, redelivered' = redelivered,
             asked' = asked
      PROVE  Accounted(m)' /\ \A of \in Counted : Finite(m, of)'
  <2>1. \A of \in Counted : Finite(m, of)' /\ Load(of, m) \in Nat /\ Load(of, m)' = Load(of, m)
    BY <1>1, <1>6, IdleLoads DEF Finite
  <2> QED BY <1>4, <1>6, <2>1
<1>7. ASSUME NEW c \in Children, RenderAndQueue(c)
      PROVE  Accounted(m)' /\ \A of \in Counted : Finite(m, of)'
  <2> DEFINE msg == child[c].message
             next == SendTask(msg.mail, 0)
  <2>1. /\ msg \in Message /\ msg.task = "render" /\ msg.mail \in Mails
        /\ next \in Message /\ next.mail = msg.mail
    BY <1>7, HeldIsMessage, MessagesAre, MaxRetriesAssumption DEF RenderAndQueue, Runs, SendTask
  <2>2. msg.retries = 0
    BY <2>1 DEF Message
  <2>3. \A of \in Counted : Share(of, next, m) = Share(of, msg, m) /\ Share(of, msg, m) \in Nat
    BY <2>1, <2>2, Prices DEF Share, Price, SendTask
  <2>4. child[c].step = "run" /\ End(c) /\ queue' = Queued(next)
    BY <1>7 DEF RenderAndQueue, Runs
  <2> HIDE DEF next
  <2>5. \A of \in Counted : /\ Finite(m, of)' /\ Load(of, m) \in Nat
                            /\ Load(of, m)' = Load(of, m) - Share(of, msg, m) + Share(of, next, m)
    BY <1>1, <2>1, <2>4, ReplaceLoads DEF Finite
  <2>6. \A of \in Counted : Finite(m, of)' /\ Load(of, m) \in Nat /\ Load(of, m)' = Load(of, m)
    BY <2>3, <2>5
  <2> QED BY <1>4, <1>7, <2>6 DEF RenderAndQueue
<1>8. ASSUME NEW c \in Children, NEW accepted \in BOOLEAN, Send(c) \/ GiveUp(c, accepted) \/ Drop(c)
      PROVE  Accounted(m)' /\ \A of \in Counted : Finite(m, of)'
  <2> DEFINE msg == child[c].message
  <2>1. /\ child[c].step = "run" /\ End(c) /\ queue' = queue
        /\ asked' = asked /\ redelivered' = redelivered /\ doubted' = doubted
    BY <1>8 DEF Send, GiveUp, Drop, Runs
  <2>2. msg \in Message
    BY <2>1, HeldIsMessage
  <2>3. \A of \in Counted : /\ Finite(m, of)' /\ Load(of, m) \in Nat /\ Load(of, m)' \in Nat
                            /\ Load(of, m)' = Load(of, m) - Share(of, msg, m)
    BY <1>1, <2>1, EndLoads DEF Finite
  <2>4. Causes(m)' = Causes(m) + 0 /\ doubted'[m] = doubted[m] + 0
    BY <1>2, <2>1 DEF Causes
  <2>5. CASE msg.mail # m
    <3>1. \A of \in Counted : Share(of, msg, m) = 0
      BY <2>5 DEF Share
    <3>2. sent'[m] = sent[m] /\ tries'[m] = tries[m]
      BY <1>8, <2>2, <2>5, MessagesAre DEF TypeOK, Send, GiveUp, Drop, Attempt
    <3>3. sent'[m] = sent[m] + 0 /\ tries'[m] = tries[m] + 0
      BY <1>2, <3>2
    <3>4. /\ Load("mails", m)' + 0 <= Load("mails", m) + 0 + 0
          /\ Load("tries", m)' + 0 <= Load("tries", m) + (IF 0 = 1 THEN MaxRetries + 1 ELSE 0)
      BY <1>2, <2>3, <3>1
    <3>5. Accounted(m)'
      BY <1>1, <1>2, <2>3, <2>4, <3>3, <3>4, StaysAccounted
    <3> QED BY <2>3, <3>5
  <2>6. CASE msg.mail = m
    <3>1. PICK s \in {0, 1}, t \in {0, 1} : sent'[m] = sent[m] + s /\ tries'[m] = tries[m] + t
      BY <1>2, <1>8, <2>6 DEF TypeOK, Send, GiveUp, Drop, Attempt
    <3>2. /\ Share("mails", msg, m) = 1
          /\ Share("tries", msg, m) \in Nat /\ Share("tries", msg, m) >= 1
      BY <1>2, <2>2, <2>6, Prices DEF Share
    <3>3. /\ Load("mails", m)' + s <= Load("mails", m) + 0 + 0
          /\ Load("tries", m)' + t <= Load("tries", m) + (IF 0 = 1 THEN MaxRetries + 1 ELSE 0)
      BY <1>2, <2>3, <3>2
    <3>4. Accounted(m)'
      BY <1>1, <1>2, <2>3, <2>4, <3>1, <3>3, StaysAccounted
    <3> QED BY <2>3, <3>4
  <2> QED BY <2>5, <2>6
<1>9. ASSUME NEW c \in Children, NEW accepted \in BOOLEAN, Retry(c, accepted)
      PROVE  Accounted(m)' /\ \A of \in Counted : Finite(m, of)'
  <2> DEFINE msg == child[c].message
             next == NextTry(msg)
  <2>1. /\ child[c].step = "run" /\ End(c) /\ queue' = Queued(next)
        /\ asked' = asked /\ redelivered' = redelivered /\ RetriesLeft(msg)
    BY <1>9 DEF Retry, Runs
  <2>2. msg \in Message /\ next \in Message /\ next.mail = msg.mail
    BY <2>1, HeldIsMessage, NextTryIsMessage
  <2>3. /\ Price("mails", next) = 1 /\ Price("mails", msg) = 1
        /\ Price("tries", next) = Price("tries", msg) - 1
        /\ Price("tries", msg) \in Nat
    BY <1>2, <2>1, <2>2, Prices, NextPrices
  <2> HIDE DEF next
  <2>4. \A of \in Counted : /\ Finite(m, of)' /\ Load(of, m) \in Nat /\ Load(of, m)' \in Nat
                            /\ Load(of, m)' = Load(of, m) - Share(of, msg, m) + Share(of, next, m)
    BY <1>1, <2>1, <2>2, ReplaceLoads DEF Finite
  <2>5. Causes(m)' = Causes(m) + 0
    BY <1>2, <2>1 DEF Causes
  <2>6. CASE msg.mail # m
    <3>1. \A of \in Counted : Share(of, msg, m) = 0 /\ Share(of, next, m) = 0
      BY <2>2, <2>6 DEF Share
    <3>2. sent'[m] = sent[m] /\ tries'[m] = tries[m] /\ doubted'[m] = doubted[m]
      BY <1>9, <2>2, <2>6, MessagesAre DEF TypeOK, Retry, Attempt
    <3>3. sent'[m] = sent[m] + 0 /\ tries'[m] = tries[m] + 0 /\ doubted'[m] = doubted[m] + 0
      BY <1>2, <3>2
    <3>4. /\ Load("mails", m)' + 0 <= Load("mails", m) + 0 + 0
          /\ Load("tries", m)' + 0 <= Load("tries", m) + (IF 0 = 1 THEN MaxRetries + 1 ELSE 0)
      BY <1>2, <2>4, <3>1
    <3>5. Accounted(m)'
      BY <1>1, <1>2, <2>4, <2>5, <3>3, <3>4, StaysAccounted
    <3> QED BY <2>4, <3>5
  <2>7. CASE msg.mail = m
    <3>1. PICK s \in {0, 1} : /\ sent'[m] = sent[m] + s /\ tries'[m] = tries[m] + 1
                              /\ doubted'[m] = doubted[m] + s
      <4>1. CASE accepted
        BY <1>2, <1>9, <2>7, <4>1 DEF TypeOK, Retry, Attempt
      <4>2. CASE ~ accepted
        BY <1>2, <1>9, <2>7, <4>2 DEF TypeOK, Retry, Attempt
      <4> QED BY <4>1, <4>2
    <3>2. /\ Share("mails", msg, m) = 1 /\ Share("mails", next, m) = 1
          /\ Share("tries", msg, m) \in Nat
          /\ Share("tries", next, m) = Share("tries", msg, m) - 1
      BY <2>2, <2>3, <2>7 DEF Share
    <3>3. /\ Load("mails", m)' + s <= Load("mails", m) + 0 + s
          /\ Load("tries", m)' + 1 <= Load("tries", m) + (IF 0 = 1 THEN MaxRetries + 1 ELSE 0)
      BY <1>2, <2>4, <3>2
    <3>4. Accounted(m)'
      BY <1>1, <1>2, <2>4, <2>5, <3>1, <3>3, StaysAccounted
    <3> QED BY <2>4, <3>4
  <2> QED BY <2>6, <2>7
<1>10. ASSUME NEW c \in Children, Redeliver(c)
      PROVE  Accounted(m)' /\ \A of \in Counted : Finite(m, of)'
  <2> DEFINE msg == child[c].message
             r == IF msg.mail = m THEN 1 ELSE 0
  <2>1. msg \in Message
    BY <1>10, HeldIsMessage DEF TypeOK, Redeliver, Idle
  <2>2. \A of \in Counted : /\ Finite(m, of)' /\ Load(of, m) \in Nat /\ Load(of, m)' \in Nat
                            /\ Load(of, m)' <= Load(of, m) + Share(of, msg, m)
    BY <1>1, <1>10, RedeliverLoads DEF Finite
  <2>3. Price("tries", msg) \in Nat /\ Price("tries", msg) <= MaxRetries + 1
    BY <1>2, <2>1, MessagesAre DEF Price
  <2>4. /\ Share("mails", msg, m) = r
        /\ Share("tries", msg, m) \in Nat
        /\ Share("tries", msg, m) <= IF r = 1 THEN MaxRetries + 1 ELSE 0
    BY <2>1, <2>3, Prices DEF Share
  <2>5. redelivered'[m] = redelivered[m] + r
    BY <1>2, <1>10, <2>1, MessagesAre DEF TypeOK, Redeliver
  <2>6. r \in {0, 1}
    OBVIOUS
  <2> HIDE DEF r
  <2>7. Causes(m)' = Causes(m) + r
    <3>1. asked' = asked
      BY <1>10 DEF Redeliver
    <3> QED BY <1>2, <2>5, <2>6, <3>1 DEF Causes
  <2>8. sent'[m] = sent[m] + 0 /\ tries'[m] = tries[m] + 0 /\ doubted'[m] = doubted[m] + 0
    BY <1>2, <1>10 DEF Redeliver
  <2>9. /\ Load("mails", m)' + 0 <= Load("mails", m) + r + 0
        /\ Load("tries", m)' + 0 <= Load("tries", m) + (IF r = 1 THEN MaxRetries + 1 ELSE 0)
    BY <1>2, <2>2, <2>4, <2>6
  <2>10. Accounted(m)'
    BY <1>1, <1>2, <2>2, <2>6, <2>7, <2>8, <2>9, StaysAccounted
  <2> QED BY <2>2, <2>10
<1>11. CASE (\E c \in Children : Acknowledge(c)) \/ Die \/ Restart \/ UNCHANGED vars
  BY <1>6, <1>11 DEF Acknowledge, Die, Restart, vars
<1> QED
  BY <1>3, <1>5, <1>7, <1>8, <1>9, <1>10, <1>11 DEF Next, Work

\* Every e-mail is accounted for, always.
LEMMA AlwaysAccounted == Spec => []LoadInv
<1> QED BY InitTypes, NextTypes, InitLoads, NextLoads, PTL DEF Spec

\* The loads are counted, and no less than nothing.
LEMMA LoadsAre ==
  ASSUME LoadInv, NEW m \in Mails
  PROVE  Load("mails", m) \in Nat /\ Load("tries", m) \in Nat
<1>1. /\ "mails" \in Counted /\ "tries" \in Counted
  BY DEF Counted
<1>2. \A of \in Counted : /\ Total(Message, InQueue(of, m)) \in Nat
                          /\ Total(Children, InHand(of, m)) \in Nat
  BY FS_CardinalityType DEF LoadInv, Countable, Total
<1> QED BY <1>1, <1>2 DEF Load

\* Being asked for is one cause.
LEMMA CausesAreFew ==
  ASSUME TypeOK, NEW m \in Mails
  PROVE  Causes(m) <= 1 + redelivered[m] /\ Bound(Causes(m)) <= Bound(1 + redelivered[m])
<1>1. redelivered[m] \in Nat /\ MaxRetries \in Nat
  BY MaxRetriesAssumption DEF TypeOK
<1>2. Causes(m) = redelivered[m] \/ Causes(m) = redelivered[m] + 1
  BY <1>1 DEF Causes
<1>3. /\ Bound(redelivered[m] + 1) = Bound(redelivered[m]) + (MaxRetries + 1)
      /\ Bound(redelivered[m]) \in Nat
  BY <1>1, Bounds
<1> QED BY <1>1, <1>2, <1>3

\* No e-mail arrives without a cause (apps/notifications/tasks.py): for any number of e-mails,
\* processes, retries and deaths of the worker, it arrives once, and once more at most for
\* each message that was delivered again and each failure after the server had taken it.
THEOREM DuplicatesAreCaused == Spec => []DuplicatesHaveCause
<1>1. ASSUME TypeOK, LoadInv PROVE DuplicatesHaveCause
  <2>1. ASSUME NEW m \in Mails PROVE sent[m] <= 1 + redelivered[m] + doubted[m]
    <3>1. sent[m] + Load("mails", m) <= Causes(m) + doubted[m]
      BY <1>1 DEF LoadInv, Accounted
    <3>2. redelivered[m] \in Nat /\ doubted[m] \in Nat /\ sent[m] \in Nat /\ Causes(m) \in Nat
      BY <1>1, CausesAre
    <3>3. Causes(m) <= 1 + redelivered[m] /\ Load("mails", m) \in Nat
      BY <1>1, CausesAreFew, LoadsAre
    <3> QED BY <3>1, <3>2, <3>3
  <2> QED BY <2>1, Zenon DEF DuplicatesHaveCause
<1> QED BY <1>1, TypeCorrect, AlwaysAccounted, PTL

\* Retries end (apps/notifications/tasks.py, send_email_task's max_retries): an e-mail is tried
\* max_retries times and once, and as often again at most for each message that was delivered
\* again, although every delivery may leave a chain of retries of its own behind.
THEOREM TriesStayBounded == Spec => []TriesAreBounded
<1>1. ASSUME TypeOK, LoadInv PROVE TriesAreBounded
  <2>1. ASSUME NEW m \in Mails PROVE tries[m] <= (MaxRetries + 1) * (1 + redelivered[m])
    <3>1. tries[m] + Load("tries", m) <= Bound(Causes(m))
      BY <1>1 DEF LoadInv, Accounted
    <3>2. tries[m] \in Nat /\ redelivered[m] \in Nat /\ Causes(m) \in Nat
      BY <1>1, CausesAre
    <3>3. Bound(Causes(m)) \in Nat /\ Bound(1 + redelivered[m]) \in Nat
      BY <3>2, Bounds
    <3>4. Bound(Causes(m)) <= Bound(1 + redelivered[m]) /\ Load("tries", m) \in Nat
      BY <1>1, CausesAreFew, LoadsAre
    <3>5. tries[m] <= Bound(1 + redelivered[m])
      BY <3>1, <3>2, <3>3, <3>4
    <3> QED BY <3>5 DEF Bound
  <2> QED BY <2>1, Zenon DEF TriesAreBounded
<1> QED BY <1>1, TypeCorrect, AlwaysAccounted, PTL
=============================================================================
