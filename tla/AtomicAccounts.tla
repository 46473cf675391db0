-------------------------- MODULE AtomicAccounts ---------------------------
(***************************************************************************)
(* What the account services promise.  A mailbox has at most one account;  *)
(* its password and its verification change in one step, only by           *)
(* what the customer asked for, and a token does its work once.            *)
(***************************************************************************)
CONSTANTS Mailboxes, Tokens, Passwords, None

VARIABLES
  account,  \* [Mailboxes -> Account \cup {None}]
  issue     \* [Tokens -> Issue], what became of each token

Account == [password : Passwords, verified : BOOLEAN]

\* A token is for one purpose and one mailbox; it is spent once it is used or has
\* expired.
Issue ==
  [state : {"fresh", "open", "spent"}, kind : {"verify", "reset", "refresh", None},
   mailbox : Mailboxes \cup {None}]

Fresh == [state |-> "fresh", kind |-> None, mailbox |-> None]

Init ==
  /\ account = [m \in Mailboxes |-> None]
  /\ issue = [t \in Tokens |-> Fresh]

Open(t, kind, m) ==
  /\ issue[t] = Fresh
  /\ issue' = [issue EXCEPT ![t] = [state |-> "open", kind |-> kind, mailbox |-> m]]

Spend(t) ==
  /\ issue[t].state = "open"
  /\ issue' = [issue EXCEPT ![t].state = "spent"]

Register(m, p, t) ==
  /\ account[m] = None
  /\ account' = [account EXCEPT ![m] = [password |-> p, verified |-> FALSE]]
  /\ Open(t, "verify", m)

RequestReset(m, t) ==
  /\ account[m] # None
  /\ Open(t, "reset", m)
  /\ UNCHANGED account

VerifyEmail(t) ==
  /\ issue[t].kind = "verify"
  /\ account' = [account EXCEPT ![issue[t].mailbox].verified = TRUE]
  /\ Spend(t)

ResetPassword(t, p) ==
  /\ issue[t].kind = "reset"
  /\ account' = [account EXCEPT ![issue[t].mailbox].password = p]
  /\ Spend(t)

\* Also a logout, and a use that fails half-way.
Expire(t) == Spend(t) /\ UNCHANGED account

Login(m, t) ==
  /\ account[m] # None
  /\ Open(t, "refresh", m)
  /\ UNCHANGED account

\* A session goes on with a new token; the old one is spent, or its blacklisting failed.
Rotate(old, new) ==
  /\ issue[old].state = "open" /\ issue[old].kind = "refresh"
  /\ issue[new] = Fresh
  /\ \E s \in {"open", "spent"} :
       issue' = [issue EXCEPT ![old].state = s, ![new] = [issue[old] EXCEPT !.state = "open"]]
  /\ UNCHANGED account

ChangePassword(m, p) ==
  /\ account[m] # None
  /\ account' = [account EXCEPT ![m].password = p]
  /\ UNCHANGED issue

Next ==
  \/ \E m \in Mailboxes, p \in Passwords : ChangePassword(m, p)
  \/ \E m \in Mailboxes, p \in Passwords, t \in Tokens : Register(m, p, t)
  \/ \E m \in Mailboxes, t \in Tokens : RequestReset(m, t) \/ Login(m, t)
  \/ \E t, new \in Tokens : Rotate(t, new)
  \/ \E t \in Tokens : VerifyEmail(t) \/ Expire(t) \/ \E p \in Passwords : ResetPassword(t, p)

Spec == Init /\ [][Next]_<<account, issue>>
=============================================================================
