------------------------------ MODULE Accounts ------------------------------
(***************************************************************************)
(* Registration, e-mail verification, password reset and change, the       *)
(* profile, and the refresh tokens of sessions, each as the reads and the  *)
(* commit of its request.  A request is                                    *)
(* served by a worker under READ COMMITTED; where a transaction only       *)
(* writes after its last read, its writes and its commit are one step.     *)
(* An e-mail is queued before the commit of the token it carries.  The     *)
(* session requests have no transaction: each of their writes commits.     *)
(***************************************************************************)
CONSTANTS
  Emails,    \* addresses as people type them
  Lower,     \* [Emails -> Emails], an address in lower case
  Users,     \* ids of user rows: a bound
  Tokens,    \* the tokens that can be generated: a bound
  Passwords,
  Workers,   \* one worker makes the requests serial
  None

ASSUME LowerIsIdempotent ==
  Lower \in [Emails -> Emails] /\ \A e \in Emails : Lower[Lower[e]] = Lower[e]
ASSUME NoneIsNew == None \notin Emails \cup Users \cup Tokens \cup Passwords

VARIABLES
  user,   \* [Users -> UserRow]; of e-mail None: no row
  token,  \* [Tokens -> TokenRow], the tables of tokens; of user None: no row
  sent,   \* the tokens handed to Celery, which the customers receive
  job     \* [Workers -> Job], the request each worker serves

vars == <<user, token, sent, job>>

UserRow ==
  [email : Emails \cup {None}, password : Passwords \cup {None}, verified : BOOLEAN]
TokenRow ==
  [kind : {"verify", "reset", "refresh"}, user : Users \cup {None}, used : BOOLEAN, expired : BOOLEAN]

NoUser == [email |-> None, password |-> None, verified |-> FALSE]
NoToken == [kind |-> "verify", user |-> None, used |-> FALSE, expired |-> FALSE]

\* `row` is the instance of the user the request has read or will insert.
Job ==
  [op : {"none", "register", "request", "verify", "reset", "change", "profile",
         "login", "refresh", "logout"},
   step : {"idle", "check", "create", "issue", "commit", "blacklist", "mint"},
   user : Users \cup {None}, token : Tokens \cup {None},
   password : Passwords \cup {None}, row : UserRow]

Idle ==
  [op |-> "none", step |-> "idle", user |-> None, token |-> None, password |-> None,
   row |-> NoUser]

\* Rows that exist are whole, and a token is of a user that exists.
TypeOK ==
  /\ user \in [Users -> UserRow]
  /\ token \in [Tokens -> TokenRow]
  /\ sent \subseteq Tokens
  /\ job \in [Workers -> Job]
  /\ \A u \in Users : user[u] = NoUser \/ (user[u].email # None /\ user[u].password # None)
  /\ \A t \in Tokens : token[t].user # None => user[token[t].user] # NoUser

Init ==
  /\ user = [u \in Users |-> NoUser]
  /\ token = [t \in Tokens |-> NoToken]
  /\ sent = {}
  /\ job = [w \in Workers |-> Idle]

\* User.objects.filter(email__iexact=e).
UsersOf(e) == {u \in Users : user[u] # NoUser /\ Lower[user[u].email] = Lower[e]}

\* Ids and tokens nobody has used: a token is 32 random bytes.
FreshUsers == {u \in Users : user[u] = NoUser /\ \A w \in Workers : job[w].user # u}
FreshTokens ==
  {t \in Tokens \ sent : token[t].user = None /\ \A w \in Workers : job[w].token # t}

Become(w, j) == job' = [job EXCEPT ![w] = j]

Finish(w) == Become(w, Idle)

-----------------------------------------------------------------------------
(***************************************************************************)
(* Registration.                                                           *)
(***************************************************************************)
\* A mutant of StoredEmail: the address is stored as it was typed.
EmailAsTyped(e) == e

StoredEmail(e) == Lower[e]

\* RegisterSerializer.validate_email, before the transaction.
ValidateEmail(w, e, p) ==
  /\ job[w] = Idle
  /\ UsersOf(e) = {}
  /\ Become(w, [Idle EXCEPT !.op = "register", !.step = "check",
       !.row = [email |-> StoredEmail(e), password |-> p, verified |-> FALSE]])
  /\ UNCHANGED <<user, token, sent>>

\* email_exists, in the service.
CheckEmail(w) ==
  /\ job[w].step = "check"
  /\ UsersOf(job[w].row.email) = {}
  /\ Become(w, [job[w] EXCEPT !.step = "create"])
  /\ UNCHANGED <<user, token, sent>>

\* The INSERT: the unique index on email refuses an address that is committed, and
\* waits for a transaction that has inserted it and is still open.
CreateUser(w, u) ==
  /\ job[w].step = "create"
  /\ u \in FreshUsers
  /\ \A v \in Users : user[v].email # job[w].row.email
  /\ \A x \in Workers \ {w} : job[x].op = "register" /\ job[x].user # None =>
       job[x].row.email # job[w].row.email
  /\ Become(w, [job[w] EXCEPT !.step = "issue", !.user = u])
  /\ UNCHANGED <<user, token, sent>>

-----------------------------------------------------------------------------
(***************************************************************************)
(* Issuing a token: for the verification, and in request_reset.            *)
(***************************************************************************)
RequestReset(w, e) ==
  /\ job[w] = Idle
  /\ \E u \in UsersOf(e) :
       Become(w, [Idle EXCEPT !.op = "request", !.step = "issue", !.user = u])
  /\ UNCHANGED <<user, token, sent>>

\* A mutant of QueueEmail: the task is never queued.
ForgetEmail(w, t) ==
  /\ job[w].step = "issue"
  /\ t \in FreshTokens
  /\ Become(w, [job[w] EXCEPT !.step = "commit", !.token = t])
  /\ UNCHANGED <<user, token, sent>>

\* The token's INSERT, and send_..._email.delay.
QueueEmail(w, t) ==
  /\ job[w].step = "issue"
  /\ t \in FreshTokens
  /\ sent' = sent \cup {t}
  /\ Become(w, [job[w] EXCEPT !.step = "commit", !.token = t])
  /\ UNCHANGED <<user, token>>

Issued(j) ==
  [kind |-> CASE j.op = "register" -> "verify"
              [] j.op = "request" -> "reset"
              [] j.op \in {"login", "refresh"} -> "refresh",
   user |-> j.user, used |-> FALSE, expired |-> FALSE]

CommitIssue(w) ==
  LET j == job[w] IN
  /\ j.step = "commit"
  /\ j.op \in {"register", "request"}
  /\ token' = [token EXCEPT ![j.token] = Issued(j)]
  /\ user' = IF j.op = "register" THEN [user EXCEPT ![j.user] = j.row] ELSE user
  /\ Finish(w)
  /\ UNCHANGED sent

-----------------------------------------------------------------------------
(***************************************************************************)
(* Using a token: verify_email and reset_password.                         *)
(***************************************************************************)
\* A mutant of Usable: a reset does not look at used_at.
UsableOnceMore(t) ==
  /\ token[t].user # None
  /\ token[t].kind = "verify" => ~ token[t].used
  /\ ~ token[t].expired

Usable(t) ==
  /\ token[t].user # None
  /\ ~ token[t].used
  /\ ~ token[t].expired

ReadToken(w, t, p) ==
  /\ job[w] = Idle
  /\ t \in sent
  /\ Usable(t)
  /\ token[t].kind = "verify" <=> p = None
  /\ Become(w, [Idle EXCEPT !.op = token[t].kind, !.step = "commit", !.token = t,
       !.user = token[t].user, !.password = p])
  /\ UNCHANGED <<user, token, sent>>

\* A mutant of Spent: used_at is not set.
StillUnused(t) == token[t]

Spent(t) == [token[t] EXCEPT !.used = TRUE]

\* user.save(update_fields=...), then token.save(update_fields=["used_at"]).
CommitUse(w) ==
  LET j == job[w] IN
  /\ j.step = "commit"
  /\ \/ j.op = "verify" /\ user' = [user EXCEPT ![j.user].verified = TRUE]
     \/ j.op = "reset" /\ user' = [user EXCEPT ![j.user].password = j.password]
  /\ token' = [token EXCEPT ![j.token] = Spent(j.token)]
  /\ Finish(w)
  /\ UNCHANGED sent

-----------------------------------------------------------------------------
(***************************************************************************)
(* Requests of a user who is logged in: request.user is read when the      *)
(* request is authenticated.                                               *)
(***************************************************************************)
\* ChangePasswordView, by a client that knows the password.
ReadPassword(w, u, p) ==
  /\ job[w] = Idle
  /\ user[u] # NoUser
  /\ Become(w, [Idle EXCEPT !.op = "change", !.step = "commit", !.user = u, !.password = p])
  /\ UNCHANGED <<user, token, sent>>

SavePassword(w) ==
  LET j == job[w] IN
  /\ j.step = "commit" /\ j.op = "change"
  /\ user' = [user EXCEPT ![j.user].password = j.password]
  /\ Finish(w)
  /\ UNCHANGED <<token, sent>>

\* ProfileView.patch: the names, which are left out, are set on request.user.
ReadProfile(w, u) ==
  /\ job[w] = Idle
  /\ user[u] # NoUser
  /\ Become(w, [Idle EXCEPT !.op = "profile", !.step = "commit", !.user = u, !.row = user[u]])
  /\ UNCHANGED <<user, token, sent>>

\* serializer.save() saves every column.
SaveProfile(w) ==
  LET j == job[w] IN
  /\ j.step = "commit" /\ j.op = "profile"
  /\ user' = [user EXCEPT ![j.user] = j.row]
  /\ Finish(w)
  /\ UNCHANGED <<token, sent>>

-----------------------------------------------------------------------------
(***************************************************************************)
(* Sessions: a refresh token that is blacklisted counts as used.  Access   *)
(* tokens leave no trace.                                                  *)
(***************************************************************************)
\* By a client that knows the password.
Login(w, u) ==
  /\ job[w] = Idle
  /\ user[u] # NoUser
  /\ Become(w, [Idle EXCEPT !.op = "login", !.step = "mint", !.user = u])
  /\ UNCHANGED <<user, token, sent>>

\* RefreshToken(...), which verifies it, for a rotation or a logout.
ReadRefresh(w, t) ==
  /\ job[w] = Idle
  /\ token[t].kind = "refresh"
  /\ Usable(t)
  /\ \E op \in {"refresh", "logout"} :
       Become(w, [Idle EXCEPT !.op = op, !.step = "blacklist", !.token = t,
         !.user = token[t].user])
  /\ UNCHANGED <<user, token, sent>>

Blacklist(w) ==
  LET j == job[w] IN
  /\ j.step = "blacklist"
  /\ token' = [token EXCEPT ![j.token] = Spent(j.token)]
  /\ IF j.op = "logout" THEN Finish(w) ELSE Become(w, [j EXCEPT !.step = "mint"])
  /\ UNCHANGED <<user, sent>>

\* "except Exception: pass": the rotation goes on, and the old token stays.
BlacklistFails(w) ==
  /\ job[w].step = "blacklist"
  /\ job[w].op = "refresh"
  /\ Become(w, [job[w] EXCEPT !.step = "mint"])
  /\ UNCHANGED <<user, token, sent>>

\* RefreshToken.for_user.
Mint(w, t) ==
  /\ job[w].step = "mint"
  /\ t \in FreshTokens
  /\ token' = [token EXCEPT ![t] = Issued(job[w])]
  /\ Finish(w)
  /\ UNCHANGED <<user, sent>>

-----------------------------------------------------------------------------
\* An error response, a constraint of the database or a process that dies: the
\* transaction is rolled back, and what was queued, or blacklisted, stays so.
Fail(w) ==
  /\ job[w] # Idle
  /\ Finish(w)
  /\ UNCHANGED <<user, token, sent>>

Expire(t) ==
  /\ token[t].user # None
  /\ ~ token[t].expired
  /\ token' = [token EXCEPT ![t].expired = TRUE]
  /\ UNCHANGED <<user, sent, job>>

Next ==
  \/ \E w \in Workers :
       \/ \E e \in Emails : RequestReset(w, e) \/ \E p \in Passwords : ValidateEmail(w, e, p)
       \/ CheckEmail(w)
       \/ \E u \in Users : CreateUser(w, u) \/ ReadProfile(w, u) \/ Login(w, u)
       \/ \E u \in Users, p \in Passwords : ReadPassword(w, u, p)
       \/ \E t \in Tokens : ReadRefresh(w, t) \/ Mint(w, t)
       \/ \E t \in Tokens : QueueEmail(w, t) \/ \E p \in Passwords \cup {None} : ReadToken(w, t, p)
       \/ Blacklist(w) \/ BlacklistFails(w)
       \/ CommitIssue(w) \/ CommitUse(w) \/ SavePassword(w) \/ SaveProfile(w)
       \/ Fail(w)
  \/ \E t \in Tokens : Expire(t)

Spec == Init /\ [][Next]_vars

-----------------------------------------------------------------------------
(***************************************************************************)
(* Properties.                                                             *)
(***************************************************************************)
\* "An account with this email already exists.": whatever the case it is typed in and
\* however registrations race, an address has one account.
OneAccountPerAddress == \A e \in Emails : \A u, v \in UsersOf(e) : u = v

\* Verified is what a token of the user's own, sent to them, has made them.
VerifiedByToken ==
  \A u \in Users : user[u].verified =>
    \E t \in sent : token[t].user = u /\ token[t].kind = "verify" /\ token[t].used

\* Nobody registers without being sent the token they need.
EveryoneWasSentAToken ==
  \A u \in Users : user[u] # NoUser =>
    \E t \in sent : token[t].user = u /\ token[t].kind = "verify"

\* "Single-use token for password reset" (apps/accounts/models.py): one that has set a
\* password sets no other.
ResetTokensWorkOnce ==
  [][\A w \in Workers : CommitUse(w) /\ job[w].op = "reset" => ~ token[job[w].token].used]_vars

\* Serial requests implement AtomicAccounts.  A mailbox's account is the row with its
\* address; a token is open while it is neither used nor expired, or a request has
\* found it so.
Mailboxes == {Lower[e] : e \in Emails}
AccountOf(m) ==
  IF UsersOf(m) = {}
  THEN None
  ELSE LET u == CHOOSE u \in UsersOf(m) : TRUE
       IN [password |-> user[u].password, verified |-> user[u].verified]
IsOpen(t) ==
  \/ ~ token[t].used /\ ~ token[t].expired
  \/ \E w \in Workers : job[w].token = t /\ job[w].op \in {"verify", "reset", "refresh", "logout"}
IssueOf(t) ==
  IF token[t].user = None
  THEN [state |-> "fresh", kind |-> None, mailbox |-> None]
  ELSE [state |-> IF IsOpen(t) THEN "open" ELSE "spent", kind |-> token[t].kind,
        mailbox |-> Lower[user[token[t].user].email]]
Atomic == INSTANCE AtomicAccounts
  WITH account <- [m \in Mailboxes |-> AccountOf(m)], issue <- [t \in Tokens |-> IssueOf(t)]
AtomicSpec == Atomic!Spec
=============================================================================
