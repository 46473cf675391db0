--------------------------- MODULE AccountProofs ---------------------------
(***************************************************************************)
(* Proofs about Accounts, for any addresses, users, tokens, passwords and  *)
(* workers: racing registrations leave one account per address, and who is *)
(* verified has used a token that was sent; served one at a time, requests *)
(* implement AtomicAccounts.                                               *)
(***************************************************************************)
EXTENDS SerialAccounts, TLAPS

-----------------------------------------------------------------------------
(***************************************************************************)
(* The inductive invariant: what each request knows, and that two of them  *)
(* never insert the same row.                                              *)
(***************************************************************************)
\* A token that was sent to u has verified u.
HasVerified(u) == \E t \in sent : token[t].user = u /\ token[t].kind = "verify" /\ token[t].used

\* w has inserted a user row, or is about to be the first to write one with its token.
Inserting(w) == job[w].op = "register" /\ job[w].step \in {"issue", "commit"}
Issuing(w) == job[w].op \in {"register", "request"} /\ job[w].step = "commit"

\* The addresses that are stored are in lower case.
Stored(row) == row.email \in Emails /\ Lower[row.email] = row.email /\ row.password \in Passwords

\* Which requests have which steps.
StepOK(j) ==
  /\ j.step \in {"check", "create"} => j.op = "register"
  /\ j.step = "issue" => j.op \in {"register", "request"}
  /\ j.step = "blacklist" => j.op \in {"refresh", "logout"}
  /\ j.step = "mint" => j.op \in {"login", "refresh"}
  /\ j.op \in {"reset", "change"} => j.password \in Passwords

JobOK(w) ==
  /\ StepOK(job[w])
  /\ job[w].op = "register" => Stored(job[w].row) /\ ~ job[w].row.verified
  /\ Inserting(w) =>
       /\ job[w].user \in Users
       /\ user[job[w].user] = NoUser
       /\ \A v \in Users : user[v].email # job[w].row.email
  /\ Issuing(w) => job[w].token \in sent /\ token[job[w].token].user = None
  /\ job[w].op \notin {"none", "register"} => job[w].user \in Users /\ user[job[w].user] # NoUser
  /\ job[w].op = "verify" =>
       /\ job[w].token \in sent
       /\ token[job[w].token].user = job[w].user
       /\ token[job[w].token].kind = "verify"
  /\ job[w].op = "profile" =>
       /\ job[w].row.email = user[job[w].user].email
       /\ Stored(job[w].row)
       /\ job[w].row.verified => HasVerified(job[w].user)

Apart(v, w) ==
  /\ Inserting(v) /\ Inserting(w) =>
       job[v].user # job[w].user /\ job[v].row.email # job[w].row.email
  /\ Issuing(v) /\ Issuing(w) => job[v].token # job[w].token

\* The rows of users: whole, in lower case, and each address once.
UsersOK ==
  /\ \A u \in Users : user[u] # NoUser => Stored(user[u])
  /\ \A u, v \in Users : user[u] # NoUser /\ user[v] # NoUser /\ user[u].email = user[v].email => u = v

IInv ==
  /\ TypeOK
  /\ UsersOK
  /\ VerifiedByToken
  /\ EveryoneWasSentAToken
  /\ \A w \in Workers : JobOK(w)
  /\ \A v, w \in Workers : v # w => Apart(v, w)

LEMMA InitIInv == Init => IInv
<1> SUFFICES ASSUME Init PROVE IInv
  OBVIOUS
<1>1. TypeOK
  BY NoneIsNew DEF Init, TypeOK, UserRow, TokenRow, Job, NoUser, NoToken, Idle
<1>2. UsersOK /\ VerifiedByToken /\ EveryoneWasSentAToken
  BY DEF Init, UsersOK, VerifiedByToken, EveryoneWasSentAToken, NoUser
<1>3. \A w \in Workers : job[w] = Idle
  BY DEF Init
<1>4. \A w \in Workers : JobOK(w)
  BY <1>3 DEF JobOK, StepOK, Inserting, Issuing, Idle
<1>5. \A v, w \in Workers : v # w => Apart(v, w)
  BY <1>3 DEF Apart, Inserting, Issuing, Idle
<1> QED BY <1>1, <1>2, <1>4, <1>5 DEF IInv

-----------------------------------------------------------------------------
(***************************************************************************)
(* Rows only grow: an account keeps its address, and a token its user, its *)
(* kind and its use.                                                       *)
(***************************************************************************)
RowsGrow ==
  /\ sent \subseteq sent'
  /\ \A u \in Users : user[u] # NoUser => user'[u] # NoUser /\ user'[u].email = user[u].email
  /\ \A t \in Tokens : token[t].user # None =>
       /\ token'[t].user = token[t].user
       /\ token'[t].kind = token[t].kind
       /\ token[t].used => token'[t].used

LEMMA VerifiedStays ==
  ASSUME TypeOK, RowsGrow, NEW u \in Users, HasVerified(u)
  PROVE  HasVerified(u)'
BY NoneIsNew DEF HasVerified, RowsGrow, TypeOK

\* What a request knows stays true while others write, if what it is about to insert is
\* left alone.
LEMMA OthersKnow ==
  ASSUME TypeOK, RowsGrow, NEW w \in Workers, JobOK(w), job'[w] = job[w],
         Inserting(w) => /\ user'[job[w].user] = NoUser
                         /\ \A v \in Users : user'[v].email # job[w].row.email,
         Issuing(w) => token'[job[w].token].user = None
  PROVE  JobOK(w)'
<1>1. StepOK(job'[w])
  BY DEF JobOK
<1>2. (Inserting(w)' <=> Inserting(w)) /\ (Issuing(w)' <=> Issuing(w))
  BY DEF Inserting, Issuing
<1>3. job[w].op \notin {"none", "register"} => user'[job[w].user] # NoUser
  BY DEF JobOK, RowsGrow
<1>4. job[w].op = "verify" => /\ job[w].token \in sent'
                              /\ token'[job[w].token].user = job[w].user
                              /\ token'[job[w].token].kind = "verify"
  BY NoneIsNew DEF JobOK, RowsGrow, TypeOK
<1>5. job[w].op = "profile" => /\ job[w].row.email = user'[job[w].user].email
                               /\ job[w].row.verified => HasVerified(job[w].user)'
  <2> SUFFICES ASSUME job[w].op = "profile", NEW u, u = job[w].user
               PROVE  /\ job[w].row.email = user'[u].email
                      /\ job[w].row.verified => HasVerified(u)'
    BY DEF HasVerified
  <2>1. u \in Users /\ user[u] # NoUser /\ job[w].row.email = user[u].email
        /\ (job[w].row.verified => HasVerified(u))
    BY DEF JobOK
  <2> QED BY <2>1, VerifiedStays DEF RowsGrow
<1>6. Issuing(w) => job[w].token \in sent'
  BY DEF JobOK, RowsGrow
<1> QED BY <1>1, <1>2, <1>3, <1>4, <1>5, <1>6 DEF JobOK, Stored, HasVerified

-----------------------------------------------------------------------------
(***************************************************************************)
(* Steps that change no row.                                               *)
(***************************************************************************)
LEMMA RequestMoves ==
  ASSUME IInv, NEW w \in Workers, NEW j \in Job, Become(w, j), UNCHANGED <<user, token>>,
         sent \subseteq sent', sent' \subseteq Tokens, JobOK(w)',
         \A v \in Workers \ {w} : Apart(v, w)' /\ Apart(w, v)'
  PROVE  IInv'
<1>1. job' = [job EXCEPT ![w] = j] /\ job \in [Workers -> Job]
  BY DEF Become, IInv, TypeOK
<1>2. RowsGrow
  BY DEF RowsGrow
<1>3. TypeOK'
  BY <1>1 DEF IInv, TypeOK
<1>4. UsersOK' /\ VerifiedByToken' /\ EveryoneWasSentAToken'
  BY DEF IInv, UsersOK, VerifiedByToken, EveryoneWasSentAToken
<1>5. ASSUME NEW v \in Workers PROVE JobOK(v)'
  <2>1. CASE v # w
    <3>1. job'[v] = job[v]
      BY <1>1, <2>1
    <3> QED BY <1>2, <3>1, OthersKnow DEF IInv, JobOK
  <2> QED BY <2>1
<1>6. ASSUME NEW v \in Workers, NEW x \in Workers, v # x PROVE Apart(v, x)'
  <2>1. CASE v # w /\ x # w
    <3>1. job'[v] = job[v] /\ job'[x] = job[x]
      BY <1>1, <2>1
    <3> QED BY <1>6, <3>1 DEF IInv, Apart, Inserting, Issuing
  <2> QED BY <1>6, <2>1
<1> QED BY <1>3, <1>4, <1>5, <1>6 DEF IInv

\* A request that inserts nothing is apart from every other.
LEMMA QuietApart ==
  ASSUME NEW w, ~ Inserting(w), ~ Issuing(w), NEW v
  PROVE  Apart(v, w) /\ Apart(w, v)
BY DEF Apart

\* A request that reads, and will insert nothing at its next statement.
LEMMA ReaderMoves ==
  ASSUME IInv, NEW w \in Workers, NEW j \in Job, Become(w, j), UNCHANGED <<user, token, sent>>,
         JobOK(w)',
         ~ (j.op = "register" /\ j.step \in {"issue", "commit"}),
         ~ (j.op \in {"register", "request"} /\ j.step = "commit")
  PROVE  IInv'
<1>1. job'[w] = j
  BY DEF Become, IInv, TypeOK
<1>2. (~ Inserting(w))' /\ (~ Issuing(w))'
  BY <1>1 DEF Inserting, Issuing
<1>3. \A v \in Workers \ {w} : Apart(v, w)' /\ Apart(w, v)'
  BY <1>2 DEF Apart
<1>4. sent \subseteq sent' /\ sent' \subseteq Tokens
  BY DEF IInv, TypeOK
<1> QED BY <1>3, <1>4, RequestMoves

LEMMA IdleJob ==
  /\ Idle \in Job
  /\ Idle.op = "none" /\ Idle.step = "idle"
BY DEF Idle, Job, NoUser, UserRow

LEMMA ValidateEmailKeeps ==
  ASSUME IInv, NEW w \in Workers, NEW e \in Emails, NEW p \in Passwords, ValidateEmail(w, e, p)
  PROVE  IInv'
<1> DEFINE row == [email |-> StoredEmail(e), password |-> p, verified |-> FALSE]
           j == [Idle EXCEPT !.op = "register", !.step = "check", !.row = row]
<1>1. row \in UserRow /\ Stored(row) /\ ~ row.verified
  BY LowerIsIdempotent DEF StoredEmail, UserRow, Stored
<1>2. j \in Job /\ j.op = "register" /\ j.step = "check" /\ j.row = row
  BY <1>1, IdleJob DEF Job, Idle
<1>3. Become(w, j) /\ UNCHANGED <<user, token, sent>>
  BY DEF ValidateEmail
<1>4. job'[w] = j
  BY <1>3 DEF Become, IInv, TypeOK
<1> HIDE DEF j, row
<1>5. JobOK(w)'
  BY <1>1, <1>2, <1>4 DEF JobOK, StepOK, Inserting, Issuing, Stored
<1> QED BY <1>2, <1>3, <1>5, ReaderMoves

LEMMA CheckEmailKeeps ==
  ASSUME IInv, NEW w \in Workers, CheckEmail(w)
  PROVE  IInv'
<1> DEFINE j == [job[w] EXCEPT !.step = "create"]
<1>1. job[w] \in Job /\ job[w].op = "register" /\ JobOK(w)
  BY DEF IInv, TypeOK, CheckEmail, JobOK, StepOK
<1>2. j \in Job /\ j.op = "register" /\ j.step = "create" /\ j.row = job[w].row
  BY <1>1 DEF Job
<1>3. Become(w, j) /\ UNCHANGED <<user, token, sent>>
  BY DEF CheckEmail
<1>4. job'[w] = j
  BY <1>3 DEF Become, IInv, TypeOK
<1> HIDE DEF j
<1>5. JobOK(w)'
  BY <1>1, <1>2, <1>4 DEF JobOK, StepOK, Inserting, Issuing, Stored
<1> QED BY <1>2, <1>3, <1>5, ReaderMoves

\* The unique index and the fresh id keep a row that is inserted apart from all others.
LEMMA CreateUserKeeps ==
  ASSUME IInv, NEW w \in Workers, NEW u \in Users, CreateUser(w, u)
  PROVE  IInv'
<1> DEFINE j == [job[w] EXCEPT !.step = "issue", !.user = u]
<1>1. job[w] \in Job /\ job[w].op = "register" /\ JobOK(w)
  BY DEF IInv, TypeOK, CreateUser, JobOK, StepOK
<1>2. j \in Job /\ j.op = "register" /\ j.step = "issue" /\ j.row = job[w].row /\ j.user = u
  BY <1>1 DEF Job
<1>3. Become(w, j) /\ UNCHANGED <<user, token, sent>>
  BY DEF CreateUser
<1>4. \A v \in Workers : job'[v] = IF v = w THEN j ELSE job[v]
  BY <1>3 DEF Become, IInv, TypeOK
<1> HIDE DEF j
<1>5. user[u] = NoUser /\ \A v \in Users : user[v].email # job[w].row.email
  BY DEF CreateUser, FreshUsers
<1>6. JobOK(w)'
  BY <1>1, <1>2, <1>3, <1>4, <1>5 DEF JobOK, StepOK, Inserting, Issuing, Stored
<1>7. ASSUME NEW v \in Workers \ {w} PROVE Apart(v, w)' /\ Apart(w, v)'
  <2>1. Inserting(v) => job[v].user # u /\ job[v].row.email # job[w].row.email
    <3>1. Inserting(v) => job[v].op = "register" /\ job[v].user # None
      BY NoneIsNew DEF IInv, JobOK, Inserting
    <3> QED BY <3>1 DEF CreateUser, FreshUsers
  <2>2. (~ Issuing(w))'
    BY <1>2, <1>4 DEF Issuing
  <2>3. Inserting(v)' <=> Inserting(v)
    BY <1>4 DEF Inserting
  <2> QED BY <1>2, <1>4, <2>1, <2>2, <2>3 DEF Apart
<1>8. sent \subseteq sent' /\ sent' \subseteq Tokens
  BY <1>3 DEF IInv, TypeOK
<1> QED BY <1>2, <1>3, <1>6, <1>7, <1>8, RequestMoves

\* The token is new to every table and every request.
LEMMA QueueEmailKeeps ==
  ASSUME IInv, NEW w \in Workers, NEW t \in Tokens, QueueEmail(w, t)
  PROVE  IInv'
<1> DEFINE j == [job[w] EXCEPT !.step = "commit", !.token = t]
<1>1. job[w] \in Job /\ job[w].step = "issue" /\ job[w].op \in {"register", "request"} /\ JobOK(w)
  BY DEF IInv, TypeOK, QueueEmail, JobOK, StepOK
<1>2. /\ j \in Job /\ j.op = job[w].op /\ j.step = "commit" /\ j.row = job[w].row
      /\ j.user = job[w].user /\ j.token = t
  BY <1>1 DEF Job
<1>3. Become(w, j) /\ UNCHANGED <<user, token>> /\ sent' = sent \cup {t}
  BY DEF QueueEmail
<1>4. \A v \in Workers : job'[v] = IF v = w THEN j ELSE job[v]
  BY <1>3 DEF Become, IInv, TypeOK
<1> HIDE DEF j
<1>5. token[t].user = None /\ \A v \in Workers : job[v].token # t
  BY DEF QueueEmail, FreshTokens
<1>6. JobOK(w)'
  BY <1>1, <1>2, <1>3, <1>4, <1>5 DEF JobOK, StepOK, Inserting, Issuing, Stored
<1>7. ASSUME NEW v \in Workers \ {w} PROVE Apart(v, w)' /\ Apart(w, v)'
  <2>1. Apart(v, w) /\ Apart(w, v)
    BY DEF IInv
  <2>2. Inserting(w)' <=> Inserting(w)
    BY <1>1, <1>2, <1>4 DEF Inserting
  <2>3. (Inserting(v)' <=> Inserting(v)) /\ (Issuing(v)' <=> Issuing(v))
    BY <1>4 DEF Inserting, Issuing
  <2> QED BY <1>2, <1>4, <1>5, <2>1, <2>2, <2>3 DEF Apart
<1>8. sent \subseteq sent' /\ sent' \subseteq Tokens
  BY <1>3 DEF IInv, TypeOK
<1> QED BY <1>2, <1>3, <1>6, <1>7, <1>8, RequestMoves

\* A request about an account that exists, which has read it and writes no new row next.
LEMMA ReadAccountKeeps ==
  ASSUME IInv, NEW w \in Workers, NEW j \in Job, Become(w, j), UNCHANGED <<user, token, sent>>,
         StepOK(j), j.user \in Users, user[j.user] # NoUser,
         j.op \notin {"none", "register", "verify", "profile"},
         j.op = "request" => j.step = "issue"
  PROVE  IInv'
<1>1. job'[w] = j
  BY DEF Become, IInv, TypeOK
<1>2. JobOK(w)'
  BY <1>1 DEF JobOK, Inserting, Issuing
<1> QED BY <1>2, ReaderMoves

LEMMA RequestResetKeeps ==
  ASSUME IInv, NEW w \in Workers, NEW e \in Emails, RequestReset(w, e)
  PROVE  IInv'
<1>1. PICK u \in UsersOf(e) :
        Become(w, [Idle EXCEPT !.op = "request", !.step = "issue", !.user = u])
  BY DEF RequestReset
<1>2. u \in Users /\ user[u] # NoUser
  BY DEF UsersOf
<1> DEFINE j == [Idle EXCEPT !.op = "request", !.step = "issue", !.user = u]
<1>3. j \in Job /\ j.op = "request" /\ j.step = "issue" /\ j.user = u
  BY <1>2, IdleJob DEF Job, Idle
<1>4. Become(w, j) /\ UNCHANGED <<user, token, sent>>
  BY <1>1 DEF RequestReset
<1> HIDE DEF j
<1>5. StepOK(j)
  BY <1>3 DEF StepOK
<1> QED BY <1>2, <1>3, <1>4, <1>5, ReadAccountKeeps

LEMMA ReadTokenKeeps ==
  ASSUME IInv, NEW w \in Workers, NEW t \in Tokens, NEW p \in Passwords \cup {None},
         ReadToken(w, t, p)
  PROVE  IInv'
<1> DEFINE j == [Idle EXCEPT !.op = token[t].kind, !.step = "commit", !.token = t,
                             !.user = token[t].user, !.password = p]
<1>1. /\ token[t].kind \in {"verify", "reset", "refresh"}
      /\ token[t].user \in Users
      /\ user[token[t].user] # NoUser
      /\ t \in sent
      /\ token[t].kind # "verify" => p \in Passwords
  BY DEF IInv, TypeOK, TokenRow, ReadToken, Usable
<1>2. /\ j \in Job /\ j.op = token[t].kind /\ j.step = "commit" /\ j.token = t
      /\ j.user = token[t].user /\ j.password = p
  BY <1>1, IdleJob DEF Job, Idle
<1>3. Become(w, j) /\ UNCHANGED <<user, token, sent>>
  BY DEF ReadToken
<1>4. job'[w] = j
  BY <1>3 DEF Become, IInv, TypeOK
<1> HIDE DEF j
<1>5. JobOK(w)'
  BY <1>1, <1>2, <1>3, <1>4 DEF JobOK, StepOK, Inserting, Issuing
<1> QED BY <1>1, <1>2, <1>3, <1>5, ReaderMoves

LEMMA ReadPasswordKeeps ==
  ASSUME IInv, NEW w \in Workers, NEW u \in Users, NEW p \in Passwords, ReadPassword(w, u, p)
  PROVE  IInv'
<1> DEFINE j == [Idle EXCEPT !.op = "change", !.step = "commit", !.user = u, !.password = p]
<1>1. j \in Job /\ j.op = "change" /\ j.step = "commit" /\ j.user = u /\ j.password = p
  BY IdleJob DEF Job, Idle
<1>2. Become(w, j) /\ UNCHANGED <<user, token, sent>> /\ user[u] # NoUser
  BY DEF ReadPassword
<1> HIDE DEF j
<1>3. StepOK(j)
  BY <1>1 DEF StepOK
<1> QED BY <1>1, <1>2, <1>3, ReadAccountKeeps

\* What a profile update has read of its user was true, and the address stays.
LEMMA ReadProfileKeeps ==
  ASSUME IInv, NEW w \in Workers, NEW u \in Users, ReadProfile(w, u)
  PROVE  IInv'
<1> DEFINE j == [Idle EXCEPT !.op = "profile", !.step = "commit", !.user = u, !.row = user[u]]
<1>1. user[u] # NoUser /\ user[u] \in UserRow /\ Stored(user[u])
      /\ (user[u].verified => HasVerified(u))
  BY DEF ReadProfile, IInv, TypeOK, UsersOK, VerifiedByToken, HasVerified
<1>2. j \in Job /\ j.op = "profile" /\ j.step = "commit" /\ j.user = u /\ j.row = user[u]
  BY <1>1, IdleJob DEF Job, Idle
<1>3. Become(w, j) /\ UNCHANGED <<user, token, sent>>
  BY DEF ReadProfile
<1>4. job'[w] = j
  BY <1>3 DEF Become, IInv, TypeOK
<1> HIDE DEF j
<1>5. JobOK(w)'
  BY <1>1, <1>2, <1>3, <1>4 DEF JobOK, StepOK, Inserting, Issuing, Stored, HasVerified
<1> QED BY <1>2, <1>3, <1>5, ReaderMoves

LEMMA LoginKeeps ==
  ASSUME IInv, NEW w \in Workers, NEW u \in Users, Login(w, u)
  PROVE  IInv'
<1> DEFINE j == [Idle EXCEPT !.op = "login", !.step = "mint", !.user = u]
<1>1. j \in Job /\ j.op = "login" /\ j.step = "mint" /\ j.user = u
  BY IdleJob DEF Job, Idle
<1>2. Become(w, j) /\ UNCHANGED <<user, token, sent>> /\ user[u] # NoUser
  BY DEF Login
<1> HIDE DEF j
<1>3. StepOK(j)
  BY <1>1 DEF StepOK
<1> QED BY <1>1, <1>2, <1>3, ReadAccountKeeps

LEMMA ReadRefreshKeeps ==
  ASSUME IInv, NEW w \in Workers, NEW t \in Tokens, ReadRefresh(w, t)
  PROVE  IInv'
<1>1. PICK op \in {"refresh", "logout"} :
        Become(w, [Idle EXCEPT !.op = op, !.step = "blacklist", !.token = t, !.user = token[t].user])
  BY DEF ReadRefresh
<1> DEFINE j == [Idle EXCEPT !.op = op, !.step = "blacklist", !.token = t, !.user = token[t].user]
<1>2. token[t].user \in Users /\ user[token[t].user] # NoUser
  BY DEF IInv, TypeOK, TokenRow, ReadRefresh, Usable
<1>3. j \in Job /\ j.op = op /\ j.step = "blacklist" /\ j.user = token[t].user
  BY <1>2, IdleJob DEF Job, Idle
<1>4. Become(w, j) /\ UNCHANGED <<user, token, sent>>
  BY <1>1 DEF ReadRefresh
<1> HIDE DEF j
<1>5. StepOK(j)
  BY <1>3 DEF StepOK
<1> QED BY <1>2, <1>3, <1>4, <1>5, ReadAccountKeeps

LEMMA BlacklistFailsKeeps ==
  ASSUME IInv, NEW w \in Workers, BlacklistFails(w)
  PROVE  IInv'
<1> DEFINE j == [job[w] EXCEPT !.step = "mint"]
<1>1. job[w] \in Job /\ job[w].op = "refresh" /\ JobOK(w)
  BY DEF IInv, TypeOK, BlacklistFails
<1>2. j \in Job /\ j.op = "refresh" /\ j.step = "mint" /\ j.user = job[w].user
  BY <1>1 DEF Job
<1>3. Become(w, j) /\ UNCHANGED <<user, token, sent>>
  BY DEF BlacklistFails
<1> HIDE DEF j
<1>4. StepOK(j)
  BY <1>2 DEF StepOK
<1> QED BY <1>1, <1>2, <1>3, <1>4, ReadAccountKeeps DEF JobOK

LEMMA IdleOK ==
  ASSUME NEW w, job[w] = Idle
  PROVE  JobOK(w) /\ ~ Inserting(w) /\ ~ Issuing(w)
BY IdleJob DEF JobOK, StepOK, Inserting, Issuing

LEMMA FailKeeps ==
  ASSUME IInv, NEW w \in Workers, Fail(w)
  PROVE  IInv'
<1>1. job'[w] = Idle /\ Become(w, Idle) /\ UNCHANGED <<user, token, sent>>
  BY DEF Fail, Finish, Become, IInv, TypeOK
<1>2. JobOK(w)'
  BY <1>1, IdleJob DEF JobOK, StepOK, Inserting, Issuing
<1> QED BY <1>1, <1>2, IdleJob, ReaderMoves

-----------------------------------------------------------------------------
(***************************************************************************)
(* Steps that write.                                                       *)
(***************************************************************************)
\* A request ends with a write of rows that only grow, and no other request was about to
\* insert what it wrote.
LEMMA WriteKeeps ==
  ASSUME IInv, NEW w \in Workers, NEW j \in Job, Become(w, j), RowsGrow, sent' = sent,
         JobOK(w)',
         j = Idle \/ j.op = "refresh",
         user' \in [Users -> UserRow], token' \in [Tokens -> TokenRow],
         UsersOK', VerifiedByToken', EveryoneWasSentAToken',
         \A t \in Tokens : token'[t].user # None => user'[token'[t].user] # NoUser,
         \A v \in Workers \ {w} :
           /\ Inserting(v) => /\ user'[job[v].user] = NoUser
                              /\ \A u \in Users : user'[u].email # job[v].row.email
           /\ Issuing(v) => token'[job[v].token].user = None
  PROVE  IInv'
<1>1. \A v \in Workers : job'[v] = IF v = w THEN j ELSE job[v]
  BY DEF Become, IInv, TypeOK
<1>2. TypeOK'
  <2>1. job' \in [Workers -> Job]
    BY DEF Become, IInv, TypeOK
  <2>2. \A u \in Users : user'[u] = NoUser \/ (user'[u].email # None /\ user'[u].password # None)
    BY NoneIsNew DEF UsersOK, Stored
  <2> QED BY <2>1, <2>2 DEF IInv, TypeOK
<1>3. ASSUME NEW v \in Workers \ {w} PROVE JobOK(v)'
  <2>1. JobOK(v) /\ job'[v] = job[v] /\ TypeOK
    BY <1>1 DEF IInv
  <2> QED BY <2>1, OthersKnow
<1>4. ASSUME NEW v \in Workers, NEW x \in Workers, v # x PROVE Apart(v, x)'
  <2>1. CASE v # w /\ x # w
    <3>1. job'[v] = job[v] /\ job'[x] = job[x] /\ Apart(v, x)
      BY <1>1, <1>4, <2>1 DEF IInv
    <3> QED BY <3>1 DEF Apart, Inserting, Issuing
  <2>2. CASE v = w \/ x = w
    <3>1. j.op \notin {"register", "request"}
      BY IdleJob
    <3> QED BY <1>1, <2>2, <3>1 DEF Apart, Inserting, Issuing
  <2> QED BY <2>1, <2>2
<1> QED BY <1>2, <1>3, <1>4 DEF IInv

\* A write to rows that exist.
RowsUpdated ==
  /\ RowsGrow
  /\ sent' = sent
  /\ user' \in [Users -> UserRow] /\ token' \in [Tokens -> TokenRow]
  /\ \A u \in Users :
       /\ user[u] = NoUser => user'[u] = NoUser
       /\ user[u] # NoUser => user'[u].password \in Passwords
       /\ user'[u].verified => user[u].verified \/ HasVerified(u)'
  /\ \A t \in Tokens : token[t].user = None => token'[t].user = None

LEMMA UpdateKeepsRows ==
  ASSUME IInv, RowsUpdated
  PROVE  /\ UsersOK' /\ VerifiedByToken' /\ EveryoneWasSentAToken'
         /\ \A t \in Tokens : token'[t].user # None => user'[token'[t].user] # NoUser
         /\ \A v \in Workers :
              /\ Inserting(v) => /\ user'[job[v].user] = NoUser
                                 /\ \A u \in Users : user'[u].email # job[v].row.email
              /\ Issuing(v) => token'[job[v].token].user = None
<1>1. UsersOK'
  <2>1. \A u \in Users : user'[u] # NoUser =>
          user[u] # NoUser /\ user'[u].email = user[u].email /\ user'[u].password \in Passwords
    BY DEF RowsUpdated, RowsGrow
  <2> QED BY <2>1 DEF IInv, UsersOK, Stored
<1>2. VerifiedByToken'
  <2> SUFFICES ASSUME NEW u \in Users, user'[u].verified PROVE HasVerified(u)'
    BY DEF VerifiedByToken, HasVerified
  <2>1. CASE user[u].verified
    <3>1. HasVerified(u)
      BY <2>1 DEF IInv, VerifiedByToken, HasVerified
    <3> QED BY <3>1, VerifiedStays DEF IInv, RowsUpdated
  <2> QED BY <2>1 DEF RowsUpdated
<1>3. EveryoneWasSentAToken'
  <2> SUFFICES ASSUME NEW u \in Users, user'[u] # NoUser
               PROVE  \E t \in sent' : token'[t].user = u /\ token'[t].kind = "verify"
    BY DEF EveryoneWasSentAToken
  <2>1. PICK t \in sent : token[t].user = u /\ token[t].kind = "verify"
    BY DEF RowsUpdated, IInv, EveryoneWasSentAToken
  <2> QED BY <2>1, NoneIsNew DEF RowsUpdated, RowsGrow, IInv, TypeOK
<1>4. ASSUME NEW t \in Tokens, token'[t].user # None PROVE user'[token'[t].user] # NoUser
  <2>1. token[t].user # None /\ token'[t].user = token[t].user
    BY <1>4 DEF RowsUpdated, RowsGrow
  <2>2. token[t].user \in Users /\ user[token[t].user] # NoUser
    BY <2>1 DEF IInv, TypeOK, TokenRow
  <2> QED BY <2>1, <2>2 DEF RowsUpdated, RowsGrow
<1>5. ASSUME NEW v \in Workers, Inserting(v)
      PROVE  user'[job[v].user] = NoUser /\ \A u \in Users : user'[u].email # job[v].row.email
  <2>1. /\ job[v].user \in Users /\ user[job[v].user] = NoUser
        /\ \A u \in Users : user[u].email # job[v].row.email
    BY <1>5 DEF IInv, JobOK
  <2>2. \A u \in Users : user'[u].email = user[u].email
    BY DEF RowsUpdated, RowsGrow
  <2> QED BY <2>1, <2>2 DEF RowsUpdated
<1>6. ASSUME NEW v \in Workers, Issuing(v) PROVE token'[job[v].token].user = None
  BY <1>6 DEF IInv, JobOK, RowsUpdated, TypeOK
<1> QED BY <1>1, <1>2, <1>3, <1>4, <1>5, <1>6

LEMMA FinishKeeps ==
  ASSUME IInv, NEW w \in Workers, Finish(w), RowsUpdated
  PROVE  IInv'
<1>1. job'[w] = Idle /\ Become(w, Idle)
  BY DEF Finish, Become, IInv, TypeOK
<1>2. JobOK(w)'
  BY <1>1, IdleJob DEF JobOK, StepOK, Inserting, Issuing
<1> QED BY <1>1, <1>2, IdleJob, UpdateKeepsRows, WriteKeeps DEF RowsUpdated

\* Setting used: what Spent does to a row.
LEMMA SpentRow ==
  ASSUME TypeOK, NEW t \in Tokens
  PROVE  /\ Spent(t) \in TokenRow
         /\ Spent(t).user = token[t].user /\ Spent(t).kind = token[t].kind /\ Spent(t).used
BY DEF Spent, TypeOK, TokenRow

\* Tokens that are spent, or not, and users that are not written.
LEMMA SpendingUpdates ==
  ASSUME TypeOK, NEW t \in Tokens \cup {None}, token' = [token EXCEPT ![t] = Spent(t)]
  PROVE  /\ token' \in [Tokens -> TokenRow]
         /\ \A x \in Tokens : token'[x].user = token[x].user /\ token'[x].kind = token[x].kind
                              /\ (token[x].used => token'[x].used)
         /\ t \in Tokens => token'[t].used
<1>1. CASE t \in Tokens
  BY <1>1, SpentRow DEF TypeOK
<1>2. CASE t \notin Tokens
  BY <1>2 DEF TypeOK
<1> QED BY <1>1, <1>2

\* Writing a column of an account that exists, other than its address.
LEMMA UserWritten ==
  ASSUME IInv, NEW u \in Users, user[u] # NoUser, NEW row \in UserRow, Stored(row),
         row.email = user[u].email, user' = [user EXCEPT ![u] = row],
         row.verified => user[u].verified \/ HasVerified(u)',
         token' \in [Tokens -> TokenRow], sent' = sent,
         \A x \in Tokens : token'[x].user = token[x].user /\ token'[x].kind = token[x].kind
                           /\ (token[x].used => token'[x].used)
  PROVE  RowsUpdated
<1>1. user \in [Users -> UserRow] /\ row # NoUser
  BY NoneIsNew DEF IInv, TypeOK, Stored, NoUser
<1>2. \A v \in Users : user'[v] = IF v = u THEN row ELSE user[v]
  BY <1>1
<1>3. user' \in [Users -> UserRow]
  BY <1>1
<1>4. RowsGrow
  BY <1>1, <1>2 DEF RowsGrow
<1>5. ASSUME NEW v \in Users
      PROVE  /\ user[v] = NoUser => user'[v] = NoUser
             /\ user[v] # NoUser => user'[v].password \in Passwords
             /\ user'[v].verified => user[v].verified \/ HasVerified(v)'
  <2>1. CASE v = u
    <3>1. user'[v] = row /\ user[v] # NoUser
      BY <1>2, <2>1
    <3> QED BY <2>1, <3>1 DEF Stored
  <2>2. CASE v # u
    <3>1. user'[v] = user[v]
      BY <1>2, <2>2
    <3> QED BY <3>1 DEF IInv, UsersOK, Stored
  <2> QED BY <2>1, <2>2
<1> QED BY <1>3, <1>4, <1>5 DEF RowsUpdated

\* The rows a password, and a verification, leave behind.
LEMMA ColumnWritten ==
  ASSUME IInv, NEW u \in Users, user[u] # NoUser
  PROVE  /\ \A p \in Passwords :
              LET row == [user[u] EXCEPT !.password = p]
              IN  row \in UserRow /\ Stored(row) /\ row.email = user[u].email
                  /\ row.verified = user[u].verified
         /\ LET row == [user[u] EXCEPT !.verified = TRUE]
            IN  row \in UserRow /\ Stored(row) /\ row.email = user[u].email
<1>1. user[u] \in UserRow /\ Stored(user[u])
  BY DEF IInv, TypeOK, UsersOK
<1> QED BY <1>1 DEF UserRow, Stored

LEMMA CommitUseKeeps ==
  ASSUME IInv, NEW w \in Workers, CommitUse(w)
  PROVE  IInv'
<1> SUFFICES ASSUME NEW j, j = job[w]
             PROVE  IInv'
  OBVIOUS
<1>1. /\ j.op \in {"verify", "reset"}
      /\ j.token \in Tokens \cup {None}
      /\ j.user \in Users /\ user[j.user] # NoUser
      /\ Finish(w) /\ sent' = sent
      /\ token' = [token EXCEPT ![j.token] = Spent(j.token)]
  BY DEF CommitUse, IInv, JobOK, TypeOK, Job
<1>2. /\ token' \in [Tokens -> TokenRow]
      /\ \A x \in Tokens : token'[x].user = token[x].user /\ token'[x].kind = token[x].kind
                           /\ (token[x].used => token'[x].used)
      /\ j.token \in Tokens => token'[j.token].used
  BY <1>1, SpendingUpdates DEF IInv
<1>3. CASE j.op = "verify"
  <2>1. j.token \in sent /\ token[j.token].user = j.user /\ token[j.token].kind = "verify"
    BY <1>3 DEF IInv, JobOK
  <2>2. HasVerified(j.user)'
    <3> SUFFICES ASSUME NEW u, u = j.user PROVE HasVerified(u)'
      BY DEF HasVerified
    <3> QED BY <1>1, <1>2, <2>1 DEF HasVerified, IInv, TypeOK
  <2>3. user' = [user EXCEPT ![j.user] = [user[j.user] EXCEPT !.verified = TRUE]]
    BY <1>3, <1>1 DEF CommitUse, IInv, TypeOK
  <2>4. RowsUpdated
    BY <1>1, <1>2, <2>2, <2>3, ColumnWritten, UserWritten
  <2> QED BY <1>1, <2>4, FinishKeeps
<1>4. CASE j.op = "reset"
  <2>1. j.password \in Passwords
    BY <1>4 DEF IInv, JobOK, StepOK
  <2>2. user' = [user EXCEPT ![j.user] = [user[j.user] EXCEPT !.password = j.password]]
    BY <1>4, <1>1 DEF CommitUse, IInv, TypeOK
  <2>3. RowsUpdated
    BY <1>1, <1>2, <2>1, <2>2, ColumnWritten, UserWritten
  <2> QED BY <1>1, <2>3, FinishKeeps
<1> QED BY <1>1, <1>3, <1>4

LEMMA SavePasswordKeeps ==
  ASSUME IInv, NEW w \in Workers, SavePassword(w)
  PROVE  IInv'
<1> SUFFICES ASSUME NEW j, j = job[w]
             PROVE  IInv'
  OBVIOUS
<1>1. /\ j.password \in Passwords /\ j.user \in Users /\ user[j.user] # NoUser
      /\ Finish(w) /\ UNCHANGED <<token, sent>>
      /\ user' = [user EXCEPT ![j.user] = [user[j.user] EXCEPT !.password = j.password]]
  BY DEF SavePassword, IInv, JobOK, StepOK, TypeOK
<1>2. token' \in [Tokens -> TokenRow]
  BY <1>1 DEF IInv, TypeOK
<1>3. RowsUpdated
  BY <1>1, <1>2, ColumnWritten, UserWritten
<1> QED BY <1>1, <1>3, FinishKeeps

\* The stale row has the account's address, and was verified by a token if it was.
LEMMA SaveProfileKeeps ==
  ASSUME IInv, NEW w \in Workers, SaveProfile(w)
  PROVE  IInv'
<1> SUFFICES ASSUME NEW j, j = job[w]
             PROVE  IInv'
  OBVIOUS
<1>1. /\ j.user \in Users /\ user[j.user] # NoUser
      /\ j.row \in UserRow /\ Stored(j.row) /\ j.row.email = user[j.user].email
      /\ j.row.verified => HasVerified(j.user)
      /\ Finish(w) /\ UNCHANGED <<token, sent>>
      /\ user' = [user EXCEPT ![j.user] = j.row]
  <2>1. JobOK(w) /\ j \in Job /\ j.op = "profile"
    BY DEF SaveProfile, IInv, TypeOK
  <2>2. j.row \in UserRow
    BY <2>1 DEF Job
  <2> QED BY <2>1, <2>2 DEF SaveProfile, JobOK
<1>2. token' \in [Tokens -> TokenRow]
  BY <1>1 DEF IInv, TypeOK
<1>3. j.row.verified => HasVerified(j.user)'
  <2> SUFFICES ASSUME NEW u, u = j.user, j.row.verified PROVE HasVerified(u)'
    BY DEF HasVerified
  <2> QED BY <1>1 DEF HasVerified
<1>4. RowsUpdated
  BY <1>1, <1>2, <1>3, UserWritten
<1> QED BY <1>1, <1>4, FinishKeeps

LEMMA TokensWritten ==
  ASSUME IInv, UNCHANGED <<user, sent>>, token' \in [Tokens -> TokenRow],
         \A x \in Tokens : token'[x].user = token[x].user /\ token'[x].kind = token[x].kind
                           /\ (token[x].used => token'[x].used)
  PROVE  RowsUpdated
BY DEF RowsUpdated, RowsGrow, IInv, TypeOK, UsersOK, Stored

LEMMA BlacklistKeeps ==
  ASSUME IInv, NEW w \in Workers, Blacklist(w)
  PROVE  IInv'
<1> SUFFICES ASSUME NEW j, j = job[w]
             PROVE  IInv'
  OBVIOUS
<1>1. /\ j \in Job /\ JobOK(w) /\ j.op \in {"refresh", "logout"}
      /\ j.token \in Tokens \cup {None}
      /\ UNCHANGED <<user, sent>>
      /\ token' = [token EXCEPT ![j.token] = Spent(j.token)]
  BY DEF Blacklist, IInv, JobOK, StepOK, TypeOK, Job
<1>2. RowsUpdated
  BY <1>1, SpendingUpdates, TokensWritten DEF IInv
<1>3. CASE j.op = "logout"
  BY <1>2, <1>3, FinishKeeps DEF Blacklist
<1>4. CASE j.op = "refresh"
  <2> DEFINE k == [j EXCEPT !.step = "mint"]
  <2>1. k \in Job /\ k.op = "refresh" /\ k.step = "mint" /\ k.user = j.user
    BY <1>1, <1>4 DEF Job
  <2>2. Become(w, k)
    BY <1>4 DEF Blacklist
  <2>3. job'[w] = k
    BY <2>2 DEF Become, IInv, TypeOK
  <2> HIDE DEF k
  <2>4. k.user \in Users /\ user'[k.user] # NoUser
    BY <1>1, <1>4, <2>1 DEF JobOK
  <2>5. JobOK(w)'
    BY <2>1, <2>3, <2>4 DEF JobOK, StepOK, Inserting, Issuing
  <2> QED BY <1>2, <2>1, <2>2, <2>5, UpdateKeepsRows, WriteKeeps DEF RowsUpdated
<1> QED BY <1>1, <1>3, <1>4

LEMMA ExpireKeeps ==
  ASSUME IInv, NEW t \in Tokens, Expire(t)
  PROVE  IInv'
<1>1. UNCHANGED <<user, sent, job>> /\ token' \in [Tokens -> TokenRow]
      /\ \A x \in Tokens : token'[x].user = token[x].user /\ token'[x].kind = token[x].kind
                           /\ (token[x].used => token'[x].used)
  BY DEF Expire, IInv, TypeOK, TokenRow
<1>2. RowsUpdated
  BY <1>1, TokensWritten
<1>3. UsersOK' /\ VerifiedByToken' /\ EveryoneWasSentAToken'
  BY <1>2, UpdateKeepsRows
<1>4. TypeOK'
  BY <1>1 DEF IInv, TypeOK
<1>5. ASSUME NEW v \in Workers PROVE JobOK(v)'
  BY <1>1, <1>2, UpdateKeepsRows, OthersKnow DEF IInv, RowsUpdated
<1>6. \A v, x \in Workers : v # x => Apart(v, x)'
  BY <1>1 DEF IInv, Apart, Inserting, Issuing
<1> QED BY <1>3, <1>4, <1>5, <1>6 DEF IInv

-----------------------------------------------------------------------------
(***************************************************************************)
(* Steps that insert.                                                      *)
(***************************************************************************)
\* A token's row, for an account that exists then.
LEMMA TokenInserted ==
  ASSUME TypeOK, NEW t \in Tokens, token[t].user = None, NEW row \in TokenRow,
         token' = [token EXCEPT ![t] = row]
  PROVE  /\ token' \in [Tokens -> TokenRow]
         /\ token'[t] = row
         /\ \A x \in Tokens \ {t} : token'[x] = token[x]
         /\ \A x \in Tokens : token[x].user # None => token'[x] = token[x]
BY DEF TypeOK

LEMMA MintKeeps ==
  ASSUME IInv, NEW w \in Workers, NEW t \in Tokens, Mint(w, t)
  PROVE  IInv'
<1> SUFFICES ASSUME NEW j, j = job[w], NEW row, row = Issued(j)
             PROVE  IInv'
  OBVIOUS
<1>1. /\ j.op \in {"login", "refresh"} /\ j.user \in Users /\ user[j.user] # NoUser
      /\ token[t].user = None /\ \A v \in Workers : job[v].token # t
      /\ Finish(w) /\ UNCHANGED <<user, sent>>
      /\ token' = [token EXCEPT ![t] = row]
  BY DEF Mint, FreshTokens, IInv, JobOK, StepOK
<1>2. row \in TokenRow /\ row.user = j.user
  BY <1>1 DEF Issued, TokenRow
<1>3. /\ token' \in [Tokens -> TokenRow]
      /\ token'[t] = row
      /\ \A x \in Tokens \ {t} : token'[x] = token[x]
      /\ \A x \in Tokens : token[x].user # None => token'[x] = token[x]
  BY <1>1, <1>2, TokenInserted DEF IInv
<1>4. RowsGrow
  BY <1>1, <1>3 DEF RowsGrow
<1>5. UsersOK' /\ user' \in [Users -> UserRow]
  BY <1>1 DEF IInv, UsersOK, TypeOK
<1>6. VerifiedByToken'
  <2> SUFFICES ASSUME NEW u \in Users, user[u].verified PROVE HasVerified(u)'
    BY <1>1 DEF VerifiedByToken, HasVerified
  <2>1. HasVerified(u)
    BY DEF IInv, VerifiedByToken, HasVerified
  <2> QED BY <1>4, <2>1, VerifiedStays DEF IInv
<1>7. EveryoneWasSentAToken'
  <2> SUFFICES ASSUME NEW u \in Users, user[u] # NoUser
               PROVE  \E x \in sent : token'[x].user = u /\ token'[x].kind = "verify"
    BY <1>1 DEF EveryoneWasSentAToken
  <2>1. PICK x \in sent : token[x].user = u /\ token[x].kind = "verify"
    BY DEF IInv, EveryoneWasSentAToken
  <2> QED BY <1>3, <2>1, NoneIsNew DEF IInv, TypeOK
<1>8. \A x \in Tokens : token'[x].user # None => user'[token'[x].user] # NoUser
  BY <1>1, <1>2, <1>3 DEF IInv, TypeOK
<1>9. ASSUME NEW v \in Workers \ {w}
      PROVE  /\ Inserting(v) => /\ user'[job[v].user] = NoUser
                                /\ \A u \in Users : user'[u].email # job[v].row.email
             /\ Issuing(v) => token'[job[v].token].user = None
  <2>1. JobOK(v) /\ job[v].token # t
    BY <1>1 DEF IInv
  <2> QED BY <1>1, <1>3, <2>1 DEF JobOK, IInv, TypeOK
<1>10. job'[w] = Idle /\ Become(w, Idle)
  BY <1>1 DEF Finish, Become, IInv, TypeOK
<1>11. JobOK(w)'
  BY <1>10, IdleJob DEF JobOK, StepOK, Inserting, Issuing
<1> QED
  BY <1>1, <1>3, <1>4, <1>5, <1>6, <1>7, <1>8, <1>9, <1>10, <1>11, IdleJob, WriteKeeps

\* A registration's row and its token, which no other request is about to insert.
LEMMA CommitIssueKeeps ==
  ASSUME IInv, NEW w \in Workers, CommitIssue(w)
  PROVE  IInv'
<1> SUFFICES ASSUME NEW j, j = job[w], NEW t, t = j.token, NEW row, row = Issued(j)
             PROVE  IInv'
  OBVIOUS
<1>1. /\ JobOK(w) /\ j \in Job
      /\ j.op \in {"register", "request"} /\ Issuing(w)
      /\ Finish(w) /\ sent' = sent
      /\ token' = [token EXCEPT ![t] = row]
  BY DEF CommitIssue, IInv, Issuing, TypeOK
<1>2. t \in sent /\ t \in Tokens /\ token[t].user = None /\ j.user \in Users
  <2>1. t \in sent /\ token[t].user = None
    BY <1>1 DEF JobOK
  <2>2. j.user \in Users
    BY <1>1 DEF JobOK, Inserting, Issuing
  <2> QED BY <2>1, <2>2 DEF IInv, TypeOK
<1>3. row \in TokenRow /\ row.user = j.user /\ ~ row.used
      /\ (j.op = "register" => row.kind = "verify")
  BY <1>1, <1>2 DEF Issued, TokenRow
<1>4. /\ token' \in [Tokens -> TokenRow]
      /\ token'[t] = row
      /\ \A x \in Tokens \ {t} : token'[x] = token[x]
      /\ \A x \in Tokens : token[x].user # None => token'[x] = token[x]
  BY <1>1, <1>2, <1>3, TokenInserted DEF IInv
<1>5. \A v \in Workers \ {w} : JobOK(v) /\ (Issuing(v) => job[v].token # t)
  BY <1>1 DEF IInv, Apart
<1>6. \A v \in Workers \ {w} : Issuing(v) => token'[job[v].token].user = None
  BY <1>4, <1>5 DEF JobOK, IInv, TypeOK
<1>7. job'[w] = Idle /\ Become(w, Idle)
  BY <1>1 DEF Finish, Become, IInv, TypeOK
<1>8. JobOK(w)'
  BY <1>7, IdleJob DEF JobOK, StepOK, Inserting, Issuing
<1>9. /\ user' \in [Users -> UserRow] /\ UsersOK'
      /\ \A u \in Users : user[u] # NoUser => user'[u] = user[u]
      /\ \A u \in Users : user'[u] # NoUser =>
           user[u] # NoUser \/ (u = j.user /\ j.op = "register" /\ ~ user'[u].verified)
      /\ user'[j.user] # NoUser
      /\ \A v \in Workers \ {w} : Inserting(v) =>
           user'[job[v].user] = NoUser /\ \A u \in Users : user'[u].email # job[v].row.email
  <2>1. CASE j.op = "request"
    <3>1. user' = user
      BY <2>1 DEF CommitIssue
    <3>2. user[j.user] # NoUser
      BY <1>1, <2>1 DEF JobOK
    <3>3. user' \in [Users -> UserRow] /\ UsersOK'
      BY <3>1 DEF IInv, TypeOK, UsersOK
    <3> QED BY <1>5, <3>1, <3>2, <3>3 DEF JobOK
  <2>2. CASE j.op = "register"
    <3>1. /\ Inserting(w) /\ user[j.user] = NoUser
          /\ \A v \in Users : user[v].email # j.row.email
          /\ Stored(j.row) /\ ~ j.row.verified /\ j.row \in UserRow
      BY <1>1, <2>2 DEF JobOK, Inserting, Issuing, Job
    <3>2. user' = [user EXCEPT ![j.user] = j.row] /\ user \in [Users -> UserRow]
      BY <2>2 DEF CommitIssue, IInv, TypeOK
    <3>3. \A u \in Users : user'[u] = IF u = j.user THEN j.row ELSE user[u]
      BY <3>2
    <3>4. user' \in [Users -> UserRow] /\ j.row # NoUser
      <4>1. j.row # NoUser
        BY <3>1, NoneIsNew DEF Stored, NoUser
      <4>2. \A r \in UserRow : [user EXCEPT ![j.user] = r] \in [Users -> UserRow]
        BY <3>2
      <4> QED BY <3>1, <3>2, <4>1, <4>2
    <3>5. UsersOK'
      BY <3>1, <3>3, <3>4 DEF IInv, UsersOK, Stored
    <3>6. ASSUME NEW v \in Workers \ {w}, Inserting(v)
          PROVE  user'[job[v].user] = NoUser /\ \A u \in Users : user'[u].email # job[v].row.email
      <4>1. job[v].user # j.user /\ job[v].row.email # j.row.email
        BY <3>1, <3>6 DEF IInv, Apart
      <4>2. /\ job[v].user \in Users /\ user[job[v].user] = NoUser
            /\ \A u \in Users : user[u].email # job[v].row.email
        BY <1>5, <3>6 DEF JobOK
      <4> QED BY <3>3, <4>1, <4>2
    <3> QED BY <1>2, <2>2, <3>1, <3>3, <3>4, <3>5, <3>6
  <2> QED BY <1>1, <2>1, <2>2
<1>10. RowsGrow
  BY <1>1, <1>4, <1>9 DEF RowsGrow
<1>11. VerifiedByToken'
  <2> SUFFICES ASSUME NEW u \in Users, user'[u].verified PROVE HasVerified(u)'
    BY DEF VerifiedByToken, HasVerified
  <2>1. user'[u] # NoUser
    BY DEF NoUser
  <2>2. user[u] # NoUser /\ user[u].verified
    BY <1>9, <2>1
  <2>3. HasVerified(u)
    BY <2>2 DEF IInv, VerifiedByToken, HasVerified
  <2> QED BY <1>10, <2>3, VerifiedStays DEF IInv
<1>12. EveryoneWasSentAToken'
  <2> SUFFICES ASSUME NEW u \in Users, user'[u] # NoUser
               PROVE  \E x \in sent : token'[x].user = u /\ token'[x].kind = "verify"
    BY <1>1 DEF EveryoneWasSentAToken
  <2>1. CASE user[u] # NoUser
    <3>1. PICK x \in sent : token[x].user = u /\ token[x].kind = "verify"
      BY <2>1 DEF IInv, EveryoneWasSentAToken
    <3> QED BY <1>4, <3>1, NoneIsNew DEF IInv, TypeOK
  <2>2. CASE u = j.user /\ j.op = "register"
    BY <1>2, <1>3, <1>4, <2>2
  <2> QED BY <1>9, <2>1, <2>2
<1>13. \A x \in Tokens : token'[x].user # None => user'[token'[x].user] # NoUser
  <2> SUFFICES ASSUME NEW x \in Tokens, token'[x].user # None PROVE user'[token'[x].user] # NoUser
    OBVIOUS
  <2>1. CASE x = t
    BY <1>3, <1>4, <1>9, <2>1
  <2>2. CASE x # t
    <3>1. token'[x] = token[x] /\ token[x].user \in Users /\ user[token[x].user] # NoUser
      BY <1>4, <2>2 DEF IInv, TypeOK, TokenRow
    <3> QED BY <1>9, <3>1
  <2> QED BY <2>1, <2>2
<1> QED
  BY <1>1, <1>4, <1>6, <1>7, <1>8, <1>9, <1>10, <1>11, <1>12, <1>13, IdleJob, WriteKeeps

-----------------------------------------------------------------------------
LEMMA NextIInv ==
  ASSUME IInv, [Next]_vars
  PROVE  IInv'
<1>1. ASSUME NEW w \in Workers, NEW e \in Emails,
             RequestReset(w, e) \/ \E p \in Passwords : ValidateEmail(w, e, p)
      PROVE  IInv'
  BY <1>1, RequestResetKeeps, ValidateEmailKeeps
<1>2. ASSUME NEW w \in Workers, CheckEmail(w) \/ Blacklist(w) \/ BlacklistFails(w) \/ Fail(w)
      PROVE  IInv'
  BY <1>2, CheckEmailKeeps, BlacklistKeeps, BlacklistFailsKeeps, FailKeeps
<1>3. ASSUME NEW w \in Workers, NEW u \in Users,
             CreateUser(w, u) \/ ReadProfile(w, u) \/ Login(w, u)
      PROVE  IInv'
  BY <1>3, CreateUserKeeps, ReadProfileKeeps, LoginKeeps
<1>4. ASSUME NEW w \in Workers, NEW u \in Users, NEW p \in Passwords, ReadPassword(w, u, p)
      PROVE  IInv'
  BY <1>4, ReadPasswordKeeps
<1>5. ASSUME NEW w \in Workers, NEW t \in Tokens,
             \/ ReadRefresh(w, t) \/ Mint(w, t) \/ QueueEmail(w, t)
             \/ \E p \in Passwords \cup {None} : ReadToken(w, t, p)
      PROVE  IInv'
  BY <1>5, ReadRefreshKeeps, MintKeeps, QueueEmailKeeps, ReadTokenKeeps
<1>6. ASSUME NEW w \in Workers,
             CommitIssue(w) \/ CommitUse(w) \/ SavePassword(w) \/ SaveProfile(w)
      PROVE  IInv'
  BY <1>6, CommitIssueKeeps, CommitUseKeeps, SavePasswordKeeps, SaveProfileKeeps
<1>7. ASSUME NEW t \in Tokens, Expire(t) PROVE IInv'
  BY <1>7, ExpireKeeps
<1>8. CASE UNCHANGED vars
  BY <1>8 DEF vars, IInv, TypeOK, UsersOK, VerifiedByToken, EveryoneWasSentAToken, JobOK, StepOK,
    Stored, HasVerified, Apart, Inserting, Issuing
<1> QED BY <1>1, <1>2, <1>3, <1>4, <1>5, <1>6, <1>7, <1>8 DEF Next

\* IInv holds in every state: what requests know between their statements.
THEOREM Inductive == Spec => []IInv
<1> QED BY InitIInv, NextIInv, PTL DEF Spec

\* An address has one account, whatever the case it is typed in and however registrations
\* race: what is stored is in lower case, and the unique index does the rest.
THEOREM AddressesAreUnique == Spec => []OneAccountPerAddress
<1>1. IInv => OneAccountPerAddress
  BY DEF IInv, UsersOK, Stored, OneAccountPerAddress, UsersOf
<1> QED BY <1>1, Inductive, PTL

\* Nobody is verified but by a token of their own that was sent to them, although profile
\* updates write the flag back as they read it.
THEOREM VerifiedByTheirToken == Spec => []VerifiedByToken
<1>1. IInv => VerifiedByToken
  BY DEF IInv
<1> QED BY <1>1, Inductive, PTL

\* Every account was sent the token that verifies it.
THEOREM TokensWereSent == Spec => []EveryoneWasSentAToken
<1>1. IInv => EveryoneWasSentAToken
  BY DEF IInv
<1> QED BY <1>1, Inductive, PTL
-----------------------------------------------------------------------------
(***************************************************************************)
(* Serial requests.  What a request has read still holds when it writes:   *)
(* its token's row, and the row of its user.                               *)
(***************************************************************************)
\* The requests that use a token, which is theirs from the time they read it.
Using == {"verify", "reset", "refresh", "logout"}

Holds(j, t) == j.token = t /\ j.op \in Using

\* What a request has read of the rows us of users and to of tokens.
Follows(us, to, j) ==
  /\ j.op \in Using => j.token \in Tokens /\ to[j.token].user = j.user
  /\ j.op \in {"verify", "reset", "refresh"} => to[j.token].kind = j.op
  /\ j.op = "logout" => to[j.token].kind = "refresh"
  /\ j.op = "profile" => j.row = us[j.user]

Alone(jo, w) == \A v \in Workers \ {w} : jo[v] = Idle

SerialInv ==
  /\ \A v, w \in Workers : job[v] # Idle /\ job[w] # Idle => v = w
  /\ \A w \in Workers : Follows(user, token, job[w])

LEMMA IdleFollows == \A us, to : Follows(us, to, Idle)
BY IdleJob DEF Follows, Using

\* A request that is served is the only one.
LEMMA OthersIdle ==
  ASSUME SerialInv, NEW w \in Workers, job[w] # Idle
  PROVE  Alone(job, w) /\ Follows(user, token, job[w])
BY DEF SerialInv, Alone

\* A request that begins is the only one.
LEMMA BeginsAlone ==
  ASSUME NEW w \in Workers, NEW j, IInv, SerialInv, OneAtATime, j # Idle, Become(w, j)
  PROVE  Alone(job, w)
<1>1. \A v \in Workers : job'[v] = IF v = w THEN j ELSE job[v]
  BY DEF Become, IInv, TypeOK
<1> QED BY <1>1 DEF OneAtATime, Alone

\* A step of the only request keeps the invariant if it has seen the rows as they are.
LEMMA SerialKeeps ==
  ASSUME NEW w \in Workers, NEW j, IInv, Become(w, j), Alone(job, w), Follows(user', token', j)
  PROVE  SerialInv' /\ Alone(job', w) /\ job'[w] = j
<1>1. \A v \in Workers : job'[v] = IF v = w THEN j ELSE Idle
  BY DEF Become, IInv, TypeOK, Alone
<1>2. \A v \in Workers : Follows(user', token', job'[v])
  BY <1>1, IdleFollows
<1>3. \A v, x \in Workers : job'[v] # Idle /\ job'[x] # Idle => v = x
  BY <1>1
<1> QED BY <1>1, <1>2, <1>3 DEF SerialInv, Alone

-----------------------------------------------------------------------------
(***************************************************************************)
(* What AtomicAccounts sees, of any rows us of users, rows to of tokens    *)
(* and requests jo, so that it can be stated of those before and after a   *)
(* step.                                                                   *)
(***************************************************************************)
UsersAt(us, m) == {u \in Users : us[u] # NoUser /\ Lower[us[u].email] = Lower[m]}

AccountAt(us, m) ==
  IF UsersAt(us, m) = {}
  THEN None
  ELSE LET u == CHOOSE u \in UsersAt(us, m) : TRUE
       IN [password |-> us[u].password, verified |-> us[u].verified]

AccountsAt(us) == [m \in Mailboxes |-> AccountAt(us, m)]

HeldAt(jo, t) == \E w \in Workers : Holds(jo[w], t)

OpenAt(to, jo, t) == (~ to[t].used /\ ~ to[t].expired) \/ HeldAt(jo, t)

IssueAt(us, to, jo, t) ==
  IF to[t].user = None
  THEN [state |-> "fresh", kind |-> None, mailbox |-> None]
  ELSE [state |-> IF OpenAt(to, jo, t) THEN "open" ELSE "spent", kind |-> to[t].kind,
        mailbox |-> Lower[us[to[t].user].email]]

IssuesAt(us, to, jo) == [t \in Tokens |-> IssueAt(us, to, jo, t)]

AccountsSeen == [m \in Mailboxes |-> AccountOf(m)]
IssuesSeen == [t \in Tokens |-> IssueOf(t)]
Unseen == UNCHANGED <<AccountsSeen, IssuesSeen>>

LEMMA AccountsAre ==
  /\ AccountsSeen = AccountsAt(user)
  /\ AccountsSeen' = AccountsAt(user')
<1>1. AccountsSeen = AccountsAt(user)
  BY DEF AccountsSeen, AccountsAt, AccountAt, UsersAt, AccountOf, UsersOf
<1>2. AccountsSeen' = AccountsAt(user')
  BY DEF AccountsSeen, AccountsAt, AccountAt, UsersAt, AccountOf, UsersOf
<1> QED BY <1>1, <1>2

LEMMA IssuesAre ==
  /\ IssuesSeen = IssuesAt(user, token, job)
  /\ IssuesSeen' = IssuesAt(user', token', job')
<1>1. IssuesSeen = IssuesAt(user, token, job)
  BY DEF IssuesSeen, IssuesAt, IssueAt, IssueOf, IsOpen, OpenAt, HeldAt, Holds, Using
<1>2. IssuesSeen' = IssuesAt(user', token', job')
  BY DEF IssuesSeen, IssuesAt, IssueAt, IssueOf, IsOpen, OpenAt, HeldAt, Holds, Using
<1> QED BY <1>1, <1>2

\* The only request is who holds a token.
LEMMA HeldAlone ==
  ASSUME NEW jo, NEW w \in Workers, Alone(jo, w), NEW t \in Tokens
  PROVE  HeldAt(jo, t) <=> Holds(jo[w], t)
BY IdleJob DEF HeldAt, Holds, Using, Alone

\* Rows of users that are whole, in lower case, and each address once.
Sound(us) ==
  /\ us \in [Users -> UserRow]
  /\ \A u \in Users : us[u] # NoUser => Stored(us[u])
  /\ \A u, v \in Users : us[u] # NoUser /\ us[v] # NoUser /\ us[u].email = us[v].email => u = v

LEMMA UsersSound == IInv => Sound(user)
BY DEF IInv, TypeOK, UsersOK, Sound

\* The account of a row's address is the row's.
LEMMA AccountIs ==
  ASSUME NEW us, Sound(us), NEW u \in Users, us[u] # NoUser
  PROVE  /\ us[u].email \in Mailboxes
         /\ UsersAt(us, us[u].email) = {u}
         /\ AccountAt(us, us[u].email) = [password |-> us[u].password, verified |-> us[u].verified]
         /\ AccountsAt(us)[us[u].email] # None
<1>1. us[u].email \in Emails /\ Lower[us[u].email] = us[u].email
  BY DEF Sound, Stored
<1>2. us[u].email \in Mailboxes
  BY <1>1 DEF Mailboxes
<1>3. UsersAt(us, us[u].email) = {u}
  BY <1>1 DEF UsersAt, Sound, Stored
<1>4. (CHOOSE v \in UsersAt(us, us[u].email) : TRUE) = u
  BY <1>3
<1>5. AccountAt(us, us[u].email) = [password |-> us[u].password, verified |-> us[u].verified]
  BY <1>3, <1>4 DEF AccountAt
<1>6. [password |-> us[u].password, verified |-> us[u].verified] # None
  BY NoneIsNoAccount DEF Sound, Stored, UserRow, Atomic!Account
<1> QED BY <1>2, <1>3, <1>5, <1>6 DEF AccountsAt

\* A write of one row changes the account of its address and no other.
LEMMA RowWritten ==
  ASSUME NEW us, NEW us2, NEW u \in Users, NEW r, Sound(us), r \in UserRow, Stored(r),
         us[u] = NoUser => \A v \in Users : us[v].email # r.email,
         us[u] # NoUser => us[u].email = r.email,
         us2 \in [Users -> UserRow], \A v \in Users : us2[v] = IF v = u THEN r ELSE us[v]
  PROVE  /\ r.email \in Mailboxes
         /\ AccountsAt(us2)
              = [AccountsAt(us) EXCEPT ![r.email] = [password |-> r.password, verified |-> r.verified]]
         /\ us[u] = NoUser => AccountsAt(us)[r.email] = None
<1>1. r # NoUser /\ r.email \in Emails /\ Lower[r.email] = r.email
  BY NoneIsNew DEF Stored, NoUser
<1>2. Sound(us2)
  BY <1>1 DEF Sound
<1>3. r.email \in Mailboxes /\ AccountAt(us2, r.email) = [password |-> r.password, verified |-> r.verified]
  <2>1. us2[u] = r
    OBVIOUS
  <2>2. /\ us2[u].email \in Mailboxes
        /\ AccountAt(us2, us2[u].email) = [password |-> us2[u].password, verified |-> us2[u].verified]
    BY <1>1, <1>2, <2>1, AccountIs, Zenon
  <2> QED BY <2>1, <2>2
<1>4. ASSUME NEW m \in Mailboxes, m # r.email PROVE AccountAt(us2, m) = AccountAt(us, m)
  <2>1. Lower[m] = m
    BY LowerIsIdempotent DEF Mailboxes
  <2>2. u \notin UsersAt(us2, m) /\ u \notin UsersAt(us, m)
    BY <1>1, <1>4, <2>1 DEF UsersAt
  <2>3. UsersAt(us2, m) = UsersAt(us, m)
    BY <2>2 DEF UsersAt
  <2>4. CASE UsersAt(us, m) = {}
    BY <2>3, <2>4 DEF AccountAt
  <2>5. CASE UsersAt(us, m) # {}
    <3>1. PICK v \in Users : v = CHOOSE x \in UsersAt(us, m) : TRUE
      BY <2>5 DEF UsersAt
    <3>2. v \in UsersAt(us, m)
      BY <2>5, <3>1
    <3>3. us2[v] = us[v]
      BY <2>2, <3>2
    <3> QED BY <2>3, <2>5, <3>1, <3>3 DEF AccountAt
  <2> QED BY <2>4, <2>5
<1>5. us[u] = NoUser => AccountsAt(us)[r.email] = None
  <2> SUFFICES ASSUME us[u] = NoUser PROVE UsersAt(us, r.email) = {}
    BY <1>3 DEF AccountsAt, AccountAt
  <2> QED BY <1>1 DEF UsersAt, Sound, Stored
<1> QED BY <1>3, <1>4, <1>5 DEF AccountsAt

\* A token of a user whose address stays is as open as its row and its holders make it.
LEMMA IssueSame ==
  ASSUME NEW us, NEW to, NEW jo, NEW us2, NEW to2, NEW jo2, NEW t,
         to2[t].user = to[t].user, to2[t].kind = to[t].kind,
         to[t].user # None => us2[to[t].user].email = us[to[t].user].email,
         to[t].user # None => (OpenAt(to2, jo2, t) <=> OpenAt(to, jo, t))
  PROVE  IssueAt(us2, to2, jo2, t) = IssueAt(us, to, jo, t)
BY DEF IssueAt

-----------------------------------------------------------------------------
(***************************************************************************)
(* Statements that change no row, and that nobody sees.                    *)
(***************************************************************************)
\* The only request finds tokens as open as they are.
LEMMA ReadingUnseen ==
  ASSUME NEW w \in Workers, NEW j, IInv, Become(w, j), Alone(job, w),
         UNCHANGED <<user, token>>, Follows(user, token, j),
         \A t \in Tokens : token[t].user # None /\ (token[t].used \/ token[t].expired)
                             => (Holds(j, t) <=> Holds(job[w], t))
  PROVE  SerialInv' /\ Unseen
<1>1. SerialInv' /\ Alone(job', w) /\ job'[w] = j
  BY SerialKeeps
<1>2. ASSUME NEW t \in Tokens PROVE IssueAt(user', token', job', t) = IssueAt(user, token, job, t)
  <2>1. (HeldAt(job', t) <=> Holds(j, t)) /\ (HeldAt(job, t) <=> Holds(job[w], t))
    BY <1>1, HeldAlone
  <2>2. token[t].user # None => (OpenAt(token', job', t) <=> OpenAt(token, job, t))
    BY <2>1 DEF OpenAt
  <2> QED BY <2>2, IssueSame
<1>3. IssuesAt(user', token', job') = IssuesAt(user, token, job)
  BY <1>2 DEF IssuesAt
<1>4. AccountsAt(user') = AccountsAt(user)
  OBVIOUS
<1> QED BY <1>1, <1>3, <1>4, AccountsAre, IssuesAre DEF Unseen

\* A request that begins, and the token it uses, if any, was usable.
LEMMA BeginningUnseen ==
  ASSUME NEW w \in Workers, NEW j, IInv, SerialInv, OneAtATime, job[w] = Idle, j.op # "none",
         Become(w, j), UNCHANGED <<user, token>>, Follows(user, token, j),
         j.op \in Using => Usable(j.token)
  PROVE  SerialInv' /\ Unseen
<1>1. Alone(job, w)
  BY BeginsAlone, IdleJob
<1>2. \A t \in Tokens : token[t].user # None /\ (token[t].used \/ token[t].expired)
                             => (Holds(j, t) <=> Holds(job[w], t))
  BY IdleJob DEF Holds, Using, Usable
<1> QED BY <1>1, <1>2, ReadingUnseen

\* A request that goes on with the token it has, if any.
LEMMA GoingOnUnseen ==
  ASSUME NEW w \in Workers, NEW j, IInv, SerialInv, job[w] # Idle, j.op = job[w].op,
         Become(w, j), UNCHANGED <<user, token>>, j.user = job[w].user, j.row = job[w].row,
         j.op \in Using => j.token = job[w].token
  PROVE  SerialInv' /\ Unseen
<1>1. Alone(job, w) /\ Follows(user, token, job[w])
  BY OthersIdle
<1>2. Follows(user, token, j)
  BY <1>1 DEF Follows, Using
<1>3. \A t \in Tokens : Holds(j, t) <=> Holds(job[w], t)
  BY DEF Holds
<1> QED BY <1>1, <1>2, <1>3, ReadingUnseen
LEMMA BeginsSerially ==
  ASSUME IInv, SerialInv, OneAtATime, NEW w \in Workers, NEW e, NEW p, NEW u,
         RequestReset(w, e) \/ ValidateEmail(w, e, p) \/ ReadProfile(w, u) \/ Login(w, u)
           \/ ReadPassword(w, u, p)
  PROVE  SerialInv' /\ Unseen
<1>1. CASE RequestReset(w, e)
  <2>1. PICK v \in UsersOf(e) :
          Become(w, [Idle EXCEPT !.op = "request", !.step = "issue", !.user = v])
    BY <1>1, Zenon DEF RequestReset
  <2> DEFINE j == [Idle EXCEPT !.op = "request", !.step = "issue", !.user = v]
  <2>2. j.op = "request"
    BY DEF Idle
  <2>3. Become(w, j) /\ UNCHANGED <<user, token>> /\ job[w] = Idle
    BY <1>1, <2>1, Zenon DEF RequestReset
  <2> HIDE DEF j
  <2>4. Follows(user, token, j) /\ j.op # "none" /\ j.op \notin Using
    BY <2>2 DEF Follows, Using
  <2> QED BY <2>3, <2>4, BeginningUnseen
<1>2. CASE ValidateEmail(w, e, p)
  <2> DEFINE j == [Idle EXCEPT !.op = "register", !.step = "check",
                     !.row = [email |-> StoredEmail(e), password |-> p, verified |-> FALSE]]
  <2>1. j.op = "register"
    BY DEF Idle
  <2>2. Become(w, j) /\ UNCHANGED <<user, token>> /\ job[w] = Idle
    BY <1>2 DEF ValidateEmail
  <2> HIDE DEF j
  <2>3. Follows(user, token, j) /\ j.op # "none" /\ j.op \notin Using
    BY <2>1 DEF Follows, Using
  <2> QED BY <2>2, <2>3, BeginningUnseen
<1>3. CASE ReadProfile(w, u)
  <2> DEFINE j == [Idle EXCEPT !.op = "profile", !.step = "commit", !.user = u, !.row = user[u]]
  <2>1. j.op = "profile" /\ j.user = u /\ j.row = user[u]
    BY DEF Idle
  <2>2. Become(w, j) /\ UNCHANGED <<user, token>> /\ job[w] = Idle
    BY <1>3 DEF ReadProfile
  <2> HIDE DEF j
  <2>3. Follows(user, token, j) /\ j.op # "none" /\ j.op \notin Using
    BY <2>1 DEF Follows, Using
  <2> QED BY <2>2, <2>3, BeginningUnseen
<1>4. CASE Login(w, u)
  <2> DEFINE j == [Idle EXCEPT !.op = "login", !.step = "mint", !.user = u]
  <2>1. j.op = "login"
    BY DEF Idle
  <2>2. Become(w, j) /\ UNCHANGED <<user, token>> /\ job[w] = Idle
    BY <1>4 DEF Login
  <2> HIDE DEF j
  <2>3. Follows(user, token, j) /\ j.op # "none" /\ j.op \notin Using
    BY <2>1 DEF Follows, Using
  <2> QED BY <2>2, <2>3, BeginningUnseen
<1>5. CASE ReadPassword(w, u, p)
  <2> DEFINE j == [Idle EXCEPT !.op = "change", !.step = "commit", !.user = u, !.password = p]
  <2>1. j.op = "change"
    BY DEF Idle
  <2>2. Become(w, j) /\ UNCHANGED <<user, token>> /\ job[w] = Idle
    BY <1>5 DEF ReadPassword
  <2> HIDE DEF j
  <2>3. Follows(user, token, j) /\ j.op # "none" /\ j.op \notin Using
    BY <2>1 DEF Follows, Using
  <2> QED BY <2>2, <2>3, BeginningUnseen
<1> QED BY <1>1, <1>2, <1>3, <1>4, <1>5

LEMMA ReadsTokenSerially ==
  ASSUME IInv, SerialInv, OneAtATime, NEW w \in Workers, NEW t \in Tokens, NEW p,
         ReadToken(w, t, p) \/ ReadRefresh(w, t)
  PROVE  SerialInv' /\ Unseen
<1>1. token[t].kind \in {"verify", "reset", "refresh"}
  BY DEF IInv, TypeOK, TokenRow
<1>2. CASE ReadToken(w, t, p)
  <2> DEFINE j == [Idle EXCEPT !.op = token[t].kind, !.step = "commit", !.token = t,
                     !.user = token[t].user, !.password = p]
  <2>1. j.op = token[t].kind /\ j.token = t /\ j.user = token[t].user
    BY DEF Idle
  <2>2. Become(w, j) /\ UNCHANGED <<user, token>> /\ job[w] = Idle /\ Usable(t)
    BY <1>2 DEF ReadToken
  <2> HIDE DEF j
  <2>3. Follows(user, token, j) /\ j.op # "none"
    BY <1>1, <2>1 DEF Follows, Using
  <2> QED BY <2>1, <2>2, <2>3, BeginningUnseen
<1>3. CASE ReadRefresh(w, t)
  <2>1. PICK op \in {"refresh", "logout"} :
          Become(w, [Idle EXCEPT !.op = op, !.step = "blacklist", !.token = t,
                       !.user = token[t].user])
    BY <1>3 DEF ReadRefresh
  <2> DEFINE j == [Idle EXCEPT !.op = op, !.step = "blacklist", !.token = t,
                     !.user = token[t].user]
  <2>2. j.op = op /\ j.token = t /\ j.user = token[t].user
    BY DEF Idle
  <2>3. /\ Become(w, j) /\ UNCHANGED <<user, token>> /\ job[w] = Idle /\ Usable(t)
        /\ token[t].kind = "refresh"
    BY <1>3, <2>1 DEF ReadRefresh
  <2> HIDE DEF j
  <2>4. Follows(user, token, j) /\ j.op # "none"
    BY <2>2, <2>3 DEF Follows, Using
  <2> QED BY <2>2, <2>3, <2>4, BeginningUnseen
<1> QED BY <1>2, <1>3

LEMMA GoesOnSerially ==
  ASSUME IInv, SerialInv, NEW w \in Workers, NEW u, NEW t,
         CheckEmail(w) \/ CreateUser(w, u) \/ QueueEmail(w, t) \/ BlacklistFails(w)
  PROVE  SerialInv' /\ Unseen
<1>1. job[w] \in Job /\ StepOK(job[w])
  BY DEF IInv, TypeOK, JobOK
<1>2. CASE CheckEmail(w)
  <2> DEFINE j == [job[w] EXCEPT !.step = "create"]
  <2>1. j.op = job[w].op /\ j.user = job[w].user /\ j.row = job[w].row /\ j.token = job[w].token
    BY <1>1 DEF Job
  <2>2. Become(w, j) /\ UNCHANGED <<user, token>> /\ job[w] # Idle
    BY <1>2, IdleJob DEF CheckEmail
  <2> HIDE DEF j
  <2> QED BY <2>1, <2>2, GoingOnUnseen
<1>3. CASE CreateUser(w, u)
  <2> DEFINE j == [job[w] EXCEPT !.step = "issue", !.user = u]
  <2>1. j.op = "register" /\ j.user = u /\ j.row = job[w].row /\ job[w].op = "register"
    BY <1>1, <1>3 DEF Job, CreateUser, StepOK
  <2>2. Become(w, j) /\ UNCHANGED <<user, token>> /\ job[w] # Idle
    BY <1>3, IdleJob DEF CreateUser
  <2> HIDE DEF j
  <2>3. Follows(user, token, j) /\ \A x \in Tokens : ~ Holds(j, x) /\ ~ Holds(job[w], x)
    BY <2>1 DEF Follows, Holds, Using
  <2>4. Alone(job, w)
    BY <2>2, OthersIdle
  <2> QED BY <2>2, <2>3, <2>4, ReadingUnseen
<1>4. CASE QueueEmail(w, t)
  <2> DEFINE j == [job[w] EXCEPT !.step = "commit", !.token = t]
  <2>1. /\ j.op = job[w].op /\ j.user = job[w].user /\ j.row = job[w].row
        /\ j.op \in {"register", "request"}
    BY <1>1, <1>4 DEF Job, QueueEmail, StepOK
  <2>2. Become(w, j) /\ UNCHANGED <<user, token>> /\ job[w] # Idle
    BY <1>4, IdleJob DEF QueueEmail
  <2> HIDE DEF j
  <2>3. j.op \notin Using
    BY <2>1 DEF Using
  <2> QED BY <2>1, <2>2, <2>3, GoingOnUnseen
<1>5. CASE BlacklistFails(w)
  <2> DEFINE j == [job[w] EXCEPT !.step = "mint"]
  <2>1. j.op = job[w].op /\ j.user = job[w].user /\ j.row = job[w].row /\ j.token = job[w].token
    BY <1>1 DEF Job
  <2>2. Become(w, j) /\ UNCHANGED <<user, token>> /\ job[w] # Idle
    BY <1>5, IdleJob DEF BlacklistFails
  <2> HIDE DEF j
  <2> QED BY <2>1, <2>2, GoingOnUnseen
<1> QED BY <1>2, <1>3, <1>4, <1>5
-----------------------------------------------------------------------------
(***************************************************************************)
(* Ends of requests.  What they were for is one step of AtomicAccounts.    *)
(***************************************************************************)
\* At the end of the only request nobody holds a token.
LEMMA EndsAlone ==
  ASSUME NEW w \in Workers, IInv, SerialInv, job[w] # Idle, Finish(w)
  PROVE  /\ SerialInv'
         /\ Follows(user, token, job[w])
         /\ \A t \in Tokens : ~ HeldAt(job', t) /\ (HeldAt(job, t) <=> Holds(job[w], t))
<1>1. Alone(job, w) /\ Follows(user, token, job[w])
  BY OthersIdle
<1>2. Become(w, Idle)
  BY DEF Finish
<1>3. SerialInv' /\ Alone(job', w) /\ job'[w] = Idle
  BY <1>1, <1>2, IdleFollows, SerialKeeps
<1>4. \A t \in Tokens : ~ Holds(Idle, t)
  BY IdleJob DEF Holds, Using
<1> QED BY <1>1, <1>3, <1>4, HeldAlone

EmailsStay == \A u \in Users : user[u] # NoUser => user'[u].email = user[u].email

\* Tokens whose rows, holders and users' addresses stay are seen as they were.
LEMMA OtherIssues ==
  ASSUME NEW t \in Tokens, IInv, EmailsStay,
         token'[t].user = token[t].user, token'[t].kind = token[t].kind,
         token[t].user # None => (OpenAt(token', job', t) <=> OpenAt(token, job, t))
  PROVE  IssueAt(user', token', job', t) = IssueAt(user, token, job, t)
<1>1. token[t].user # None => token[t].user \in Users /\ user[token[t].user] # NoUser
  BY DEF IInv, TypeOK, TokenRow
<1>2. token[t].user # None => user'[token[t].user].email = user[token[t].user].email
  BY <1>1 DEF EmailsStay
<1> QED BY <1>2, IssueSame

\* Requests that use no token leave those whose rows they leave.
LEMMA LeavesIssues ==
  ASSUME NEW w \in Workers, IInv, SerialInv, job[w] # Idle, Finish(w), job[w].op \notin Using,
         EmailsStay, NEW t \in Tokens, token'[t] = token[t]
  PROVE  IssueAt(user', token', job', t) = IssueAt(user, token, job, t)
<1>1. ~ HeldAt(job', t) /\ (HeldAt(job, t) <=> Holds(job[w], t))
  BY EndsAlone
<1>2. OpenAt(token', job', t) <=> OpenAt(token, job, t)
  BY <1>1 DEF OpenAt, Holds
<1> QED BY <1>2, OtherIssues

\* A request whose token is used or expired at the end spends it.
LEMMA Spends ==
  ASSUME NEW w \in Workers, NEW x, x = job[w].token, IInv, SerialInv, Finish(w), EmailsStay,
         job[w].op \in Using,
         \A t \in Tokens \ {x} : token'[t] = token[t],
         token'[x].user = token[x].user, token'[x].kind = token[x].kind,
         token'[x].used \/ token'[x].expired
  PROVE  /\ SerialInv'
         /\ x \in Tokens
         /\ IssuesSeen[x] = [state |-> "open", kind |-> token[x].kind,
                             mailbox |-> user[job[w].user].email]
         /\ IssuesSeen' = [IssuesSeen EXCEPT ![x].state = "spent"]
<1>1. job[w] # Idle
  BY IdleJob DEF Using
<1>2. /\ SerialInv'
      /\ Follows(user, token, job[w])
      /\ \A t \in Tokens : ~ HeldAt(job', t) /\ (HeldAt(job, t) <=> Holds(job[w], t))
  BY <1>1, EndsAlone
<1>3. x \in Tokens /\ token[x].user = job[w].user
  BY <1>2 DEF Follows
<1>4. JobOK(w) /\ job[w].op \notin {"none", "register"}
  BY DEF IInv, Using
<1>5. job[w].user \in Users /\ user[job[w].user] # NoUser
  BY <1>4 DEF JobOK
<1>6. Stored(user[job[w].user]) /\ user'[job[w].user].email = user[job[w].user].email
  BY <1>5 DEF IInv, UsersOK, EmailsStay
<1>7. OpenAt(token, job, x) /\ ~ OpenAt(token', job', x)
  BY <1>2, <1>3 DEF OpenAt, Holds
<1>8. IssueAt(user, token, job, x) = [state |-> "open", kind |-> token[x].kind,
                                      mailbox |-> user[job[w].user].email]
  BY <1>3, <1>5, <1>6, <1>7, NoneIsNew DEF IssueAt, Stored
<1>9. IssueAt(user', token', job', x) = [state |-> "spent", kind |-> token[x].kind,
                                         mailbox |-> user[job[w].user].email]
  BY <1>3, <1>5, <1>6, <1>7, NoneIsNew DEF IssueAt, Stored
<1>10. ASSUME NEW t \in Tokens \ {x}
       PROVE  IssueAt(user', token', job', t) = IssueAt(user, token, job, t)
  <2>1. OpenAt(token', job', t) <=> OpenAt(token, job, t)
    BY <1>2 DEF OpenAt, Holds
  <2> QED BY <2>1, OtherIssues
<1>11. IssuesAt(user', token', job') = [IssuesAt(user, token, job) EXCEPT ![x].state = "spent"]
  BY <1>3, <1>8, <1>9, <1>10 DEF IssuesAt
<1> QED BY <1>2, <1>3, <1>8, <1>11, IssuesAre DEF IssuesAt

\* A token whose row is inserted is open from then on.
LEMMA Opens ==
  ASSUME NEW w \in Workers, NEW t \in Tokens, NEW row \in TokenRow, IInv, SerialInv,
         job[w] # Idle, Finish(w), EmailsStay, job[w].op \notin Using,
         token[t].user = None, token' = [token EXCEPT ![t] = row],
         row.user \in Users, ~ row.used, ~ row.expired,
         Stored(user'[row.user])
  PROVE  /\ SerialInv'
         /\ Atomic!Open(t, row.kind, user'[row.user].email)
<1>1. /\ SerialInv'
      /\ \A x \in Tokens : ~ HeldAt(job', x) /\ (HeldAt(job, x) <=> Holds(job[w], x))
  BY EndsAlone
<1>2. token'[t] = row /\ \A x \in Tokens \ {t} : token'[x] = token[x]
  BY DEF IInv, TypeOK
<1>3. IssueAt(user, token, job, t) = [state |-> "fresh", kind |-> None, mailbox |-> None]
  BY DEF IssueAt
<1>4. IssueAt(user', token', job', t) = [state |-> "open", kind |-> row.kind,
                                         mailbox |-> user'[row.user].email]
  BY <1>2, NoneIsNew DEF IssueAt, OpenAt, Stored
<1>5. \A x \in Tokens \ {t} : IssueAt(user', token', job', x) = IssueAt(user, token, job, x)
  BY <1>2, LeavesIssues
<1>6. /\ IssuesSeen[t] = [state |-> "fresh", kind |-> None, mailbox |-> None]
      /\ IssuesSeen' = [IssuesSeen EXCEPT ![t] = [state |-> "open", kind |-> row.kind,
                                                  mailbox |-> user'[row.user].email]]
  BY <1>3, <1>4, <1>5, IssuesAre DEF IssuesAt
<1> QED BY <1>1, <1>6 DEF Atomic!Open, Atomic!Fresh, IssuesSeen
\* The address of a user row that exists is a mailbox, which has an account.
LEMMA HasAccount ==
  ASSUME IInv, NEW u \in Users, user[u] # NoUser
  PROVE  /\ user[u] \in UserRow /\ Stored(user[u])
         /\ user[u].email \in Mailboxes
         /\ AccountsSeen[user[u].email] # None
         /\ AccountsSeen[user[u].email]
              = [password |-> user[u].password, verified |-> user[u].verified]
<1>1. user[u].email \in Mailboxes /\ AccountsAt(user)[user[u].email] # None
      /\ AccountAt(user, user[u].email)
           = [password |-> user[u].password, verified |-> user[u].verified]
  BY UsersSound, AccountIs
<1>2. AccountsAt(user)[user[u].email] = AccountAt(user, user[u].email)
  BY <1>1 DEF AccountsAt
<1>3. user[u] \in UserRow /\ Stored(user[u])
  BY DEF IInv, TypeOK, UsersOK
<1> QED BY <1>1, <1>2, <1>3, AccountsAre

\* A write of an existing row that keeps the address.
LEMMA WritesAccount ==
  ASSUME NEW u \in Users, NEW r, IInv, user[u] # NoUser, r \in UserRow, Stored(r),
         r.email = user[u].email,
         user' \in [Users -> UserRow], \A v \in Users : user'[v] = IF v = u THEN r ELSE user[v]
  PROVE  /\ EmailsStay
         /\ AccountsSeen' = [AccountsSeen EXCEPT ![user[u].email] =
                               [password |-> r.password, verified |-> r.verified]]
<1>1. AccountsAt(user')
        = [AccountsAt(user) EXCEPT ![r.email] = [password |-> r.password, verified |-> r.verified]]
  BY UsersSound, RowWritten
<1>2. EmailsStay
  BY DEF EmailsStay
<1> QED BY <1>1, <1>2, AccountsAre

\* A row of a user is written.
LEMMA RowIs ==
  ASSUME NEW u \in Users, NEW r, IInv, r \in UserRow, user' = [user EXCEPT ![u] = r]
  PROVE  user' \in [Users -> UserRow] /\ \A v \in Users : user'[v] = IF v = u THEN r ELSE user[v]
BY DEF IInv, TypeOK

LEMMA CommitIssueSerially ==
  ASSUME IInv, SerialInv, NEW w \in Workers, CommitIssue(w)
  PROVE  SerialInv' /\ Atomic!Next
<1> SUFFICES ASSUME NEW j, j = job[w], NEW t, t = j.token, NEW row, row = Issued(j)
             PROVE  SerialInv' /\ Atomic!Next
  OBVIOUS
<1>1. /\ JobOK(w) /\ j \in Job /\ Issuing(w) /\ job[w] # Idle
      /\ j.op \in {"register", "request"} /\ j.op \notin Using
      /\ Finish(w) /\ token' = [token EXCEPT ![t] = row]
  BY IdleJob DEF CommitIssue, IInv, Issuing, TypeOK, Using
<1>2. t \in Tokens /\ token[t].user = None
  <2>1. t \in sent /\ token[t].user = None
    BY <1>1 DEF JobOK
  <2> QED BY <2>1 DEF IInv, TypeOK
<1>3. j.user \in Users
  BY <1>1 DEF JobOK, Inserting, Issuing
<1>4. /\ row \in TokenRow /\ row.user = j.user /\ ~ row.used /\ ~ row.expired
      /\ j.op = "register" => row.kind = "verify"
      /\ j.op = "request" => row.kind = "reset"
  BY <1>1, <1>3 DEF Issued, TokenRow
<1>5. CASE j.op = "register"
  <2>1. /\ user[j.user] = NoUser /\ Stored(j.row) /\ ~ j.row.verified /\ j.row \in UserRow
        /\ \A v \in Users : user[v].email # j.row.email
    BY <1>1, <1>5 DEF JobOK, Inserting, Issuing, Job
  <2>2. user' = [user EXCEPT ![j.user] = j.row]
    BY <1>5 DEF CommitIssue
  <2>3. /\ EmailsStay /\ user'[j.user] = j.row /\ user' \in [Users -> UserRow]
        /\ \A v \in Users : user'[v] = IF v = j.user THEN j.row ELSE user[v]
    BY <1>3, <2>1, <2>2 DEF EmailsStay, IInv, TypeOK
  <2>4. SerialInv' /\ Atomic!Open(t, "verify", j.row.email)
    BY <1>1, <1>2, <1>3, <1>4, <1>5, <2>1, <2>3, Opens
  <2>5. /\ j.row.email \in Mailboxes
        /\ AccountsAt(user)[j.row.email] = None
        /\ AccountsAt(user') = [AccountsAt(user) EXCEPT ![j.row.email] =
                                  [password |-> j.row.password, verified |-> j.row.verified]]
    BY <1>3, <2>1, <2>3, UsersSound, RowWritten
  <2>6. j.row.password \in Passwords /\ j.row.verified = FALSE
    BY <2>1 DEF Stored, UserRow
  <2>7. /\ AccountsSeen[j.row.email] = None
        /\ AccountsSeen' = [AccountsSeen EXCEPT ![j.row.email] =
                              [password |-> j.row.password, verified |-> FALSE]]
    BY <2>5, <2>6, AccountsAre
  <2>8. Atomic!Register(j.row.email, j.row.password, t)
    BY <2>4, <2>7 DEF Atomic!Register, AccountsSeen
  <2> QED BY <1>2, <2>4, <2>5, <2>6, <2>8 DEF Atomic!Next
<1>6. CASE j.op = "request"
  <2>1. user' = user /\ user[j.user] # NoUser
    BY <1>1, <1>6 DEF CommitIssue, JobOK
  <2>2. EmailsStay
    BY <2>1 DEF EmailsStay
  <2>3. /\ Stored(user[j.user]) /\ user[j.user].email \in Mailboxes
        /\ AccountsSeen[user[j.user].email] # None
    BY <1>3, <2>1, HasAccount
  <2>4. SerialInv' /\ Atomic!Open(t, "reset", user[j.user].email)
    BY <1>1, <1>2, <1>3, <1>4, <1>6, <2>1, <2>2, <2>3, Opens
  <2>5. AccountsSeen' = AccountsSeen
    BY <2>1, AccountsAre
  <2>6. Atomic!RequestReset(user[j.user].email, t)
    BY <2>3, <2>4, <2>5 DEF Atomic!RequestReset, AccountsSeen
  <2> QED BY <1>2, <2>3, <2>4, <2>6 DEF Atomic!Next
<1> QED BY <1>1, <1>5, <1>6

\* The row of the user that a request of theirs has read.
LEMMA UserOf ==
  ASSUME IInv, NEW w \in Workers, job[w].op \notin {"none", "register"}
  PROVE  job[w].user \in Users /\ user[job[w].user] # NoUser
BY DEF IInv, JobOK

LEMMA CommitUseSerially ==
  ASSUME IInv, SerialInv, NEW w \in Workers, CommitUse(w)
  PROVE  SerialInv' /\ Atomic!Next
<1> SUFFICES ASSUME NEW j, j = job[w], NEW t, t = j.token PROVE SerialInv' /\ Atomic!Next
  OBVIOUS
<1> DEFINE u == j.user
           m == user[u].email
<1>1. /\ j.op \in {"verify", "reset"} /\ job[w] # Idle /\ j.step = "commit"
      /\ Finish(w) /\ token' = [token EXCEPT ![t] = Spent(t)]
  BY IdleJob DEF CommitUse
<1>2. u \in Users /\ user[u] # NoUser
  BY <1>1, UserOf
<1>3. /\ user[u] \in UserRow /\ Stored(user[u]) /\ m \in Mailboxes
      /\ AccountsSeen[m] = [password |-> user[u].password, verified |-> user[u].verified]
  BY <1>2, HasAccount
<1>4. Follows(user, token, j)
  BY <1>1, EndsAlone
<1>5. t \in Tokens /\ token[t].kind = j.op
  BY <1>1, <1>4 DEF Follows, Using
<1>6. /\ token'[t].user = token[t].user /\ token'[t].kind = token[t].kind /\ token'[t].used
      /\ \A x \in Tokens \ {t} : token'[x] = token[x]
  BY <1>1, <1>5 DEF Spent, IInv, TypeOK, TokenRow
<1>7. j.op \in Using
  BY <1>1 DEF Using
<1>8. ASSUME EmailsStay
      PROVE  /\ SerialInv'
             /\ IssuesSeen[t] = [state |-> "open", kind |-> j.op, mailbox |-> m]
             /\ IssuesSeen' = [IssuesSeen EXCEPT ![t].state = "spent"]
  BY <1>1, <1>5, <1>6, <1>7, <1>8, Spends
<1>9. CASE j.op = "verify"
  <2> DEFINE r == [user[u] EXCEPT !.verified = TRUE]
  <2>1. user' = [user EXCEPT ![u] = r]
    BY <1>9 DEF CommitUse
  <2>2. /\ r \in UserRow /\ r.email = m /\ Stored(r)
        /\ r.password = user[u].password /\ r.verified = TRUE
    BY <1>3 DEF UserRow, Stored
  <2> HIDE DEF r
  <2>0. user' \in [Users -> UserRow] /\ \A v \in Users : user'[v] = IF v = u THEN r ELSE user[v]
    BY <1>2, <2>1, <2>2, RowIs
  <2>3. /\ EmailsStay
        /\ AccountsSeen' = [AccountsSeen EXCEPT ![m] = [password |-> r.password, verified |-> r.verified]]
    BY <1>2, <2>2, <2>0, WritesAccount
  <2>4. AccountsSeen' = [AccountsSeen EXCEPT ![m].verified = TRUE]
    <3>1. AccountsSeen' = [AccountsSeen EXCEPT ![m] = [password |-> user[u].password, verified |-> TRUE]]
      BY <2>2, <2>3
    <3>2. PICK x : x = TRUE
      OBVIOUS
    <3>3. [[password |-> user[u].password, verified |-> user[u].verified] EXCEPT !.verified = x]
            = [password |-> user[u].password, verified |-> x]
      OBVIOUS
    <3>4. [AccountsSeen[m] EXCEPT !.verified = TRUE]
            = [password |-> user[u].password, verified |-> TRUE]
      BY <1>3, <3>2, <3>3, Zenon
    <3> QED BY <3>1, <3>4, Zenon
  <2>5. IssuesSeen[t].state = "open" /\ IssuesSeen[t].kind = "verify" /\ IssuesSeen[t].mailbox = m
    BY <1>8, <1>9, <2>3
  <2>6. AccountsSeen' = [AccountsSeen EXCEPT ![IssuesSeen[t].mailbox].verified = TRUE]
    BY <2>4, <2>5
  <2>7. Atomic!VerifyEmail(t)
    BY <1>8, <2>3, <2>5, <2>6, Zenon DEF Atomic!VerifyEmail, Atomic!Spend, AccountsSeen, IssuesSeen
  <2> QED BY <1>5, <1>8, <2>3, <2>7 DEF Atomic!Next
<1>10. CASE j.op = "reset"
  <2> DEFINE r == [user[u] EXCEPT !.password = j.password]
  <2>1. user' = [user EXCEPT ![u] = r]
    BY <1>10 DEF CommitUse
  <2>2. j.password \in Passwords
    BY <1>10 DEF IInv, JobOK, StepOK
  <2>3. /\ r \in UserRow /\ r.email = m /\ Stored(r)
        /\ r.password = j.password /\ r.verified = user[u].verified
    BY <1>3, <2>2 DEF UserRow, Stored
  <2> HIDE DEF r
  <2>0. user' \in [Users -> UserRow] /\ \A v \in Users : user'[v] = IF v = u THEN r ELSE user[v]
    BY <1>2, <2>1, <2>3, RowIs
  <2>4. /\ EmailsStay
        /\ AccountsSeen' = [AccountsSeen EXCEPT ![m] = [password |-> r.password, verified |-> r.verified]]
    BY <1>2, <2>3, <2>0, WritesAccount
  <2>5. AccountsSeen' = [AccountsSeen EXCEPT ![m].password = j.password]
    <3>1. AccountsSeen' = [AccountsSeen EXCEPT ![m] =
                            [password |-> j.password, verified |-> user[u].verified]]
      BY <2>3, <2>4
    <3>2. [[password |-> user[u].password, verified |-> user[u].verified]
             EXCEPT !.password = j.password]
            = [password |-> j.password, verified |-> user[u].verified]
      OBVIOUS
    <3>3. [AccountsSeen[m] EXCEPT !.password = j.password]
            = [password |-> j.password, verified |-> user[u].verified]
      BY <1>3, <3>2, Zenon
    <3> QED BY <3>1, <3>3, Zenon
  <2>6. IssuesSeen[t].state = "open" /\ IssuesSeen[t].kind = "reset" /\ IssuesSeen[t].mailbox = m
    BY <1>8, <1>10, <2>4
  <2>7. AccountsSeen' = [AccountsSeen EXCEPT ![IssuesSeen[t].mailbox].password = j.password]
    BY <2>5, <2>6
  <2>8. Atomic!ResetPassword(t, j.password)
    BY <1>8, <2>4, <2>6, <2>7, Zenon DEF Atomic!ResetPassword, Atomic!Spend, AccountsSeen, IssuesSeen
  <2> QED BY <1>5, <1>8, <2>2, <2>4, <2>8 DEF Atomic!Next
<1> QED BY <1>1, <1>9, <1>10

\* A request that uses no token, and writes none.
LEMMA LeavesAllIssues ==
  ASSUME NEW w \in Workers, IInv, SerialInv, job[w] # Idle, Finish(w), job[w].op \notin Using,
         EmailsStay, UNCHANGED token
  PROVE  SerialInv' /\ IssuesSeen' = IssuesSeen
<1>1. \A t \in Tokens : IssueAt(user', token', job', t) = IssueAt(user, token, job, t)
  BY LeavesIssues
<1>2. IssuesAt(user', token', job') = IssuesAt(user, token, job)
  BY <1>1 DEF IssuesAt
<1> QED BY <1>2, IssuesAre, EndsAlone

LEMMA SavesSerially ==
  ASSUME IInv, SerialInv, NEW w \in Workers, SavePassword(w) \/ SaveProfile(w)
  PROVE  SerialInv' /\ (Atomic!Next \/ Unseen)
<1> SUFFICES ASSUME NEW j, j = job[w] PROVE SerialInv' /\ (Atomic!Next \/ Unseen)
  OBVIOUS
<1> DEFINE u == j.user
<1>1. /\ j.op \in {"change", "profile"} /\ j.op \notin Using /\ job[w] # Idle
      /\ Finish(w) /\ token' = token
  BY IdleJob DEF SavePassword, SaveProfile, Using
<1>2. u \in Users /\ user[u] # NoUser
  BY <1>1, UserOf
<1>3. /\ user[u] \in UserRow /\ Stored(user[u]) /\ user[u].email \in Mailboxes
      /\ AccountsSeen[user[u].email] # None
      /\ AccountsSeen[user[u].email]
           = [password |-> user[u].password, verified |-> user[u].verified]
  BY <1>2, HasAccount
<1>4. CASE SavePassword(w)
  <2> DEFINE r == [user[u] EXCEPT !.password = j.password]
  <2>1. user' = [user EXCEPT ![u] = r] /\ j.op = "change"
    BY <1>4 DEF SavePassword
  <2>2. j.password \in Passwords
    BY <2>1 DEF IInv, JobOK, StepOK
  <2>3. /\ r \in UserRow /\ r.email = user[u].email /\ Stored(r)
        /\ r.password = j.password /\ r.verified = user[u].verified
    BY <1>3, <2>2 DEF UserRow, Stored
  <2> HIDE DEF r
  <2>0. user' \in [Users -> UserRow] /\ \A v \in Users : user'[v] = IF v = u THEN r ELSE user[v]
    BY <1>2, <2>1, <2>3, RowIs
  <2>4. /\ EmailsStay
        /\ AccountsSeen' = [AccountsSeen EXCEPT ![user[u].email] =
                              [password |-> r.password, verified |-> r.verified]]
    BY <1>2, <2>3, <2>0, WritesAccount
  <2>5. AccountsSeen' = [AccountsSeen EXCEPT ![user[u].email].password = j.password]
    <3>1. AccountsSeen' = [AccountsSeen EXCEPT ![user[u].email] =
                            [password |-> j.password, verified |-> user[u].verified]]
      BY <2>3, <2>4
    <3>2. [[password |-> user[u].password, verified |-> user[u].verified]
             EXCEPT !.password = j.password]
            = [password |-> j.password, verified |-> user[u].verified]
      OBVIOUS
    <3>3. [AccountsSeen[user[u].email] EXCEPT !.password = j.password]
            = [password |-> j.password, verified |-> user[u].verified]
      BY <1>3, <3>2, Zenon
    <3> QED BY <3>1, <3>3, Zenon
  <2>6. SerialInv' /\ IssuesSeen' = IssuesSeen
    BY <1>1, <2>4, LeavesAllIssues
  <2>7. Atomic!ChangePassword(user[u].email, j.password)
    BY <1>3, <2>5, <2>6 DEF Atomic!ChangePassword, AccountsSeen, IssuesSeen
  <2> QED BY <1>3, <2>2, <2>6, <2>7 DEF Atomic!Next
<1>5. CASE SaveProfile(w)
  <2>1. user' = [user EXCEPT ![u] = j.row] /\ j.op = "profile"
    BY <1>5 DEF SaveProfile
  <2>2. Follows(user, token, j)
    BY <1>1, EndsAlone
  <2>3. j.row = user[u]
    BY <2>1, <2>2 DEF Follows
  <2>4. user' = user
    BY <2>1, <2>3 DEF IInv, TypeOK
  <2>5. EmailsStay
    BY <2>4 DEF EmailsStay
  <2>6. SerialInv' /\ IssuesSeen' = IssuesSeen
    BY <1>1, <2>5, LeavesAllIssues
  <2>7. AccountsSeen' = AccountsSeen
    BY <2>4, AccountsAre
  <2> QED BY <2>6, <2>7 DEF Unseen
<1> QED BY <1>4, <1>5
LEMMA BlacklistSerially ==
  ASSUME IInv, SerialInv, NEW w \in Workers, Blacklist(w)
  PROVE  SerialInv' /\ (Atomic!Next \/ Unseen)
<1> SUFFICES ASSUME NEW j, j = job[w], NEW t, t = j.token
             PROVE  SerialInv' /\ (Atomic!Next \/ Unseen)
  OBVIOUS
<1>1. /\ j \in Job /\ j.op \in {"refresh", "logout"} /\ j.op \in Using /\ job[w] # Idle
      /\ user' = user /\ token' = [token EXCEPT ![t] = Spent(t)]
  BY IdleJob DEF Blacklist, IInv, TypeOK, JobOK, StepOK, Using
<1>2. Alone(job, w) /\ Follows(user, token, j)
  BY <1>1, OthersIdle
<1>3. t \in Tokens /\ token[t].kind = "refresh"
  BY <1>1, <1>2 DEF Follows
<1>4. /\ token'[t].user = token[t].user /\ token'[t].kind = token[t].kind /\ token'[t].used
      /\ \A x \in Tokens \ {t} : token'[x] = token[x]
  BY <1>1, <1>3 DEF Spent, IInv, TypeOK, TokenRow
<1>5. EmailsStay /\ AccountsSeen' = AccountsSeen
  BY <1>1, AccountsAre DEF EmailsStay
<1>6. CASE j.op = "logout"
  <2>1. Finish(w)
    BY <1>6 DEF Blacklist
  <2>2. /\ SerialInv' /\ IssuesSeen[t].state = "open"
        /\ IssuesSeen' = [IssuesSeen EXCEPT ![t].state = "spent"]
    <3>1. /\ SerialInv'
          /\ IssuesSeen[t] = [state |-> "open", kind |-> token[t].kind,
                              mailbox |-> user[job[w].user].email]
          /\ IssuesSeen' = [IssuesSeen EXCEPT ![t].state = "spent"]
      BY <1>1, <1>3, <1>4, <1>5, <2>1, Spends
    <3> QED BY <3>1
  <2>3. Atomic!Expire(t)
    BY <1>5, <2>2 DEF Atomic!Expire, Atomic!Spend, AccountsSeen, IssuesSeen
  <2> QED BY <1>3, <2>2, <2>3 DEF Atomic!Next
<1>7. CASE j.op = "refresh"
  <2> DEFINE k == [j EXCEPT !.step = "mint"]
  <2>1. k.op = "refresh" /\ k.token = t /\ k.user = j.user
    BY <1>1, <1>7 DEF Job
  <2>2. Become(w, k)
    BY <1>7 DEF Blacklist
  <2> HIDE DEF k
  <2>3. Follows(user', token', k)
    BY <1>2, <1>3, <1>4, <1>7, <2>1 DEF Follows, Using
  <2>4. SerialInv' /\ Alone(job', w) /\ job'[w] = k
    BY <1>2, <2>2, <2>3, SerialKeeps
  <2>5. ASSUME NEW x \in Tokens
        PROVE  IssueAt(user', token', job', x) = IssueAt(user, token, job, x)
    <3>1. (HeldAt(job', x) <=> Holds(k, x)) /\ (HeldAt(job, x) <=> Holds(j, x))
      BY <1>2, <2>4, HeldAlone
    <3>2. Holds(k, x) <=> Holds(j, x)
      BY <1>7, <2>1 DEF Holds
    <3>3. x = t => Holds(j, x)
      BY <1>1 DEF Holds
    <3>4. token'[x].user = token[x].user /\ token'[x].kind = token[x].kind
      BY <1>4
    <3>5. OpenAt(token', job', x) <=> OpenAt(token, job, x)
      BY <1>4, <3>1, <3>2, <3>3 DEF OpenAt
    <3> QED BY <1>5, <3>4, <3>5, OtherIssues
  <2>6. IssuesAt(user', token', job') = IssuesAt(user, token, job)
    BY <2>5 DEF IssuesAt
  <2> QED BY <1>5, <2>4, <2>6, IssuesAre DEF Unseen
<1> QED BY <1>1, <1>6, <1>7

LEMMA MintSerially ==
  ASSUME IInv, SerialInv, NEW w \in Workers, NEW t \in Tokens, Mint(w, t)
  PROVE  SerialInv' /\ Atomic!Next
<1> SUFFICES ASSUME NEW j, j = job[w], NEW row, row = Issued(j), NEW x, x = j.token,
                    NEW m, m = user[j.user].email
             PROVE  SerialInv' /\ Atomic!Next
  OBVIOUS
<1>1. /\ j.op \in {"login", "refresh"} /\ job[w] # Idle /\ Finish(w) /\ user' = user
      /\ token' = [token EXCEPT ![t] = row] /\ token[t].user = None
  BY IdleJob DEF Mint, FreshTokens, IInv, JobOK, StepOK
<1>2. j.user \in Users /\ user[j.user] # NoUser
  BY <1>1, UserOf
<1>3. Stored(user[j.user]) /\ m \in Mailboxes /\ AccountsSeen[m] # None
  BY <1>2, HasAccount
<1>4. /\ row \in TokenRow /\ row.user = j.user /\ row.kind = "refresh"
      /\ ~ row.used /\ ~ row.expired
  BY <1>1, <1>2 DEF Issued, TokenRow
<1>5. EmailsStay /\ AccountsSeen' = AccountsSeen
  BY <1>1, AccountsAre DEF EmailsStay
<1>6. CASE j.op = "login"
  <2>1. j.op \notin Using
    BY <1>6 DEF Using
  <2>2. SerialInv' /\ Atomic!Open(t, "refresh", m)
    BY <1>1, <1>2, <1>3, <1>4, <1>5, <2>1, Opens
  <2>3. Atomic!Login(m, t)
    BY <1>3, <1>5, <2>2 DEF Atomic!Login, AccountsSeen
  <2> QED BY <1>3, <2>2, <2>3 DEF Atomic!Next
<1>7. CASE j.op = "refresh"
  <2>1. /\ SerialInv' /\ Follows(user, token, j)
        /\ \A y \in Tokens : ~ HeldAt(job', y) /\ (HeldAt(job, y) <=> Holds(j, y))
    BY <1>1, EndsAlone
  <2>2. /\ x \in Tokens /\ token[x].user = j.user /\ token[x].kind = "refresh" /\ Holds(j, x)
        /\ x # t
    BY <1>1, <1>2, <1>7, <2>1, NoneIsNew DEF Follows, Using, Holds
  <2>3. token'[t] = row /\ \A y \in Tokens \ {t} : token'[y] = token[y]
    BY <1>1 DEF IInv, TypeOK
  <2>4. j.user # None /\ Lower[m] = m
    BY <1>2, <1>3, NoneIsNew DEF Stored
  <2>5. IssueAt(user, token, job, x) = [state |-> "open", kind |-> "refresh", mailbox |-> m]
    BY <2>1, <2>2, <2>4 DEF IssueAt, OpenAt
  <2>6. IssueAt(user, token, job, t) = [state |-> "fresh", kind |-> None, mailbox |-> None]
    BY <1>1 DEF IssueAt
  <2>7. IssueAt(user', token', job', t) = [state |-> "open", kind |-> "refresh", mailbox |-> m]
    BY <1>1, <1>4, <2>3, <2>4 DEF IssueAt, OpenAt
  <2>8. PICK s \in {"open", "spent"} :
          IssueAt(user', token', job', x) = [state |-> s, kind |-> "refresh", mailbox |-> m]
    BY <1>1, <2>2, <2>3, <2>4 DEF IssueAt
  <2>9. ASSUME NEW y \in Tokens \ {t, x}
        PROVE  IssueAt(user', token', job', y) = IssueAt(user, token, job, y)
    <3>1. OpenAt(token', job', y) <=> OpenAt(token, job, y)
      BY <2>1, <2>3 DEF OpenAt, Holds
    <3> QED BY <1>5, <2>3, <3>1, OtherIssues
  <2>10. /\ IssuesSeen[x] = [state |-> "open", kind |-> "refresh", mailbox |-> m]
         /\ IssuesSeen[t] = [state |-> "fresh", kind |-> None, mailbox |-> None]
    BY <2>2, <2>5, <2>6, IssuesAre DEF IssuesAt
  <2>11. IssuesSeen' = [IssuesSeen EXCEPT ![x] = [state |-> s, kind |-> "refresh", mailbox |-> m],
                                          ![t] = [state |-> "open", kind |-> "refresh", mailbox |-> m]]
    BY <2>2, <2>7, <2>8, <2>9, IssuesAre DEF IssuesAt
  <2>12. \A y : [[state |-> "open", kind |-> "refresh", mailbox |-> m] EXCEPT !.state = y]
                   = [state |-> y, kind |-> "refresh", mailbox |-> m]
    OBVIOUS
  <2>13. /\ [IssuesSeen[x] EXCEPT !.state = s] = [state |-> s, kind |-> "refresh", mailbox |-> m]
         /\ [IssuesSeen[x] EXCEPT !.state = "open"]
               = [state |-> "open", kind |-> "refresh", mailbox |-> m]
    BY <2>10, <2>12, Zenon
  <2>14. IssuesSeen' = [IssuesSeen EXCEPT ![x].state = s,
                                          ![t] = [IssuesSeen[x] EXCEPT !.state = "open"]]
    BY <2>11, <2>13, Zenon
  <2>15. IssuesSeen[x].state = "open" /\ IssuesSeen[x].kind = "refresh"
    BY <2>10
  <2>16. IssuesSeen[t] = Atomic!Fresh
    BY <2>10 DEF Atomic!Fresh
  <2>17. Atomic!Rotate(x, t)
    BY <1>5, <2>14, <2>15, <2>16, Zenon DEF Atomic!Rotate, AccountsSeen, IssuesSeen
  <2> QED BY <2>1, <2>2, <2>17 DEF Atomic!Next
<1> QED BY <1>1, <1>6, <1>7

LEMMA FailSerially ==
  ASSUME IInv, SerialInv, NEW w \in Workers, Fail(w)
  PROVE  SerialInv' /\ (Atomic!Next \/ Unseen)
<1>1. job[w] # Idle /\ Finish(w) /\ user' = user /\ token' = token
  BY DEF Fail
<1>2. EmailsStay /\ AccountsSeen' = AccountsSeen
  BY <1>1, AccountsAre DEF EmailsStay
<1>3. CASE job[w].op \notin Using
  BY <1>1, <1>2, <1>3, LeavesAllIssues DEF Unseen
<1>4. CASE job[w].op \in Using /\ (token[job[w].token].used \/ token[job[w].token].expired)
  <2> SUFFICES ASSUME NEW x, x = job[w].token PROVE SerialInv' /\ Atomic!Next
    OBVIOUS
  <2>1. /\ SerialInv' /\ x \in Tokens /\ IssuesSeen[x].state = "open"
        /\ IssuesSeen' = [IssuesSeen EXCEPT ![x].state = "spent"]
    <3>1. /\ token'[x].user = token[x].user /\ token'[x].kind = token[x].kind
          /\ token'[x].used \/ token'[x].expired
          /\ \A t \in Tokens \ {x} : token'[t] = token[t]
      BY <1>1, <1>4
    <3>2. /\ SerialInv' /\ x \in Tokens
          /\ IssuesSeen[x] = [state |-> "open", kind |-> token[x].kind,
                              mailbox |-> user[job[w].user].email]
          /\ IssuesSeen' = [IssuesSeen EXCEPT ![x].state = "spent"]
      BY <1>1, <1>2, <1>4, <3>1, Spends
    <3> QED BY <3>2
  <2>2. Atomic!Expire(x)
    BY <1>2, <2>1 DEF Atomic!Expire, Atomic!Spend, AccountsSeen, IssuesSeen
  <2> QED BY <2>1, <2>2 DEF Atomic!Next
<1>5. CASE job[w].op \in Using /\ ~ token[job[w].token].used /\ ~ token[job[w].token].expired
  <2>1. /\ SerialInv'
        /\ \A t \in Tokens : ~ HeldAt(job', t) /\ (HeldAt(job, t) <=> Holds(job[w], t))
    BY <1>1, EndsAlone
  <2>2. ASSUME NEW t \in Tokens
        PROVE  IssueAt(user', token', job', t) = IssueAt(user, token, job, t)
    <3>1. OpenAt(token', job', t) <=> OpenAt(token, job, t)
      BY <1>1, <1>5, <2>1 DEF OpenAt, Holds
    <3> QED BY <1>1, <1>2, <3>1, OtherIssues
  <2>3. IssuesAt(user', token', job') = IssuesAt(user, token, job)
    BY <2>2 DEF IssuesAt
  <2> QED BY <1>2, <2>1, <2>3, IssuesAre DEF Unseen
<1> QED BY <1>3, <1>4, <1>5

\* A token that expires is spent, unless a request has found it usable.
LEMMA ExpireSerially ==
  ASSUME IInv, SerialInv, NEW t \in Tokens, Expire(t)
  PROVE  SerialInv' /\ (Atomic!Next \/ Unseen)
<1>1. /\ user' = user /\ job' = job /\ token[t].user # None
      /\ token'[t].user = token[t].user /\ token'[t].kind = token[t].kind /\ token'[t].expired
      /\ \A x \in Tokens \ {t} : token'[x] = token[x]
  BY DEF Expire, IInv, TypeOK, TokenRow
<1>2. SerialInv'
  <2>1. ASSUME NEW j, Follows(user, token, j) PROVE Follows(user', token', j)
    <3>1. \A x \in Tokens : token'[x].user = token[x].user /\ token'[x].kind = token[x].kind
      BY <1>1
    <3> QED BY <1>1, <2>1, <3>1 DEF Follows, Using
  <2> QED BY <1>1, <2>1 DEF SerialInv
<1>3. EmailsStay /\ AccountsSeen' = AccountsSeen
  BY <1>1, AccountsAre DEF EmailsStay
<1>4. ASSUME NEW x \in Tokens, x # t \/ (OpenAt(token', job', t) <=> OpenAt(token, job, t))
      PROVE  IssueAt(user', token', job', x) = IssueAt(user, token, job, x)
  <2>1. OpenAt(token', job', x) <=> OpenAt(token, job, x)
    BY <1>1, <1>4 DEF OpenAt
  <2> QED BY <1>1, <1>3, <2>1, OtherIssues
<1>5. CASE OpenAt(token', job', t) <=> OpenAt(token, job, t)
  <2>1. IssuesAt(user', token', job') = IssuesAt(user, token, job)
    BY <1>4, <1>5 DEF IssuesAt
  <2> QED BY <1>2, <1>3, <2>1, IssuesAre DEF Unseen
<1>6. CASE OpenAt(token, job, t) /\ ~ OpenAt(token', job', t)
  <2> DEFINE kind == token[t].kind
             m == Lower[user[token[t].user].email]
  <2>1. IssueAt(user, token, job, t) = [state |-> "open", kind |-> kind, mailbox |-> m]
    BY <1>1, <1>6 DEF IssueAt
  <2>2. IssueAt(user', token', job', t) = [state |-> "spent", kind |-> kind, mailbox |-> m]
    BY <1>1, <1>6 DEF IssueAt
  <2> HIDE DEF kind, m
  <2>3. /\ IssuesSeen[t].state = "open"
        /\ IssuesSeen' = [IssuesSeen EXCEPT ![t].state = "spent"]
    BY <1>4, <2>1, <2>2, IssuesAre DEF IssuesAt
  <2>4. Atomic!Expire(t)
    BY <1>3, <2>3 DEF Atomic!Expire, Atomic!Spend, AccountsSeen, IssuesSeen
  <2> QED BY <1>2, <2>4 DEF Atomic!Next
<1>7. OpenAt(token', job', t) => OpenAt(token, job, t)
  BY <1>1 DEF OpenAt
<1> QED BY <1>5, <1>6, <1>7
-----------------------------------------------------------------------------
(***************************************************************************)
(* All steps.                                                              *)
(***************************************************************************)
LEMMA SerialStep ==
  ASSUME IInv, SerialInv, OneAtATime, Next
  PROVE  SerialInv' /\ (Atomic!Next \/ Unseen)
<1>1. ASSUME NEW w \in Workers, NEW e, NEW p, NEW u,
             RequestReset(w, e) \/ ValidateEmail(w, e, p) \/ ReadProfile(w, u) \/ Login(w, u)
               \/ ReadPassword(w, u, p)
      PROVE  SerialInv' /\ Unseen
  BY <1>1, BeginsSerially
<1>2. ASSUME NEW w \in Workers, NEW t \in Tokens, NEW p, ReadToken(w, t, p) \/ ReadRefresh(w, t)
      PROVE  SerialInv' /\ Unseen
  BY <1>2, ReadsTokenSerially
<1>3. ASSUME NEW w \in Workers, NEW u, NEW t,
             CheckEmail(w) \/ CreateUser(w, u) \/ QueueEmail(w, t) \/ BlacklistFails(w)
      PROVE  SerialInv' /\ Unseen
  BY <1>3, GoesOnSerially
<1>4. ASSUME NEW w \in Workers, CommitIssue(w) \/ CommitUse(w)
      PROVE  SerialInv' /\ Atomic!Next
  BY <1>4, CommitIssueSerially, CommitUseSerially
<1>5. ASSUME NEW w \in Workers, SavePassword(w) \/ SaveProfile(w) \/ Blacklist(w) \/ Fail(w)
      PROVE  SerialInv' /\ (Atomic!Next \/ Unseen)
  BY <1>5, SavesSerially, BlacklistSerially, FailSerially
<1>6. ASSUME NEW w \in Workers, NEW t \in Tokens, Mint(w, t)
      PROVE  SerialInv' /\ Atomic!Next
  BY <1>6, MintSerially
<1>7. ASSUME NEW t \in Tokens, Expire(t)
      PROVE  SerialInv' /\ (Atomic!Next \/ Unseen)
  BY <1>7, ExpireSerially
<1> QED BY <1>1, <1>2, <1>3, <1>4, <1>5, <1>6, <1>7, Zenon DEF Next

SInv == IInv /\ (serial => SerialInv)

\* What a step of the served requests keeps and does, serial or not.
LEMMA ServedStep ==
  ASSUME SInv, ServedNext \/ UNCHANGED <<vars, serial>>
  PROVE  SInv' /\ (serial => Atomic!Next \/ Unseen)
<1>1. CASE ServedNext /\ serial
  <2>1. Next /\ OneAtATime
    BY <1>1 DEF ServedNext
  <2> QED BY <1>1, <2>1, NextIInv, SerialStep DEF SInv
<1>2. CASE ServedNext /\ ~ serial
  <2>1. Next /\ serial' = serial
    BY <1>2 DEF ServedNext
  <2>2. ~ serial'
    BY <1>2, <2>1
  <2> QED BY <1>2, <2>1, <2>2, NextIInv DEF SInv
<1>3. CASE UNCHANGED <<vars, serial>>
  <2>1. UNCHANGED vars /\ serial' = serial
    BY <1>3
  <2>2. IInv'
    BY <2>1, NextIInv DEF SInv
  <2>3. ASSUME SerialInv PROVE SerialInv' /\ Unseen
    BY <2>1, <2>3, AccountsAre, IssuesAre DEF SerialInv, Unseen, vars
  <2>4. serial' => serial
    BY <2>1
  <2> QED BY <2>2, <2>3, <2>4 DEF SInv
<1> QED BY <1>1, <1>2, <1>3

\* At the start there is no account, and every token is fresh.
LEMMA ServedStart == ServedInit => SInv /\ Atomic!Init
<1> SUFFICES ASSUME Init PROVE IInv /\ SerialInv /\ Atomic!Init
  BY DEF ServedInit, SInv
<1>1. IInv
  BY InitIInv
<1>2. \A w \in Workers : job[w] = Idle
  BY DEF Init
<1>3. SerialInv
  BY <1>2, IdleFollows DEF SerialInv
<1>4. ASSUME NEW m \in Mailboxes PROVE AccountAt(user, m) = None
  <2>1. UsersAt(user, m) = {}
    BY DEF Init, UsersAt
  <2> QED BY <2>1 DEF AccountAt
<1>5. ASSUME NEW t \in Tokens PROVE IssueAt(user, token, job, t) = Atomic!Fresh
  BY DEF Init, NoToken, IssueAt, Atomic!Fresh
<1>6. AccountsSeen = [m \in Mailboxes |-> None] /\ IssuesSeen = [t \in Tokens |-> Atomic!Fresh]
  BY <1>4, <1>5, AccountsAre, IssuesAre DEF AccountsAt, IssuesAt
<1> QED BY <1>1, <1>3, <1>6 DEF Atomic!Init, AccountsSeen, IssuesSeen

\* Requests served one at a time (apps/accounts/services.py, auth.py and views.py): a mailbox
\* gets one account, by the commit of its registration; its password and its verification change
\* only by a token that is spent then, or by the change of the password, and no profile update
\* touches them; and a session goes on from an open token, which is spent or whose blacklisting
\* failed.
THEOREM SerialAccountsAreAtomic == ServedSpec => SerialAtomicSpec
<1>1. ServedInit => SInv /\ Atomic!Init
  BY ServedStart
<1>2. SInv /\ [ServedNext]_<<vars, serial>> => SInv'
  <2> SUFFICES ASSUME SInv, ServedNext \/ UNCHANGED <<vars, serial>> PROVE SInv'
    OBVIOUS
  <2> QED BY ServedStep
<1>3. SInv /\ [ServedNext]_<<vars, serial>>
        => [serial => Atomic!Next]_<<[m \in Mailboxes |-> AccountOf(m)], [t \in Tokens |-> IssueOf(t)]>>
  <2> SUFFICES ASSUME SInv, ServedNext \/ UNCHANGED <<vars, serial>>
               PROVE  (serial => Atomic!Next) \/ Unseen
    BY DEF Unseen, AccountsSeen, IssuesSeen
  <2> QED BY ServedStep, Zenon
<1> QED BY <1>1, <1>2, <1>3, PTL DEF ServedSpec, SerialAtomicSpec
=============================================================================
