---------------------------- MODULE AdminProofs -----------------------------
(***************************************************************************)
(* Proofs about the admin side of the server: Accounts, for any sets of    *)
(* names, requests and tokens, any limit of failures and any number of     *)
(* changes, and Panel, for any jobs, packages and versions.                *)
(*                                                                         *)
(* SessionsFollowAccounts needs LoginsFollow: what a login has read of its *)
(* account still holds, or the change that overtook it is remembered.      *)
(*                                                                         *)
(* OthersSignedOut needs PasswordInv: a login under way has read the       *)
(* password its user chose last or was overtaken, and the handler that     *)
(* still owes a session its end is one that spares another token.          *)
(*                                                                         *)
(* What is installed is whole because an install that did not overlap      *)
(* another one and found nothing left over has the temporary directory to  *)
(* itself (InstallAlone); a removal only takes files away, and whoever     *)
(* removes is still at it, or marked (RemovalLeaves, UnlinkWholeStep).     *)
(* The binary put in place is good because an update that did not overlap  *)
(* one of its own version has the stage to itself, from the checksum to    *)
(* the last rename (UpdateAlone); the last good one is removed only by an  *)
(* update whose binary was renamed after it had looked (PreviousKept).     *)
(* The active theme is served because an update copies whole themes and    *)
(* tells when it has taken the installed ones away, and because who wants  *)
(* the theme that is being deleted did not ask the lock (ServedInv).       *)
(***************************************************************************)
EXTENDS Accounts, Panel, FiniteSetTheorems, TLAPS

-----------------------------------------------------------------------------
(***************************************************************************)
(* Accounts                                                                *)
(***************************************************************************)

\* What a login has read and not yet used agrees with the table.
LoginsFollow ==
    \A r \in Requests : pc[r] \in {"read", "proved"} =>
        LET u == users[work[r].user] IN
        \/ u # None /\ u.enabled /\ u.id = work[r].id
        \/ "account" \in work[r].late

AccountInv == /\ AccountTypeOK
              /\ SomeAdminRemains
              /\ LoginsFollow
              /\ SessionsFollowAccounts

-----------------------------------------------------------------------------
\* The invariant holds at a first start.
LEMMA AccountInitInv == Init => AccountInv
<1> SUFFICES ASSUME Init PROVE AccountInv
  OBVIOUS
<1> USE AccountAssumption, NoneIsNoUser
<1>1. \A i \in Nat : \A b \in BOOLEAN : NewUser(i, b) \in User
  BY DEF NewUser, Account, User
<1>2. Blank \in Work
  BY DEF Blank, Job, Work
<1>3. AccountTypeOK
  <2>1. users \in [Names -> User \cup {None}]
    <3>1. users \in [Names -> {None, NewUser(0, TRUE), NewUser(0, FALSE)}]
      BY DEF Init
    <3>2. NewUser(0, TRUE) \in User /\ NewUser(0, FALSE) \in User
      BY <1>1
    <3> QED
      BY <3>1, <3>2
  <2> QED
    BY <1>2, <2>1 DEF Init, AccountTypeOK, Points
<1>4. SomeAdminRemains
  <2>1. users[Root] = NewUser(0, TRUE) /\ users[Root] # None
    BY <1>1 DEF Init
  <2> QED
    BY <2>1 DEF SomeAdminRemains, EnabledAdmin, NewUser, Account
<1>5. LoginsFollow /\ SessionsFollowAccounts
  BY DEF Init, LoginsFollow, SessionsFollowAccounts
<1> QED
  BY <1>3, <1>4, <1>5 DEF AccountInv

-----------------------------------------------------------------------------
(* Types *)

\* What a login has read stays well formed when a change overtakes it.
LEMMA OvertakenType ==
  ASSUME AccountTypeOK, NEW n \in Names, NEW what \in Event
  PROVE  Overtaken(n, what) \in [Requests -> Work]
  BY DEF AccountTypeOK, Overtaken, Job, Work, Event

\* A request that is answered has the blank record.
LEMMA BlankType == Blank \in Work
  BY AccountAssumption DEF Blank, Job, Work

\* The steps of a login keep the types.
LEMMA LoginType ==
  ASSUME AccountTypeOK, NEW r \in Requests, LoginStep(r)
  PROVE  AccountTypeOK'
<1> USE AccountAssumption, BlankType DEF AccountTypeOK, Points, Goto, Answer
<1>1. ASSUME NEW n \in Names, LoginGate(r, n) PROVE AccountTypeOK'
  <2>1. Job(n, None, 0, 0, {}) \in Work
    BY DEF Job, Work
  <2> QED
    BY <1>1, <2>1 DEF LoginGate
<1>2. CASE LoginRead(r)
  <2>1. work' \in [Requests -> Work]
    BY <1>2 DEF LoginRead, Job, Work, User
  <2>2. throttle' \in Nat
    BY <1>2 DEF LoginRead, RecordFailure
  <2> QED
    BY <1>2, <2>1, <2>2 DEF LoginRead
<1>3. CASE LoginFail(r)
  BY <1>3 DEF LoginFail, RecordFailure
<1>4. CASE LoginProve(r)
  BY <1>4 DEF LoginProve
<1>5. ASSUME NEW t \in Tokens, LoginInsert(r, t) PROVE AccountTypeOK'
  <2>1. Opened(work[r].user, work[r].id, work[r].gen, work[r].late, FALSE) \in Session
    BY DEF Opened, Work, Session
  <2>2. sessions' \in [Tokens -> Session \cup {None}]
    BY <1>5, <2>1 DEF LoginInsert
  <2> QED
    BY <1>5, <2>2 DEF LoginInsert
<1> QED
  BY <1>1, <1>2, <1>3, <1>4, <1>5 DEF LoginStep

\* So do the edits of an administrator.
LEMMA EditType ==
  ASSUME AccountTypeOK, NEW r \in Requests, EditStep(r)
  PROVE  AccountTypeOK'
<1> USE AccountAssumption, BlankType, OvertakenType
    DEF AccountTypeOK, Points, Goto, Answer, AnswerAfter
<1>1. CASE AdminCheck(r)
  BY <1>1 DEF AdminCheck
<1>2. ASSUME NEW n \in Names, NEW b \in BOOLEAN, CreateUser(r, n, b) PROVE AccountTypeOK'
  <2>1. changes + 1 \in 0..MaxChanges /\ changes' \in 0..MaxChanges
    BY <1>2 DEF CreateUser
  <2>2. NewUser(changes + 1, b) \in User
    BY <2>1 DEF NewUser, Account, User
  <2> QED
    BY <1>2, <2>1, <2>2 DEF CreateUser
<1>3. ASSUME NEW n \in Names, NEW b \in BOOLEAN, NEW e \in BOOLEAN,
             NEW u \in {"role", "enabled", "password"}, UpdateUser(r, n, b, e, u)
      PROVE  AccountTypeOK'
  <2>1. changes' \in 0..MaxChanges /\ changes' \in Nat
    BY <1>3 DEF UpdateUser
  <2>2. users' \in [Names -> User \cup {None}]
    <3>1. users[n] \in User /\ users[n].enabled \in BOOLEAN
      BY <1>3 DEF UpdateUser, Account, User
    <3> QED
      BY <1>3, <2>1, <3>1 DEF UpdateUser, Account, User
  <2>3. sessions' \in [Tokens -> Session \cup {None}]
    <3>1. (\E S \in SUBSET Tokens : SignOut(S)) \/ UNCHANGED sessions
      BY <1>3 DEF UpdateUser, SessionsOf
    <3> QED
      BY <3>1 DEF SignOut
  <2>4. pc' \in [Requests -> Points] /\ work' \in [Requests -> Work]
    <3>1. Overtaken(n, "account") \in [Requests -> Work]
      BY DEF Event
    <3>2. \/ AnswerAfter(r, "admin", Overtaken(n, "account"))
          \/ Answer(r, "admin")
      BY <1>3 DEF UpdateUser
    <3> HIDE DEF Answer, AnswerAfter
    <3>3. CASE Answer(r, "admin")
      BY <3>3 DEF Answer
    <3>4. CASE AnswerAfter(r, "admin", Overtaken(n, "account"))
      BY <3>1, <3>4 DEF AnswerAfter
    <3> QED
      BY <3>2, <3>3, <3>4
  <2> QED
    BY <1>3, <2>1, <2>2, <2>3, <2>4 DEF UpdateUser
<1>4. ASSUME NEW n \in Names, NEW d \in BOOLEAN, DeleteUser(r, n, d) PROVE AccountTypeOK'
  <2>1. sessions' \in [Tokens -> Session \cup {None}]
    <3>1. SignOut(SessionsOf(n))
      BY <1>4 DEF DeleteUser
    <3> QED
      BY <3>1 DEF SignOut
  <2>2. pc' \in [Requests -> Points] /\ work' \in [Requests -> Work]
    <3>1. Overtaken(n, "account") \in [Requests -> Work]
      BY DEF Event
    <3>2. \/ AnswerAfter(r, "admin", Overtaken(n, "account"))
          \/ Answer(r, "admin")
      BY <1>4 DEF DeleteUser
    <3> HIDE DEF Answer, AnswerAfter
    <3>3. CASE Answer(r, "admin")
      BY <3>3 DEF Answer
    <3>4. CASE AnswerAfter(r, "admin", Overtaken(n, "account"))
      BY <3>1, <3>4 DEF AnswerAfter
    <3> QED
      BY <3>2, <3>3, <3>4
  <2>3. users' \in [Names -> User \cup {None}]
    BY <1>4 DEF DeleteUser
  <2> QED
    BY <1>4, <2>1, <2>2, <2>3 DEF DeleteUser
<1> QED
  BY <1>1, <1>2, <1>3, <1>4 DEF EditStep

\* So do a change of one's own password, and time.
LEMMA OtherType ==
  ASSUME AccountTypeOK,
         \/ \E r \in Requests : PasswordStep(r) \/ Refused(r)
         \/ \E r \in Requests : \E t \in Tokens : \E to \in {"authed", "entered"} :
              Authenticate(r, t, to)
         \/ \E t \in Tokens : Logout(t) \/ Age(t)
         \/ WindowOver \/ \E password \in BOOLEAN : Restart(password)
  PROVE  AccountTypeOK'
<1> USE AccountAssumption, BlankType, OvertakenType
    DEF AccountTypeOK, Points, Goto, Answer
<1>1. ASSUME NEW r \in Requests, ReadHash(r) PROVE AccountTypeOK'
  BY <1>1 DEF ReadHash
<1>2. ASSUME NEW r \in Requests, WritePassword(r) PROVE AccountTypeOK'
  <2>1. changes' \in 0..MaxChanges /\ changes' \in Nat /\ work[r].user \in Names
    BY <1>2 DEF WritePassword, Work
  <2>2. users' \in [Names -> User \cup {None}]
    BY <1>2, <2>1 DEF WritePassword, Account, User
  <2>3. sessions' \in [Tokens -> Session \cup {None}]
    BY <1>2, <2>1 DEF WritePassword, Session, Opened, SessionsOf
  <2>4. work' \in [Requests -> Work]
    BY <1>2, <2>1 DEF WritePassword, Event
  <2> QED
    BY <1>2, <2>1, <2>2, <2>3, <2>4 DEF WritePassword
<1>3. ASSUME NEW r \in Requests, SignOutOthers(r) PROVE AccountTypeOK'
  BY <1>3 DEF SignOutOthers, SignOut
<1>4. ASSUME NEW r \in Requests, Refused(r) PROVE AccountTypeOK'
  BY <1>4 DEF Refused
<1>5. ASSUME NEW r \in Requests, NEW t \in Tokens, NEW to \in {"authed", "entered"},
             Authenticate(r, t, to)
      PROVE  AccountTypeOK'
  <2>2. Job(sessions[t].user, t, 0, 0, {}) \in Work
    BY <1>5 DEF Authenticate, Job, Work, Session
  <2> QED
    BY <1>5, <2>2 DEF Authenticate, SignOut
<1>6. ASSUME NEW t \in Tokens, Logout(t) PROVE AccountTypeOK'
  BY <1>6 DEF Logout, SignOut
<1>7. ASSUME NEW t \in Tokens, Age(t) PROVE AccountTypeOK'
  BY <1>7 DEF Age, Session, Opened
<1>8. CASE WindowOver
  BY <1>8 DEF WindowOver
<1>9. ASSUME NEW password \in BOOLEAN, Restart(password) PROVE AccountTypeOK'
  <2>1. changes' \in 0..MaxChanges /\ NewUser(changes', TRUE) \in User
    BY <1>9 DEF Restart, NewUser, Account, User
  <2> QED
    BY <1>9, <2>1 DEF Restart
<1> QED
  BY <1>1, <1>2, <1>3, <1>4, <1>5, <1>6, <1>7, <1>8, <1>9 DEF PasswordStep

-----------------------------------------------------------------------------
(* An administrator remains *)

\* The table changes only under CreateUser, UpdateUser, DeleteUser,
\* WritePassword and Restart.
LEMMA AdminStep ==
  ASSUME AccountTypeOK, SomeAdminRemains, Next
  PROVE  SomeAdminRemains'
<1> USE AccountAssumption, NoneIsNoUser DEF AccountTypeOK
<1> PICK k \in Names : EnabledAdmin(k)
  BY DEF SomeAdminRemains
<1>1. SUFFICES \E m \in Names : /\ users'[m] # None
                                /\ users'[m].admin /\ users'[m].enabled
  BY DEF SomeAdminRemains, EnabledAdmin
<1>2. users[k] # None /\ users[k].admin /\ users[k].enabled
  BY DEF EnabledAdmin
<1>3. \A i, g, o \in Nat : \A a, e \in BOOLEAN :
        LET u == Account(i, g, o, a, e) IN
        u # None /\ u.admin = a /\ u.enabled = e
  <2>1. \A i, g, o \in Nat : \A a, e \in BOOLEAN :
          LET u == Account(i, g, o, a, e) IN
          u \in User /\ u.admin = a /\ u.enabled = e
    BY DEF Account, User
  <2> QED
    BY <2>1
<1>4. ASSUME NEW r \in Requests, NEW n \in Names, NEW b \in BOOLEAN, CreateUser(r, n, b)
      PROVE  users'[k] = users[k]
  BY <1>2, <1>4 DEF CreateUser
<1>5. ASSUME NEW r \in Requests, NEW n \in Names, NEW b \in BOOLEAN, NEW e \in BOOLEAN,
             NEW u \in {"role", "enabled", "password"}, UpdateUser(r, n, b, e, u)
      PROVE  \E m \in Names : users'[m] # None /\ users'[m].admin /\ users'[m].enabled
  <2> DEFINE changed == b # users[n].admin \/ e # users[n].enabled
             now == IF changed /\ u # "role" THEN e ELSE users[n].enabled
             gen == IF u = "password" THEN changes' ELSE users[n].gen
  <2>1. /\ users[n] # None /\ users[n] \in User
        /\ changed /\ ~(b /\ e) => MayLose(r, n)
        /\ users' = [users EXCEPT ![n] = Account(users[n].id, gen, users[n].own, b, now)]
        /\ changes' \in Nat
    BY <1>5 DEF UpdateUser
  <2>2. users[n].id \in Nat /\ users[n].own \in Nat /\ gen \in Nat /\ now \in BOOLEAN
        /\ users[n].admin \in BOOLEAN /\ users[n].enabled \in BOOLEAN
    BY <2>1 DEF User
  <2>3. users'[n] # None /\ users'[n].admin = b /\ users'[n].enabled = now
    <3>1. users'[n] = Account(users[n].id, gen, users[n].own, b, now)
      BY <2>1
    <3> HIDE DEF changed, now, gen
    <3>2. LET v == Account(users[n].id, gen, users[n].own, b, now) IN
          v # None /\ v.admin = b /\ v.enabled = now
      <4>1. \A i, g, o \in Nat : Account(i, g, o, b, now) # None
        BY <1>3, <2>2
      <4> QED
        BY <2>2, <4>1 DEF Account
    <3> HIDE DEF AccountTypeOK
    <3> QED
      BY <3>1, <3>2, Zenon
  <2>4. \A m \in Names : m # n => users'[m] = users[m]
    BY <2>1
  <2>5. CASE k # n
    BY <1>2, <2>4, <2>5
  <2>6. CASE k = n /\ b /\ now
    BY <2>3, <2>6
  <2>7. CASE k = n /\ ~(b /\ now)
    <3>1. changed /\ ~(b /\ e)
      BY <1>2, <2>2, <2>7
    <3>2. PICK m \in Names \ {n} : EnabledAdmin(m)
      BY <1>2, <2>1, <2>7, <3>1 DEF MayLose
    <3> QED
      BY <2>4, <3>2 DEF EnabledAdmin
  <2> QED
    BY <2>5, <2>6, <2>7
<1>6. ASSUME NEW r \in Requests, NEW n \in Names, NEW d \in BOOLEAN, DeleteUser(r, n, d)
      PROVE  \E m \in Names : users'[m] # None /\ users'[m].admin /\ users'[m].enabled
  <2>1. \A m \in Names : m # n => users'[m] = users[m]
    BY <1>6 DEF DeleteUser
  <2>2. CASE k # n
    BY <1>2, <2>1, <2>2
  <2>3. CASE k = n
    <3>1. PICK m \in Names \ {n} : EnabledAdmin(m)
      BY <1>2, <1>6, <2>3 DEF DeleteUser, MayLose
    <3> QED
      BY <2>1, <3>1 DEF EnabledAdmin
  <2> QED
    BY <2>2, <2>3
<1>7. ASSUME NEW r \in Requests, WritePassword(r)
      PROVE  users'[k] # None /\ users'[k].admin /\ users'[k].enabled
  <2> DEFINE n == work[r].user
             v == users[n]
  <2>1. changes' \in Nat /\ n \in Names
    BY <1>7 DEF WritePassword, Work
  <2>2. users' = IF users[n] = None THEN users
                 ELSE [users EXCEPT ![n] =
                         Account(v.id, changes', changes', v.admin, v.enabled)]
    BY <1>7 DEF WritePassword
  <2>3. CASE k = n
    <3>1. v \in User /\ v.id \in Nat /\ v.admin \in BOOLEAN /\ v.enabled \in BOOLEAN
      BY <1>2, <2>3 DEF User
    <3>2. users'[k] = Account(v.id, changes', changes', v.admin, v.enabled)
      BY <1>2, <2>2, <2>3
    <3> QED
      BY <1>2, <1>3, <2>1, <2>3, <3>1, <3>2
  <2>4. CASE k # n
    BY <1>2, <2>1, <2>2, <2>4
  <2> QED
    BY <2>3, <2>4
<1>8. ASSUME NEW password \in BOOLEAN, Restart(password)
      PROVE  \E m \in Names : users'[m] # None /\ users'[m].admin /\ users'[m].enabled
  <2>1. users[Root] = None => k # Root
    BY <1>2
  <2>2. users' = users \/ (k # Root /\ users' = [users EXCEPT ![Root] = NewUser(changes', TRUE)])
    BY <1>8, <2>1 DEF Restart
  <2>3. users'[k] = users[k]
    BY <2>2
  <2> QED
    BY <1>2, <2>3
<1>9. CASE UNCHANGED users
  BY <1>2, <1>9
<1> QED
  <2>1. ASSUME NEW r \in Requests, LoginStep(r)
        PROVE  UNCHANGED users
    BY <2>1 DEF LoginStep, LoginGate, LoginRead, LoginFail, LoginProve, LoginInsert
  <2>2. ASSUME NEW r \in Requests, EditStep(r)
        PROVE  \E m \in Names : users'[m] # None /\ users'[m].admin /\ users'[m].enabled
    BY <1>2, <1>4, <1>5, <1>6, <1>9, <2>2 DEF EditStep, AdminCheck
  <2>3. ASSUME NEW r \in Requests, PasswordStep(r) \/ Refused(r)
        PROVE  \E m \in Names : users'[m] # None /\ users'[m].admin /\ users'[m].enabled
    BY <1>7, <1>9, <2>3 DEF PasswordStep, ReadHash, SignOutOthers, Refused
  <2>4. ASSUME NEW r \in Requests, NEW t \in Tokens, NEW to \in {"authed", "entered"},
               Authenticate(r, t, to)
        PROVE  UNCHANGED users
    BY <2>4 DEF Authenticate
  <2>5. ASSUME NEW t \in Tokens, Logout(t) \/ Age(t)
        PROVE  UNCHANGED users
    BY <2>5 DEF Logout, Age
  <2>6. WindowOver => UNCHANGED users
    BY DEF WindowOver
  <2> QED
    BY <1>8, <1>9, <2>1, <2>2, <2>3, <2>4, <2>5, <2>6 DEF Next

-----------------------------------------------------------------------------
(* Sessions follow their accounts *)

Follow == LoginsFollow /\ SessionsFollowAccounts

\* Where the table stays, a login reads an enabled account and a session takes
\* what its login has read.
LEMMA LoginFollow ==
  ASSUME AccountTypeOK, Follow, NEW r \in Requests, LoginStep(r)
  PROVE  Follow'
<1> USE DEF Follow, LoginsFollow, SessionsFollowAccounts, AccountTypeOK, Goto, Answer
<1>1. ASSUME NEW n \in Names, LoginGate(r, n) PROVE Follow'
  BY <1>1 DEF LoginGate
<1>2. CASE LoginRead(r)
  BY <1>2 DEF LoginRead, Job
<1>3. CASE LoginFail(r)
  BY <1>3 DEF LoginFail
<1>4. CASE LoginProve(r)
  BY <1>4 DEF LoginProve
<1>5. ASSUME NEW t \in Tokens, LoginInsert(r, t) PROVE Follow'
  <2>1. LoginsFollow'
    BY <1>5 DEF LoginInsert
  <2>2. ASSUME NEW s \in Tokens, sessions'[s] # None
        PROVE  LET u == users'[sessions'[s].user] IN
               \/ u # None /\ u.enabled /\ u.id = sessions'[s].id
               \/ "account" \in sessions'[s].late
    <3>1. CASE s = t
      <4>1. sessions'[s] = Opened(work[r].user, work[r].id, work[r].gen, work[r].late, FALSE)
        BY <1>5, <3>1 DEF LoginInsert
      <4>2. /\ sessions'[s].user = work[r].user /\ sessions'[s].id = work[r].id
            /\ sessions'[s].late = work[r].late
        BY <4>1 DEF Opened
      <4>3. pc[r] = "proved" /\ users' = users
        BY <1>5 DEF LoginInsert
      <4> QED
        BY <4>2, <4>3
    <3>2. CASE s # t
      BY <1>5, <2>2, <3>2 DEF LoginInsert
    <3> QED
      BY <3>1, <3>2
  <2> QED
    BY <2>1, <2>2
<1> QED
  BY <1>1, <1>2, <1>3, <1>4, <1>5 DEF LoginStep

\* What a change of account n leaves of the logins under way and the sessions
\* of n, once both are told of it.
LEMMA ToldFollow ==
  ASSUME AccountTypeOK, Follow, NEW r \in Requests, NEW n \in Names,
         AnswerAfter(r, "admin", Overtaken(n, "account")), SignOut(SessionsOf(n)),
         \A m \in Names : m # n => users'[m] = users[m]
  PROVE  Follow'
<1> USE DEF Follow, LoginsFollow, SessionsFollowAccounts, AccountTypeOK
<1>1. LoginsFollow'
  <2> SUFFICES ASSUME NEW q \in Requests, pc'[q] \in {"read", "proved"}
               PROVE  LET u == users'[work'[q].user] IN
                      \/ u # None /\ u.enabled /\ u.id = work'[q].id
                      \/ "account" \in work'[q].late
    OBVIOUS
  <2>1. q # r /\ pc[q] = pc'[q] /\ work'[q] = Overtaken(n, "account")[q]
    BY DEF AnswerAfter, Goto, Overtaken
  <2>2. CASE work[q].user = n
    <3>1. work'[q] = Job(n, work[q].tok, work[q].id, work[q].gen, work[q].late \cup {"account"})
      BY <2>1, <2>2 DEF Overtaken
    <3> QED
      BY <3>1 DEF Job
  <2>3. CASE work[q].user # n
    <3>1. work'[q] = work[q] /\ work[q].user \in Names
      BY <2>1, <2>3 DEF Overtaken, Work
    <3> QED
      BY <2>1, <2>3, <3>1
  <2> QED
    BY <2>2, <2>3
<1>2. SessionsFollowAccounts'
  <2> SUFFICES ASSUME NEW t \in Tokens, sessions'[t] # None
               PROVE  LET u == users'[sessions'[t].user] IN
                      \/ u # None /\ u.enabled /\ u.id = sessions'[t].id
                      \/ "account" \in sessions'[t].late
    OBVIOUS
  <2>1. sessions'[t] = sessions[t] /\ sessions[t].user # n /\ sessions[t].user \in Names
    BY DEF SignOut, SessionsOf, Session
  <2> QED
    BY <2>1
<1> QED
  BY <1>1, <1>2

\* A step that keeps the id of every account and disables none, and changes of
\* sessions and logins at most their passwords and what they know.
LEMMA QuietFollow ==
  ASSUME AccountTypeOK, Follow,
         \A m \in Names : users[m] # None /\ users[m].enabled =>
            users'[m] # None /\ users'[m].enabled /\ users'[m].id = users[m].id,
         \A r \in Requests : pc'[r] \in {"read", "proved"} =>
            /\ pc[r] \in {"read", "proved"}
            /\ work'[r].user = work[r].user /\ work'[r].id = work[r].id
            /\ work[r].late \subseteq work'[r].late,
         \A t \in Tokens : sessions'[t] # None =>
            /\ sessions[t] # None
            /\ sessions'[t].user = sessions[t].user /\ sessions'[t].id = sessions[t].id
            /\ sessions'[t].late = sessions[t].late
  PROVE  Follow'
<1>1. LoginsFollow'
  <2> SUFFICES ASSUME NEW r \in Requests, pc'[r] \in {"read", "proved"}
               PROVE  LET u == users'[work'[r].user] IN
                      \/ u # None /\ u.enabled /\ u.id = work'[r].id
                      \/ "account" \in work'[r].late
    BY DEF LoginsFollow
  <2>1. work[r].user \in Names
    BY DEF AccountTypeOK, Work
  <2>2. \/ users[work[r].user] # None /\ users[work[r].user].enabled
           /\ users[work[r].user].id = work[r].id
        \/ "account" \in work[r].late
    BY DEF Follow, LoginsFollow
  <2> QED
    BY <2>1, <2>2
<1>2. SessionsFollowAccounts'
  <2> SUFFICES ASSUME NEW t \in Tokens, sessions'[t] # None
               PROVE  LET u == users'[sessions'[t].user] IN
                      \/ u # None /\ u.enabled /\ u.id = sessions'[t].id
                      \/ "account" \in sessions'[t].late
    BY DEF SessionsFollowAccounts
  <2>1. sessions[t].user \in Names
    BY DEF AccountTypeOK, Session
  <2>2. \/ users[sessions[t].user] # None /\ users[sessions[t].user].enabled
           /\ users[sessions[t].user].id = sessions[t].id
        \/ "account" \in sessions[t].late
    BY DEF Follow, SessionsFollowAccounts
  <2> QED
    BY <2>1, <2>2
<1> QED
  BY <1>1, <1>2 DEF Follow

\* The edits of an administrator: a disabled or deleted account is told of.
LEMMA EditFollow ==
  ASSUME AccountTypeOK, Follow, NEW r \in Requests, EditStep(r)
  PROVE  Follow'
<1> USE DEF AccountTypeOK
<1>1. ASSUME Answer(r, "admin") \/ AdminCheck(r)
      PROVE  \A q \in Requests : pc'[q] \in {"read", "proved"} =>
                pc[q] \in {"read", "proved"} /\ work'[q] = work[q]
  BY <1>1 DEF AdminCheck, Answer, Goto
<1>2. CASE AdminCheck(r)
  <2>1. UNCHANGED <<users, sessions>>
    BY <1>2 DEF AdminCheck
  <2> QED
    BY <1>1, <1>2, <2>1, QuietFollow
<1>3. ASSUME NEW n \in Names, NEW b \in BOOLEAN, CreateUser(r, n, b) PROVE Follow'
  <2>1. /\ Answer(r, "admin") /\ UNCHANGED sessions
        /\ \A m \in Names : users[m] # None => users'[m] = users[m]
    BY <1>3 DEF CreateUser
  <2> QED
    BY <1>1, <2>1, QuietFollow
<1>4. ASSUME NEW n \in Names, NEW b \in BOOLEAN, NEW e \in BOOLEAN,
             NEW u \in {"role", "enabled", "password"}, UpdateUser(r, n, b, e, u)
      PROVE  Follow'
  <2> DEFINE changed == b # users[n].admin \/ e # users[n].enabled
             now == IF changed /\ u # "role" THEN e ELSE users[n].enabled
             gen == IF u = "password" THEN changes' ELSE users[n].gen
  <2>1. /\ users[n] # None /\ users[n] \in User
        /\ users' = [users EXCEPT ![n] = Account(users[n].id, gen, users[n].own, b, now)]
        /\ IF changed /\ ~now /\ u # "role"
           THEN /\ AnswerAfter(r, "admin", Overtaken(n, "account"))
                /\ SignOut(SessionsOf(n))
           ELSE Answer(r, "admin") /\ UNCHANGED sessions
    BY <1>4 DEF UpdateUser
  <2>2. CASE changed /\ ~now /\ u # "role"
    <3>1. \A m \in Names : m # n => users'[m] = users[m]
      BY <2>1
    <3> QED
      BY <2>1, <2>2, <3>1, ToldFollow
  <2>3. CASE ~(changed /\ ~now /\ u # "role")
    <3>1. Answer(r, "admin") /\ UNCHANGED sessions
      BY <2>1, <2>3
    <3>2. users[n].enabled => now
      BY <2>3
    <3>3. \A m \in Names : users[m] # None /\ users[m].enabled =>
            users'[m] # None /\ users'[m].enabled /\ users'[m].id = users[m].id
      <4> SUFFICES ASSUME NEW m \in Names, users[m] # None, users[m].enabled
                   PROVE  users'[m] # None /\ users'[m].enabled /\ users'[m].id = users[m].id
        OBVIOUS
      <4>1. CASE m # n
        BY <2>1, <4>1
      <4>2. CASE m = n
        <5>1. users'[m] = Account(users[n].id, gen, users[n].own, b, now)
          BY <2>1, <4>2
        <5>2. users'[m].id = users[n].id /\ (now => users'[m].enabled)
          BY <5>1 DEF Account
        <5>3. users'[m] \in User
          <6>1. changes' \in Nat /\ gen \in Nat
            BY <1>4, <2>1, AccountAssumption DEF UpdateUser, User
          <6>2. now \in BOOLEAN /\ users[n].id \in Nat /\ users[n].own \in Nat
            BY <2>1 DEF User
          <6> HIDE DEF now, gen
          <6> QED
            BY <5>1, <6>1, <6>2 DEF Account, User
        <5> QED
          BY <3>2, <4>2, <5>2, <5>3, NoneIsNoUser
      <4> QED
        BY <4>1, <4>2
    <3> QED
      BY <1>1, <3>1, <3>3, QuietFollow
  <2> QED
    BY <2>2, <2>3
<1>5. ASSUME NEW n \in Names, NEW d \in BOOLEAN, DeleteUser(r, n, d) PROVE Follow'
  <2>1. CASE d
    <3>1. /\ AnswerAfter(r, "admin", Overtaken(n, "account")) /\ SignOut(SessionsOf(n))
          /\ \A m \in Names : m # n => users'[m] = users[m]
      BY <1>5, <2>1 DEF DeleteUser
    <3> QED
      BY <3>1, ToldFollow
  <2>2. CASE ~d
    <3>1. Answer(r, "admin") /\ UNCHANGED users /\ SignOut(SessionsOf(n))
      BY <1>5, <2>2 DEF DeleteUser
    <3>2. \A t \in Tokens : sessions'[t] # None => sessions'[t] = sessions[t]
      BY <3>1 DEF SignOut
    <3> QED
      BY <1>1, <3>1, <3>2, QuietFollow
  <2> QED
    BY <2>1, <2>2
<1> QED
  BY <1>2, <1>3, <1>4, <1>5 DEF EditStep

\* A user's own change of password, sign-outs, time and restarts.
LEMMA OtherFollow ==
  ASSUME AccountTypeOK, Follow,
         \/ \E r \in Requests : PasswordStep(r) \/ Refused(r)
         \/ \E r \in Requests : \E t \in Tokens : \E to \in {"authed", "entered"} :
              Authenticate(r, t, to)
         \/ \E t \in Tokens : Logout(t) \/ Age(t)
         \/ WindowOver \/ \E password \in BOOLEAN : Restart(password)
  PROVE  Follow'
<1> USE DEF AccountTypeOK
<1>1. ASSUME NEW r \in Requests, ReadHash(r) PROVE Follow'
  <2>1. UNCHANGED <<users, sessions, work>> /\ pc' = [pc EXCEPT ![r] = "checked"]
    BY <1>1 DEF ReadHash, Goto
  <2> QED
    BY <2>1, QuietFollow
<1>2. ASSUME NEW r \in Requests, WritePassword(r) PROVE Follow'
  <2> DEFINE n == work[r].user
             v == users[n]
  <2>1. n \in Names /\ pc' = [pc EXCEPT ![r] = "written"] /\ work' = Overtaken(n, "password")
        /\ changes' \in Nat
    BY <1>2 DEF WritePassword, Goto, Work
  <2>2. \A m \in Names : users[m] # None /\ users[m].enabled =>
            users'[m] # None /\ users'[m].enabled /\ users'[m].id = users[m].id
    <3> SUFFICES ASSUME NEW m \in Names, users[m] # None, users[m].enabled
                 PROVE  users'[m] # None /\ users'[m].enabled /\ users'[m].id = users[m].id
      OBVIOUS
    <3>1. users' = IF v = None THEN users
                   ELSE [users EXCEPT ![n] =
                           Account(v.id, changes', changes', v.admin, v.enabled)]
      BY <1>2 DEF WritePassword
    <3>2. CASE m # n
      BY <2>1, <3>1, <3>2
    <3>3. CASE m = n
      <4>1. users'[m] = Account(v.id, changes', changes', v.admin, v.enabled)
        BY <3>1, <3>3
      <4>2. users'[m].id = v.id /\ (v.enabled => users'[m].enabled)
        BY <4>1 DEF Account
      <4>3. v \in User /\ v.id \in Nat /\ v.admin \in BOOLEAN /\ v.enabled \in BOOLEAN
        BY <3>3 DEF User
      <4>4. users'[m] \in User
        BY <2>1, <4>1, <4>3 DEF Account, User
      <4> QED
        BY <3>3, <4>2, <4>4, NoneIsNoUser
    <3> QED
      BY <3>2, <3>3
  <2>3. \A q \in Requests : pc'[q] \in {"read", "proved"} =>
            /\ pc[q] \in {"read", "proved"}
            /\ work'[q].user = work[q].user /\ work'[q].id = work[q].id
            /\ work[q].late \subseteq work'[q].late
    BY <2>1 DEF Overtaken, Job
  <2>4. \A t \in Tokens : sessions'[t] # None =>
            /\ sessions[t] # None
            /\ sessions'[t].user = sessions[t].user /\ sessions'[t].id = sessions[t].id
            /\ sessions'[t].late = sessions[t].late
    BY <1>2 DEF WritePassword, SessionsOf, Opened
  <2> QED
    BY <2>2, <2>3, <2>4, QuietFollow
<1>3. ASSUME NEW r \in Requests, SignOutOthers(r) PROVE Follow'
  <2>1. /\ UNCHANGED users
        /\ \A q \in Requests : pc'[q] \in {"read", "proved"} =>
             pc[q] = pc'[q] /\ work'[q] = work[q]
        /\ \A t \in Tokens : sessions'[t] # None => sessions'[t] = sessions[t]
    BY <1>3 DEF SignOutOthers, SignOut, Answer, Goto
  <2> QED
    BY <2>1, QuietFollow
<1>4. ASSUME NEW r \in Requests, Refused(r) PROVE Follow'
  <2>1. /\ UNCHANGED <<users, sessions>>
        /\ \A q \in Requests : pc'[q] \in {"read", "proved"} =>
             pc[q] = pc'[q] /\ work'[q] = work[q]
    BY <1>4 DEF Refused, Answer, Goto
  <2> QED
    BY <2>1, QuietFollow
<1>5. ASSUME NEW r \in Requests, NEW t \in Tokens, NEW to \in {"authed", "entered"},
             Authenticate(r, t, to)
      PROVE  Follow'
  <2>1. /\ UNCHANGED users
        /\ \A q \in Requests : pc'[q] \in {"read", "proved"} =>
             pc[q] = pc'[q] /\ work'[q] = work[q]
        /\ \A s \in Tokens : sessions'[s] # None => sessions'[s] = sessions[s]
    BY <1>5 DEF Authenticate, SignOut, Goto
  <2> QED
    BY <2>1, QuietFollow
<1>6. ASSUME NEW t \in Tokens, Logout(t) PROVE Follow'
  <2>1. /\ UNCHANGED <<users, pc, work>>
        /\ \A s \in Tokens : sessions'[s] # None => sessions'[s] = sessions[s]
    BY <1>6 DEF Logout, SignOut
  <2> QED
    BY <2>1, QuietFollow
<1>7. ASSUME NEW t \in Tokens, Age(t) PROVE Follow'
  <2>1. UNCHANGED <<users, pc, work>>
    BY <1>7 DEF Age
  <2>2. \A s \in Tokens : sessions'[s] # None =>
            /\ sessions[s] # None
            /\ sessions'[s].user = sessions[s].user /\ sessions'[s].id = sessions[s].id
            /\ sessions'[s].late = sessions[s].late
    BY <1>7 DEF Age, Opened
  <2> QED
    BY <2>1, <2>2, QuietFollow
<1>8. CASE WindowOver
  <2>1. UNCHANGED <<users, sessions, pc, work>>
    BY <1>8 DEF WindowOver
  <2> QED
    BY <2>1, QuietFollow
<1>9. ASSUME NEW password \in BOOLEAN, Restart(password) PROVE Follow'
  BY <1>9 DEF Restart, Follow, LoginsFollow, SessionsFollowAccounts
<1> QED
  BY <1>1, <1>2, <1>3, <1>4, <1>5, <1>6, <1>7, <1>8, <1>9 DEF PasswordStep

-----------------------------------------------------------------------------
\* No step of the program breaks the invariant.
LEMMA AccountStepInv == AccountInv /\ [Next]_vars => AccountInv'
<1> SUFFICES ASSUME AccountInv, [Next]_vars PROVE AccountInv'
  OBVIOUS
<1>1. CASE UNCHANGED vars
  <2>1. AccountTypeOK'
    BY <1>1 DEF vars, AccountInv, AccountTypeOK
  <2>2. SomeAdminRemains' /\ LoginsFollow' /\ SessionsFollowAccounts'
    BY <1>1 DEF vars, AccountInv, SomeAdminRemains, EnabledAdmin, LoginsFollow,
                SessionsFollowAccounts
  <2> QED
    BY <2>1, <2>2 DEF AccountInv
<1>2. CASE Next
  <2>1. AccountTypeOK /\ SomeAdminRemains /\ Follow
    BY DEF AccountInv, Follow
  <2>2. AccountTypeOK'
    BY <1>2, <2>1, LoginType, EditType, OtherType DEF Next
  <2>3. SomeAdminRemains'
    BY <1>2, <2>1, AdminStep
  <2>4. Follow'
    BY <1>2, <2>1, LoginFollow, EditFollow, OtherFollow DEF Next
  <2> QED
    BY <2>2, <2>3, <2>4 DEF AccountInv, Follow
<1> QED
  BY <1>1, <1>2

\* The invariant holds throughout.
THEOREM AccountInvariant == Spec => []AccountInv
<1>1. Init => AccountInv
  BY AccountInitInv
<1>2. AccountInv /\ [Next]_vars => AccountInv'
  BY AccountStepInv
<1> QED
  BY <1>1, <1>2, PTL DEF Spec

\* Every variable keeps its type.
THEOREM AccountTypeCorrect == Spec => []AccountTypeOK
<1>1. AccountInv => AccountTypeOK
  BY DEF AccountInv
<1> QED
  BY <1>1, AccountInvariant, PTL

\* The panel is never without an enabled administrator, for any number of
\* accounts and of requests under way (admin.rs:563-585, 619-632).
THEOREM SomeAdminRemainsAlways == Spec => []SomeAdminRemains
<1>1. AccountInv => SomeAdminRemains
  BY DEF AccountInv
<1> QED
  BY <1>1, AccountInvariant, PTL

\* A session never outlives its account or its being enabled, unless its login
\* was overtaken (admin.rs:586-593, 633-637).
THEOREM SessionsFollowAccountsAlways == Spec => []SessionsFollowAccounts
<1>1. AccountInv => SessionsFollowAccounts
  BY DEF AccountInv
<1> QED
  BY <1>1, AccountInvariant, PTL

-----------------------------------------------------------------------------
(* Passwords *)

\* The password an account has is no older than the one its user chose.
PasswordsGrow ==
    \A n \in Names : users[n] # None =>
        users[n].own <= users[n].gen /\ users[n].gen <= changes

\* A login under way has read the password its user chose last, or was overtaken.
LoginsCurrent ==
    \A r \in Requests : pc[r] \in {"read", "proved"} =>
        LET u == users[work[r].user] IN
        u = None \/ work[r].gen >= u.own \/ work[r].late # {}

\* A session of a replaced password will be dropped by a handler that spares
\* another one.
SessionsCurrent ==
    \A t \in Tokens : sessions[t] # None =>
        LET s == sessions[t]
            u == users[s.user]
        IN
        \/ u = None \/ s.gen >= u.own \/ s.late # {}
        \/ \E r \in Requests : pc[r] = "written" /\ work[r].user = s.user /\ work[r].tok # t

PasswordInv == PasswordsGrow /\ LoginsCurrent /\ SessionsCurrent

\* A step that replaces nobody's own password, opens no session and lets the
\* handlers go on that have yet to drop some.
LEMMA QuietCurrent ==
  ASSUME AccountInv, LoginsCurrent, SessionsCurrent,
         \A m \in Names : users[m] # None /\ users'[m] # None => users'[m].own = users[m].own,
         \A r \in Requests : pc'[r] \in {"read", "proved"} =>
            /\ pc[r] \in {"read", "proved"}
            /\ work'[r].user = work[r].user /\ work'[r].gen = work[r].gen
            /\ work[r].late \subseteq work'[r].late,
         \A t \in Tokens : sessions'[t] # None =>
            /\ sessions[t] # None
            /\ sessions'[t].user = sessions[t].user /\ sessions'[t].gen = sessions[t].gen
            /\ sessions'[t].late = sessions[t].late,
         \A r \in Requests : pc[r] = "written" => pc'[r] = "written" /\ work'[r] = work[r]
  PROVE  LoginsCurrent' /\ SessionsCurrent'
<1>1. LoginsCurrent'
  <2> SUFFICES ASSUME NEW r \in Requests, pc'[r] \in {"read", "proved"},
                      users'[work'[r].user] # None, work'[r].late = {}
               PROVE  work'[r].gen >= users'[work'[r].user].own
    BY DEF LoginsCurrent
  <2>1. pc[r] \in {"read", "proved"} /\ work[r].user \in Names /\ work[r].late = {}
    BY DEF AccountInv, AccountTypeOK, Work
  <2>2. users[work[r].user] # None
    BY <2>1 DEF AccountInv, LoginsFollow
  <2>3. work[r].gen >= users[work[r].user].own
    BY <2>1, <2>2 DEF LoginsCurrent
  <2> QED
    BY <2>1, <2>2, <2>3
<1>2. SessionsCurrent'
  <2> SUFFICES ASSUME NEW t \in Tokens, sessions'[t] # None,
                      users'[sessions'[t].user] # None, sessions'[t].late = {},
                      ~(sessions'[t].gen >= users'[sessions'[t].user].own)
               PROVE  \E r \in Requests : /\ pc'[r] = "written"
                                          /\ work'[r].user = sessions'[t].user
                                          /\ work'[r].tok # t
    BY DEF SessionsCurrent
  <2>1. sessions[t] # None /\ sessions[t].user \in Names /\ sessions[t].late = {}
    BY DEF AccountInv, AccountTypeOK, Session
  <2>2. users[sessions[t].user] # None
    BY <2>1 DEF AccountInv, SessionsFollowAccounts
  <2>3. ~(sessions[t].gen >= users[sessions[t].user].own)
    BY <2>1, <2>2
  <2>4. PICK r \in Requests : pc[r] = "written" /\ work[r].user = sessions[t].user /\ work[r].tok # t
    BY <2>1, <2>2, <2>3 DEF SessionsCurrent
  <2> QED
    BY <2>1, <2>4
<1> QED
  BY <1>1, <1>2

\* A login reads the password of the moment and opens its session with it.
LEMMA LoginCurrent ==
  ASSUME AccountInv, PasswordInv, NEW r \in Requests, LoginStep(r)
  PROVE  PasswordInv'
<1> USE DEF AccountInv, AccountTypeOK, PasswordInv
<1>1. PasswordsGrow'
  <2>1. UNCHANGED <<users, changes>>
    BY DEF LoginStep, LoginGate, LoginRead, LoginFail, LoginProve, LoginInsert
  <2> QED
    BY <2>1 DEF PasswordsGrow
<1>2. ASSUME \/ \E n \in Names : LoginGate(r, n)
             \/ LoginFail(r) \/ LoginProve(r)
      PROVE  LoginsCurrent' /\ SessionsCurrent'
  <2>1. /\ UNCHANGED <<users, sessions>>
        /\ \A q \in Requests : pc'[q] \in {"read", "proved"} =>
              pc[q] \in {"read", "proved"} /\ work'[q] = work[q]
        /\ \A q \in Requests : pc[q] = "written" => pc'[q] = "written" /\ work'[q] = work[q]
    BY <1>2 DEF LoginGate, LoginFail, LoginProve, Goto, Answer
  <2> QED
    BY <2>1, QuietCurrent
<1>3. CASE LoginRead(r)
  <2> DEFINE n == work[r].user
             u == users[n]
  <2>1. /\ UNCHANGED <<users, sessions>> /\ n \in Names
        /\ \A q \in Requests : q # r => pc'[q] = pc[q] /\ work'[q] = work[q]
        /\ pc[r] = "gated"
        /\ \/ pc'[r] = "idle"
           \/ u # None /\ pc'[r] = "read" /\ work'[r] = Job(n, None, u.id, u.gen, {})
    BY <1>3 DEF LoginRead, Answer, Goto, Work
  <2>2. LoginsCurrent'
    <3> SUFFICES ASSUME NEW q \in Requests, pc'[q] \in {"read", "proved"}
                 PROVE  LET v == users'[work'[q].user] IN
                        v = None \/ work'[q].gen >= v.own \/ work'[q].late # {}
      BY DEF LoginsCurrent
    <3>1. CASE q # r
      BY <2>1, <3>1 DEF LoginsCurrent
    <3>2. CASE q = r
      <4>1. u # None /\ work'[r].user = n /\ work'[r].gen = u.gen
        BY <2>1, <3>2 DEF Job
      <4>2. u.own <= u.gen /\ u.own \in Nat /\ u.gen \in Nat
        BY <2>1, <4>1 DEF PasswordsGrow, User
      <4> QED
        BY <2>1, <3>2, <4>1, <4>2
    <3> QED
      BY <3>1, <3>2
  <2>3. SessionsCurrent'
    BY <2>1 DEF SessionsCurrent
  <2> QED
    BY <1>1, <2>2, <2>3
<1>4. ASSUME NEW t \in Tokens, LoginInsert(r, t)
      PROVE  LoginsCurrent' /\ SessionsCurrent'
  <2>1. /\ UNCHANGED users /\ pc[r] = "proved" /\ pc'[r] = "idle"
        /\ \A q \in Requests : q # r => pc'[q] = pc[q] /\ work'[q] = work[q]
        /\ sessions'[t] = Opened(work[r].user, work[r].id, work[r].gen, work[r].late, FALSE)
        /\ \A s \in Tokens : s # t => sessions'[s] \in {None, sessions[s]}
    BY <1>4 DEF LoginInsert, Answer, Goto
  <2>2. LoginsCurrent'
    BY <2>1 DEF LoginsCurrent
  <2>3. SessionsCurrent'
    <3> SUFFICES ASSUME NEW s \in Tokens, sessions'[s] # None
                 PROVE  LET v == users'[sessions'[s].user] IN
                        \/ v = None \/ sessions'[s].gen >= v.own \/ sessions'[s].late # {}
                        \/ \E q \in Requests : /\ pc'[q] = "written"
                                               /\ work'[q].user = sessions'[s].user
                                               /\ work'[q].tok # s
      BY DEF SessionsCurrent
    <3>1. CASE s # t
      <4>1. sessions'[s] = sessions[s] /\ sessions[s] # None
        BY <2>1, <3>1
      <4>2. ASSUME NEW q \in Requests, pc[q] = "written"
            PROVE  pc'[q] = "written" /\ work'[q] = work[q]
        BY <2>1, <4>2
      <4> QED
        BY <2>1, <4>1, <4>2 DEF SessionsCurrent
    <3>2. CASE s = t
      <4>1. /\ sessions'[s].user = work[r].user /\ sessions'[s].gen = work[r].gen
            /\ sessions'[s].late = work[r].late
        BY <2>1, <3>2 DEF Opened
      <4> QED
        BY <2>1, <4>1 DEF LoginsCurrent
    <3> QED
      BY <3>1, <3>2
  <2> QED
    BY <2>2, <2>3
<1> QED
  BY <1>1, <1>2, <1>3, <1>4 DEF LoginStep

\* An administrator's edits replace passwords, but not the ones users chose.
LEMMA EditCurrent ==
  ASSUME AccountInv, PasswordInv, NEW r \in Requests, EditStep(r)
  PROVE  PasswordInv'
<1> USE DEF AccountInv, AccountTypeOK, PasswordInv
<1>a. ASSUME NEW q \in Requests, NEW n \in Names,
             \/ AdminCheck(r) \/ Answer(r, "admin")
             \/ AnswerAfter(r, "admin", Overtaken(n, "account"))
      PROVE  /\ pc'[q] \in {"read", "proved"} =>
                  /\ pc[q] \in {"read", "proved"}
                  /\ work'[q].user = work[q].user /\ work'[q].gen = work[q].gen
                  /\ work[q].late \subseteq work'[q].late
             /\ pc[q] = "written" => pc'[q] = "written" /\ work'[q] = work[q]
  <2> DEFINE over == Overtaken(n, "account")
  <2>1. /\ over \in [Requests -> Work]
        /\ over[q].user = work[q].user /\ over[q].gen = work[q].gen
        /\ work[q].late \subseteq over[q].late
        /\ pc[q] = "written" => over[q] = work[q]
    <3>1. over \in [Requests -> Work]
      BY OvertakenType DEF Event
    <3> QED
      BY <3>1 DEF Overtaken, Job
  <2>2. CASE q # r
    <3>1. pc'[q] = pc[q] /\ (work'[q] = work[q] \/ work'[q] = over[q])
      <4>1. CASE AdminCheck(r) \/ Answer(r, "admin")
        BY <2>2, <4>1 DEF AdminCheck, Answer, Goto
      <4>2. CASE AnswerAfter(r, "admin", over)
        BY <2>1, <2>2, <4>2 DEF AnswerAfter, Goto
      <4> QED
        BY <1>a, <4>1, <4>2
    <3> QED
      BY <2>1, <3>1
  <2>3. CASE q = r
    BY <1>a, <2>3 DEF AdminCheck, Answer, AnswerAfter, Goto
  <2> QED
    BY <2>2, <2>3
<1>b. ASSUME NEW n \in Names, SignOut(SessionsOf(n)) \/ UNCHANGED sessions
      PROVE  \A t \in Tokens : sessions'[t] # None => sessions[t] # None /\ sessions'[t] = sessions[t]
  BY <1>b DEF SignOut
<1>c. changes \in Nat
  BY AccountAssumption
<1>1. CASE AdminCheck(r)
  <2>1. UNCHANGED <<users, sessions, changes>>
    BY <1>1 DEF AdminCheck
  <2>2. PasswordsGrow'
    BY <2>1 DEF PasswordsGrow
  <2>3. Root \in Names
    BY AccountAssumption
  <2> QED
    BY <1>1, <1>a, <2>1, <2>2, <2>3, QuietCurrent
<1>2. ASSUME NEW n \in Names, NEW b \in BOOLEAN, CreateUser(r, n, b)
      PROVE  PasswordInv'
  <2>1. /\ Answer(r, "admin") /\ UNCHANGED sessions
        /\ changes' \in {changes, changes + 1}
        /\ \A m \in Names : \/ users'[m] = users[m]
                            \/ /\ users[m] = None /\ users'[m] = NewUser(changes', b)
    BY <1>2 DEF CreateUser
  <2>2. NewUser(changes', b).own = changes' /\ NewUser(changes', b).gen = changes'
    BY DEF NewUser, Account
  <2>3. PasswordsGrow'
    <3> SUFFICES ASSUME NEW m \in Names, users'[m] # None
                 PROVE  users'[m].own <= users'[m].gen /\ users'[m].gen <= changes'
      BY DEF PasswordsGrow
    <3>1. CASE users'[m] = users[m]
      <4>1. users[m] \in User /\ users[m].own <= users[m].gen /\ users[m].gen <= changes
        BY <3>1 DEF PasswordsGrow
      <4>2. users[m].gen \in Nat
        BY <4>1 DEF User
      <4> QED
        BY <1>c, <2>1, <3>1, <4>1, <4>2
    <3>2. CASE users'[m] = NewUser(changes', b)
      BY <1>c, <2>1, <2>2, <3>2
    <3> QED
      BY <2>1, <3>1, <3>2
  <2> QED
    BY <1>a, <2>1, <2>3, QuietCurrent
<1>3. ASSUME NEW n \in Names, NEW b \in BOOLEAN, NEW e \in BOOLEAN,
             NEW u \in {"role", "enabled", "password"}, UpdateUser(r, n, b, e, u)
      PROVE  PasswordInv'
  <2> DEFINE changed == b # users[n].admin \/ e # users[n].enabled
             now == IF changed /\ u # "role" THEN e ELSE users[n].enabled
             gen == IF u = "password" THEN changes' ELSE users[n].gen
  <2>1. /\ users[n] # None /\ users[n] \in User /\ changes' = changes + 1
        /\ users' = [users EXCEPT ![n] = Account(users[n].id, gen, users[n].own, b, now)]
        /\ \/ AnswerAfter(r, "admin", Overtaken(n, "account"))
           \/ Answer(r, "admin")
        /\ SignOut(SessionsOf(n)) \/ UNCHANGED sessions
    BY <1>3 DEF UpdateUser
  <2>2. /\ users'[n].own = users[n].own /\ users'[n].gen = gen
        /\ \A m \in Names : m # n => users'[m] = users[m]
    BY <2>1 DEF Account
  <2>3. PasswordsGrow'
    <3> SUFFICES ASSUME NEW m \in Names, users'[m] # None
                 PROVE  users'[m].own <= users'[m].gen /\ users'[m].gen <= changes'
      BY DEF PasswordsGrow
    <3>1. users[m] # None /\ users[m] \in User
      BY <2>1, <2>2
    <3>2. /\ users[m].own <= users[m].gen /\ users[m].gen <= changes
          /\ users[m].own \in Nat /\ users[m].gen \in Nat
      BY <3>1 DEF PasswordsGrow, User
    <3>3. CASE m # n
      BY <1>c, <2>1, <2>2, <3>2, <3>3
    <3>4. CASE m = n
      BY <1>c, <2>1, <2>2, <3>2, <3>4
    <3> QED
      BY <3>3, <3>4
  <2>4. \A m \in Names : users[m] # None /\ users'[m] # None => users'[m].own = users[m].own
    BY <2>2
  <2> HIDE DEF gen, now, changed
  <2> QED
    BY <1>a, <1>b, <2>1, <2>3, <2>4, QuietCurrent
<1>4. ASSUME NEW n \in Names, NEW d \in BOOLEAN, DeleteUser(r, n, d)
      PROVE  PasswordInv'
  <2>1. /\ changes' = changes
        /\ \A m \in Names : users'[m] # None => users'[m] = users[m]
        /\ \/ AnswerAfter(r, "admin", Overtaken(n, "account"))
           \/ Answer(r, "admin")
        /\ SignOut(SessionsOf(n))
    BY <1>4 DEF DeleteUser
  <2>2. PasswordsGrow'
    BY <2>1 DEF PasswordsGrow
  <2> QED
    BY <1>a, <1>b, <2>1, <2>2, QuietCurrent
<1> QED
  BY <1>1, <1>2, <1>3, <1>4 DEF EditStep

\* A user's change of password leaves sessions of the old one only until the
\* handler has dropped them.
LEMMA OtherCurrent ==
  ASSUME AccountInv, PasswordInv,
         \/ \E r \in Requests : PasswordStep(r) \/ Refused(r)
         \/ \E r \in Requests : \E t \in Tokens : \E to \in {"authed", "entered"} :
              Authenticate(r, t, to)
         \/ \E t \in Tokens : Logout(t) \/ Age(t)
         \/ WindowOver \/ \E password \in BOOLEAN : Restart(password)
  PROVE  PasswordInv'
<1> USE DEF AccountInv, AccountTypeOK, PasswordInv
<1>c. changes \in Nat
  BY AccountAssumption
<1>1. ASSUME NEW r \in Requests, ReadHash(r) \/ Refused(r)
      PROVE  PasswordInv'
  <2>1. /\ UNCHANGED <<users, sessions, changes>>
        /\ \A q \in Requests : pc'[q] \in {"read", "proved"} =>
              pc[q] \in {"read", "proved"} /\ work'[q] = work[q]
        /\ \A q \in Requests : pc[q] = "written" => pc'[q] = "written" /\ work'[q] = work[q]
    BY <1>1 DEF ReadHash, Refused, Goto, Answer
  <2>2. PasswordsGrow'
    BY <2>1 DEF PasswordsGrow
  <2> QED
    BY <2>1, <2>2, QuietCurrent
<1>2. ASSUME NEW r \in Requests, WritePassword(r)
      PROVE  PasswordInv'
  <2> DEFINE n == work[r].user
             u == users[n]
             tok == work[r].tok
  <2>1. /\ n \in Names /\ pc[r] = "checked" /\ pc' = [pc EXCEPT ![r] = "written"]
        /\ changes' = changes + 1 /\ work' = Overtaken(n, "password")
        /\ users' = IF u = None THEN users
                    ELSE [users EXCEPT ![n] = Account(u.id, changes', changes', u.admin, u.enabled)]
        /\ \A t \in Tokens :
              IF t = tok /\ t \in SessionsOf(n)
              THEN sessions'[t] = Opened(n, sessions[t].id, changes', sessions[t].late,
                                         sessions[t].aged)
              ELSE sessions'[t] = sessions[t]
    BY <1>2 DEF WritePassword, Goto, Work
  <2>2. /\ \A m \in Names : m # n => users'[m] = users[m]
        /\ u # None => users'[n].own = changes' /\ users'[n].gen = changes'
    BY <2>1 DEF Account
  <2>3. PasswordsGrow'
    <3> SUFFICES ASSUME NEW m \in Names, users'[m] # None
                 PROVE  users'[m].own <= users'[m].gen /\ users'[m].gen <= changes'
      BY DEF PasswordsGrow
    <3>1. CASE m = n
      BY <1>c, <2>1, <2>2, <3>1
    <3>2. CASE m # n
      <4>1. /\ users'[m] = users[m] /\ users[m] \in User
            /\ users[m].own <= users[m].gen /\ users[m].gen <= changes
        BY <2>2, <3>2 DEF PasswordsGrow
      <4>2. users[m].gen \in Nat
        BY <4>1 DEF User
      <4> QED
        BY <1>c, <2>1, <4>1, <4>2
    <3> QED
      BY <3>1, <3>2
  <2>4. LoginsCurrent'
    <3> SUFFICES ASSUME NEW q \in Requests, pc'[q] \in {"read", "proved"}
                 PROVE  LET v == users'[work'[q].user] IN
                        v = None \/ work'[q].gen >= v.own \/ work'[q].late # {}
      BY DEF LoginsCurrent
    <3>1. pc[q] \in {"read", "proved"} /\ work[q].user \in Names
      BY <2>1 DEF Work
    <3>2. CASE work[q].user = n
      <4>1. work'[q].late # {}
        BY <2>1, <3>1, <3>2 DEF Overtaken, Job
      <4> QED
        BY <4>1
    <3>3. CASE work[q].user # n
      <4>1. work'[q] = work[q]
        BY <2>1, <3>3 DEF Overtaken
      <4> QED
        BY <2>2, <3>1, <3>3, <4>1 DEF LoginsCurrent
    <3> QED
      BY <3>2, <3>3
  <2>5. SessionsCurrent'
    <3> SUFFICES ASSUME NEW t \in Tokens, sessions'[t] # None
                 PROVE  LET v == users'[sessions'[t].user] IN
                        \/ v = None \/ sessions'[t].gen >= v.own \/ sessions'[t].late # {}
                        \/ \E q \in Requests : /\ pc'[q] = "written"
                                               /\ work'[q].user = sessions'[t].user
                                               /\ work'[q].tok # t
      BY DEF SessionsCurrent
    <3>1. /\ pc'[r] = "written" /\ work'[r] = work[r]
          /\ \A q \in Requests : pc[q] = "written" => pc'[q] = "written" /\ work'[q] = work[q]
      BY <2>1 DEF Overtaken
    <3>2. CASE sessions[t] # None /\ sessions[t].user # n
      <4>1. sessions'[t] = sessions[t] /\ sessions[t].user \in Names
        BY <2>1, <3>2 DEF SessionsOf, Session
      <4>2. users'[sessions[t].user] = users[sessions[t].user]
        BY <2>2, <3>2, <4>1
      <4> QED
        BY <3>1, <3>2, <4>1, <4>2 DEF SessionsCurrent
    <3>3. CASE t \in SessionsOf(n) /\ t # tok
      <4>1. sessions'[t] = sessions[t] /\ sessions[t].user = n
        BY <2>1, <3>3 DEF SessionsOf
      <4> QED
        BY <3>1, <3>3, <4>1
    <3>4. CASE t \in SessionsOf(n) /\ t = tok
      <4>0. sessions'[t] = Opened(n, sessions[t].id, changes', sessions[t].late,
                                  sessions[t].aged)
        BY <2>1, <3>4
      <4>1. sessions'[t].user = n /\ sessions'[t].gen = changes'
        BY <4>0 DEF Opened
      <4>2. users'[n] = None \/ users'[n].own = changes'
        BY <2>1, <2>2
      <4> QED
        BY <1>c, <2>1, <4>1, <4>2
    <3>5. sessions[t] # None
      BY <2>1 DEF SessionsOf
    <3> QED
      BY <3>2, <3>3, <3>4, <3>5 DEF SessionsOf
  <2> QED
    BY <2>3, <2>4, <2>5
<1>3. ASSUME NEW r \in Requests, SignOutOthers(r)
      PROVE  PasswordInv'
  <2>1. /\ UNCHANGED <<users, changes>> /\ pc[r] = "written" /\ pc'[r] = "idle"
        /\ \A q \in Requests : q # r => pc'[q] = pc[q] /\ work'[q] = work[q]
        /\ \A t \in Tokens : sessions'[t] # None =>
              /\ sessions'[t] = sessions[t]
              /\ sessions[t].user = work[r].user => t = work[r].tok
    BY <1>3 DEF SignOutOthers, SignOut, SessionsOf, Answer, Goto
  <2>2. PasswordsGrow' /\ LoginsCurrent'
    BY <2>1 DEF PasswordsGrow, LoginsCurrent
  <2>3. SessionsCurrent'
    <3> SUFFICES ASSUME NEW t \in Tokens, sessions'[t] # None
                 PROVE  LET v == users[sessions[t].user] IN
                        \/ v = None \/ sessions[t].gen >= v.own \/ sessions[t].late # {}
                        \/ \E q \in Requests : /\ pc'[q] = "written"
                                               /\ work'[q].user = sessions[t].user
                                               /\ work'[q].tok # t
      BY <2>1 DEF SessionsCurrent
    <3>1. ASSUME NEW q \in Requests, pc[q] = "written", work[q].user = sessions[t].user,
                 work[q].tok # t
          PROVE  pc'[q] = "written" /\ work'[q] = work[q]
      BY <2>1, <3>1
    <3> QED
      BY <2>1, <3>1 DEF SessionsCurrent
  <2> QED
    BY <2>2, <2>3
<1>4. ASSUME NEW r \in Requests, NEW t \in Tokens, NEW to \in {"authed", "entered"},
             Authenticate(r, t, to)
      PROVE  PasswordInv'
  <2>1. /\ UNCHANGED <<users, changes>>
        /\ \A q \in Requests : pc'[q] \in {"read", "proved"} =>
              pc[q] \in {"read", "proved"} /\ work'[q] = work[q]
        /\ \A q \in Requests : pc[q] = "written" => pc'[q] = "written" /\ work'[q] = work[q]
        /\ \A s \in Tokens : sessions'[s] # None => sessions'[s] = sessions[s]
    BY <1>4 DEF Authenticate, SignOut, Goto
  <2>2. PasswordsGrow'
    BY <2>1 DEF PasswordsGrow
  <2> QED
    BY <2>1, <2>2, QuietCurrent
<1>5. ASSUME NEW t \in Tokens, Logout(t) \/ Age(t)
      PROVE  PasswordInv'
  <2>1. UNCHANGED <<users, changes, pc, work>>
    BY <1>5 DEF Logout, Age
  <2>2. \A s \in Tokens : sessions'[s] # None =>
            /\ sessions[s] # None
            /\ sessions'[s].user = sessions[s].user /\ sessions'[s].gen = sessions[s].gen
            /\ sessions'[s].late = sessions[s].late
    BY <1>5 DEF Logout, Age, SignOut, Opened
  <2>3. PasswordsGrow'
    BY <2>1 DEF PasswordsGrow
  <2> QED
    BY <2>1, <2>2, <2>3, QuietCurrent
<1>6. CASE WindowOver
  BY <1>6 DEF WindowOver, PasswordsGrow, LoginsCurrent, SessionsCurrent
<1>7. ASSUME NEW password \in BOOLEAN, Restart(password) PROVE PasswordInv'
  <2>1. changes' = changes + 1
    BY <1>7 DEF Restart
  <2>2. users' = IF users[Root] # None \/ ~password THEN users
                 ELSE [users EXCEPT ![Root] = NewUser(changes', TRUE)]
    BY <1>7 DEF Restart
  <2>3. NewUser(changes', TRUE).own = changes' /\ NewUser(changes', TRUE).gen = changes'
    BY DEF NewUser, Account
  <2>4. ASSUME NEW m \in Names, users'[m] # users[m]
        PROVE  users'[m].own = changes' /\ users'[m].gen = changes'
    BY <2>2, <2>3, <2>4
  <2>5. PasswordsGrow'
    <3> SUFFICES ASSUME NEW m \in Names, users'[m] # None
                 PROVE  users'[m].own <= users'[m].gen /\ users'[m].gen <= changes'
      BY DEF PasswordsGrow
    <3>1. CASE users'[m] = users[m]
      <4>1. users[m] \in User /\ users[m].own <= users[m].gen /\ users[m].gen <= changes
        BY <3>1 DEF PasswordsGrow
      <4>2. users[m].gen \in Nat
        BY <4>1 DEF User
      <4> QED
        BY <1>c, <2>1, <3>1, <4>1, <4>2
    <3>2. CASE users'[m] # users[m]
      BY <1>c, <2>4, <2>1, <3>2
    <3> QED
      BY <3>1, <3>2
  <2>6. LoginsCurrent' /\ SessionsCurrent'
    BY <1>7 DEF Restart, LoginsCurrent, SessionsCurrent
  <2> QED
    BY <2>5, <2>6
<1> QED
  BY <1>1, <1>2, <1>3, <1>4, <1>5, <1>6, <1>7 DEF PasswordStep

\* A session opened with a password its user has since replaced is gone
\* (admin.rs:383-388), whatever other changes and logins go on.
THEOREM OthersSignedOutAlways == Spec => []OthersSignedOut
<1>1. Init => PasswordInv
  <2> SUFFICES ASSUME Init PROVE PasswordInv
    OBVIOUS
  <2>1. /\ NewUser(0, TRUE).own = 0 /\ NewUser(0, TRUE).gen = 0
        /\ NewUser(0, FALSE).own = 0 /\ NewUser(0, FALSE).gen = 0
    BY DEF NewUser, Account
  <2>2. PasswordsGrow
    <3>1. users \in [Names -> {None, NewUser(0, TRUE), NewUser(0, FALSE)}] /\ changes = 0
      BY DEF Init
    <3>2. ASSUME NEW m \in Names, users[m] # None
          PROVE  users[m].own = 0 /\ users[m].gen = 0
      BY <2>1, <3>1, <3>2
    <3> QED
      BY <3>1, <3>2 DEF PasswordsGrow
  <2>3. LoginsCurrent /\ SessionsCurrent
    BY DEF Init, LoginsCurrent, SessionsCurrent
  <2> QED
    BY <2>2, <2>3 DEF PasswordInv
<1>2. AccountInv /\ PasswordInv /\ [Next]_vars => PasswordInv'
  <2> SUFFICES ASSUME AccountInv, PasswordInv, [Next]_vars PROVE PasswordInv'
    OBVIOUS
  <2>1. CASE UNCHANGED vars
    BY <2>1 DEF vars, PasswordInv, PasswordsGrow, LoginsCurrent, SessionsCurrent
  <2> QED
    BY <2>1, LoginCurrent, EditCurrent, OtherCurrent DEF Next
<1>3. PasswordInv => OthersSignedOut
  BY DEF PasswordInv, SessionsCurrent, OthersSignedOut
<1> QED
  BY <1>1, <1>2, <1>3, AccountInvariant, PTL DEF Spec

-----------------------------------------------------------------------------
(* The throttle *)

Flying == {r \in Requests : pc[r] \in {"gated", "read"}}

\* The logins in flight can be counted.
LEMMA FlyingFinite ==
  ASSUME AccountTypeOK
  PROVE  /\ IsFiniteSet(Flying) /\ Cardinality(Flying) \in Nat
         /\ Cardinality(Flying) <= Cardinality(Requests)
         /\ Cardinality(Requests) \in Nat
  BY AccountAssumption, FS_Subset, FS_CardinalityType DEF Flying

\* The count and the requests in flight keep their bound.
LEMMA FailuresStep ==
  ASSUME AccountTypeOK, AccountTypeOK', FailuresBounded, [Next]_vars
  PROVE  FailuresBounded'
<1> DEFINE F == Cardinality(Flying)
           R == Cardinality(Requests)
<1>1. /\ IsFiniteSet(Flying) /\ F \in Nat /\ F <= R /\ R \in Nat
      /\ throttle \in Nat /\ MaxFailures \in Nat \ {0} /\ throttle + F < MaxFailures + R
  BY FlyingFinite, AccountAssumption DEF AccountTypeOK, FailuresBounded, InFlight, Flying
<1>2. /\ F' \in Nat /\ F' <= R /\ IsFiniteSet(Flying')
  BY AccountAssumption, FS_Subset, FS_CardinalityType DEF AccountTypeOK, Flying
<1>3. SUFFICES throttle' + F' < MaxFailures + R
  BY DEF FailuresBounded, InFlight, Flying
<1>4. ASSUME Flying' \subseteq Flying, throttle' \in {0, throttle}
      PROVE  throttle' + F' < MaxFailures + R
  <2>1. F' <= F
    BY <1>1, <1>4, FS_Subset
  <2> QED
    BY <1>1, <1>2, <1>4, <2>1
<1>5. ASSUME NEW r \in Requests, NEW from \in {"gated", "read"}, Answer(r, from), RecordFailure
      PROVE  throttle' + F' < MaxFailures + R
  <2>1. r \in Flying /\ Flying' = Flying \ {r}
    BY <1>5 DEF Answer, Goto, Flying, AccountTypeOK
  <2>2. F' = F - 1
    BY <1>1, <2>1, FS_RemoveElement
  <2> QED
    BY <1>1, <1>2, <1>5, <2>2 DEF RecordFailure
<1>6. ASSUME NEW r \in Requests, LoginStep(r)
      PROVE  throttle' + F' < MaxFailures + R
  <2>1. ASSUME NEW n \in Names, LoginGate(r, n)
        PROVE  throttle' + F' < MaxFailures + R
    BY <1>1, <1>2, <2>1 DEF LoginGate
  <2>2. CASE LoginRead(r)
    <3>1. CASE Answer(r, "gated") /\ RecordFailure
      BY <1>5, <3>1
    <3>2. CASE UNCHANGED throttle
      <4>1. Flying' \subseteq Flying
        BY <2>2, <3>2 DEF LoginRead, Answer, Goto, Flying, AccountTypeOK
      <4> QED
        BY <1>4, <3>2, <4>1
    <3> QED
      BY <2>2, <3>1, <3>2 DEF LoginRead
  <2>3. CASE LoginFail(r)
    BY <1>5, <2>3 DEF LoginFail
  <2>4. CASE LoginProve(r)
    <3>1. Flying' \subseteq Flying /\ throttle' = 0
      BY <2>4 DEF LoginProve, Goto, Flying, AccountTypeOK
    <3> QED
      BY <1>4, <3>1
  <2>5. ASSUME NEW t \in Tokens, LoginInsert(r, t)
        PROVE  throttle' + F' < MaxFailures + R
    <3>1. Flying' \subseteq Flying /\ throttle' = throttle
      BY <2>5 DEF LoginInsert, Answer, Goto, Flying, AccountTypeOK
    <3> QED
      BY <1>4, <3>1
  <2> QED
    BY <1>6, <2>1, <2>2, <2>3, <2>4, <2>5 DEF LoginStep
<1>7. ASSUME NEW r \in Requests, EditStep(r) \/ PasswordStep(r) \/ Refused(r)
      PROVE  throttle' + F' < MaxFailures + R
  <2>1. throttle' = throttle
    BY <1>7 DEF EditStep, AdminCheck, CreateUser, UpdateUser, DeleteUser, PasswordStep,
                ReadHash, WritePassword, SignOutOthers, Refused
  <2>2. \E to \in Points \ {"gated", "read"} : pc' = [pc EXCEPT ![r] = to]
    BY <1>7 DEF EditStep, AdminCheck, CreateUser, UpdateUser, DeleteUser, PasswordStep,
                ReadHash, WritePassword, SignOutOthers, Refused, Answer, AnswerAfter, Goto,
                Points
  <2>3. Flying' \subseteq Flying
    BY <2>2 DEF Flying, AccountTypeOK
  <2> QED
    BY <1>4, <2>1, <2>3
<1>8. ASSUME NEW r \in Requests, NEW t \in Tokens, NEW to \in {"authed", "entered"},
             Authenticate(r, t, to)
      PROVE  throttle' + F' < MaxFailures + R
  <2>1. Flying' \subseteq Flying /\ throttle' = throttle
    BY <1>8 DEF Authenticate, Goto, Flying, AccountTypeOK
  <2> QED
    BY <1>4, <2>1
<1>9. ASSUME \/ \E t \in Tokens : Logout(t) \/ Age(t)
             \/ WindowOver \/ (\E password \in BOOLEAN : Restart(password)) \/ UNCHANGED vars
      PROVE  throttle' + F' < MaxFailures + R
  <2>1. Flying' \subseteq Flying /\ throttle' \in {0, throttle}
    BY <1>9 DEF Logout, Age, WindowOver, Restart, vars, Flying
  <2> QED
    BY <1>4, <2>1
<1> QED
  BY <1>6, <1>7, <1>8, <1>9 DEF Next

\* The limit of failed logins is exceeded by less than the logins that can be
\* under way, for any limit and any number of them (admin.rs:260-289).
THEOREM FailuresBoundedAlways == Spec => []FailuresBounded
<1>1. Init => FailuresBounded
  <2> SUFFICES ASSUME Init PROVE FailuresBounded
    OBVIOUS
  <2>1. {r \in Requests : pc[r] \in {"gated", "read"}} = {}
    BY DEF Init
  <2>2. InFlight = 0 /\ throttle = 0
    BY <2>1, FS_EmptySet DEF InFlight, Init
  <2>3. Cardinality(Requests) \in Nat
    BY AccountAssumption, FS_CardinalityType
  <2> QED
    BY <2>2, <2>3, AccountAssumption DEF FailuresBounded
<1>2. AccountTypeOK /\ AccountTypeOK' /\ FailuresBounded /\ [Next]_vars => FailuresBounded'
  BY FailuresStep
<1> QED
  BY <1>1, <1>2, AccountTypeCorrect, PTL DEF Spec

-----------------------------------------------------------------------------
(***************************************************************************)
(* Panel                                                                   *)
(***************************************************************************)

\* A job's argument is what its kind of job works on.
ArgFits ==
    \A j \in Jobs : /\ stepOf[j] \in InstallPoints => arg[j] \in Packages
                    /\ stepOf[j] \in UpdatePoints => arg[j] \in Versions
                    /\ stepOf[j] = "checked" => arg[j] \in Ids
                    /\ stepOf[j] = "clear" => left[j] = FilesOf(arg[j])
                    /\ stepOf[j] = "extract" => left[j] \subseteq FilesOf(arg[j])
                    /\ stepOf[j] \in {"dropOldBinary", "retireBinary"} => at[j] \in Slots \ {MaxOld}

\* What is in the temporary directory of an install that has it to itself.
Extracted(j) ==
    [f \in Files |-> IF f \in FilesOf(arg[j]) \ left[j] THEN arg[j] ELSE Missing]

InstallAlone ==
    /\ "overlap" \notin marks =>
         \A j, k \in Jobs :
           stepOf[j] \in InstallPoints /\ stepOf[k] \in InstallPoints => j = k
    /\ marks \cap {"overlap", "leftover"} = {} =>
         \A j \in Jobs :
           /\ stepOf[j] \in {"extract", "evict", "move"} =>
                There("tmp") /\ themes["tmp"] = Extracted(j)
           /\ stepOf[j] \in {"evict", "move"} => left[j] = {}

\* A bundle brings no theme of this id.
BundleBare == \A v \in Versions : themesTmp[v] # Missing => themesTmp[v]["custom"] = Missing

UpdateAlone ==
    "sameVersion" \notin marks =>
        /\ \A j, k \in Jobs :
             stepOf[j] \in UpdatePoints /\ stepOf[k] \in UpdatePoints /\ arg[j] = arg[k] => j = k
        /\ \A j \in Jobs : stepOf[j] = "unpack" => stage[arg[j]].bundle = "good"
        /\ \A j \in Jobs :
             stepOf[j] \in {"copyThemes", "checkThemes", "dropOldThemes", "retireThemes", "placeThemes",
                        "stageBinary"} => stage[arg[j]].pharus = "good"
        /\ \A j \in Jobs : stepOf[j] \in {"checkBinary", "dropOldBinary", "retireBinary", "placeBinary"} =>
             binTmp[arg[j]] # Missing /\ binTmp[arg[j]].good
        /\ \A k \in Slots : bins[k] # Missing => bins[k].good

PanelInv == /\ PanelTypeOK
            /\ ArgFits
            /\ BundleBare
            /\ InstallAlone
            /\ InstalledWhole
            /\ UpdateAlone
            /\ ServerRunnable
            /\ PreviousKept

-----------------------------------------------------------------------------
(* Types of the operators *)

\* A binary, a stage and a directory are well formed.
LEMMA PartTypes ==
  /\ \A v \in Versions \cup {First} : \A b \in BOOLEAN :
       Program(v, b) \in Binary /\ (Program(v, b).good <=> b)
  /\ \A a, b, c \in Staged :
       LET s == Holding(a, b, c) IN
       s \in Stage /\ s.bundle = a /\ s.pharus = b /\ s.themes = c
  /\ \A src \in Sources : Copy(src) \in Dir
  /\ EmptyDir \in Dir /\ EmptyTree \in Tree
  /\ \A src \in Sources : FilesOf(src) \subseteq Files
<1>1. \A v \in Versions \cup {First} : \A b \in BOOLEAN :
        Program(v, b) \in Binary /\ (Program(v, b).good <=> b)
  BY DEF Program, Binary
<1>2. \A a, b, c \in Staged :
        LET s == Holding(a, b, c) IN
        s \in Stage /\ s.bundle = a /\ s.pharus = b /\ s.themes = c
  BY DEF Holding, Stage
<1>3. \A src \in Sources : Copy(src) \in Dir
  BY DEF Copy, Dir
<1>4. EmptyDir \in Dir /\ EmptyTree \in Tree
  BY DEF EmptyDir, EmptyTree, Dir, Tree
<1>5. \A src \in Sources : FilesOf(src) \subseteq Files
  BY DEF FilesOf, Files
<1> QED
  BY <1>1, <1>2, <1>3, <1>4, <1>5

\* A theme directory is put into a tree, or taken out of it.
LEMMA TreeTypes ==
  ASSUME PanelTypeOK
  PROVE  /\ Rooted \in Tree
         /\ \A n \in Ids \cup {"tmp"} : Without(n) \in Tree \cup {Missing}
         /\ \A t \in Tree : \A n \in Ids \cup {"tmp"} : \A d \in Dir \cup {Missing} :
              [t EXCEPT ![n] = d] \in Tree
<1>1. EmptyTree \in Tree
  BY PartTypes
<1>2. Rooted \in Tree
  BY <1>1 DEF Rooted, PanelTypeOK
<1>3. \A t \in Tree : \A n \in Ids \cup {"tmp"} : \A d \in Dir \cup {Missing} :
        [t EXCEPT ![n] = d] \in Tree
  BY DEF Tree
<1> QED
  BY <1>2, <1>3 DEF Without, PanelTypeOK

\* A removal takes a directory out of a tree, or leaves it.
LEMMA RemovalTypes ==
  ASSUME PanelTypeOK, NEW n \in Ids \cup {"tmp"}, RemovalOver(n)
  PROVE  themes' \in Tree \cup {Missing}
BY TreeTypes DEF RemovalOver, PanelTypeOK

-----------------------------------------------------------------------------
(* Types *)

\* The steps of an install keep the types.
LEMMA InstallType ==
  ASSUME PanelTypeOK, ArgFits, NEW j \in Jobs, InstallStep(j)
  PROVE  PanelTypeOK' /\ ArgFits'
<1> USE PanelAssumption, TreeTypes, PartTypes
    DEF PanelTypeOK, ArgFits, JobPoints, InstallPoints, DeletePoints, UpdatePoints, Advance, NotThemes,
        binFiles, Settings, Disk, themeFiles, Marks
<1>1. ASSUME NEW p \in Packages, InstallStart(j, p) PROVE PanelTypeOK' /\ ArgFits'
  <2>1. FilesOf(p) \subseteq Files
    BY DEF Sources
  <2>2. arg' \in [Jobs -> Packages \cup Versions \cup Ids \cup {Missing}]
    BY <1>1 DEF InstallStart
  <2>3. stepOf' \in [Jobs -> JobPoints] /\ left' \in [Jobs -> SUBSET Files] /\ marks' \subseteq Marks
    BY <1>1, <2>1 DEF InstallStart
  <2>4. ArgFits'
    BY <1>1 DEF InstallStart
  <2> QED
    BY <1>1, <2>2, <2>3, <2>4 DEF InstallStart
<1>10. CASE InstallCreate(j)
  <2>1. Rooted \in Tree /\ Rooted["tmp"] \in Dir \cup {Missing}
    <3>1. Rooted \in Tree
      BY TreeTypes
    <3> QED
      BY ONLY <3>1 DEF Tree
  <2>2. themes' \in Tree
    BY <1>10, <2>1 DEF InstallCreate
  <2>3. stepOf' \in [Jobs -> JobPoints] /\ marks' \subseteq Marks /\ ArgFits'
    BY <1>10 DEF InstallCreate
  <2> QED
    BY <1>10, <2>2, <2>3 DEF InstallCreate
<1>2. ASSUME NEW f \in Files, Extract(j, f) PROVE PanelTypeOK' /\ ArgFits'
  <2>1. /\ Rooted["tmp"] \in Dir \cup {Missing} /\ stepOf[j] = "extract" /\ arg[j] \in Sources
    <3>1. stepOf[j] = "extract" /\ arg[j] \in Packages
      BY <1>2 DEF Extract
    <3>2. Rooted["tmp"] \in Dir \cup {Missing}
      <4>1. Rooted \in Tree
        BY TreeTypes
      <4> QED
        BY ONLY <4>1 DEF Tree
    <3> QED
      BY <3>1, <3>2 DEF Sources
  <2>2. \A d \in Dir : [d EXCEPT ![f] = arg[j]] \in Dir
    BY <2>1 DEF Dir
  <2>3. themes' \in Tree
    BY <1>2, <2>1, <2>2 DEF Extract, Ids
  <2> QED
    BY <1>2, <2>3 DEF Extract
<1>3. CASE InstallCheck(j)
  BY <1>3 DEF InstallCheck
<1>4. CASE InstallAbort(j)
  BY <1>4 DEF InstallAbort
<1>7. CASE InstallEvicted(j)
  <2>1. themes' \in Tree \cup {Missing}
    BY <1>7, RemovalTypes DEF InstallEvicted, Ids
  <2> QED
    BY <1>7, <2>1 DEF InstallEvicted
<1>8. CASE InstallAborted(j)
  <2>1. themes' \in Tree \cup {Missing}
    BY <1>8, RemovalTypes DEF InstallAborted
  <2> QED
    BY <1>8, <2>1 DEF InstallAborted
<1>5. CASE InstallMove(j)
  <2>1. themes \in Tree /\ themes["tmp"] \in Dir
    BY <1>5 DEF InstallMove, There, Tree
  <2>2. themes' \in Tree
    BY <1>5, <2>1 DEF InstallMove, Tree
  <2>3. stepOf' \in [Jobs -> JobPoints] /\ marks' \subseteq Marks /\ ArgFits'
    BY <1>5 DEF InstallMove
  <2> QED
    BY <1>5, <2>2, <2>3 DEF InstallMove
<1>6. CASE InstallRow(j)
  BY <1>6 DEF InstallRow
<1> QED
  BY <1>1, <1>2, <1>3, <1>4, <1>5, <1>6, <1>7, <1>8, <1>10 DEF InstallStep

\* So do the other theme operations.
LEMMA ThemeType ==
  ASSUME PanelTypeOK, ArgFits,
         \/ \E j \in Jobs : ThemeStep(j) \/ \E f \in Files : Unlink(j, f)
         \/ \E id \in Ids : SetTheme(id)
  PROVE  PanelTypeOK' /\ ArgFits'
<1> USE PanelAssumption, TreeTypes
    DEF PanelTypeOK, ArgFits, JobPoints, InstallPoints, DeletePoints, UpdatePoints, Advance, NotThemes,
        binFiles, Settings, Disk, themeFiles, Marks
<1>1. ASSUME NEW j \in Jobs, NEW id \in Ids, ActivateCheck(j, id)
      PROVE  PanelTypeOK' /\ ArgFits'
  BY <1>1 DEF ActivateCheck
<1>2. ASSUME NEW j \in Jobs, ActivateSet(j) PROVE PanelTypeOK' /\ ArgFits'
  BY <1>2 DEF ActivateSet
<1>3. ASSUME NEW j \in Jobs, DeleteTheme(j) PROVE PanelTypeOK' /\ ArgFits'
  BY <1>3 DEF DeleteTheme
<1>4. ASSUME NEW j \in Jobs, DeleteRemoved(j) PROVE PanelTypeOK' /\ ArgFits'
  <2>1. themes' \in Tree \cup {Missing}
    BY <1>4, RemovalTypes DEF DeleteRemoved, Ids
  <2>2. stepOf' \in [Jobs -> JobPoints] /\ marks' \subseteq Marks /\ ArgFits'
    BY <1>4 DEF DeleteRemoved
  <2> QED
    BY <1>4, <2>1, <2>2 DEF DeleteRemoved
<1>5. ASSUME NEW j \in Jobs, NEW d \in BOOLEAN, DeleteRow(j, d) PROVE PanelTypeOK' /\ ArgFits'
  <2>1. row' \in BOOLEAN
    BY <1>5 DEF DeleteRow
  <2>2. stepOf' \in [Jobs -> JobPoints] /\ ArgFits'
    BY <1>5 DEF DeleteRow
  <2> QED
    BY <1>5, <2>1, <2>2 DEF DeleteRow
<1>6. ASSUME NEW id \in Ids, SetTheme(id) PROVE PanelTypeOK' /\ ArgFits'
  BY <1>6 DEF SetTheme
<1>7. ASSUME NEW j \in Jobs, NEW f \in Files, Unlink(j, f) PROVE PanelTypeOK' /\ ArgFits'
  <2>1. PICK name \in Removes(j) :
          /\ HasFile(name, f)
          /\ themes' = [themes EXCEPT ![name] = [@ EXCEPT ![f] = Missing]]
    BY <1>7 DEF Unlink
  <2>2. themes \in Tree /\ name \in Ids \cup {"tmp"}
    BY <2>1 DEF HasFile, There, Removes, Ids
  <2>3. themes[name] \in Dir
    BY <2>1, <2>2 DEF HasFile, There, Tree
  <2>4. [themes[name] EXCEPT ![f] = Missing] \in Dir
    BY <2>3 DEF Dir
  <2>5. themes' \in Tree
    BY <2>1, <2>2, <2>4, TreeTypes
  <2> QED
    BY <1>7, <2>5 DEF Unlink
<1> QED
  BY <1>1, <1>2, <1>3, <1>4, <1>5, <1>6, <1>7 DEF ThemeStep

\* So do the steps of an update.
LEMMA UpdateType ==
  ASSUME PanelTypeOK, ArgFits, NEW j \in Jobs, UpdateStep(j), ~Exit(j)
  PROVE  PanelTypeOK' /\ ArgFits'
<1> USE PanelAssumption, PartTypes
    DEF PanelTypeOK, ArgFits, JobPoints, InstallPoints, DeletePoints, UpdatePoints, Advance, UpdateFrame,
        binFiles, Settings, themeFiles, Marks
<1>1. ASSUME NEW v \in Versions, UpdateStart(j, v) PROVE PanelTypeOK' /\ ArgFits'
  <2>1. stage' \in [Versions -> Stage]
    BY <1>1 DEF UpdateStart, EmptyStage, Staged
  <2>2. arg' \in [Jobs -> Packages \cup Versions \cup Ids \cup {Missing}]
    BY <1>1 DEF UpdateStart
  <2>3. stepOf' \in [Jobs -> JobPoints] /\ at' \in [Jobs -> Slots \cup {Gone}] /\ marks' \subseteq Marks
    BY <1>1 DEF UpdateStart
  <2>4. ArgFits'
    BY <1>1 DEF UpdateStart
  <2> QED
    BY <1>1, <2>1, <2>2, <2>3, <2>4 DEF UpdateStart
<1>2. ASSUME NEW q \in {"good", "bad"}, Fetch(j, q) PROVE PanelTypeOK' /\ ArgFits'
  <2>1. stage' \in [Versions -> Stage]
    <3>1. arg[j] \in Versions /\ stage[arg[j]] \in Stage
      BY <1>2 DEF Fetch
    <3>2. stage[arg[j]].pharus \in Staged /\ stage[arg[j]].themes \in Staged /\ q \in Staged
      BY <3>1 DEF Stage, Staged
    <3>3. Holding(q, stage[arg[j]].pharus, stage[arg[j]].themes) \in Stage
      BY ONLY <3>2, PartTypes
    <3> QED
      BY <1>2, <3>1, <3>3 DEF Fetch
  <2>2. stepOf' \in [Jobs -> JobPoints] /\ ArgFits'
    BY <1>2 DEF Fetch
  <2> QED
    BY <1>2, <2>1, <2>2 DEF Fetch
<1>3. CASE Unpack(j)
  <2>1. stage' \in [Versions -> Stage]
    <3>1. arg[j] \in Versions /\ stage[arg[j]] \in Stage
      BY <1>3 DEF Unpack
    <3>2. stage[arg[j]].bundle \in Staged
      BY <3>1 DEF Stage
    <3>3. Holding(stage[arg[j]].bundle, stage[arg[j]].bundle, stage[arg[j]].bundle) \in Stage
      BY ONLY <3>2, PartTypes
    <3> QED
      BY <1>3, <3>1, <3>3 DEF Unpack
  <2> QED
    BY <1>3, <2>1 DEF Unpack
<1>4. CASE CopyThemes(j)
  <2>1. arg[j] \in Versions /\ stepOf[j] = "copyThemes"
    BY <1>4 DEF CopyThemes
  <2>2. Copy(arg[j]) \in Dir
    BY <2>1 DEF Sources
  <2>3. [EmptyTree EXCEPT !["default"] =
           IF stage[arg[j]].themes = "good" THEN Copy(arg[j]) ELSE EmptyDir] \in Tree
    BY <2>2, TreeTypes DEF Ids
  <2> QED
    BY <1>4, <2>3 DEF CopyThemes
<1>5. CASE DropOldThemes(j)
  BY <1>5 DEF DropOldThemes
<1>13. CASE CheckThemes(j)
  <2>1. stepOf' = [stepOf EXCEPT ![j] = IF themes = Missing THEN "placeThemes" ELSE "dropOldThemes"]
        /\ stepOf[j] = "checkThemes" /\ UNCHANGED <<arg, at, left>>
    BY <1>13 DEF CheckThemes
  <2>2. stepOf' \in [Jobs -> JobPoints] /\ ArgFits'
    BY <2>1
  <2> QED
    BY <1>13, <2>2 DEF CheckThemes
<1>6. CASE RetireThemes(j)
  BY <1>6 DEF RetireThemes
<1>7. CASE PlaceThemes(j)
  BY <1>7 DEF PlaceThemes
<1>8. CASE StageBinary(j)
  <2>1. arg[j] \in Versions /\ stepOf[j] = "stageBinary"
    BY <1>8 DEF StageBinary
  <2>2. Program(arg[j], stage[arg[j]].pharus = "good") \in Binary
    BY <2>1
  <2>3. stage' \in [Versions -> Stage]
    <3>1. stage[arg[j]] \in Stage
      BY <2>1
    <3>2. stage[arg[j]].bundle \in Staged /\ stage[arg[j]].themes \in Staged /\ "none" \in Staged
      BY <3>1 DEF Stage, Staged
    <3>3. Holding(stage[arg[j]].bundle, "none", stage[arg[j]].themes) \in Stage
      BY ONLY <3>2, PartTypes
    <3> QED
      BY <1>8, <2>1, <3>3 DEF StageBinary
  <2> QED
    BY <1>8, <2>1, <2>2, <2>3 DEF StageBinary
<1>9. CASE DropOldBinary(j)
  <2>1. bins' \in [Slots -> Binary \cup {Missing}] /\ exe' \in Slots \cup {Gone}
    BY <1>9 DEF DropOldBinary
  <2>2. stepOf' \in [Jobs -> JobPoints] /\ marks' \subseteq Marks
    BY <1>9 DEF DropOldBinary
  <2>3. ArgFits'
    BY <1>9 DEF DropOldBinary
  <2> QED
    BY <1>9, <2>1, <2>2, <2>3 DEF DropOldBinary
<1>12. CASE CheckBinary(j)
  <2>1. stepOf[j] = "checkBinary" /\ at[j] < MaxOld /\ at[j] \in Slots \cup {Gone}
        /\ UNCHANGED <<arg, at, left>>
        /\ stepOf' = [stepOf EXCEPT ![j] = IF Exists(at[j]) THEN "dropOldBinary" ELSE "placeBinary"]
    BY <1>12 DEF CheckBinary
  <2>2. Exists(at[j]) => at[j] \in Slots \ {MaxOld}
    BY <2>1 DEF Exists, Slots
  <2>3. ArgFits'
    BY <2>1, <2>2
  <2>4. stepOf' \in [Jobs -> JobPoints]
    BY <2>1
  <2> QED
    BY <1>12, <2>3, <2>4 DEF CheckBinary
<1>10. CASE RetireBinary(j)
  <2>1. at[j] \in Slots /\ bins[at[j]] \in Binary \cup {Missing}
    BY <1>10 DEF RetireBinary, Exists
  <2>2. bins' \in [Slots -> Binary \cup {Missing}]
    BY <1>10, <2>1 DEF RetireBinary
  <2>3. exe' \in Slots \cup {Gone}
    <3>1. at[j] # MaxOld
      BY <1>10 DEF RetireBinary
    <3>2. at[j] + 1 \in Slots
      BY <2>1, <3>1 DEF Slots
    <3> QED
      BY <1>10, <2>1, <3>2 DEF RetireBinary
  <2> QED
    BY <1>10, <2>2, <2>3 DEF RetireBinary
<1>11. CASE PlaceBinary(j)
  <2>1. arg[j] \in Versions /\ stepOf[j] = "placeBinary"
    BY <1>11 DEF PlaceBinary
  <2>2. bins' \in [Slots -> Binary \cup {Missing}] /\ exe' \in Slots \cup {Gone}
    BY <1>11, <2>1 DEF PlaceBinary
  <2> QED
    BY <1>11, <2>1, <2>2 DEF PlaceBinary
<1> QED
  BY <1>1, <1>2, <1>3, <1>4, <1>5, <1>6, <1>7, <1>8, <1>9, <1>10, <1>11, <1>12,
     <1>13 DEF UpdateStep

\* So do failures, the end of the process and its start.
LEMMA EndType ==
  ASSUME PanelTypeOK, ArgFits,
         (\E j \in Jobs : Fail(j) \/ Exit(j)) \/ Crash \/ Start
  PROVE  PanelTypeOK' /\ ArgFits'
<1> USE PanelAssumption
    DEF PanelTypeOK, ArgFits, JobPoints, InstallPoints, DeletePoints, UpdatePoints, Advance,
        binFiles, Settings, Disk, themeFiles, Marks
<1>1. ASSUME NEW j \in Jobs PROVE MarksOfStop(j) \subseteq Marks
  BY DEF MarksOfStop
<1>2. ASSUME NEW j \in Jobs, Fail(j) PROVE PanelTypeOK' /\ ArgFits'
  <2>1. marks' \subseteq Marks
    BY <1>1, <1>2 DEF Fail
  <2>2. binTmp' \in [Versions -> Binary \cup {Missing}]
    BY <1>2 DEF Fail
  <2>3. stepOf' \in [Jobs -> JobPoints] /\ ArgFits'
    BY <1>2 DEF Fail
  <2> QED
    BY <1>2, <2>1, <2>2, <2>3 DEF Fail
<1>3. ASSUME ProcessEnds, crashes' \in 0..MaxCrashes PROVE PanelTypeOK' /\ ArgFits'
  <2>1. marks' \subseteq Marks
    <3> HIDE DEF Marks
    <3>1. marks' = marks \cup UNION {MarksOfStop(j) : j \in Jobs}
      BY <1>3 DEF ProcessEnds
    <3> QED
      BY <1>1, <3>1
  <2>2. stepOf' \in [Jobs -> JobPoints] /\ ArgFits'
    BY <1>3 DEF ProcessEnds
  <2> QED
    BY <1>3, <2>1, <2>2 DEF ProcessEnds
<1>4. ASSUME NEW j \in Jobs, Exit(j) PROVE PanelTypeOK' /\ ArgFits'
  <2>1. ProcessEnds /\ crashes' = crashes
    BY <1>4 DEF Exit
  <2> HIDE DEF PanelTypeOK, ArgFits
  <2>2. crashes \in 0..MaxCrashes
    BY DEF PanelTypeOK
  <2> QED
    BY <1>3, <2>1, <2>2
<1>5. CASE Crash
  <2>1. ProcessEnds /\ crashes' = crashes + 1 /\ crashes < MaxCrashes /\ crashes \in Nat
    BY <1>5 DEF Crash
  <2>2. crashes' \in 0..MaxCrashes
    BY <2>1
  <2> HIDE DEF PanelTypeOK, ArgFits
  <2> QED
    BY <1>3, <2>1, <2>2
<1>6. CASE Start
  <2>1. 0 \in Slots
    BY DEF Slots
  <2> QED
    BY <1>6, <2>1 DEF Start
<1> QED
  BY <1>2, <1>4, <1>5, <1>6

-----------------------------------------------------------------------------
(* What is installed is whole *)

InstallParts == BundleBare /\ InstallAlone /\ InstalledWhole

\* A step that touches no theme, starts no install, puts no job inside one and
\* marks the removals it stops.
LEMMA InstallQuiet ==
  ASSUME InstallParts, UNCHANGED <<themes, themesTmp, left>>, marks \subseteq marks',
         \A j \in Jobs : stepOf'[j] \in InstallPoints =>
            stepOf'[j] = stepOf[j] /\ arg'[j] = arg[j],
         \A j \in Jobs : stepOf[j] \in {"evict", "move", "delete"} =>
            stepOf'[j] = stepOf[j] \/ "stopped" \in marks'
  PROVE  InstallParts'
<1>1. BundleBare' /\ InstalledWhole'
  BY DEF InstallParts, BundleBare, InstalledWhole, Whole, PartOfOne, There
<1>2. InstallAlone'
  <2>1. "overlap" \notin marks' =>
          \A j, k \in Jobs : stepOf'[j] \in InstallPoints /\ stepOf'[k] \in InstallPoints => j = k
    BY DEF InstallParts, InstallAlone
  <2>2. \A j \in Jobs : stepOf'[j] \in {"extract", "evict", "move"} =>
                          stepOf'[j] = stepOf[j] /\ arg'[j] = arg[j]
    BY DEF InstallPoints
  <2>3. \A j \in Jobs : arg'[j] = arg[j] => Extracted(j)' = Extracted(j)
    BY DEF Extracted
  <2> QED
    BY <2>1, <2>2, <2>3 DEF InstallParts, InstallAlone, There
<1> QED
  BY <1>1, <1>2 DEF InstallParts

\* Putting one directory into a tree leaves the others.
LEMMA PutOne ==
  ASSUME NEW t \in Tree, NEW n \in Ids \cup {"tmp"}, NEW d \in Dir \cup {Missing}
  PROVE  LET u == [t EXCEPT ![n] = d] IN
         /\ u \in Tree /\ u # Missing
         /\ u[n] = d
         /\ \A m \in Ids \cup {"tmp"} : m # n => u[m] = t[m]
<1>1. [t EXCEPT ![n] = d] \in Tree
  BY DEF Tree
<1> QED
  BY <1>1, MissingIsNoFile DEF Tree

\* A removal that is over has left the other directories alone.
LEMMA RemovalLeaves ==
  ASSUME PanelTypeOK, NEW n \in Ids \cup {"tmp"}, RemovalOver(n),
         NEW m \in Ids \cup {"tmp"}, m # n
  PROVE  /\ (themes' = Missing) <=> (themes = Missing)
         /\ themes # Missing => themes'[m] = themes[m]
         /\ themes # Missing => themes'[n] \in {themes[n], Missing}
<1>1. CASE themes' = themes
  BY <1>1
<1>2. CASE There(n) /\ themes' = Without(n)
  <2>1. themes \in Tree /\ themes' = [themes EXCEPT ![n] = Missing]
    BY <1>2 DEF There, Without, PanelTypeOK
  <2> QED
    BY <2>1, PutOne, MissingIsNoFile
<1> QED
  BY <1>1, <1>2 DEF RemovalOver

\* What every step of an install does to the jobs and the other files.
LEMMA InstallFrame ==
  ASSUME PanelTypeOK, ArgFits, NEW j \in Jobs, InstallStep(j)
  PROVE  /\ UNCHANGED <<themesTmp, stage, bins, binTmp, at, current>>
         /\ marks \ {"stopped"} \subseteq marks'
         /\ \A k \in Jobs : k # j => /\ stepOf'[k] = stepOf[k] /\ arg'[k] = arg[k]
                                     /\ left'[k] = left[k]
         /\ stepOf'[j] \in InstallPoints \cup {"done"}
         /\ \/ stepOf[j] \in InstallPoints /\ UNCHANGED arg
            \/ stepOf[j] = "new" /\ stepOf'[j] = "clear" /\ (Installing => "overlap" \in marks')
<1> USE DEF PanelTypeOK, Advance, NotThemes, binFiles, Settings, Disk, themeFiles, InstallPoints
<1>1. ASSUME NEW p \in Packages, InstallStart(j, p)
      PROVE  stepOf[j] = "new" /\ stepOf'[j] = "clear" /\ (Installing => "overlap" \in marks')
  BY <1>1 DEF InstallStart
<1>2. ASSUME ~\E p \in Packages : InstallStart(j, p)
      PROVE  stepOf[j] \in InstallPoints /\ UNCHANGED arg
  BY <1>2 DEF InstallStep, InstallCreate, Extract, InstallCheck, InstallEvicted, InstallAbort,
         InstallAborted, InstallMove, InstallRow
<1>3. UNCHANGED <<themesTmp, stage, bins, binTmp, at, current>> /\ marks \ {"stopped"} \subseteq marks'
  BY DEF InstallStep, InstallStart, InstallCreate, Extract, InstallCheck, InstallEvicted,
         InstallAbort, InstallAborted, InstallMove, InstallRow
<1>4. \E to \in InstallPoints \cup {"done"} : stepOf' = [stepOf EXCEPT ![j] = to]
  BY DEF InstallStep, InstallStart, InstallCreate, Extract, InstallCheck, InstallEvicted,
         InstallAbort, InstallAborted, InstallMove, InstallRow
<1>5. \A k \in Jobs : k # j => arg'[k] = arg[k] /\ left'[k] = left[k]
  BY DEF InstallStep, InstallStart, InstallCreate, Extract, InstallCheck, InstallEvicted,
         InstallAbort, InstallAborted, InstallMove, InstallRow
<1> QED
  BY <1>1, <1>2, <1>3, <1>4, <1>5

\* The steps of an install: alone in its temporary directory it moves a whole
\* theme.
LEMMA InstallWholeStep ==
  ASSUME PanelTypeOK, ArgFits, InstallParts, NEW j \in Jobs, InstallStep(j)
  PROVE  InstallParts'
<1> DEFINE Frame ==
      /\ UNCHANGED themesTmp
      /\ marks \ {"stopped"} \subseteq marks'
      /\ \A k \in Jobs : k # j => stepOf'[k] = stepOf[k] /\ arg'[k] = arg[k] /\ left'[k] = left[k]
      /\ stepOf'[j] \in InstallPoints \cup {"done"}
      /\ \/ stepOf[j] \in InstallPoints /\ UNCHANGED arg
         \/ stepOf[j] = "new" /\ stepOf'[j] = "clear" /\ (Installing => "overlap" \in marks')
<1>1. Frame
  BY InstallFrame
<1>2. BundleBare'
  BY <1>1 DEF InstallParts, BundleBare
<1>3. "overlap" \notin marks' =>
        /\ "overlap" \notin marks
        /\ \A k \in Jobs : stepOf'[k] \in InstallPoints => k = j
  <2> SUFFICES ASSUME "overlap" \notin marks'
               PROVE  /\ "overlap" \notin marks
                      /\ \A k \in Jobs : stepOf'[k] \in InstallPoints => k = j
    OBVIOUS
  <2>1. "overlap" \notin marks
    BY <1>1
  <2>2. CASE stepOf[j] \in InstallPoints
    BY <1>1, <2>1, <2>2 DEF InstallParts, InstallAlone
  <2>3. CASE ~Installing
    BY <1>1, <2>3 DEF Installing
  <2> QED
    BY <1>1, <2>1, <2>2, <2>3
<1>4. ASSUME marks \cap {"overlap", "leftover"} = {}, stepOf[j] \in {"extract", "evict", "move"}
      PROVE  /\ There("tmp") /\ themes["tmp"] = Extracted(j) /\ themes \in Tree
             /\ stepOf[j] # "extract" => left[j] = {}
             /\ arg[j] \in Sources
  BY <1>4 DEF InstallParts, InstallAlone, There, PanelTypeOK, ArgFits, InstallPoints, Sources
<1>5. ASSUME marks' \cap {"overlap", "leftover"} = {}
      PROVE  /\ stepOf'[j] \in {"extract", "evict", "move"} =>
                  There("tmp")' /\ themes'["tmp"] = Extracted(j)'
             /\ stepOf'[j] \in {"evict", "move"} => left'[j] = {}
             /\ InstalledWhole'
  <2>0. marks \cap {"overlap", "leftover"} = {}
    BY <1>1, <1>5
  <2> DEFINE Goal == /\ stepOf'[j] \in {"extract", "evict", "move"} =>
                          There("tmp")' /\ themes'["tmp"] = Extracted(j)'
                     /\ stepOf'[j] \in {"evict", "move"} => left'[j] = {}
                     /\ InstalledWhole'
  \* what was there stays as it is, unless a removal goes on
  <2>1. ASSUME UNCHANGED <<themes, marks>> \/ (marks \subseteq marks' /\ themes' = themes),
               stepOf[j] \in {"evict", "move"} => stepOf'[j] \in {"evict", "move"}
        PROVE  InstalledWhole'
    BY <1>1, <2>1 DEF InstallParts, InstalledWhole, There, Whole, PartOfOne, InstallPoints
  <2>2. ASSUME themes # Missing => themes' # Missing /\ themes'["custom"] = themes["custom"],
               themes = Missing => themes' = Missing \/ themes'["custom"] = Missing,
               marks \subseteq marks', stepOf[j] \notin {"evict", "move"}
        PROVE  InstalledWhole'
    <3>1. There("custom")' => There("custom") /\ themes'["custom"] = themes["custom"]
      BY <2>2 DEF There
    <3>2. \A k \in Jobs : stepOf[k] \in {"evict", "move", "delete"} => stepOf'[k] = stepOf[k]
      BY <1>1, <2>2 DEF InstallPoints
    <3> QED
      BY <2>2, <3>1, <3>2 DEF InstallParts, InstalledWhole, Whole, PartOfOne
  <2>3. ASSUME NEW p \in Packages, InstallStart(j, p) PROVE Goal
    <3>1. UNCHANGED themes /\ marks \subseteq marks' /\ stepOf[j] = "new" /\ stepOf'[j] = "clear"
      BY <2>3 DEF InstallStart, Advance, PanelTypeOK
    <3> QED
      BY <2>1, <3>1
  <2>4. CASE InstallCreate(j)
    <3>1. /\ stepOf[j] = "clear" /\ stepOf'[j] = "extract" /\ marks \subseteq marks'
          /\ left[j] = FilesOf(arg[j]) /\ UNCHANGED <<arg, left>>
          /\ Rooted["tmp"] \in {Missing, EmptyDir}
          /\ themes' = [Rooted EXCEPT !["tmp"] = IF @ = Missing THEN EmptyDir ELSE @]
      BY <1>5, <2>4 DEF InstallCreate, Advance, PanelTypeOK, ArgFits
    <3>2. Rooted \in Tree /\ EmptyDir \in Dir /\ "custom" \in Ids
      BY TreeTypes, PartTypes DEF Ids
    <3>3. themes' = [Rooted EXCEPT !["tmp"] = EmptyDir]
      BY <3>1
    <3>4. themes' # Missing /\ themes'["tmp"] = EmptyDir /\ themes'["custom"] = Rooted["custom"]
      BY <3>2, <3>3, PutOne
    <3>5. Extracted(j)' = EmptyDir
      BY <3>1 DEF Extracted, EmptyDir
    <3>6. themes # Missing => Rooted = themes
      BY DEF Rooted
    <3>7. themes = Missing => Rooted["custom"] = Missing
      BY <3>2 DEF Rooted, EmptyTree
    <3>8. InstalledWhole'
      BY <2>2, <3>1, <3>4, <3>6, <3>7
    <3>9. EmptyDir # Missing
      BY <3>2, MissingIsNoFile
    <3> QED
      BY <3>1, <3>4, <3>5, <3>8, <3>9 DEF There
  <2>5. ASSUME NEW f \in Files, Extract(j, f) PROVE Goal
    <3>1. /\ stepOf[j] = "extract" /\ stepOf'[j] = "extract" /\ f \in left[j]
          /\ left' = [left EXCEPT ![j] = @ \ {f}] /\ UNCHANGED <<arg, marks>>
      BY <2>5 DEF Extract, Advance, PanelTypeOK
    <3>2. There("tmp") /\ themes["tmp"] = Extracted(j) /\ themes \in Tree /\ arg[j] \in Sources
      BY <1>4, <2>0, <3>1
    <3>3. Rooted = themes /\ themes' = [themes EXCEPT !["tmp"] = [Extracted(j) EXCEPT ![f] = arg[j]]]
      BY <2>5, <3>2 DEF Extract, Rooted, There
    <3>4. [Extracted(j) EXCEPT ![f] = arg[j]] \in Dir
      BY <3>2 DEF Extracted, Dir
    <3>5. /\ themes' # Missing /\ themes'["tmp"] = [Extracted(j) EXCEPT ![f] = arg[j]]
          /\ themes'["custom"] = themes["custom"]
      <4>1. "custom" \in Ids
        BY DEF Ids
      <4> QED
        BY <3>2, <3>3, <3>4, <4>1, PutOne
    <3>6. f \in FilesOf(arg[j]) => Extracted(j)' = [Extracted(j) EXCEPT ![f] = arg[j]]
      <4>1. left'[j] = left[j] \ {f} /\ left[j] \subseteq Files
        BY <3>1 DEF PanelTypeOK
      <4> QED
        BY <3>1, <4>1 DEF Extracted
    <3>7. InstalledWhole'
      BY <2>2, <3>1, <3>2, <3>5 DEF There
    <3>8. [Extracted(j) EXCEPT ![f] = arg[j]] # Missing
      BY <3>4, MissingIsNoFile
    <3>9. f \in FilesOf(arg[j])
      BY <3>1 DEF ArgFits, PanelTypeOK
    <3> QED
      BY <3>1, <3>5, <3>6, <3>7, <3>8, <3>9 DEF There
  <2>6. CASE InstallCheck(j)
    <3>1. /\ stepOf[j] = "extract" /\ stepOf'[j] = "evict" /\ left[j] = {}
          /\ UNCHANGED <<themes, arg, left, marks>>
      BY <2>6 DEF InstallCheck, Advance, PanelTypeOK
    <3>2. There("tmp") /\ themes["tmp"] = Extracted(j)
      BY <1>4, <2>0, <3>1
    <3> QED
      BY <2>1, <3>1, <3>2 DEF There, Extracted
  <2>7. CASE InstallEvicted(j)
    <3>1. /\ stepOf[j] = "evict" /\ stepOf'[j] = "move"
          /\ UNCHANGED <<arg, left, marks>> /\ RemovalOver("custom")
      BY <2>7 DEF InstallEvicted, Advance, PanelTypeOK
    <3>2. There("tmp") /\ themes["tmp"] = Extracted(j) /\ left[j] = {}
      BY <1>4, <2>0, <3>1
    <3>3. themes' # Missing /\ themes'["tmp"] = themes["tmp"]
          /\ themes'["custom"] \in {themes["custom"], Missing}
      BY <3>1, <3>2, RemovalLeaves DEF There, Ids
    <3>4. InstalledWhole'
      BY <2>0, <3>1, <3>2, <3>3 DEF InstallParts, InstalledWhole, There, Whole, PartOfOne
    <3> QED
      BY <3>1, <3>2, <3>3, <3>4 DEF There, Extracted
  <2>8. CASE InstallAbort(j)
    <3>1. stepOf[j] = "extract" /\ stepOf'[j] = "abort" /\ UNCHANGED <<themes, marks>>
      BY <2>8 DEF InstallAbort, Advance, PanelTypeOK
    <3> QED
      BY <2>1, <3>1
  <2>9. CASE InstallAborted(j)
    <3>1. stepOf[j] = "abort" /\ stepOf'[j] = "done" /\ UNCHANGED marks /\ RemovalOver("tmp")
      BY <2>9 DEF InstallAborted, Advance, PanelTypeOK
    <3>2. /\ (themes' = Missing) <=> (themes = Missing)
          /\ themes # Missing => themes'["custom"] = themes["custom"]
      BY <3>1, RemovalLeaves DEF Ids
    <3> QED
      BY <2>2, <3>1, <3>2
  <2>10. CASE InstallMove(j)
    <3>1. /\ stepOf[j] = "move" /\ stepOf'[j] = "row"
          /\ themes' = [themes EXCEPT !["custom"] = themes["tmp"], !["tmp"] = Missing]
      BY <2>10 DEF InstallMove, Advance, PanelTypeOK
    <3>2. themes \in Tree /\ themes["tmp"] = Extracted(j) /\ left[j] = {} /\ arg[j] \in Sources
      BY <1>4, <2>0, <3>1
    <3>3. themes["tmp"] = Copy(arg[j])
      BY <3>2 DEF Extracted, Copy
    <3>4. themes'["custom"] = themes["tmp"]
      BY <3>1, <3>2 DEF Tree, Ids
    <3>5. InstalledWhole'
      BY <3>2, <3>3, <3>4 DEF InstalledWhole, Whole
    <3> QED
      BY <3>1, <3>5
  <2>11. CASE InstallRow(j)
    <3>1. stepOf[j] = "row" /\ stepOf'[j] = "done" /\ UNCHANGED <<themes, marks>>
      BY <2>11 DEF InstallRow, Advance, PanelTypeOK, Disk, themeFiles
    <3> QED
      BY <2>1, <3>1
  <2> QED
    BY <2>3, <2>4, <2>5, <2>6, <2>7, <2>8, <2>9, <2>10, <2>11 DEF InstallStep
<1>6. InstallAlone'
  BY <1>3, <1>5 DEF InstallAlone, InstallPoints
<1>7. InstalledWhole'
  BY <1>5 DEF InstalledWhole
<1> QED
  BY <1>2, <1>6, <1>7 DEF InstallParts

\* Activation and the name set by hand touch no file, and a deletion tells when
\* it leaves something.
LEMMA ThemeWholeStep ==
  ASSUME PanelTypeOK, InstallParts,
         (\E j \in Jobs : ThemeStep(j)) \/ (\E id \in Ids : SetTheme(id))
  PROVE  InstallParts'
<1> USE DEF Advance, NotThemes, Disk, themeFiles
<1>1. ASSUME NEW j \in Jobs,
             \/ \E id \in Ids : ActivateCheck(j, id)
             \/ ActivateSet(j) \/ DeleteTheme(j)
             \/ \E d \in BOOLEAN : DeleteRow(j, d)
      PROVE  InstallParts'
  <2>1. UNCHANGED <<themes, themesTmp, left>> /\ marks \subseteq marks'
    BY <1>1 DEF ActivateCheck, ActivateSet, DeleteTheme, DeleteRow
  <2>2. \E to \in {"checked", "done", "delete", "unlist"} :
          stepOf' = [stepOf EXCEPT ![j] = to] /\ stepOf[j] \in {"new", "checked", "unlist"}
    BY <1>1 DEF ActivateCheck, ActivateSet, DeleteTheme, DeleteRow
  <2>3. \A k \in Jobs : stepOf'[k] \in InstallPoints => stepOf'[k] = stepOf[k] /\ arg'[k] = arg[k]
    BY <1>1, <2>2 DEF ActivateCheck, ActivateSet, DeleteTheme, DeleteRow, PanelTypeOK, InstallPoints
  <2>4. \A k \in Jobs : stepOf[k] \in {"evict", "move", "delete"} => stepOf'[k] = stepOf[k]
    BY <2>2 DEF PanelTypeOK
  <2> QED
    BY <2>1, <2>3, <2>4, InstallQuiet
<1>2. ASSUME NEW id \in Ids, SetTheme(id) PROVE InstallParts'
  <2>1. UNCHANGED <<themes, themesTmp, left, stepOf, arg>> /\ marks \subseteq marks'
    BY <1>2 DEF SetTheme
  <2> QED
    BY <2>1, InstallQuiet
<1>3. ASSUME NEW j \in Jobs, DeleteRemoved(j) PROVE InstallParts'
  <2>1. /\ UNCHANGED <<themesTmp, left, arg>> /\ marks \subseteq marks'
        /\ RemovalOver("custom")
        /\ stepOf' = [stepOf EXCEPT ![j] = "unlist"] /\ stepOf[j] = "delete"
        /\ There("custom")' => "stopped" \in marks'
    BY <1>3 DEF DeleteRemoved, There
  <2>2. /\ (themes' = Missing) <=> (themes = Missing)
        /\ themes # Missing => themes'["tmp"] = themes["tmp"]
        /\ themes # Missing => themes'["custom"] \in {themes["custom"], Missing}
    BY <2>1, RemovalLeaves DEF Ids
  <2>3. \A k \in Jobs : stepOf'[k] \in InstallPoints => stepOf'[k] = stepOf[k]
    BY <2>1 DEF PanelTypeOK, InstallPoints
  <2>4. InstallAlone'
    <3>1. \A k \in Jobs : Extracted(k)' = Extracted(k)
      BY <2>1 DEF Extracted
    <3>2. There("tmp") => There("tmp")' /\ themes'["tmp"] = themes["tmp"]
      BY <2>2 DEF There
    <3>3. \A k \in Jobs : stepOf'[k] \in {"extract", "evict", "move"} => stepOf'[k] = stepOf[k]
      BY <2>3 DEF InstallPoints
    <3> QED
      BY <2>1, <2>3, <3>1, <3>2, <3>3 DEF InstallParts, InstallAlone
  <2>5. InstalledWhole'
    BY <2>1, <2>2 DEF InstallParts, InstalledWhole, There, Whole, PartOfOne
  <2> QED
    BY <2>1, <2>4, <2>5 DEF InstallParts, BundleBare
<1> QED
  BY <1>1, <1>2, <1>3 DEF ThemeStep

\* Unlinking a file leaves a part of what was there.
LEMMA UnlinkWholeStep ==
  ASSUME PanelTypeOK, InstallParts, NEW j \in Jobs, NEW f \in Files, Unlink(j, f)
  PROVE  InstallParts'
<1>1. PICK name \in Removes(j) :
        /\ HasFile(name, f)
        /\ themes' = [themes EXCEPT ![name] = [@ EXCEPT ![f] = Missing]]
  BY DEF Unlink
<1>2. UNCHANGED <<themesTmp, stepOf, arg, left, marks>>
  BY DEF Unlink, NotThemes
<1>3. themes \in Tree /\ name \in Ids \cup {"tmp"} /\ themes[name] \in Dir
  BY <1>1 DEF HasFile, There, Removes, Ids, PanelTypeOK, Tree
<1>4. [themes[name] EXCEPT ![f] = Missing] \in Dir
  BY <1>3 DEF Dir
<1>5. /\ themes' # Missing /\ themes'[name] = [themes[name] EXCEPT ![f] = Missing]
      /\ \A m \in Ids \cup {"tmp"} : m # name => themes'[m] = themes[m]
  BY <1>1, <1>3, <1>4, PutOne
<1>6. \A k \in Jobs : Extracted(k)' = Extracted(k)
  BY <1>2 DEF Extracted
<1>7. CASE name = "tmp"
  <2>1. stepOf[j] \in {"clear", "abort"}
    BY <1>1, <1>7 DEF Removes
  <2>2. themes'["custom"] = themes["custom"]
    BY <1>5, <1>7 DEF Ids
  <2>3. "overlap" \notin marks => \A k \in Jobs : stepOf[k] \notin {"extract", "evict", "move"}
    BY <2>1 DEF InstallParts, InstallAlone, InstallPoints
  <2> QED
    BY <1>2, <1>3, <1>5, <2>2, <2>3, MissingIsNoFile
       DEF InstallParts, BundleBare, InstallAlone, InstalledWhole, There, Whole, PartOfOne
<1>8. CASE name = "custom"
  <2>1. stepOf[j] \in {"evict", "delete"} /\ stepOf'[j] = stepOf[j]
    BY <1>1, <1>2, <1>8 DEF Removes
  <2>2. There("tmp") => There("tmp")' /\ themes'["tmp"] = themes["tmp"]
    BY <1>5, <1>8 DEF There
  <2>3. InstallAlone'
    BY <1>2, <1>6, <2>2 DEF InstallParts, InstallAlone
  <2>4. PartOfOne(themes["custom"]) \/ marks \cap {"overlap", "leftover"} # {}
    BY <1>1, <1>8 DEF InstallParts, InstalledWhole, Whole, PartOfOne, HasFile
  <2>5. PartOfOne(themes["custom"]) => PartOfOne(themes'["custom"])
    <3>1. themes["custom"] \in Dir /\ themes'["custom"] = [themes["custom"] EXCEPT ![f] = Missing]
      BY <1>3, <1>5, <1>8
    <3>2. \A g \in Files : themes'["custom"][g] \in {themes["custom"][g], Missing}
      BY <3>1 DEF Dir
    <3> QED
      BY <3>2 DEF PartOfOne
  <2>6. InstalledWhole'
    BY <1>2, <2>1, <2>4, <2>5 DEF InstalledWhole, PartOfOne
  <2> QED
    BY <1>2, <2>3, <2>6 DEF InstallParts, BundleBare
<1> QED
  BY <1>1, <1>7, <1>8 DEF Removes

\* An update swaps the tree under no install, or the marks remember it.
LEMMA UpdateWholeStep ==
  ASSUME PanelTypeOK, ArgFits, InstallParts, NEW j \in Jobs, UpdateStep(j), ~Exit(j)
  PROVE  InstallParts'
<1> USE DEF Advance, UpdateFrame, themeFiles
<1>1. \A k \in Jobs :
        /\ stepOf'[k] \in InstallPoints => stepOf'[k] = stepOf[k] /\ arg'[k] = arg[k]
        /\ stepOf[k] \in {"evict", "move", "delete"} => stepOf'[k] = stepOf[k]
  <2>1. \E to \in JobPoints \ InstallPoints : stepOf' = [stepOf EXCEPT ![j] = to]
    BY DEF UpdateStep, UpdateStart, Fetch, Unpack, CopyThemes, CheckThemes, DropOldThemes,
           RetireThemes, PlaceThemes, StageBinary, CheckBinary, DropOldBinary, RetireBinary,
           PlaceBinary, JobPoints, InstallPoints, UpdatePoints
  <2>3. stepOf[j] \in UpdatePoints \cup {"new"}
    BY DEF UpdateStep, UpdateStart, Fetch, Unpack, CopyThemes, CheckThemes, DropOldThemes,
           RetireThemes, PlaceThemes, StageBinary, CheckBinary, DropOldBinary, RetireBinary,
           PlaceBinary, UpdatePoints
  <2>2. \A k \in Jobs : k # j => arg'[k] = arg[k]
    BY DEF UpdateStep, UpdateStart, Fetch, Unpack, CopyThemes, CheckThemes, DropOldThemes, RetireThemes,
           PlaceThemes, StageBinary, CheckBinary, DropOldBinary, RetireBinary, PlaceBinary, PanelTypeOK
  <2> QED
    BY <2>1, <2>2, <2>3 DEF PanelTypeOK, UpdatePoints
<1>2. UNCHANGED left /\ marks \subseteq marks'
  BY DEF UpdateStep, UpdateStart, Fetch, Unpack, CopyThemes, CheckThemes, DropOldThemes, RetireThemes,
         PlaceThemes, StageBinary, CheckBinary, DropOldBinary, RetireBinary, PlaceBinary
<1>3. ASSUME UNCHANGED <<themes, themesTmp>> PROVE InstallParts'
  BY <1>1, <1>2, <1>3, InstallQuiet
<1>4. CASE CopyThemes(j)
  <2>1. arg[j] \in Versions /\ UNCHANGED <<themes, marks>>
    BY <1>4 DEF CopyThemes, ArgFits, UpdatePoints
  <2>2. themesTmp' = [themesTmp EXCEPT ![arg[j]] = [EmptyTree EXCEPT !["default"] =
            IF stage[arg[j]].themes = "good" THEN Copy(arg[j]) ELSE EmptyDir]]
    BY <1>4 DEF CopyThemes
  <2>3. \A v \in Versions : v # arg[j] => themesTmp'[v] = themesTmp[v]
    BY <2>1, <2>2 DEF PanelTypeOK
  <2>4. themesTmp'[arg[j]]["custom"] = Missing
    BY <2>1, <2>2 DEF PanelTypeOK, EmptyTree, Ids
  <2>5. BundleBare'
    BY <2>3, <2>4 DEF InstallParts, BundleBare
  <2>6. InstallAlone' /\ InstalledWhole'
    <3>1. \A k \in Jobs : stepOf'[k] \in {"extract", "evict", "move"} =>
             stepOf'[k] = stepOf[k] /\ Extracted(k)' = Extracted(k)
      BY <1>1, <1>2 DEF Extracted, InstallPoints
    <3>2. InstallAlone'
      BY <1>1, <1>2, <2>1, <3>1 DEF InstallParts, InstallAlone, There, InstallPoints
    <3> QED
      BY <1>1, <2>1, <3>2 DEF InstallParts, InstalledWhole, Whole, PartOfOne, There
  <2> QED
    BY <2>5, <2>6 DEF InstallParts
<1>5. CASE RetireThemes(j)
  <2>1. themes' = Missing /\ UNCHANGED themesTmp /\ (Installing => "overlap" \in marks')
    BY <1>5 DEF RetireThemes
  <2>2. BundleBare' /\ InstalledWhole'
    BY <2>1 DEF InstallParts, BundleBare, InstalledWhole, There
  <2>3. CASE Installing
    BY <2>1, <2>2, <2>3 DEF InstallParts, InstallAlone
  <2>4. CASE ~Installing
    BY <1>1, <2>2, <2>4 DEF InstallParts, InstallAlone, Installing, InstallPoints
  <2> QED
    BY <2>3, <2>4
<1>6. CASE PlaceThemes(j)
  <2>1. /\ arg[j] \in Versions /\ themes \in {Missing, EmptyTree} /\ themesTmp[arg[j]] # Missing
        /\ themes' = themesTmp[arg[j]]
        /\ themesTmp' = [themesTmp EXCEPT ![arg[j]] = Missing]
        /\ UNCHANGED marks
    BY <1>6 DEF PlaceThemes, ArgFits, UpdatePoints
  <2>2. themes'["custom"] = Missing
    BY <2>1 DEF InstallParts, BundleBare
  <2>3. BundleBare'
    BY <2>1 DEF InstallParts, BundleBare, PanelTypeOK
  <2>4. EmptyTree["tmp"] = Missing
    BY DEF EmptyTree
  \* a job inside an install would have its temporary directory in the tree
  <2>5. marks \cap {"overlap", "leftover"} = {} =>
          \A k \in Jobs : stepOf[k] \notin {"extract", "evict", "move"}
    BY <2>1, <2>4 DEF InstallParts, InstallAlone, There
  <2>6. InstallAlone'
    BY <1>1, <2>1, <2>5 DEF InstallParts, InstallAlone, InstallPoints
  <2> QED
    BY <2>2, <2>3, <2>6 DEF InstallParts, InstalledWhole, There
<1>7. ASSUME ~CopyThemes(j), ~RetireThemes(j), ~PlaceThemes(j)
      PROVE  UNCHANGED <<themes, themesTmp>>
  BY <1>7 DEF UpdateStep, UpdateStart, Fetch, Unpack, CheckThemes, DropOldThemes, StageBinary,
              CheckBinary, DropOldBinary, RetireBinary, PlaceBinary
<1> QED
  BY <1>3, <1>4, <1>5, <1>6, <1>7

\* Failures and the end of the process leave the themes as they stand.
LEMMA EndWholeStep ==
  ASSUME PanelTypeOK, InstallParts,
         (\E j \in Jobs : Fail(j) \/ Exit(j)) \/ Crash \/ Start
  PROVE  InstallParts'
<1> USE DEF Advance, Disk, themeFiles
<1>1. ASSUME NEW j \in Jobs, Fail(j) PROVE InstallParts'
  <2>1. UNCHANGED <<themes, themesTmp, left, arg>> /\ marks \subseteq marks'
        /\ stepOf' = [stepOf EXCEPT ![j] = "done"]
    BY <1>1 DEF Fail
  <2>2. \A k \in Jobs : stepOf'[k] \in InstallPoints => stepOf'[k] = stepOf[k] /\ arg'[k] = arg[k]
    BY <2>1 DEF PanelTypeOK, InstallPoints
  <2>3. \A k \in Jobs : stepOf[k] \in {"evict", "move", "delete"} =>
          stepOf'[k] = stepOf[k] \/ "stopped" \in marks'
    BY <1>1, <2>1 DEF Fail, MarksOfStop, PanelTypeOK
  <2> QED
    BY <2>1, <2>2, <2>3, InstallQuiet
<1>2. ASSUME ProcessEnds PROVE InstallParts'
  <2>1. /\ UNCHANGED <<themes, themesTmp>> /\ marks \subseteq marks'
        /\ \A k \in Jobs : stepOf'[k] \notin InstallPoints
    BY <1>2 DEF ProcessEnds, InstallPoints
  <2>2. \A k \in Jobs : stepOf[k] \in {"evict", "move", "delete"} => "stopped" \in marks'
    <3>1. marks' = marks \cup UNION {MarksOfStop(k) : k \in Jobs}
      BY <1>2 DEF ProcessEnds
    <3>2. \A k \in Jobs : MarksOfStop(k) \subseteq marks'
      BY ONLY <3>1
    <3> QED
      BY <3>2 DEF MarksOfStop
  <2>3. InstallAlone'
    BY <2>1 DEF InstallAlone, InstallPoints
  <2>4. InstalledWhole'
    BY <2>1, <2>2 DEF InstallParts, InstalledWhole, There, Whole, PartOfOne
  <2> QED
    BY <2>1, <2>3, <2>4 DEF InstallParts, BundleBare
<1>3. CASE Start
  <2>1. UNCHANGED <<themes, themesTmp, left, arg, stepOf, marks>>
    BY <1>3 DEF Start
  <2> QED
    BY <2>1, InstallQuiet
<1> QED
  BY <1>1, <1>2, <1>3 DEF Exit, Crash

-----------------------------------------------------------------------------
(* The binary *)

UpdateParts == UpdateAlone /\ ServerRunnable /\ PreviousKept

\* A step of job j on version v disturbs no update of another version.
LEMMA OthersAlone ==
  ASSUME ArgFits, UpdateAlone, "sameVersion" \notin marks, NEW j \in Jobs, NEW v \in Versions,
         \A k \in Jobs : k # j => /\ stepOf'[k] = stepOf[k] /\ arg'[k] = arg[k]
                                  /\ stepOf[k] \in UpdatePoints => arg[k] # v,
         stepOf'[j] \in UpdatePoints => arg'[j] = v,
         \A w \in Versions : w # v => stage'[w] = stage[w] /\ binTmp'[w] = binTmp[w],
         stepOf'[j] = "unpack" => stage'[v].bundle = "good",
         stepOf'[j] \in {"copyThemes", "checkThemes", "dropOldThemes", "retireThemes", "placeThemes",
                     "stageBinary"} => stage'[v].pharus = "good",
         stepOf'[j] \in {"checkBinary", "dropOldBinary", "retireBinary", "placeBinary"} =>
             binTmp'[v] # Missing /\ binTmp'[v].good,
         \A k \in Slots : bins'[k] # Missing => bins'[k].good
  PROVE  UpdateAlone'
<1>1. \A k, l \in Jobs :
        stepOf'[k] \in UpdatePoints /\ stepOf'[l] \in UpdatePoints /\ arg'[k] = arg'[l] => k = l
  <2> SUFFICES ASSUME NEW k \in Jobs, NEW l \in Jobs, stepOf'[k] \in UpdatePoints,
                      stepOf'[l] \in UpdatePoints, arg'[k] = arg'[l]
               PROVE  k = l
    OBVIOUS
  <2>1. CASE k # j /\ l # j
    BY <2>1 DEF UpdateAlone
  <2> QED
    BY <2>1
<1>2. \A k \in Jobs : stepOf'[k] = "unpack" => stage'[arg'[k]].bundle = "good"
  <2> SUFFICES ASSUME NEW k \in Jobs, stepOf'[k] = "unpack"
               PROVE  stage'[arg'[k]].bundle = "good"
    OBVIOUS
  <2>1. CASE k # j
    <3>1. stepOf[k] \in UpdatePoints /\ arg[k] \in Versions /\ arg[k] # v
      BY <2>1 DEF ArgFits, UpdatePoints
    <3> QED
      BY <2>1, <3>1 DEF UpdateAlone
  <2> QED
    BY <2>1 DEF UpdatePoints
<1>3. \A k \in Jobs :
        stepOf'[k] \in {"copyThemes", "checkThemes", "dropOldThemes", "retireThemes", "placeThemes",
                    "stageBinary"} => stage'[arg'[k]].pharus = "good"
  <2> SUFFICES ASSUME NEW k \in Jobs,
                      stepOf'[k] \in {"copyThemes", "checkThemes", "dropOldThemes", "retireThemes",
                                  "placeThemes", "stageBinary"}
               PROVE  stage'[arg'[k]].pharus = "good"
    OBVIOUS
  <2>1. CASE k # j
    <3>1. stepOf[k] \in UpdatePoints /\ arg[k] \in Versions /\ arg[k] # v
      BY <2>1 DEF ArgFits, UpdatePoints
    <3> QED
      BY <2>1, <3>1 DEF UpdateAlone
  <2> QED
    BY <2>1 DEF UpdatePoints
<1>4. \A k \in Jobs :
        stepOf'[k] \in {"checkBinary", "dropOldBinary", "retireBinary", "placeBinary"} =>
          binTmp'[arg'[k]] # Missing /\ binTmp'[arg'[k]].good
  <2> SUFFICES ASSUME NEW k \in Jobs,
                      stepOf'[k] \in {"checkBinary", "dropOldBinary", "retireBinary", "placeBinary"}
               PROVE  binTmp'[arg'[k]] # Missing /\ binTmp'[arg'[k]].good
    OBVIOUS
  <2>1. CASE k # j
    <3>1. stepOf[k] \in UpdatePoints /\ arg[k] \in Versions /\ arg[k] # v
      BY <2>1 DEF ArgFits, UpdatePoints
    <3>2. binTmp[arg[k]] # Missing /\ binTmp[arg[k]].good
      BY <2>1 DEF UpdateAlone
    <3>3. binTmp'[arg'[k]] = binTmp[arg[k]]
      BY <2>1, <3>1
    <3> QED
      BY <3>2, <3>3
  <2> QED
    BY <2>1 DEF UpdatePoints
<1> QED
  BY <1>1, <1>2, <1>3, <1>4 DEF UpdateAlone

\* A step that leaves the binaries and no gap behind.
LEMMA BinsKept ==
  ASSUME ServerRunnable, PreviousKept, UNCHANGED bins, marks \ {"stopped"} \subseteq marks',
         \A k \in Jobs : stepOf[k] = "placeBinary" /\ at[k] = 0 =>
            \/ "gap" \in marks'
            \/ stepOf'[k] = "placeBinary" /\ at'[k] = 0
  PROVE  ServerRunnable' /\ PreviousKept'
<1>1. ServerRunnable'
  BY DEF ServerRunnable
<1>2. PreviousKept'
  BY DEF PreviousKept
<1> QED
  BY <1>1, <1>2

\* A step that touches no stage and no binary, and moves no update.
LEMMA UpdateQuiet ==
  ASSUME UpdateParts, UNCHANGED <<bins, binTmp, stage, at>>, marks \ {"stopped"} \subseteq marks',
         \A k \in Jobs : stepOf'[k] \in UpdatePoints => stepOf'[k] = stepOf[k] /\ arg'[k] = arg[k],
         \A k \in Jobs : stepOf[k] = "placeBinary" /\ at[k] = 0 =>
            "gap" \in marks' \/ stepOf'[k] = "placeBinary"
  PROVE  UpdateParts'
<1>1. ServerRunnable' /\ PreviousKept'
  BY BinsKept DEF UpdateParts
<1>2. UpdateAlone'
  <2> SUFFICES ASSUME "sameVersion" \notin marks, "sameVersion" \notin marks'
               PROVE  UpdateAlone'
    BY DEF UpdateAlone
  <2>1. \A k \in Jobs :
          stepOf'[k] \in {"unpack", "copyThemes", "checkThemes", "dropOldThemes", "retireThemes",
                      "placeThemes", "stageBinary", "checkBinary", "dropOldBinary",
                      "retireBinary", "placeBinary"}
            => stepOf'[k] = stepOf[k] /\ arg'[k] = arg[k]
    BY DEF UpdatePoints
  <2>2. \A k, l \in Jobs :
        stepOf'[k] \in UpdatePoints /\ stepOf'[l] \in UpdatePoints /\ arg'[k] = arg'[l] => k = l
    BY DEF UpdateParts, UpdateAlone
  <2>3. \A k \in Jobs : stepOf'[k] = "unpack" => stage'[arg'[k]].bundle = "good"
    BY <2>1 DEF UpdateParts, UpdateAlone
  <2>4. \A k \in Jobs :
        stepOf'[k] \in {"copyThemes", "checkThemes", "dropOldThemes", "retireThemes", "placeThemes",
                    "stageBinary"} => stage'[arg'[k]].pharus = "good"
    BY <2>1 DEF UpdateParts, UpdateAlone
  <2>5. \A k \in Jobs :
        stepOf'[k] \in {"checkBinary", "dropOldBinary", "retireBinary", "placeBinary"} =>
          binTmp'[arg'[k]] # Missing /\ binTmp'[arg'[k]].good
    BY <2>1 DEF UpdateParts, UpdateAlone
  <2>6. \A k \in Slots : bins'[k] # Missing => bins'[k].good
    BY DEF UpdateParts, UpdateAlone
  <2> QED
    BY <2>2, <2>3, <2>4, <2>5, <2>6 DEF UpdateAlone
<1> QED
  BY <1>1, <1>2 DEF UpdateParts

\* The theme operations are such steps.
LEMMA ThemeRunnableStep ==
  ASSUME PanelTypeOK, ArgFits, UpdateParts, NEW j \in Jobs,
         InstallStep(j) \/ ThemeStep(j) \/ \E f \in Files : Unlink(j, f)
  PROVE  UpdateParts'
<1>1. CASE InstallStep(j)
  <2>1. /\ UNCHANGED <<stage, bins, binTmp, at>>
        /\ marks \ {"stopped"} \subseteq marks'
        /\ \A k \in Jobs : k # j => stepOf'[k] = stepOf[k] /\ arg'[k] = arg[k]
        /\ stepOf'[j] \in InstallPoints \cup {"done"}
        /\ stepOf[j] \in InstallPoints \cup {"new"}
    BY <1>1, InstallFrame
  <2>2. \A k \in Jobs : k = j => stepOf'[k] \notin UpdatePoints /\ stepOf[k] # "placeBinary"
    BY <2>1 DEF InstallPoints, UpdatePoints
  <2> QED
    BY <2>1, <2>2, UpdateQuiet
<1>2. CASE ThemeStep(j)
  <2>1. UNCHANGED <<bins, binTmp, stage, at>> /\ marks \subseteq marks'
    BY <1>2 DEF ThemeStep, ActivateCheck, ActivateSet, DeleteTheme, DeleteRemoved, DeleteRow,
                NotThemes, Disk, binFiles
  <2>2. \A k \in Jobs : k # j => arg'[k] = arg[k]
    BY <1>2 DEF ThemeStep, ActivateCheck, ActivateSet, DeleteTheme, DeleteRemoved, DeleteRow,
                PanelTypeOK
  <2>3. \E to \in {"checked", "delete", "unlist", "done"} :
          /\ stepOf' = [stepOf EXCEPT ![j] = to]
          /\ stepOf[j] \in {"new", "checked", "delete", "unlist"}
    BY <1>2 DEF ThemeStep, ActivateCheck, ActivateSet, DeleteTheme, DeleteRemoved, DeleteRow, Advance
  <2>4. \A k \in Jobs : /\ k # j => stepOf'[k] = stepOf[k]
                        /\ k = j => stepOf'[k] \notin UpdatePoints /\ stepOf[k] # "placeBinary"
    BY <2>3 DEF PanelTypeOK, UpdatePoints
  <2> QED
    BY <2>1, <2>2, <2>4, UpdateQuiet
<1>3. ASSUME NEW f \in Files, Unlink(j, f) PROVE UpdateParts'
  <2>1. UNCHANGED <<bins, binTmp, stage, at, stepOf, arg, marks>>
    BY <1>3 DEF Unlink, NotThemes, binFiles
  <2> QED
    BY <2>1, UpdateQuiet
<1> QED
  BY <1>1, <1>2, <1>3

\* An update verifies what it unpacks, and puts it in place by renames.
LEMMA UpdateRunnableStep ==
  ASSUME PanelTypeOK, ArgFits, UpdateParts, NEW j \in Jobs, UpdateStep(j), ~Exit(j)
  PROVE  UpdateParts'
<1> USE DEF Advance, UpdateFrame, binFiles
<1>1. ASSUME "sameVersion" \in marks' PROVE UpdateParts'
  BY <1>1 DEF UpdateParts, UpdateAlone, ServerRunnable, PreviousKept
<1>2. ASSUME NEW v \in Versions, UpdateStart(j, v), ~Updating(v) PROVE UpdateParts'
  <2>1. /\ stepOf[j] = "new" /\ stepOf' = [stepOf EXCEPT ![j] = "fetch"]
        /\ arg' = [arg EXCEPT ![j] = v] /\ stage' = [stage EXCEPT ![v] = EmptyStage]
        /\ at' = [at EXCEPT ![j] = exe]
        /\ UNCHANGED <<bins, binTmp, marks>>
    BY <1>2 DEF UpdateStart
  <2>2. \A k \in Jobs : k # j => /\ stepOf'[k] = stepOf[k] /\ arg'[k] = arg[k] /\ at'[k] = at[k]
                                 /\ stepOf[k] \in UpdatePoints => arg[k] # v
    BY <1>2, <2>1 DEF Updating, PanelTypeOK
  <2>3. stepOf'[j] = "fetch" /\ arg'[j] = v
    BY <2>1 DEF PanelTypeOK
  <2>4. \A w \in Versions : w # v => stage'[w] = stage[w] /\ binTmp'[w] = binTmp[w]
    BY <2>1 DEF PanelTypeOK
  <2>5. "sameVersion" \notin marks => UpdateAlone'
    <3> SUFFICES ASSUME "sameVersion" \notin marks PROVE UpdateAlone'
      OBVIOUS
    <3>1. \A k \in Slots : bins'[k] # Missing => bins'[k].good
      BY <2>1 DEF UpdateParts, UpdateAlone
    <3> QED
      BY OthersAlone, <2>2, <2>3, <2>4, <3>1 DEF UpdateParts
  <2>6. ServerRunnable' /\ PreviousKept'
    BY <2>1, <2>2, BinsKept DEF UpdateParts
  <2> QED
    BY <2>1, <2>5, <2>6 DEF UpdateParts, UpdateAlone
<1>3. ASSUME ~\E v \in Versions : UpdateStart(j, v), "sameVersion" \notin marks
      PROVE  UpdateParts'
  <2> DEFINE v == arg[j]
  <2>1. /\ stepOf[j] \in UpdatePoints /\ v \in Versions /\ UNCHANGED <<arg, at>>
        /\ marks \subseteq marks'
        /\ \E to \in JobPoints : stepOf' = [stepOf EXCEPT ![j] = to]
    <3>1. stepOf[j] \in UpdatePoints /\ UNCHANGED <<arg, at>> /\ marks \subseteq marks'
      BY <1>3 DEF UpdateStep, Fetch, Unpack, CopyThemes, CheckThemes, DropOldThemes, RetireThemes, PlaceThemes,
                  StageBinary, CheckBinary, DropOldBinary, RetireBinary, PlaceBinary, UpdatePoints
    <3>2. \E to \in JobPoints : stepOf' = [stepOf EXCEPT ![j] = to]
      BY <1>3 DEF UpdateStep, Fetch, Unpack, CopyThemes, CheckThemes, DropOldThemes, RetireThemes, PlaceThemes,
                  StageBinary, CheckBinary, DropOldBinary, RetireBinary, PlaceBinary, UpdatePoints, JobPoints
    <3> QED
      BY <3>1, <3>2 DEF ArgFits
  <2>2. \A k \in Jobs : k # j => /\ stepOf'[k] = stepOf[k] /\ arg'[k] = arg[k]
                                 /\ stepOf[k] \in UpdatePoints => arg[k] # v
    BY <1>3, <2>1 DEF UpdateParts, UpdateAlone, PanelTypeOK
  <2>3. arg'[j] = v
    BY <2>1
  <2>4. \A w \in Versions : w # v => stage'[w] = stage[w] /\ binTmp'[w] = binTmp[w]
    <3>1. stage' = stage \/ \E s : stage' = [stage EXCEPT ![v] = s]
      BY <1>3 DEF UpdateStep, Fetch, Unpack, CopyThemes, CheckThemes, DropOldThemes, RetireThemes, PlaceThemes,
                  StageBinary, CheckBinary, DropOldBinary, RetireBinary, PlaceBinary
    <3>2. binTmp' = binTmp \/ \E b : binTmp' = [binTmp EXCEPT ![v] = b]
      BY <1>3 DEF UpdateStep, Fetch, Unpack, CopyThemes, CheckThemes, DropOldThemes, RetireThemes, PlaceThemes,
                  StageBinary, CheckBinary, DropOldBinary, RetireBinary, PlaceBinary
    <3> QED
      BY <3>1, <3>2 DEF PanelTypeOK
  <2>5. /\ stepOf[j] = "unpack" => stage[v].bundle = "good"
        /\ stepOf[j] \in {"copyThemes", "checkThemes", "dropOldThemes", "retireThemes", "placeThemes",
                      "stageBinary"} => stage[v].pharus = "good"
        /\ stepOf[j] \in {"checkBinary", "dropOldBinary", "retireBinary", "placeBinary"} =>
             binTmp[v] # Missing /\ binTmp[v].good
        /\ \A k \in Slots : bins[k] # Missing => bins[k].good
    BY <1>3 DEF UpdateParts, UpdateAlone
  <2> HIDE DEF v
  <2>6. ASSUME stepOf'[j] = "unpack" => stage'[v].bundle = "good",
               stepOf'[j] \in {"copyThemes", "checkThemes", "dropOldThemes", "retireThemes", "placeThemes",
                           "stageBinary"} => stage'[v].pharus = "good",
               stepOf'[j] \in {"checkBinary", "dropOldBinary", "retireBinary", "placeBinary"} =>
                 binTmp'[v] # Missing /\ binTmp'[v].good,
               \A k \in Slots : bins'[k] # Missing => bins'[k].good
        PROVE  UpdateAlone'
    BY <1>3, <2>1, <2>2, <2>3, <2>4, <2>6, OthersAlone DEF UpdateParts
  <2>7. ASSUME UNCHANGED bins, stepOf[j] # "placeBinary" PROVE ServerRunnable' /\ PreviousKept'
    BY <2>1, <2>2, <2>7, BinsKept DEF UpdateParts
  <2>8. ASSUME NEW q \in {"good", "bad"}, Fetch(j, q) PROVE UpdateParts'
    <3>1. /\ stepOf[j] = "fetch" /\ UNCHANGED bins
          /\ stepOf' = [stepOf EXCEPT ![j] = IF q = "good" THEN "unpack" ELSE "done"]
          /\ stage' = [stage EXCEPT ![v] = Holding(q, stage[v].pharus, stage[v].themes)]
      BY <2>8 DEF Fetch, v
    <3>2. stage'[v].bundle = q
      BY <2>1, <3>1 DEF PanelTypeOK, Holding
    <3>3. UpdateAlone'
      BY <2>5, <2>6, <3>1, <3>2 DEF PanelTypeOK
    <3> QED
      BY <2>7, <3>1, <3>3 DEF UpdateParts
  <2>9. CASE Unpack(j)
    <3>1. /\ stepOf[j] = "unpack" /\ UNCHANGED bins /\ stepOf' = [stepOf EXCEPT ![j] = "copyThemes"]
          /\ stage' = [stage EXCEPT ![v] =
                 Holding(stage[v].bundle, stage[v].bundle, stage[v].bundle)]
      BY <2>9 DEF Unpack, v
    <3>2. stage'[v].pharus = stage[v].bundle
      BY <2>1, <3>1 DEF PanelTypeOK, Holding
    <3>3. UpdateAlone'
      BY <2>5, <2>6, <3>1, <3>2 DEF PanelTypeOK
    <3> QED
      BY <2>7, <3>1, <3>3 DEF UpdateParts
  <2>10. CASE \/ CopyThemes(j) \/ CheckThemes(j) \/ DropOldThemes(j)
             \/ RetireThemes(j) \/ PlaceThemes(j)
    <3>1. /\ stepOf[j] \in {"copyThemes", "checkThemes", "dropOldThemes", "retireThemes", "placeThemes"}
          /\ stepOf'[j] \in {"checkThemes", "dropOldThemes", "retireThemes", "placeThemes",
                            "stageBinary"}
          /\ UNCHANGED <<bins, binTmp, stage>>
      BY <2>10 DEF CopyThemes, CheckThemes, DropOldThemes, RetireThemes, PlaceThemes, PanelTypeOK
    <3>2. UpdateAlone'
      BY <2>5, <2>6, <3>1
    <3> QED
      BY <2>7, <3>1, <3>2 DEF UpdateParts
  <2>11. CASE StageBinary(j)
    <3>1. /\ stepOf[j] = "stageBinary" /\ UNCHANGED bins
          /\ stepOf' = [stepOf EXCEPT ![j] = "checkBinary"]
          /\ binTmp' = [binTmp EXCEPT ![v] = Program(v, stage[v].pharus = "good")]
      BY <2>11 DEF StageBinary, v
    <3>2. binTmp'[v] = Program(v, TRUE)
      <4>1. stage[v].pharus = "good"
        BY <2>5, <3>1
      <4> QED
        BY <2>1, <3>1, <4>1 DEF PanelTypeOK, Program
    <3>3. binTmp'[v] # Missing /\ binTmp'[v].good
      <4>1. Program(v, TRUE) \in Binary /\ Program(v, TRUE).good
        BY <2>1, PartTypes
      <4>2. Program(v, TRUE) # Missing
        BY <4>1, MissingIsNoFile
      <4> QED
        BY ONLY <3>2, <4>1, <4>2
    <3>4. UpdateAlone'
      BY <2>5, <2>6, <3>1, <3>3 DEF PanelTypeOK
    <3> QED
      BY <2>7, <3>1, <3>4 DEF UpdateParts
  <2>12. CASE DropOldBinary(j)
    <3>1. /\ stepOf[j] = "dropOldBinary" /\ stepOf'[j] = "retireBinary" /\ UNCHANGED binTmp
          /\ bins' = [bins EXCEPT ![at[j] + 1] = Missing]
          /\ Exists(at[j]) \/ "crossed" \in marks'
      BY <2>12 DEF DropOldBinary, PanelTypeOK
    <3>2. at[j] \in Slots /\ at[j] # at[j] + 1 /\ at[j] + 1 # 0 /\ 0 \in Slots
      BY <3>1, PanelAssumption DEF ArgFits, Slots
    <3>3. \A k \in Slots : bins'[k] = IF k = at[j] + 1 THEN Missing ELSE bins[k]
      BY <3>1 DEF PanelTypeOK
    <3>4. \A k \in Slots : bins'[k] # Missing => bins'[k].good
      BY <2>5, <3>3
    <3>5. UpdateAlone'
      BY <2>5, <2>6, <3>1, <3>4
    <3>6. PreviousKept'
      <4>1. CASE "crossed" \in marks'
        BY <4>1 DEF PreviousKept
      <4>2. CASE Exists(at[j])
        <5>1. bins'[at[j]] # Missing
          BY <3>2, <3>3, <4>2 DEF Exists
        <5>2. bins'[at[j]].good
          BY <3>2, <3>4, <5>1
        <5> QED
          BY <3>2, <5>1, <5>2 DEF PreviousKept
      <4> QED
        BY <3>1, <4>1, <4>2
    <3>7. ServerRunnable'
      <4>1. bins'[0] = bins[0]
        BY <3>2, <3>3
      <4>2. \A k \in Jobs : stepOf[k] = "placeBinary" => stepOf'[k] = stepOf[k] /\ at'[k] = at[k]
        BY <2>1, <2>2, <3>1
      <4> QED
        BY <2>1, <4>1, <4>2 DEF UpdateParts, ServerRunnable
    <3> QED
      BY <3>5, <3>6, <3>7 DEF UpdateParts
  <2>15. CASE CheckBinary(j)
    <3>1. /\ stepOf[j] = "checkBinary" /\ stepOf'[j] \in {"dropOldBinary", "placeBinary"}
          /\ UNCHANGED <<bins, binTmp>>
      BY <2>15 DEF CheckBinary, PanelTypeOK
    <3>2. UpdateAlone'
      BY <2>5, <2>6, <3>1
    <3> QED
      BY <2>7, <3>1, <3>2 DEF UpdateParts
  <2>13. CASE RetireBinary(j)
    <3>1. /\ stepOf[j] = "retireBinary" /\ stepOf'[j] = "placeBinary" /\ UNCHANGED <<binTmp, marks>>
          /\ bins' = [bins EXCEPT ![at[j] + 1] = bins[at[j]], ![at[j]] = Missing]
          /\ at[j] \in Slots /\ bins[at[j]] # Missing
      BY <2>13 DEF RetireBinary, Exists, PanelTypeOK
    <3>2. at[j] + 1 \in Slots /\ at[j] # at[j] + 1 /\ at[j] + 1 # 0
      BY <3>1, PanelAssumption DEF ArgFits, Slots
    <3>3. \A k \in Slots : bins'[k] = IF k = at[j] THEN Missing
                                      ELSE IF k = at[j] + 1 THEN bins[at[j]] ELSE bins[k]
      BY <3>1, <3>2 DEF PanelTypeOK
    <3>4. \A k \in Slots : bins'[k] # Missing => bins'[k].good
      BY <2>5, <3>1, <3>3
    <3>5. UpdateAlone'
      BY <2>5, <2>6, <3>1, <3>4
    <3>6. PreviousKept'
      <4>1. bins'[at[j] + 1] # Missing
        BY <3>1, <3>2, <3>3
      <4>2. bins'[at[j] + 1].good
        BY <3>2, <3>4, <4>1
      <4> QED
        BY <3>2, <4>1, <4>2 DEF PreviousKept
    <3>7. ServerRunnable'
      <4>1. 0 \in Slots
        BY PanelAssumption DEF Slots
      <4>2. CASE at[j] = 0
        BY <2>1, <3>1, <3>3, <4>1, <4>2 DEF ServerRunnable
      <4>3. CASE at[j] # 0
        <5>1. bins'[0] = bins[0]
          BY <3>2, <3>3, <4>1, <4>3
        <5>2. \A k \in Jobs : stepOf[k] = "placeBinary" => stepOf'[k] = stepOf[k] /\ at'[k] = at[k]
          BY <2>1, <2>2, <3>1
        <5> QED
          BY <3>1, <5>1, <5>2 DEF UpdateParts, ServerRunnable
      <4> QED
        BY <4>2, <4>3
    <3> QED
      BY <3>5, <3>6, <3>7 DEF UpdateParts
  <2>14. CASE PlaceBinary(j)
    <3>1. /\ stepOf[j] = "placeBinary" /\ stepOf'[j] = "exit" /\ UNCHANGED marks
          /\ bins' = IF at[j] = Gone THEN bins ELSE [bins EXCEPT ![at[j]] = binTmp[v]]
      BY <2>14 DEF PlaceBinary, PanelTypeOK, v
    <3>2. binTmp[v] # Missing /\ binTmp[v].good
      BY <2>5, <3>1
    <3>3. \A k \in Slots : bins'[k] = IF k = at[j] THEN binTmp[v] ELSE bins[k]
      BY <3>1 DEF PanelTypeOK, Slots, Gone
    <3>4. \A k \in Slots : bins'[k] # Missing => bins'[k].good
      BY <2>5, <3>2, <3>3
    <3>5. UpdateAlone'
      BY <2>5, <2>6, <3>1, <3>4
    <3>6. PreviousKept'
      BY <1>3, <3>1, <3>2, <3>3, <3>4 DEF UpdateParts, PreviousKept
    <3>7. ServerRunnable'
      <4>1. 0 \in Slots
        BY PanelAssumption DEF Slots
      <4>2. CASE at[j] = 0
        BY <3>2, <3>3, <4>1, <4>2 DEF ServerRunnable
      <4>3. CASE at[j] # 0
        <5>1. bins'[0] = bins[0]
          BY <3>3, <4>1, <4>3
        <5>2. \A k \in Jobs : stepOf[k] = "placeBinary" /\ at[k] = 0 =>
                stepOf'[k] = stepOf[k] /\ at'[k] = at[k]
          BY <2>1, <2>2, <4>3
        <5> QED
          BY <3>1, <5>1, <5>2 DEF UpdateParts, ServerRunnable
      <4> QED
        BY <4>2, <4>3
    <3> QED
      BY <3>5, <3>6, <3>7 DEF UpdateParts
  <2> QED
    BY <1>3, <2>8, <2>9, <2>10, <2>11, <2>12, <2>13, <2>14, <2>15 DEF UpdateStep
<1>4. marks \subseteq marks'
  BY DEF UpdateStep, UpdateStart, Fetch, Unpack, CopyThemes, CheckThemes, DropOldThemes, RetireThemes,
         PlaceThemes, StageBinary, CheckBinary, DropOldBinary, RetireBinary, PlaceBinary
<1>5. ASSUME NEW v \in Versions, UpdateStart(j, v), Updating(v) PROVE "sameVersion" \in marks'
  BY <1>5 DEF UpdateStart
<1> QED
  BY <1>1, <1>2, <1>3, <1>4, <1>5

\* What stops a job between two renames leaves the mark of it.
LEMMA EndRunnableStep ==
  ASSUME PanelTypeOK, ArgFits, UpdateParts,
         \/ \E j \in Jobs : Fail(j) \/ Exit(j)
         \/ \E id \in Ids : SetTheme(id)
         \/ Crash \/ Start
  PROVE  UpdateParts'
<1> USE DEF Advance, Disk, binFiles
<1>1. ASSUME NEW j \in Jobs, Fail(j) PROVE UpdateParts'
  <2>1. /\ UNCHANGED <<bins, stage, arg, at>> /\ stepOf' = [stepOf EXCEPT ![j] = "done"]
        /\ marks' = marks \cup MarksOfStop(j)
    BY <1>1 DEF Fail
  <2>2. binTmp' = binTmp \/ (stepOf[j] = "stageBinary" /\ binTmp' = [binTmp EXCEPT ![arg[j]] = Missing])
    BY <1>1 DEF Fail
  <2>3. \A k \in Jobs : /\ stepOf'[k] \in UpdatePoints => k # j /\ stepOf'[k] = stepOf[k]
                        /\ k # j => stepOf'[k] = stepOf[k]
    BY <2>1 DEF PanelTypeOK, UpdatePoints
  <2>4. stepOf[j] = "placeBinary" /\ at[j] = 0 => "gap" \in marks'
    BY <2>1 DEF MarksOfStop
  <2>5. \A k \in Jobs : stepOf[k] = "placeBinary" /\ at[k] = 0 =>
            "gap" \in marks' \/ stepOf'[k] = "placeBinary"
    BY <2>3, <2>4
  <2>6. CASE binTmp' = binTmp
    BY <2>1, <2>3, <2>5, <2>6, UpdateQuiet
  <2>7. CASE stepOf[j] = "stageBinary" /\ binTmp' = [binTmp EXCEPT ![arg[j]] = Missing]
    <3>1. "sameVersion" \notin marks => UpdateAlone'
      <4> SUFFICES ASSUME "sameVersion" \notin marks PROVE UpdateAlone'
        OBVIOUS
      <4>1. arg[j] \in Versions /\ stepOf[j] \in UpdatePoints
        BY <2>7 DEF ArgFits, UpdatePoints
      <4>2. \A k \in Jobs : k # j => /\ stepOf'[k] = stepOf[k] /\ arg'[k] = arg[k]
                                     /\ stepOf[k] \in UpdatePoints => arg[k] # arg[j]
        BY <2>1, <2>3, <4>1 DEF UpdateParts, UpdateAlone
      <4>3. \A w \in Versions : w # arg[j] => stage'[w] = stage[w] /\ binTmp'[w] = binTmp[w]
        BY <2>1, <2>7 DEF PanelTypeOK
      <4>4. stepOf'[j] = "done"
        BY <2>1 DEF PanelTypeOK
      <4>5. \A k \in Slots : bins'[k] # Missing => bins'[k].good
        BY <2>1 DEF UpdateParts, UpdateAlone
      <4> QED
        BY <4>1, <4>2, <4>3, <4>4, <4>5, OthersAlone DEF UpdateParts, UpdatePoints
    <3>2. ServerRunnable' /\ PreviousKept'
      BY <2>1, <2>5, BinsKept DEF UpdateParts
    <3>3. "sameVersion" \in marks => UpdateAlone'
      BY <2>1 DEF UpdateAlone
    <3> QED
      BY <3>1, <3>2, <3>3 DEF UpdateParts
  <2> QED
    BY <2>2, <2>6, <2>7
<1>2. ASSUME ProcessEnds PROVE UpdateParts'
  <2>1. /\ UNCHANGED <<bins, binTmp, stage, at>>
        /\ marks' = marks \cup UNION {MarksOfStop(j) : j \in Jobs}
        /\ \A k \in Jobs : stepOf'[k] \notin UpdatePoints
    BY <1>2 DEF ProcessEnds, UpdatePoints
  <2>2. \A k \in Jobs : stepOf[k] = "placeBinary" /\ at[k] = 0 => "gap" \in MarksOfStop(k)
    BY DEF MarksOfStop
  <2>3. \A k \in Jobs : stepOf[k] = "placeBinary" /\ at[k] = 0 => "gap" \in marks'
    BY <2>1, <2>2
  <2> QED
    BY <2>1, <2>3, UpdateQuiet
<1>3. ASSUME NEW id \in Ids, SetTheme(id) PROVE UpdateParts'
  <2>1. UNCHANGED <<bins, binTmp, stage, at, stepOf, arg>> /\ marks \subseteq marks'
    BY <1>3 DEF SetTheme
  <2> QED
    BY <2>1, UpdateQuiet
<1>4. CASE Start
  <2>1. UNCHANGED <<bins, binTmp, stage, at, stepOf, arg, marks>>
    BY <1>4 DEF Start
  <2> QED
    BY <2>1, UpdateQuiet
<1> QED
  BY <1>1, <1>2, <1>3, <1>4 DEF Exit, Crash

-----------------------------------------------------------------------------
(* The theorems *)

\* The server starts with the binary and the themes it was installed with.
LEMMA PanelInitInv == PanelInit => PanelInv
<1> SUFFICES ASSUME PanelInit PROVE PanelInv
  OBVIOUS
<1>1. PICK custom \in {Missing} \cup {Copy(p) : p \in Packages} :
        /\ themes = [EmptyTree EXCEPT !["default"] = Copy(First), !["custom"] = custom]
        /\ row = (custom # Missing)
        /\ current \in {n \in Ids : themes[n] # Missing /\ themes[n]["index"] # Missing}
  BY DEF PanelInit
<1>2. custom \in Dir \cup {Missing} /\ Copy(First) \in Dir /\ EmptyTree \in Tree
  BY PartTypes DEF Sources
<1>3. themes \in Tree /\ themes["custom"] = custom
  BY <1>1, <1>2 DEF Tree, Ids
<1>4. 0 \in Slots
  BY PanelAssumption DEF Slots
<1>5. /\ bins = [k \in Slots |-> IF k = 0 THEN Program(First, TRUE) ELSE Missing]
      /\ Program(First, TRUE) \in Binary /\ Program(First, TRUE).good
      /\ Program(First, TRUE) # Missing
  <2>1. Program(First, TRUE) \in Binary /\ Program(First, TRUE).good
    BY PartTypes
  <2> QED
    BY <2>1, MissingIsNoFile DEF PanelInit
<1>6. PanelTypeOK
  <2>1. bins \in [Slots -> Binary \cup {Missing}]
    BY <1>5
  <2>2. stage \in [Versions -> Stage]
    BY PartTypes DEF PanelInit, EmptyStage, Staged
  <2>3. stepOf \in [Jobs -> JobPoints] /\ left \in [Jobs -> SUBSET Files] /\ marks \subseteq Marks
    BY DEF PanelInit, JobPoints
  <2>4. crashes \in 0..MaxCrashes
    BY PanelAssumption DEF PanelInit
  <2> QED
    BY <1>1, <1>3, <1>4, <2>1, <2>2, <2>3, <2>4 DEF PanelTypeOK, PanelInit
<1>7. ArgFits /\ BundleBare /\ InstallAlone
  BY DEF PanelInit, ArgFits, BundleBare, InstallAlone, InstallPoints, UpdatePoints
<1>8. InstalledWhole
  BY <1>1, <1>3 DEF InstalledWhole, Whole, There, Sources
<1>9. ServerRunnable /\ PreviousKept
  <2>1. bins[0] = Program(First, TRUE)
    BY <1>4, <1>5
  <2>2. bins[0] # Missing /\ bins[0].good
    BY ONLY <1>5, <2>1
  <2> QED
    BY <1>4, <2>2 DEF ServerRunnable, PreviousKept
<1>10. UpdateAlone
  <2>1. \A k \in Slots : bins[k] # Missing => bins[k] = Program(First, TRUE)
    BY <1>5
  <2>2. \A k \in Slots : bins[k] # Missing => bins[k].good
    BY ONLY <1>5, <2>1
  <2> QED
    BY <2>2 DEF UpdateAlone, PanelInit, UpdatePoints
<1> QED
  BY <1>6, <1>7, <1>8, <1>9, <1>10 DEF PanelInv

\* Every step keeps the invariant.
LEMMA PanelStepInv == PanelInv /\ [PanelNext]_panelVars => PanelInv'
<1> SUFFICES ASSUME PanelInv, [PanelNext]_panelVars PROVE PanelInv'
  OBVIOUS
<1>1. PanelTypeOK /\ ArgFits /\ InstallParts /\ UpdateParts
  BY DEF PanelInv, InstallParts, UpdateParts
<1>2. ASSUME PanelTypeOK' /\ ArgFits' /\ InstallParts' /\ UpdateParts' PROVE PanelInv'
  BY <1>2 DEF PanelInv, InstallParts, UpdateParts
<1>3. ASSUME NEW j \in Jobs, InstallStep(j) PROVE PanelInv'
  BY <1>1, <1>2, <1>3, InstallType, InstallWholeStep, ThemeRunnableStep
<1>4. ASSUME NEW j \in Jobs, ThemeStep(j) PROVE PanelInv'
  BY <1>1, <1>2, <1>4, ThemeType, ThemeWholeStep, ThemeRunnableStep
<1>9. ASSUME NEW j \in Jobs, NEW f \in Files, Unlink(j, f) PROVE PanelInv'
  BY <1>1, <1>2, <1>9, ThemeType, UnlinkWholeStep, ThemeRunnableStep
<1>5. ASSUME NEW j \in Jobs, UpdateStep(j), ~Exit(j) PROVE PanelInv'
  BY <1>1, <1>2, <1>5, UpdateType, UpdateWholeStep, UpdateRunnableStep
<1>6. ASSUME (\E j \in Jobs : Fail(j) \/ Exit(j)) \/ Crash \/ Start PROVE PanelInv'
  BY <1>1, <1>2, <1>6, EndType, EndWholeStep, EndRunnableStep
<1>7. ASSUME \E id \in Ids : SetTheme(id) PROVE PanelInv'
  BY <1>1, <1>2, <1>7, ThemeType, ThemeWholeStep, EndRunnableStep
<1>8. CASE UNCHANGED panelVars
  <2>1. UNCHANGED <<up, themes, themesOld, themesTmp, bins, exe, binTmp, stage, row, current>>
        /\ UNCHANGED <<stepOf, arg, at, left, crashes, marks>>
    BY <1>8 DEF panelVars, Disk, themeFiles, binFiles, Settings
  <2>2. PanelTypeOK' /\ ArgFits'
    BY <1>1, <2>1 DEF PanelTypeOK, ArgFits
  <2>3. InstallParts'
    BY <1>1, <2>1, InstallQuiet
  <2>4. UpdateParts'
    BY <1>1, <2>1, UpdateQuiet
  <2> QED
    BY <1>2, <2>2, <2>3, <2>4
<1> QED
  BY <1>3, <1>4, <1>5, <1>6, <1>7, <1>8, <1>9 DEF PanelNext

\* The strengthened invariant, of every reachable state.
THEOREM PanelInvariant == PanelSpec => []PanelInv
BY PanelInitInv, PanelStepInv, PTL DEF PanelSpec

\* The files and settings stay of their types.
THEOREM PanelTypeCorrect == PanelSpec => []PanelTypeOK
<1>1. PanelInv => PanelTypeOK
  BY DEF PanelInv
<1> QED
  BY <1>1, PanelInvariant, PTL

\* An installed theme is one package, entirely, but for removals under way or cut
\* short, overlaps and leftovers.
THEOREM InstalledWholeAlways == PanelSpec => []InstalledWhole
<1>1. PanelInv => InstalledWhole
  BY DEF PanelInv
<1> QED
  BY <1>1, PanelInvariant, PTL

\* Outside the gap of an update the service manager finds a good binary.
THEOREM ServerRunnableAlways == PanelSpec => []ServerRunnable
<1>1. PanelInv => ServerRunnable
  BY DEF PanelInv
<1> QED
  BY <1>1, PanelInvariant, PTL

\* A good binary is on disk under one of its names, unless two updates crossed
\* between the check and the removal of ".old".
THEOREM PreviousKeptAlways == PanelSpec => []PreviousKept
<1>1. PanelInv => PreviousKept
  BY DEF PanelInv
<1> QED
  BY <1>1, PanelInvariant, PTL

-----------------------------------------------------------------------------
(* The active theme *)

\* Until an update has replaced the themes, they are there.
SwapTold ==
    "swapped" \notin marks =>
        themes # Missing /\ \A j \in Jobs : stepOf[j] # "placeThemes"

\* A theme directory as an archive brings it.
Shipped(dir) == \E src \in Versions \cup {First} : dir = Copy(src)

\* The themes an update is to put in place came with its archive.
CopiesWhole ==
    "sameVersion" \notin marks =>
        \A j \in Jobs :
            /\ stepOf[j] = "copyThemes" => stage[arg[j]].themes = "good"
            /\ stepOf[j] \in {"checkThemes", "dropOldThemes", "retireThemes", "placeThemes"} =>
                 /\ themesTmp[arg[j]] # Missing
                 /\ Shipped(themesTmp[arg[j]]["default"])

DefaultKept ==
    \/ themes # Missing /\ Shipped(themes["default"])
    \/ \E j \in Jobs : stepOf[j] = "placeThemes"
    \/ marks \cap {"swapStopped", "sameVersion"} # {}

\* The installed theme is active, or about to be.
Wanted ==
    \/ current = "custom"
    \/ \E j \in Jobs : stepOf[j] = "checked" /\ arg[j] = "custom"

Trouble == {"stopped", "overlap", "leftover", "raced", "hand", "swapped"}

CustomKept ==
    Wanted =>
        \/ There("custom")
        \/ \E j \in Jobs : stepOf[j] \in {"evict", "move"}
        \/ marks \cap Trouble # {}

\* Who wants the installed theme while it is being deleted did not ask the lock.
DeletingTold ==
    Wanted /\ (\E j \in Jobs : stepOf[j] = "delete") => marks \cap {"raced", "hand"} # {}

ServedInv == SwapTold /\ CopiesWhole /\ DefaultKept /\ CustomKept /\ DeletingTold

\* A theme directory as an archive brings it is whole, with an index.html.
LEMMA ShippedWhole ==
  ASSUME NEW dir, Shipped(dir)
  PROVE  dir # Missing /\ Whole(dir) /\ dir["index"] # Missing
<1>1. PICK src \in Versions \cup {First} : dir = Copy(src)
  BY DEF Shipped
<1>2. src \in Sources /\ src \notin Bare /\ src # Missing
  BY PanelAssumption DEF Sources
<1>3. dir \in Dir
  BY <1>1, <1>2, PartTypes
<1>4. dir["index"] = src
  BY <1>1, <1>2 DEF Copy, FilesOf, Files
<1> QED
  BY <1>1, <1>2, <1>3, <1>4, MissingIsNoFile DEF Whole

\* An install takes nothing from the default theme, and is removing the installed
\* one or has put its own in place before that is missed.
LEMMA InstallServed ==
  ASSUME PanelInv, ServedInv, NEW j \in Jobs, InstallStep(j)
  PROVE  ServedInv'
<1>0. PanelTypeOK /\ ArgFits
  BY DEF PanelInv
<1>1. /\ UNCHANGED <<themesTmp, stage, current>> /\ marks \ {"stopped"} \subseteq marks'
      /\ \A k \in Jobs : k # j => stepOf'[k] = stepOf[k] /\ arg'[k] = arg[k]
      /\ stepOf[j] \in InstallPoints \cup {"new"}
      /\ stepOf'[j] \in InstallPoints \cup {"done"}
  BY <1>0, InstallFrame
<1>2. marks' \subseteq marks \cup {"overlap", "leftover"}
  BY DEF InstallStep, InstallStart, InstallCreate, Extract, InstallCheck, InstallEvicted,
         InstallAbort, InstallAborted, InstallMove, InstallRow
<1>3. ASSUME themes # Missing
      PROVE  /\ themes' # Missing /\ themes'["default"] = themes["default"]
             /\ \/ /\ themes'["custom"] = themes["custom"] /\ marks \subseteq marks'
                   /\ stepOf[j] \notin {"evict", "move"}
                \/ themes'["custom"] # Missing
                \/ stepOf'[j] \in {"evict", "move"}
  <2> USE DEF Advance, Disk, themeFiles
  <2>1. themes \in Tree /\ Rooted = themes /\ "custom" \in Ids /\ "default" \in Ids
    BY <1>0, <1>3 DEF PanelTypeOK, Rooted, Ids
  <2>2. EmptyDir \in Dir /\ themes["tmp"] \in Dir \cup {Missing}
    BY <2>1, PartTypes DEF Tree
  <2>3. ASSUME NEW d \in Dir \cup {Missing}, themes' = [themes EXCEPT !["tmp"] = d]
        PROVE  themes' # Missing /\ \A n \in Ids : themes'[n] = themes[n]
    <3>1. \A n \in Ids : n # "tmp"
      BY DEF Ids
    <3> QED
      BY <2>1, <2>3, <3>1, PutOne
  <2>4. ASSUME NEW p \in Packages, InstallStart(j, p)
        PROVE  UNCHANGED themes /\ marks \subseteq marks' /\ stepOf[j] = "new"
    BY <2>4 DEF InstallStart
  <2>5. CASE InstallCreate(j)
    <3>1. themes' = [themes EXCEPT !["tmp"] = IF @ = Missing THEN EmptyDir ELSE @]
          /\ marks \subseteq marks' /\ stepOf[j] = "clear"
      BY <2>1, <2>5 DEF InstallCreate
    <3>2. themes' = [themes EXCEPT !["tmp"] = IF themes["tmp"] = Missing THEN EmptyDir ELSE themes["tmp"]]
      BY <3>1
    <3>3. \A n \in Ids : themes'[n] = themes[n]
      BY <2>2, <2>3, <3>2
    <3>4. themes' # Missing
      BY <2>2, <2>3, <3>2
    <3> QED
      BY <2>1, <3>1, <3>3, <3>4
  <2>6. ASSUME NEW f \in Files, Extract(j, f)
        PROVE  /\ themes' # Missing /\ \A n \in Ids : themes'[n] = themes[n]
               /\ UNCHANGED marks /\ stepOf[j] = "extract"
    <3> DEFINE tmp == IF themes["tmp"] = Missing THEN EmptyDir ELSE themes["tmp"]
    <3>1. arg[j] \in Sources /\ tmp \in Dir
      BY <1>0, <2>2, <2>6 DEF Extract, ArgFits, InstallPoints, Sources
    <3>2. [tmp EXCEPT ![f] = arg[j]] \in Dir
      BY <3>1 DEF Dir
    <3> QED
      BY <2>1, <2>3, <2>6, <3>2 DEF Extract
  <2>7. CASE InstallCheck(j) \/ InstallAbort(j) \/ InstallRow(j)
    BY <1>3, <2>7 DEF InstallCheck, InstallAbort, InstallRow
  <2>8. CASE InstallEvicted(j)
    <3>1. stepOf'[j] = "move" /\ RemovalOver("custom")
      BY <1>0, <2>8 DEF InstallEvicted, PanelTypeOK
    <3> QED
      BY <1>0, <1>3, <2>1, <3>1, RemovalLeaves
  <2>9. CASE InstallAborted(j)
    <3>1. stepOf[j] = "abort" /\ RemovalOver("tmp") /\ UNCHANGED marks
      BY <2>9 DEF InstallAborted
    <3>2. "custom" # "tmp" /\ "default" # "tmp"
      OBVIOUS
    <3> QED
      BY <1>0, <1>3, <2>1, <3>1, <3>2, RemovalLeaves
  <2>10. CASE InstallMove(j)
    <3>1. themes' = [themes EXCEPT !["custom"] = themes["tmp"], !["tmp"] = Missing]
          /\ themes["tmp"] # Missing
      BY <2>10 DEF InstallMove, There
    <3>2. themes' \in Tree
      BY <2>1, <2>2, <3>1 DEF Tree
    <3>3. themes'["default"] = themes["default"] /\ themes'["custom"] = themes["tmp"]
      BY <2>1, <3>1 DEF Tree, Ids
    <3> QED
      BY <3>1, <3>2, <3>3, MissingIsNoFile
  <2> QED
    BY <1>3, <2>1, <2>4, <2>5, <2>6, <2>7, <2>8, <2>9, <2>10 DEF InstallStep
<1>4. \A k \in Jobs : /\ stepOf[k] = "placeThemes" <=> stepOf'[k] = "placeThemes"
                      /\ stepOf'[k] \in {"delete", "checked"} => stepOf[k] = stepOf'[k]
  BY <1>1 DEF InstallPoints
<1>5. Wanted' => Wanted
  BY <1>1, <1>4 DEF Wanted, InstallPoints
<1>6. SwapTold' /\ DefaultKept' /\ DeletingTold'
  <2>1. SwapTold'
    BY <1>1, <1>3, <1>4 DEF ServedInv, SwapTold
  <2>2. DefaultKept'
    BY <1>1, <1>3, <1>4 DEF ServedInv, DefaultKept, Shipped
  <2>3. DeletingTold'
    BY <1>1, <1>4, <1>5 DEF ServedInv, DeletingTold
  <2> QED
    BY <2>1, <2>2, <2>3
<1>7. CopiesWhole'
  BY <1>1 DEF ServedInv, CopiesWhole, Shipped, InstallPoints
<1>8. CustomKept'
  <2> SUFFICES ASSUME Wanted', marks' \cap Trouble = {},
                      \A k \in Jobs : stepOf'[k] \notin {"evict", "move"}
               PROVE  There("custom")'
    BY DEF CustomKept, Trouble
  <2>1. themes # Missing
    BY <1>1 DEF ServedInv, SwapTold, Trouble
  <2>2. CASE themes'["custom"] # Missing
    BY <1>3, <2>1, <2>2 DEF There
  <2>3. CASE themes'["custom"] = themes["custom"] /\ marks \subseteq marks'
             /\ stepOf[j] \notin {"evict", "move"}
    BY <1>1, <1>3, <1>5, <2>1, <2>3 DEF ServedInv, CustomKept, There
  <2> QED
    BY <1>3, <2>1, <2>2, <2>3
<1> QED
  BY <1>6, <1>7, <1>8 DEF ServedInv

\* An activation wants a theme it has found, and a deletion spares the active one.
LEMMA ThemeServed ==
  ASSUME PanelInv, ServedInv,
         (\E j \in Jobs : ThemeStep(j)) \/ (\E id \in Ids : SetTheme(id))
  PROVE  ServedInv'
<1> USE DEF Advance, NotThemes, Disk, themeFiles, Settings
<1>1. /\ UNCHANGED <<themesTmp, stage>> /\ marks \subseteq marks'
      /\ marks' \cap {"swapped", "swapStopped", "sameVersion"}
           = marks \cap {"swapped", "swapStopped", "sameVersion"}
      /\ \A k \in Jobs : \/ stepOf'[k] = stepOf[k] /\ arg'[k] = arg[k]
                         \/ /\ stepOf[k] \in {"new", "checked", "delete", "unlist"}
                            /\ stepOf'[k] \in {"checked", "done", "delete", "unlist"}
  BY DEF ThemeStep, ActivateCheck, ActivateSet, DeleteTheme, DeleteRemoved, DeleteRow, SetTheme,
         PanelInv, PanelTypeOK
<1>2. ASSUME NEW j \in Jobs, DeleteRemoved(j)
      PROVE  /\ stepOf[j] = "delete" /\ UNCHANGED <<current, arg>>
             /\ (themes' = Missing) <=> (themes = Missing)
             /\ themes # Missing => themes'["default"] = themes["default"]
             /\ \A k \in Jobs : k # j => stepOf'[k] = stepOf[k]
             /\ stepOf'[j] = "unlist"
  <2>1. /\ RemovalOver("custom") /\ stepOf[j] = "delete" /\ UNCHANGED <<current, arg>>
        /\ stepOf' = [stepOf EXCEPT ![j] = "unlist"]
    BY <1>2 DEF DeleteRemoved
  <2>2. PanelTypeOK
    BY DEF PanelInv
  <2> QED
    BY <2>1, <2>2, RemovalLeaves DEF Ids, PanelTypeOK
<1>3. ASSUME \A j \in Jobs : ~DeleteRemoved(j) PROVE UNCHANGED themes
  BY <1>3 DEF ThemeStep, ActivateCheck, ActivateSet, DeleteTheme, DeleteRow, SetTheme
<1>4. /\ (themes' = Missing) <=> (themes = Missing)
      /\ themes # Missing => themes'["default"] = themes["default"]
  BY <1>2, <1>3
<1>5. \A k \in Jobs : stepOf[k] = "placeThemes" <=> stepOf'[k] = "placeThemes"
  BY <1>1
<1>6. SwapTold' /\ CopiesWhole' /\ DefaultKept'
  <2>1. SwapTold'
    BY <1>1, <1>4, <1>5 DEF ServedInv, SwapTold
  <2>2. CopiesWhole'
    BY <1>1 DEF ServedInv, CopiesWhole, Shipped
  <2>3. DefaultKept'
    BY <1>1, <1>4, <1>5 DEF ServedInv, DefaultKept, Shipped
  <2> QED
    BY <2>1, <2>2, <2>3
<1>7. CustomKept' /\ DeletingTold'
  <2>1. ASSUME NEW id \in Ids, SetTheme(id) PROVE CustomKept' /\ DeletingTold'
    BY <2>1 DEF SetTheme, CustomKept, DeletingTold, Trouble
  <2>2. ASSUME NEW j \in Jobs, NEW id \in Ids, ActivateCheck(j, id)
        PROVE  CustomKept' /\ DeletingTold'
    <3>1. /\ UNCHANGED <<themes, current>> /\ HasFile(id, "index")
          /\ stepOf' = [stepOf EXCEPT ![j] = "checked"] /\ arg' = [arg EXCEPT ![j] = id]
          /\ stepOf[j] = "new"
          /\ id = "custom" /\ ~DbFree => "raced" \in marks'
      BY <2>2 DEF ActivateCheck
    <3>2. \A k \in Jobs : /\ k # j => stepOf'[k] = stepOf[k] /\ arg'[k] = arg[k]
                          /\ k = j => stepOf'[k] = "checked" /\ arg'[k] = id
      BY <3>1 DEF PanelInv, PanelTypeOK
    <3>3. Wanted' => Wanted \/ id = "custom"
      BY <3>1, <3>2 DEF Wanted
    <3>4. \A k \in Jobs : stepOf'[k] = "delete" => ~DbFree
      BY <3>2 DEF DbFree, DeletePoints
    <3>5. \A k \in Jobs : stepOf[k] \in {"evict", "move"} => stepOf'[k] = stepOf[k]
      BY <3>1, <3>2
    <3>6. CustomKept'
      BY <1>1, <3>1, <3>3, <3>5 DEF ServedInv, CustomKept, HasFile, There
    <3>7. DeletingTold'
      BY <1>1, <3>1, <3>2, <3>3, <3>4 DEF ServedInv, DeletingTold
    <3> QED
      BY <3>6, <3>7
  <2>3. ASSUME NEW j \in Jobs, ActivateSet(j) PROVE CustomKept' /\ DeletingTold'
    <3>1. /\ UNCHANGED <<themes, arg, marks>> /\ stepOf[j] = "checked" /\ current' = arg[j]
          /\ stepOf' = [stepOf EXCEPT ![j] = "done"]
      BY <2>3 DEF ActivateSet
    <3>2. \A k \in Jobs : stepOf'[k] # "done" => stepOf'[k] = stepOf[k]
      BY <3>1 DEF PanelInv, PanelTypeOK
    <3>3. \A k \in Jobs : stepOf[k] \in {"evict", "move"} => stepOf'[k] = stepOf[k]
      BY <3>1 DEF PanelInv, PanelTypeOK
    <3>4. Wanted' => Wanted
      BY <3>1, <3>2 DEF Wanted
    <3> QED
      BY <3>1, <3>2, <3>3, <3>4 DEF ServedInv, CustomKept, DeletingTold, There
  <2>4. ASSUME NEW j \in Jobs, DeleteTheme(j) PROVE CustomKept' /\ DeletingTold'
    <3>1. /\ UNCHANGED <<themes, arg, current>> /\ current # "custom" /\ stepOf[j] = "new"
          /\ stepOf' = [stepOf EXCEPT ![j] = "delete"]
          /\ Activating => "raced" \in marks'
      BY <2>4 DEF DeleteTheme
    <3>2. \A k \in Jobs : stepOf'[k] = "checked" => stepOf[k] = "checked"
      BY <3>1 DEF PanelInv, PanelTypeOK
    <3>3. Wanted' => "raced" \in marks'
      BY <3>1, <3>2 DEF Wanted, Activating
    <3> QED
      BY <3>3 DEF CustomKept, DeletingTold, Trouble
  <2>5. ASSUME NEW j \in Jobs, DeleteRemoved(j) PROVE CustomKept' /\ DeletingTold'
    <3>1. Wanted' => Wanted
      BY <1>2, <2>5 DEF Wanted
    <3>2. Wanted => marks \cap {"raced", "hand"} # {}
      BY <1>2, <2>5 DEF ServedInv, DeletingTold
    <3> QED
      BY <1>1, <3>1, <3>2 DEF CustomKept, DeletingTold, Trouble
  <2>6. ASSUME NEW j \in Jobs, NEW d \in BOOLEAN, DeleteRow(j, d) PROVE CustomKept' /\ DeletingTold'
    <3>1. /\ UNCHANGED <<themes, arg, current, marks>> /\ stepOf[j] = "unlist"
          /\ stepOf' = [stepOf EXCEPT ![j] = "done"]
      BY <2>6 DEF DeleteRow
    <3>2. \A k \in Jobs : stepOf'[k] # "done" => stepOf'[k] = stepOf[k]
      BY <3>1 DEF PanelInv, PanelTypeOK
    <3>3. \A k \in Jobs : stepOf[k] \in {"evict", "move"} => stepOf'[k] = stepOf[k]
      BY <3>1 DEF PanelInv, PanelTypeOK
    <3>4. Wanted' => Wanted
      BY <3>1, <3>2 DEF Wanted
    <3> QED
      BY <3>1, <3>2, <3>3, <3>4 DEF ServedInv, CustomKept, DeletingTold, There
  <2> QED
    BY <2>1, <2>2, <2>3, <2>4, <2>5, <2>6 DEF ThemeStep
<1> QED
  BY <1>6, <1>7 DEF ServedInv

\* Unlinking a file removes no directory.
LEMMA UnlinkServed ==
  ASSUME PanelInv, ServedInv, NEW j \in Jobs, NEW f \in Files, Unlink(j, f)
  PROVE  ServedInv'
<1>1. PICK name \in Removes(j) :
        /\ HasFile(name, f)
        /\ themes' = [themes EXCEPT ![name] = [@ EXCEPT ![f] = Missing]]
  BY DEF Unlink
<1>2. UNCHANGED <<themesTmp, stage, current, stepOf, arg, marks>>
  BY DEF Unlink, NotThemes, Settings
<1>3. themes \in Tree /\ name \in {"custom", "tmp"} /\ themes[name] \in Dir
  BY <1>1 DEF HasFile, There, Removes, Ids, PanelInv, PanelTypeOK, Tree
<1>4. [themes[name] EXCEPT ![f] = Missing] \in Dir
  BY <1>3 DEF Dir
<1>5. /\ themes' # Missing /\ themes'[name] = [themes[name] EXCEPT ![f] = Missing]
      /\ \A m \in Ids \cup {"tmp"} : m # name => themes'[m] = themes[m]
  BY <1>1, <1>3, <1>4, PutOne DEF Ids
<1>6. themes'["default"] = themes["default"] /\ themes # Missing
  BY <1>1, <1>3, <1>5 DEF Ids, HasFile, There
<1>7. There("custom") => There("custom")'
  BY <1>3, <1>4, <1>5, MissingIsNoFile DEF There, Ids
<1> QED
  BY <1>2, <1>5, <1>6, <1>7
     DEF ServedInv, SwapTold, CopiesWhole, DefaultKept, CustomKept, DeletingTold, Wanted, Shipped

\* An update puts whole themes in place, and is marked for the installed ones.
LEMMA UpdateServed ==
  ASSUME PanelInv, ServedInv, NEW j \in Jobs, UpdateStep(j), ~Exit(j)
  PROVE  ServedInv'
<1> USE DEF Advance, UpdateFrame, themeFiles, Settings
<1>1. /\ UNCHANGED current /\ marks \subseteq marks'
      /\ \A k \in Jobs : k # j => stepOf'[k] = stepOf[k] /\ arg'[k] = arg[k]
      /\ stepOf[j] \in {"new"} \cup UpdatePoints
      /\ stepOf'[j] \in {"done"} \cup UpdatePoints
  BY DEF UpdateStep, UpdateStart, Fetch, Unpack, CopyThemes, CheckThemes, DropOldThemes, RetireThemes,
         PlaceThemes, StageBinary, CheckBinary, DropOldBinary, RetireBinary, PlaceBinary, PanelInv,
         PanelTypeOK, UpdatePoints
<1>2. Wanted' => Wanted
  BY <1>1 DEF Wanted, UpdatePoints
<1>8. DeletingTold'
  <2>1. \A k \in Jobs : stepOf'[k] = "delete" => stepOf[k] = "delete"
    BY <1>1 DEF UpdatePoints
  <2> QED
    BY <1>1, <1>2, <2>1 DEF ServedInv, DeletingTold
<1>3. CASE RetireThemes(j)
  <2>1. /\ UNCHANGED <<themesTmp, stage, arg>> /\ "swapped" \in marks'
        /\ stepOf[j] = "retireThemes" /\ stepOf'[j] = "placeThemes"
    BY <1>3 DEF RetireThemes, PanelInv, PanelTypeOK
  <2> QED
    BY <1>1, <1>8, <2>1
       DEF ServedInv, SwapTold, CopiesWhole, DefaultKept, CustomKept, Trouble, Shipped
<1>4. CASE PlaceThemes(j)
  <2>1. /\ arg[j] \in Versions /\ themesTmp[arg[j]] # Missing
        /\ themes' = themesTmp[arg[j]]
        /\ themesTmp' = [themesTmp EXCEPT ![arg[j]] = Missing]
        /\ UNCHANGED <<marks, stage, arg>> /\ stepOf[j] = "placeThemes" /\ stepOf'[j] = "stageBinary"
    BY <1>4 DEF PlaceThemes, PanelInv, PanelTypeOK, ArgFits, UpdatePoints
  <2>2. "swapped" \in marks
    BY <2>1 DEF ServedInv, SwapTold
  <2>3. "sameVersion" \notin marks => Shipped(themes'["default"])
    BY <2>1 DEF ServedInv, CopiesWhole
  <2>4. CopiesWhole'
    <3> SUFFICES ASSUME "sameVersion" \notin marks, NEW k \in Jobs, k # j,
                        stepOf[k] \in UpdatePoints
                 PROVE  arg[k] # arg[j]
      BY <1>1, <2>1 DEF ServedInv, CopiesWhole, Shipped, UpdatePoints, PanelInv, PanelTypeOK
    <3> QED
      BY <2>1 DEF PanelInv, UpdateAlone, UpdatePoints
  <2> QED
    BY <1>8, <2>1, <2>2, <2>3, <2>4
       DEF ServedInv, SwapTold, DefaultKept, CustomKept, Trouble, Shipped
<1>5. ASSUME ~RetireThemes(j), ~PlaceThemes(j)
      PROVE  UNCHANGED themes /\ stepOf[j] \notin {"retireThemes", "placeThemes"}
  BY <1>5 DEF UpdateStep, UpdateStart, Fetch, Unpack, CopyThemes, CheckThemes, DropOldThemes, StageBinary,
              CheckBinary, DropOldBinary, RetireBinary, PlaceBinary
<1>6. ASSUME ~RetireThemes(j), ~PlaceThemes(j)
      PROVE  CopiesWhole'
  <2> SUFFICES ASSUME "sameVersion" \notin marks', NEW k \in Jobs
               PROVE  /\ stepOf'[k] = "copyThemes" => stage'[arg'[k]].themes = "good"
                      /\ stepOf'[k] \in {"checkThemes", "dropOldThemes", "retireThemes", "placeThemes"} =>
                           /\ themesTmp'[arg'[k]] # Missing
                           /\ Shipped(themesTmp'[arg'[k]]["default"])
    BY DEF CopiesWhole, Shipped
  <2>1. "sameVersion" \notin marks
    BY <1>1
  <2>2. CASE k # j
    <3>1. ASSUME stepOf[k] \in UpdatePoints PROVE arg[k] \in Versions /\ arg'[j] # arg[k]
      <4>1. arg[k] \in Versions
        BY <3>1 DEF PanelInv, ArgFits
      <4>2. CASE \E v \in Versions : UpdateStart(j, v)
        BY <3>1, <4>1, <4>2 DEF UpdateStart, Updating, PanelInv, PanelTypeOK
      <4>3. CASE ~\E v \in Versions : UpdateStart(j, v)
        <5>1. arg'[j] = arg[j] /\ stepOf[j] \in UpdatePoints
          BY <4>3 DEF UpdateStep, UpdateStart, Fetch, Unpack, CopyThemes, CheckThemes, DropOldThemes,
                      RetireThemes, PlaceThemes, StageBinary, CheckBinary, DropOldBinary, RetireBinary,
                      PlaceBinary, UpdatePoints
        <5> QED
          BY <2>1, <2>2, <3>1, <4>1, <5>1 DEF PanelInv, UpdateAlone
      <4> QED
        BY <4>1, <4>2, <4>3
    <3>2. ASSUME NEW v \in Versions, v # arg'[j]
          PROVE  stage'[v] = stage[v] /\ themesTmp'[v] = themesTmp[v]
      BY <1>6, <3>2 DEF UpdateStep, UpdateStart, Fetch, Unpack, CopyThemes, CheckThemes, DropOldThemes,
                        StageBinary, CheckBinary, DropOldBinary, RetireBinary, PlaceBinary, PanelInv,
                        PanelTypeOK
    <3> QED
      BY <1>1, <2>1, <2>2, <3>1, <3>2 DEF ServedInv, CopiesWhole, UpdatePoints
  <2>3. CASE k = j
    <3>1. CASE Unpack(j)
      <4>1. /\ arg[j] \in Versions /\ stepOf'[j] = "copyThemes" /\ arg' = arg
            /\ stage[arg[j]].bundle = "good"
        BY <2>1, <3>1 DEF Unpack, PanelInv, PanelTypeOK, ArgFits, UpdatePoints, UpdateAlone
      <4>2. stage'[arg[j]] = Holding("good", "good", "good")
        BY <3>1, <4>1 DEF Unpack, PanelInv, PanelTypeOK
      <4> QED
        BY <2>3, <4>1, <4>2 DEF Holding
    <3>2. CASE CopyThemes(j)
      <4>1. /\ arg[j] \in Versions /\ stepOf'[j] = "checkThemes" /\ arg' = arg
            /\ stage[arg[j]].themes = "good"
        BY <2>1, <3>2 DEF CopyThemes, PanelInv, PanelTypeOK, ArgFits, UpdatePoints, ServedInv,
                          CopiesWhole
      <4>2. themesTmp'[arg[j]] = [EmptyTree EXCEPT !["default"] = Copy(arg[j])]
        BY <3>2, <4>1 DEF CopyThemes, PanelInv, PanelTypeOK
      <4>3. Copy(arg[j]) \in Dir /\ EmptyTree \in Tree /\ "default" \in Ids
        BY <4>1, PartTypes DEF Sources, Ids
      <4>4. themesTmp'[arg[j]] # Missing /\ themesTmp'[arg[j]]["default"] = Copy(arg[j])
        BY <4>2, <4>3, PutOne
      <4> QED
        BY <2>3, <4>1, <4>4 DEF Shipped
    <3>3. CASE DropOldThemes(j)
      BY <2>1, <2>3, <3>3 DEF DropOldThemes, PanelInv, PanelTypeOK, ServedInv, CopiesWhole
    <3>5. CASE CheckThemes(j)
      BY <2>1, <2>3, <3>5 DEF CheckThemes, PanelInv, PanelTypeOK, ServedInv, CopiesWhole
    <3>4. ASSUME ~Unpack(j), ~CopyThemes(j), ~DropOldThemes(j), ~CheckThemes(j)
          PROVE  stepOf'[j] \notin {"copyThemes", "checkThemes", "dropOldThemes", "retireThemes", "placeThemes"}
      BY <1>6, <3>4 DEF UpdateStep, UpdateStart, Fetch, StageBinary, CheckBinary, DropOldBinary, RetireBinary,
                        PlaceBinary, PanelInv, PanelTypeOK
    <3> QED
      BY <2>3, <3>1, <3>2, <3>3, <3>4, <3>5
  <2> QED
    BY <2>2, <2>3
<1>7. ASSUME ~RetireThemes(j), ~PlaceThemes(j)
      PROVE  SwapTold' /\ DefaultKept' /\ CustomKept'
  <2>1. stepOf'[j] = "placeThemes" => themes = Missing
    BY <1>7 DEF UpdateStep, UpdateStart, Fetch, Unpack, CopyThemes, CheckThemes, DropOldThemes, StageBinary,
                CheckBinary, DropOldBinary, RetireBinary, PlaceBinary, PanelInv, PanelTypeOK
  <2>2. \A k \in Jobs : \A at0 \in {"placeThemes", "evict", "move"} :
          stepOf[k] = at0 => stepOf'[k] = at0
    BY <1>1, <1>5, <1>7 DEF UpdatePoints
  <2> QED
    BY <1>1, <1>2, <1>5, <1>7, <2>1, <2>2
       DEF ServedInv, SwapTold, DefaultKept, CustomKept, There, Trouble, Shipped
<1> QED
  BY <1>3, <1>4, <1>6, <1>7, <1>8 DEF ServedInv

\* What stops in the middle is marked.
LEMMA EndServed ==
  ASSUME PanelInv, ServedInv,
         (\E j \in Jobs : Fail(j) \/ Exit(j)) \/ Crash \/ Start
  PROVE  ServedInv'
<1> USE DEF Advance, Disk, themeFiles, Settings
<1>1. /\ UNCHANGED <<themes, themesTmp, stage, current, arg>> /\ marks \subseteq marks'
      /\ \A k \in Jobs : \/ stepOf'[k] = stepOf[k]
                         \/ stepOf'[k] = "done" /\ MarksOfStop(k) \subseteq marks'
  <2>1. ASSUME NEW j \in Jobs, Fail(j)
        PROVE  \A k \in Jobs : \/ stepOf'[k] = stepOf[k]
                               \/ stepOf'[k] = "done" /\ MarksOfStop(k) \subseteq marks'
    BY <2>1 DEF Fail, PanelInv, PanelTypeOK
  <2>2. ASSUME ProcessEnds
        PROVE  \A k \in Jobs : \/ stepOf'[k] = stepOf[k]
                               \/ stepOf'[k] = "done" /\ MarksOfStop(k) \subseteq marks'
    <3>1. marks' = marks \cup UNION {MarksOfStop(k) : k \in Jobs}
      BY <2>2 DEF ProcessEnds
    <3>2. \A k \in Jobs : MarksOfStop(k) \subseteq marks'
      BY ONLY <3>1
    <3> QED
      BY <2>2, <3>2 DEF ProcessEnds
  <2> QED
    BY <2>1, <2>2 DEF Fail, Exit, Crash, Start, ProcessEnds
<1>2. \A k \in Jobs : stepOf[k] = "placeThemes" => stepOf'[k] = "placeThemes" \/ "swapStopped" \in marks'
  BY <1>1 DEF MarksOfStop
<1>3. \A k \in Jobs : stepOf[k] \in {"evict", "move"} =>
                        stepOf'[k] = stepOf[k] \/ "stopped" \in marks'
  BY <1>1 DEF MarksOfStop
<1>4. Wanted' => Wanted
  BY <1>1 DEF Wanted
<1>5. \A k \in Jobs : stepOf'[k] # "done" => stepOf'[k] = stepOf[k]
  BY <1>1
<1> QED
  BY <1>1, <1>2, <1>3, <1>4, <1>5
     DEF ServedInv, SwapTold, CopiesWhole, DefaultKept, CustomKept, DeletingTold, Shipped, There,
         Trouble

\* The site can be served: the active theme is installed, whole and with an
\* index.html (main.rs 110-121), except in the windows, after the stops and for
\* the package that ActiveThemeServed names.
THEOREM ActiveThemeServedAlways == PanelSpec => []ActiveThemeServed
<1>1. PanelInit => ServedInv
  <2> SUFFICES ASSUME PanelInit PROVE ServedInv
    OBVIOUS
  <2>1. PICK custom \in {Missing} \cup {Copy(p) : p \in Packages} :
          /\ themes = [EmptyTree EXCEPT !["default"] = Copy(First), !["custom"] = custom]
          /\ current \in {n \in Ids : themes[n] # Missing /\ themes[n]["index"] # Missing}
    BY DEF PanelInit
  <2>2. custom \in Dir \cup {Missing} /\ Copy(First) \in Dir
    BY PartTypes DEF Sources
  <2>3. themes \in Tree /\ themes["default"] = Copy(First)
    BY <2>1, <2>2, PartTypes DEF Tree, Ids
  <2>4. themes # Missing /\ Shipped(themes["default"])
    BY <2>3, MissingIsNoFile DEF Shipped
  <2>5. \A j \in Jobs : stepOf[j] = "new"
    BY DEF PanelInit
  <2> QED
    BY <2>1, <2>4, <2>5
       DEF ServedInv, SwapTold, CopiesWhole, DefaultKept, CustomKept, DeletingTold, Wanted, There
<1>2. PanelInv /\ ServedInv /\ [PanelNext]_panelVars => ServedInv'
  <2> SUFFICES ASSUME PanelInv, ServedInv, [PanelNext]_panelVars PROVE ServedInv'
    OBVIOUS
  <2>1. CASE UNCHANGED panelVars
    BY <2>1 DEF panelVars, Disk, themeFiles, Settings, ServedInv, SwapTold, CopiesWhole, DefaultKept,
                CustomKept, DeletingTold, Wanted, Shipped, There, Trouble
  <2> QED
    BY <2>1, InstallServed, ThemeServed, UpdateServed, EndServed, UnlinkServed DEF PanelNext
<1>3. PanelInv /\ ServedInv => ActiveThemeServed
  <2> SUFFICES ASSUME PanelInv, ServedInv,
                      \A j \in Jobs : stepOf[j] # "placeThemes",
                      marks \cap {"swapStopped", "sameVersion"} = {},
                      ~(/\ current = "custom"
                        /\ \/ \E j \in Jobs : stepOf[j] \in {"evict", "move"}
                           \/ There("custom") /\ \E p \in Bare : themes["custom"] = Copy(p)
                           \/ marks \cap Trouble # {})
               PROVE  There(current) /\ Whole(themes[current]) /\ HasFile(current, "index")
    BY DEF ActiveThemeServed, Trouble
  <2>1. themes # Missing /\ Shipped(themes["default"])
    BY DEF ServedInv, DefaultKept
  <2>2. CASE current = "custom"
    <3>1. There("custom")
      BY <2>2 DEF ServedInv, CustomKept, Wanted
    <3>2. \A j \in Jobs : stepOf[j] \notin {"evict", "move", "delete"}
      BY <2>2 DEF ServedInv, DeletingTold, Wanted, Trouble
    <3>3. Whole(themes["custom"])
      BY <2>2, <3>1, <3>2 DEF PanelInv, InstalledWhole, Trouble
    <3>4. PICK src \in Sources : themes["custom"] = Copy(src)
      BY <3>3 DEF Whole
    <3>5. src \notin Bare /\ src # Missing
      BY <2>2, <3>1, <3>4, PanelAssumption DEF Sources
    <3>6. themes["custom"]["index"] = src
      BY <3>4, <3>5 DEF Copy, FilesOf, Files
    <3> QED
      BY <2>2, <3>1, <3>3, <3>5, <3>6 DEF HasFile
  <2>3. CASE current = "default"
    BY <2>1, <2>3, ShippedWhole DEF There, HasFile
  <2> QED
    BY <2>2, <2>3 DEF PanelInv, PanelTypeOK, Ids
<1> QED
  BY <1>1, <1>2, <1>3, PanelInvariant, PTL DEF PanelSpec
=============================================================================
