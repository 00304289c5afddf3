------------------------------ MODULE Accounts ------------------------------
(***************************************************************************)
(* Accounts and sign-ins of the admin API: admin.rs login, logout,         *)
(* update_password, create_user, update_user, delete_user and the two      *)
(* middlewares, over the users table (db.rs) and the two maps in memory    *)
(* (state.rs sessions and login_failures).                                 *)
(*                                                                         *)
(* The table is behind one lock and each map behind another.  A handler    *)
(* takes one lock at a time, except for update_user and delete_user, which *)
(* hold the table's while they change sessions.  Passwords are hashed and  *)
(* verified between the locks, which takes long.  Each locked section is   *)
(* one action.                                                             *)
(***************************************************************************)
EXTENDS Naturals, FiniteSets

CONSTANTS
    Names,          \* user names
    Root,           \* PHARUS_ADMIN_USER, made anew at each start if absent
    Requests,       \* requests that may be under way at once
    Tokens,         \* session tokens, each handed out once
    MaxFailures,    \* MAX_LOGIN_FAILURES
    MaxChanges,     \* bound on changes of the table
    None            \* no such account or session

ASSUME AccountAssumption ==
    /\ Root \in Names
    /\ MaxFailures \in Nat \ {0}
    /\ MaxChanges \in Nat
    /\ IsFiniteSet(Requests)
    /\ None \notin Tokens

VARIABLES
    users,      \* the table, by name
    sessions,   \* AppState.sessions
    throttle,   \* login_failures of one address; no entry counts as 0
    pc,         \* where each request stands
    work,       \* what it has read so far
    used,       \* tokens handed out
    changes     \* counter: account ids and password versions are its values

vars == <<users, sessions, throttle, pc, work, used, changes>>

(***************************************************************************)
(* "gen" numbers the passwords an account had and "own" is the last one    *)
(* its user chose.  A session remembers the account and the password that  *)
(* opened it, and in "late" what happened to the account between the       *)
(* login's look at it and the session's insertion.  The code has none of   *)
(* the four; no guard reads them.                                          *)
(***************************************************************************)
User == [id : Nat, gen : Nat, own : Nat, admin : BOOLEAN, enabled : BOOLEAN]
Event == {"account", "password"}
Session == [user : Names, id : Nat, gen : Nat, late : SUBSET Event,
            aged : BOOLEAN]
Work == [user : Names, tok : Tokens \cup {None}, id : Nat, gen : Nat,
         late : SUBSET Event]
Points == {"idle", "gated", "read", "proved",       \* login
           "authed", "admin",                       \* behind require_admin
           "entered", "checked", "written"}         \* update_password

ASSUME NoneIsNoUser == None \notin User

Account(id, gen, own, admin, enabled) ==
    [id |-> id, gen |-> gen, own |-> own, admin |-> admin, enabled |-> enabled]

Opened(n, id, gen, late, aged) ==
    [user |-> n, id |-> id, gen |-> gen, late |-> late, aged |-> aged]

Job(n, tok, id, gen, late) ==
    [user |-> n, tok |-> tok, id |-> id, gen |-> gen, late |-> late]

NewUser(n, isAdmin) == Account(n, n, n, isAdmin, TRUE)

Blank == Job(Root, None, 0, 0, {})

EnabledAdmin(n) == users[n] # None /\ users[n].admin /\ users[n].enabled

\* A start with an admin password (PHARUS_ADMIN_PASSWORD), which makes the account
\* of PHARUS_ADMIN_USER, on a database with others as they were left.  Without one
\* an empty database has no account, and nobody can sign in.
Init ==
    /\ users \in {u \in [Names -> {None, NewUser(0, TRUE), NewUser(0, FALSE)}] :
                    u[Root] = NewUser(0, TRUE)}
    /\ sessions = [t \in Tokens |-> None]
    /\ throttle = 0
    /\ pc = [r \in Requests |-> "idle"]
    /\ work = [r \in Requests |-> Blank]
    /\ used = {}
    /\ changes = 0

Goto(r, from, to) ==
    /\ pc[r] = from
    /\ pc' = [pc EXCEPT ![r] = to]

\* The logins of n that have looked at the account and not yet inserted a
\* session learn nothing of a change; the history does.
Overtaken(n, what) ==
    [r \in Requests |->
        LET w == work[r] IN
        IF pc[r] \in {"read", "proved"} /\ w.user = n
        THEN Job(n, w.tok, w.id, w.gen, w.late \cup {what}) ELSE w]

\* The request is answered, and what it had read is gone.
Answer(r, from) == Goto(r, from, "idle") /\ work' = [work EXCEPT ![r] = Blank]
AnswerAfter(r, from, overtaken) ==
    Goto(r, from, "idle") /\ work' = [overtaken EXCEPT ![r] = Blank]

SignOut(gone) ==
    sessions' = [t \in Tokens |-> IF t \in gone THEN None ELSE sessions[t]]

SessionsOf(n) == {t \in Tokens : sessions[t] # None /\ sessions[t].user = n}

-----------------------------------------------------------------------------
(* Login *)

\* mutant: the limit were not consulted.
LoginGateOpen(r, n) ==
    /\ Goto(r, "idle", "gated")
    /\ work' = [work EXCEPT ![r] = Job(n, None, 0, 0, {})]
    /\ UNCHANGED <<users, sessions, throttle, used, changes>>

\* login_attempt_blocked: at the limit of the window, a refusal.
LoginGate(r, n) ==
    /\ throttle < MaxFailures
    /\ Goto(r, "idle", "gated")
    /\ work' = [work EXCEPT ![r] = Job(n, None, 0, 0, {})]
    /\ UNCHANGED <<users, sessions, throttle, used, changes>>

\* record_login_failure
RecordFailure == throttle' = throttle + 1

\* find_user: an unknown name counts as a failure, a disabled account does not.
LoginRead(r) ==
    LET u == users[work[r].user] IN
    /\ pc[r] = "gated"
    /\ \/ /\ u = None
          /\ Answer(r, "gated")
          /\ RecordFailure
       \/ /\ u # None /\ ~u.enabled
          /\ Answer(r, "gated")
          /\ UNCHANGED throttle
       \/ /\ u # None /\ u.enabled
          /\ Goto(r, "gated", "read")
          /\ work' = [work EXCEPT ![r] = Job(work[r].user, None, u.id, u.gen, {})]
          /\ UNCHANGED throttle
    /\ UNCHANGED <<users, sessions, used, changes>>

\* verify_password says no, against the hash that was read.
LoginFail(r) ==
    /\ Answer(r, "read")
    /\ RecordFailure
    /\ UNCHANGED <<users, sessions, used, changes>>

\* It says yes: clear_login_failures.
LoginProve(r) ==
    /\ Goto(r, "read", "proved")
    /\ throttle' = 0
    /\ UNCHANGED <<users, sessions, work, used, changes>>

\* Sessions past their TTL are dropped, the new one is inserted.
LoginInsert(r, t) ==
    /\ t \notin used
    /\ Answer(r, "proved")
    /\ used' = used \cup {t}
    /\ sessions' = [s \in Tokens |->
            IF s = t
            THEN Opened(work[r].user, work[r].id, work[r].gen, work[r].late, FALSE)
            ELSE IF sessions[s] # None /\ sessions[s].aged THEN None
            ELSE sessions[s]]
    /\ UNCHANGED <<users, throttle, changes>>

Logout(t) ==
    /\ sessions[t] # None
    /\ SignOut({t})
    /\ UNCHANGED <<users, throttle, pc, work, used, changes>>

-----------------------------------------------------------------------------
(* Requests of a signed-in user *)

\* authenticate, of either middleware: a session past its TTL is removed.
Authenticate(r, t, to) ==
    /\ sessions[t] # None
    /\ pc[r] = "idle"
    /\ \/ /\ sessions[t].aged
          /\ SignOut({t})
          /\ UNCHANGED <<pc, work>>
       \/ /\ ~sessions[t].aged
          /\ Goto(r, "idle", to)
          /\ work' = [work EXCEPT ![r] = Job(sessions[t].user, t, 0, 0, {})]
          /\ UNCHANGED sessions
    /\ UNCHANGED <<users, throttle, used, changes>>

\* require_admin reads the role from the table.
AdminCheck(r) ==
    /\ IF EnabledAdmin(work[r].user)
       THEN Goto(r, "authed", "admin") /\ UNCHANGED work
       ELSE Answer(r, "authed")
    /\ UNCHANGED <<users, sessions, throttle, used, changes>>

\* insert_user, an INSERT OR IGNORE
CreateUser(r, n, isAdmin) ==
    /\ changes < MaxChanges
    /\ Answer(r, "admin")
    /\ \/ /\ users[n] # None
          /\ UNCHANGED <<users, changes>>
       \/ /\ users[n] = None
          /\ changes' = changes + 1
          /\ users' = [users EXCEPT ![n] = NewUser(changes', isAdmin)]
    /\ UNCHANGED <<sessions, throttle, used>>

\* mutant: an administrator were kept only from removing himself.
MayLoseAnyOther(r, n) == work[r].user # n

\* What update_user and delete_user refuse: oneself, and the last enabled admin.
MayLose(r, n) ==
    /\ work[r].user # n
    /\ users[n].admin => \E m \in Names \ {n} : EnabledAdmin(m)

(***************************************************************************)
(* update_user, under the table's lock.  The role and the switch are two   *)
(* statements and the new password a third; the second may fail after the  *)
(* first, and a password that is refused or cannot be stored leaves what   *)
(* was written before it.  A disabled account loses its sessions.          *)
(***************************************************************************)
UpdateUser(r, n, isAdmin, enabled, upTo) ==
    LET u == users[n]
        changed == isAdmin # u.admin \/ enabled # u.enabled
        now == IF changed /\ upTo # "role" THEN enabled ELSE u.enabled
    IN
    /\ u # None /\ changes < MaxChanges
    /\ changed /\ ~(isAdmin /\ enabled) => MayLose(r, n)
    /\ changes' = changes + 1
    /\ users' = [users EXCEPT ![n] =
            Account(u.id, IF upTo = "password" THEN changes' ELSE u.gen, u.own,
                    isAdmin, now)]
    /\ IF changed /\ ~now /\ upTo # "role"
       THEN /\ AnswerAfter(r, "admin", Overtaken(n, "account"))
            /\ SignOut(SessionsOf(n))
       ELSE Answer(r, "admin") /\ UNCHANGED sessions
    /\ UNCHANGED <<throttle, used>>

\* mutant: the account went and its sessions stayed.
DeleteUserOnly(r, n, deleted) ==
    /\ users[n] # None
    /\ MayLose(r, n)
    /\ AnswerAfter(r, "admin", Overtaken(n, "account"))
    /\ users' = [users EXCEPT ![n] = None]
    /\ UNCHANGED <<sessions, throttle, used, changes>>

\* delete_user signs out first; the DELETE may then fail.
DeleteUser(r, n, deleted) ==
    /\ users[n] # None
    /\ MayLose(r, n)
    /\ SignOut(SessionsOf(n))
    /\ IF deleted
       THEN /\ AnswerAfter(r, "admin", Overtaken(n, "account"))
            /\ users' = [users EXCEPT ![n] = None]
       ELSE Answer(r, "admin") /\ UNCHANGED users
    /\ UNCHANGED <<throttle, used, changes>>

\* A refusal, an error before any statement, or a handler that edits no user.
Refused(r) ==
    /\ \E from \in {"admin", "entered", "checked"} : Answer(r, from)
    /\ UNCHANGED <<users, sessions, throttle, used, changes>>

\* update_password: the hash is read, and verified after the lock.
ReadHash(r) ==
    /\ users[work[r].user] # None
    /\ Goto(r, "entered", "checked")
    /\ UNCHANGED <<users, sessions, throttle, work, used, changes>>

\* update_user_password by name, whatever row has the name by then; the
\* session that asked has proved itself.
WritePassword(r) ==
    LET n == work[r].user
        u == users[n]
        t == work[r].tok
        s == sessions[t]
    IN
    /\ changes < MaxChanges
    /\ pc[r] = "checked"
    /\ changes' = changes + 1
    /\ users' = IF users[n] = None THEN users
                ELSE [users EXCEPT ![n] = Account(u.id, changes', changes', u.admin, u.enabled)]
    /\ work' = Overtaken(n, "password")
    /\ sessions' = IF t \in SessionsOf(n)
                   THEN [sessions EXCEPT ![t] = Opened(n, s.id, changes', s.late, s.aged)]
                   ELSE sessions
    /\ Goto(r, "checked", "written")
    /\ UNCHANGED <<throttle, used>>

\* mutant: the session that asked were dropped, not the others.
SignOutSelf(r) ==
    /\ Answer(r, "written")
    /\ SignOut({work[r].tok})
    /\ UNCHANGED <<users, throttle, used, changes>>

\* The user's other sessions are dropped.
SignOutOthers(r) ==
    /\ Answer(r, "written")
    /\ SignOut(SessionsOf(work[r].user) \ {work[r].tok})
    /\ UNCHANGED <<users, throttle, used, changes>>

-----------------------------------------------------------------------------
(* Time and restarts *)

\* A session grows older than SESSION_TTL.
Age(t) ==
    /\ sessions[t] # None
    /\ LET s == sessions[t] IN
       sessions' = [sessions EXCEPT ![t] = Opened(s.user, s.id, s.gen, s.late, TRUE)]
    /\ UNCHANGED <<users, throttle, pc, work, used, changes>>

\* LOGIN_WINDOW is over: the next look at the entry resets it.
WindowOver ==
    /\ throttle' = 0
    /\ UNCHANGED <<users, sessions, pc, work, used, changes>>

\* serve(): both maps start empty; insert_user for PHARUS_ADMIN_USER, if there is
\* a password for it.
Restart(password) ==
    /\ changes < MaxChanges
    /\ changes' = changes + 1
    /\ users' = IF users[Root] # None \/ ~password THEN users
                ELSE [users EXCEPT ![Root] = NewUser(changes', TRUE)]
    /\ sessions' = [t \in Tokens |-> None]
    /\ throttle' = 0
    /\ pc' = [r \in Requests |-> "idle"]
    /\ work' = [r \in Requests |-> Blank]
    /\ UNCHANGED used

LoginStep(r) ==
    \/ \E n \in Names : LoginGate(r, n)
    \/ LoginRead(r) \/ LoginFail(r) \/ LoginProve(r)
    \/ \E t \in Tokens : LoginInsert(r, t)

EditStep(r) ==
    \/ AdminCheck(r)
    \/ \E n \in Names : \E isAdmin \in BOOLEAN : CreateUser(r, n, isAdmin)
    \/ \E n \in Names : \E isAdmin, enabled \in BOOLEAN :
         \E upTo \in {"role", "enabled", "password"} :
           UpdateUser(r, n, isAdmin, enabled, upTo)
    \/ \E n \in Names : \E deleted \in BOOLEAN : DeleteUser(r, n, deleted)

PasswordStep(r) == ReadHash(r) \/ WritePassword(r) \/ SignOutOthers(r)

Next ==
    \/ \E r \in Requests : LoginStep(r) \/ EditStep(r) \/ PasswordStep(r) \/ Refused(r)
    \/ \E r \in Requests : \E t \in Tokens : \E to \in {"authed", "entered"} :
         Authenticate(r, t, to)
    \/ \E t \in Tokens : Logout(t) \/ Age(t)
    \/ WindowOver \/ \E password \in BOOLEAN : Restart(password)

Spec == Init /\ [][Next]_vars

-----------------------------------------------------------------------------
\* Every variable has its type (users, sessions and login_failures).
AccountTypeOK ==
    /\ users \in [Names -> User \cup {None}]
    /\ sessions \in [Tokens -> Session \cup {None}]
    /\ throttle \in Nat
    /\ pc \in [Requests -> Points]
    /\ work \in [Requests -> Work]
    /\ used \subseteq Tokens
    /\ changes \in 0..MaxChanges

\* The panel always has an enabled admin, whoever edits whom at the same time
\* and whichever statement fails (admin.rs:563-585, 619-632).
SomeAdminRemains == \E n \in Names : EnabledAdmin(n)

(***************************************************************************)
(* A live session belongs to an account that is there and enabled, and is  *)
(* the very account that logged in (admin.rs:586-593, 633-637); only a     *)
(* login that read the row before it was disabled or deleted, and inserted *)
(* its session afterwards, escapes.                                        *)
(***************************************************************************)
SessionsFollowAccounts ==
    \A t \in Tokens : sessions[t] # None =>
        LET u == users[sessions[t].user] IN
        \/ u # None /\ u.enabled /\ u.id = sessions[t].id
        \/ "account" \in sessions[t].late

(***************************************************************************)
(* A session opened with a password its user has since replaced is gone    *)
(* (admin.rs:383-388), unless the handler that replaced it has yet to drop *)
(* it or the login overlapped the change.  An administrator's reset keeps  *)
(* the sessions.                                                           *)
(***************************************************************************)
OthersSignedOut ==
    \A t \in Tokens : sessions[t] # None =>
        LET s == sessions[t] IN
        \/ users[s.user] = None
        \/ s.gen >= users[s.user].own
        \/ s.late # {}
        \/ \E r \in Requests : pc[r] = "written" /\ work[r].user = s.user

InFlight == Cardinality({r \in Requests : pc[r] \in {"gated", "read"}})

(***************************************************************************)
(* The throttle is read before the password is verified and written after, *)
(* so requests in flight exceed it, by one failure each at most            *)
(* (admin.rs:260-289).                                                     *)
(***************************************************************************)
FailuresBounded ==
    throttle + InFlight < MaxFailures + Cardinality(Requests)
=============================================================================
