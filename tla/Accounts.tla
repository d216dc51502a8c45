------------------------------ MODULE Accounts ------------------------------
(***************************************************************************)
(* Accounts, sessions and the login throttle (gemp/auth, gemp/api/         *)
(* auth_routes.py and the session middleware of gemp/api/main.py).         *)
(*                                                                         *)
(* Request threads interleave wherever the code gives up the database or   *)
(* spends time: a login between its throttle check, its read of the user   *)
(* row and its commit; every other request between the middleware, which   *)
(* resolves the session in a transaction of its own, and the handler.  The *)
(* writes of one handler to one user row are one step: the first UPDATE of *)
(* the row locks it until the commit.                                      *)
(***************************************************************************)
EXTENDS Integers, Sequences, FiniteSets

CONSTANTS
    User,                 \* normalised usernames, in use or not
    Addr,                 \* client addresses
    Distinct,             \* those that name one client: _distinguishing_ip
    Thread,               \* request threads
    MaxTokens,            \* bound: sessions issued
    MaxTime,              \* bound: ticks of the clock
    Never,                \* no end date
    IDLE_TIMEOUT, ABSOLUTE_LIFETIME, TOUCH_INTERVAL,
    MAX_FAILURES, FAILURE_WINDOW, SWEEP_ABOVE_KEYS,
    MAX_SHARED_FAILURES, MAX_CONCURRENT_SHARED_DELAYS,
    Budgets               \* bounds: how often each kind of operation begins

ASSUME AccountsAssumption ==
    /\ Distinct \subseteq Addr
    /\ IsFiniteSet(Thread) /\ Thread # {}
    /\ "none" \notin User
    /\ \A c \in {MaxTokens, MAX_FAILURES, MAX_SHARED_FAILURES, FAILURE_WINDOW} :
           c \in Nat \ {0}
    /\ \A c \in {MaxTime, TOUCH_INTERVAL, IDLE_TIMEOUT, ABSOLUTE_LIFETIME} : c \in Nat
    /\ TOUCH_INTERVAL < IDLE_TIMEOUT /\ IDLE_TIMEOUT < ABSOLUTE_LIFETIME
    /\ Never \in Nat /\ Never > MaxTime + ABSOLUTE_LIFETIME

ROLES == {"viewer", "analyst", "admin"}
Token == 1..MaxTokens
Time  == 0..MaxTime

\* Index is authority.
ORDER == <<"viewer", "analyst", "admin">>
at_least(actual, required) ==
    \E i, j \in 1..3 : ORDER[i] = actual /\ ORDER[j] = required /\ i >= j

VARIABLES
    now,       \* the clock
    users,     \* table user: a row or NoUser
    sess,      \* table session, by token: a row or NoSession
    fails,     \* _failures: for every key the times of its failed attempts
    req,       \* what each request thread is doing
    left,      \* what the bounds still allow
    (* History *)
    gen,       \* per user, how often all its sessions have been ended
    chosen,    \* per user, the password set last
    overtaken, \* users with a request that checked a password before the last such
               \* end and committed after it
    unseated   \* an administrator who had lost the role in between took it from another

vars == <<now, users, sess, fails, req, left, gen, chosen, overtaken, unseated>>
history == <<gen, chosen, overtaken, unseated>>

\* `pw` stands for the stored hash, `weak` for a cost below the current one.
UserRow == [role : ROLES, active : BOOLEAN, must : BOOLEAN, pw : Nat, weak : BOOLEAN,
            until : Nat]
NoUser  == [role |-> "none"]
Exists(u) == users[u] # NoUser

SessionRow == [user : User, gen : Nat, seen : Time, expires : Nat, revoked : BOOLEAN]
NoSession  == [user |-> "none"]

Idle == [pc |-> "idle"]

\* A principal is the caller as the middleware saw it.
Principal(k) == [pc |-> "served", token |-> k, user |-> sess[k].user,
                 role |-> users[sess[k].user].role, must |-> users[sess[k].user].must]

Begin(t, s) == req[t] = Idle /\ req' = [req EXCEPT ![t] = s]
Goto(t, s)  == req' = [req EXCEPT ![t] = s]
Spend(f)    == left[f] > 0 /\ left' = [left EXCEPT ![f] = @ - 1]

----------------------------------------------------------------------------
(* The throttle *)

Key == ({"user"} \X User) \cup ({"ip"} \X (Addr \cup {"_shared"}))
SHARED_IP_KEY == <<"ip", "_shared">>
NoFailures == [k \in Key |-> <<>>]

\* window.popleft() while window[0] < cutoff.
NotBefore(window, cutoff) ==
    LET recent == { i \in DOMAIN window : window[i] >= cutoff }
        first  == CHOOSE i \in recent : \A j \in recent : i <= j
    IN  IF recent = {} THEN <<>> ELSE SubSeq(window, first, Len(window))

trim(window) == NotBefore(window, now - FAILURE_WINDOW)

sweep(f) == IF Cardinality({ k \in Key : f[k] # <<>> }) > SWEEP_ABOVE_KEYS
            THEN [k \in Key |-> trim(f[k])] ELSE f

\* A public address that is not a proxy's names one client.
distinguishing_ip(a) == a \in Distinct

\* Mutant: every failure of a shared address may refuse everyone behind it.
lockout_keys_mutant(u, a) == {<<"user", u>>, IF distinguishing_ip(a) THEN <<"ip", a>>
                                                               ELSE SHARED_IP_KEY}

\* The counters that may refuse an attempt ...
lockout_keys(u, a) == {<<"user", u>>} \cup IF distinguishing_ip(a) THEN {<<"ip", a>>} ELSE {}
\* ... and those a failed one is recorded against.
login_throttle_keys(u, a) ==
    lockout_keys(u, a) \cup IF distinguishing_ip(a) THEN {} ELSE {SHARED_IP_KEY}

\* Mutant: one failure more than the limit is let through.
throttled_mutant(u, a) == \E k \in lockout_keys(u, a) : Len(trim(fails[k])) > MAX_FAILURES

throttled(u, a) == \E k \in lockout_keys(u, a) : Len(trim(fails[k])) >= MAX_FAILURES

record_login_failure(u, a) ==
    LET f == sweep(fails)
    IN  [k \in Key |-> IF k \in login_throttle_keys(u, a) THEN Append(trim(f[k]), now)
                                                          ELSE f[k]]

trimmed(u, a) == [k \in Key |-> IF k \in lockout_keys(u, a) THEN trim(fails[k])
                                                             ELSE fails[k]]
clear_failures(f, u) == [f EXCEPT ![<<"user", u>>] = <<>>]

shared_spray_delay == Len(trim(fails[SHARED_IP_KEY])) >= MAX_SHARED_FAILURES
Sleepers == { t \in Thread : req[t].pc = "sleep" }

----------------------------------------------------------------------------
(* Sessions and passwords *)

access_expired(u) == users[u].until <= now

earlier(a, b) == IF a < b THEN a ELSE b

FreeToken(table) ==
    CHOOSE k \in Token : table[k] = NoSession /\ \A m \in 1..(k - 1) : table[m] # NoSession

\* Mutant: a session has the full lifetime whatever the account's end date.
issue_session_mutant(table, u, g, until) ==
    [table EXCEPT ![FreeToken(table)] =
        [user |-> u, gen |-> g, seen |-> now, revoked |-> FALSE,
         expires |-> now + ABSOLUTE_LIFETIME]]

\* A new token is always minted, and the session ends with the account at the latest.
\* g is the generation of the credential it rests on.
issue_session(table, u, g, until) ==
    [table EXCEPT ![FreeToken(table)] =
        [user |-> u, gen |-> g, seen |-> now, revoked |-> FALSE,
         expires |-> earlier(now + ABSOLUTE_LIFETIME, until)]]
TokenLeft == \E k \in Token : sess[k] = NoSession

revoke_all_sessions(u) ==
    [k \in Token |-> IF sess[k].user = u THEN [sess[k] EXCEPT !.revoked = TRUE] ELSE sess[k]]

Resolvable(k) ==
    /\ sess[k] # NoSession /\ ~sess[k].revoked
    /\ now < sess[k].expires
    /\ now - sess[k].seen <= IDLE_TIMEOUT
    /\ users[sess[k].user].active
    /\ ~access_expired(sess[k].user)

\* Mutant: a password change leaves the other sessions alone.
set_password_mutant(u, must, reissue) ==
    /\ users' = [users EXCEPT ![u].pw = gen[u] + 1, ![u].weak = FALSE, ![u].must = must]
    /\ gen' = [gen EXCEPT ![u] = @ + 1]
    /\ chosen' = [chosen EXCEPT ![u] = gen[u] + 1]
    /\ sess' = IF reissue THEN issue_session(sess, u, gen[u] + 1, users[u].until) ELSE sess

\* A password nobody has used before, and every session of the account revoked; the
\* owner's own change then gets a new session.
set_password(u, must, reissue) ==
    /\ users' = [users EXCEPT ![u].pw = gen[u] + 1, ![u].weak = FALSE, ![u].must = must]
    /\ gen' = [gen EXCEPT ![u] = @ + 1]
    /\ chosen' = [chosen EXCEPT ![u] = gen[u] + 1]
    /\ sess' = IF reissue THEN issue_session(revoke_all_sessions(u), u, gen[u] + 1,
                                                   users[u].until)
                                  ELSE revoke_all_sessions(u)

NewUser(r, must, until) == [role |-> r, active |-> TRUE, must |-> must, pw |-> 0,
                            weak |-> FALSE, until |-> until]

Overtakes(u, g) == overtaken' = IF gen[u] = g THEN overtaken ELSE overtaken \cup {u}

----------------------------------------------------------------------------
(* Signing in: authenticate and the login route *)

\* The lockout keys are looked at, then the spray delay is paid if a sleeper's slot is
\* free.  The delay does not look at the address.
LoginCheck(t, u, a) ==
    /\ Spend("login")
    /\ fails' = trimmed(u, a)
    /\ IF throttled(u, a)
       THEN Begin(t, [pc |-> "refused", user |-> u, addr |-> a,
                      own |-> Len(trim(fails[<<"user", u>>])) >= MAX_FAILURES])
       ELSE Begin(t, [pc |-> IF shared_spray_delay
                                /\ Cardinality(Sleepers) < MAX_CONCURRENT_SHARED_DELAYS
                             THEN "sleep" ELSE "login",
                      user |-> u, addr |-> a])
    /\ UNCHANGED <<now, users, sess, history>>

\* The 429.
Refused(t) ==
    /\ req[t].pc = "refused" /\ Goto(t, Idle)
    /\ UNCHANGED <<now, users, sess, fails, left, history>>

Wake(t) ==
    /\ req[t].pc = "sleep" /\ Goto(t, [req[t] EXCEPT !.pc = "login"])
    /\ UNCHANGED <<now, users, sess, fails, left, history>>

\* The row is read and the password verified.  No such user, a wrong password, a
\* disabled and an expired account are one failure.
LoginVerify(t, right) ==
    /\ req[t].pc = "login"
    /\ LET u == req[t].user
       IN  IF /\ Exists(u) /\ right
              /\ users[u].active /\ ~access_expired(u)
           THEN /\ Goto(t, [pc |-> "verified", user |-> u, pw |-> users[u].pw,
                            weak |-> users[u].weak, gen |-> gen[u]])
                /\ UNCHANGED fails
           ELSE Goto(t, Idle) /\ fails' = record_login_failure(u, req[t].addr)
    /\ UNCHANGED <<now, users, sess, left, history>>

\* Mutant: the upgrade writes what the account was created with.
Rehashed_mutant(u, weak, p) == [users EXCEPT ![u].pw = 0, ![u].weak = FALSE]

\* A hash of a lower cost is replaced by a new one of the password just typed.
Rehashed(u, weak, p) == IF weak THEN [users EXCEPT ![u].pw = p, ![u].weak = FALSE] ELSE users

\* The counter of the account is cleared, the session inserted, the transaction
\* committed.
LoginIssue(t) ==
    /\ req[t].pc = "verified" /\ TokenLeft
    /\ LET u == req[t].user
       IN  /\ users' = Rehashed(u, req[t].weak, req[t].pw)
           /\ sess'  = issue_session(sess, u, req[t].gen, users[u].until)
           /\ fails' = clear_failures(fails, u)
           /\ Overtakes(u, req[t].gen)
    /\ Goto(t, Idle)
    /\ UNCHANGED <<now, left, gen, chosen, unseated>>

\* The audit row or the commit fails: the transaction is rolled back, the counter in
\* memory stays cleared.
LoginLost(t) ==
    /\ req[t].pc = "verified" /\ Spend("fault")
    /\ fails' = clear_failures(fails, req[t].user)
    /\ Goto(t, Idle)
    /\ UNCHANGED <<now, users, sess, history>>

----------------------------------------------------------------------------
(* Requests with a session *)

\* The middleware: the session is resolved, and its idle clock moved at most once per
\* TOUCH_INTERVAL.  Anonymous callers get a 401 and change nothing.
Resolve(t, k) ==
    /\ Spend("request") /\ Resolvable(k)
    /\ Begin(t, Principal(k))
    /\ sess' = IF now - sess[k].seen > TOUCH_INTERVAL THEN [sess EXCEPT ![k].seen = now]
                                                      ELSE sess
    /\ UNCHANGED <<now, users, fails, history>>

\* A handler that only reads, or refuses.
Read(t) ==
    /\ req[t].pc = "served" /\ Goto(t, Idle)
    /\ UNCHANGED <<now, users, sess, fails, left, history>>

\* Public: needs the cookie only.
Logout(k) ==
    /\ Spend("logout") /\ sess[k] # NoSession /\ ~sess[k].revoked
    /\ sess' = [sess EXCEPT ![k].revoked = TRUE]
    /\ UNCHANGED <<now, users, fails, req, history>>

\* change_password up to the check of the current password, under the login's limits.
\* A new password the policy refuses ends the request with the counter cleared.
PasswordVerify(t, a, right, acceptable) ==
    /\ req[t].pc = "served"
    /\ LET u == req[t].user
       IN  /\ ~throttled(u, a)
           /\ IF ~right
              THEN Goto(t, Idle) /\ fails' = record_login_failure(u, a)
              ELSE /\ fails' = clear_failures(trimmed(u, a), u)
                   /\ Goto(t, IF acceptable THEN [pc |-> "changing", user |-> u, gen |-> gen[u]]
                                            ELSE Idle)
    /\ UNCHANGED <<now, users, sess, left, history>>

PasswordWrite(t) ==
    /\ req[t].pc = "changing" /\ TokenLeft
    /\ set_password(req[t].user, FALSE, TRUE)
    /\ Overtakes(req[t].user, req[t].gen)
    /\ Goto(t, Idle)
    /\ UNCHANGED <<now, fails, left, unseated>>

----------------------------------------------------------------------------
(* Administration: require(ADMIN) looks at the principal, not at the row *)

AsAdmin(t) == /\ req[t].pc = "served"
              /\ at_least(req[t].role, "admin") /\ ~req[t].must
              /\ Goto(t, Idle)

AddUser(t, u, r) ==
    /\ AsAdmin(t) /\ ~Exists(u)
    /\ users' = [users EXCEPT ![u] = NewUser(r, TRUE, Never)]
    /\ UNCHANGED <<now, sess, fails, left, history>>

\* list_users, read_audit, security_posture, judge_pass_status.
AdminRead(t) == AsAdmin(t) /\ UNCHANGED <<now, users, sess, fails, left, history>>

ActiveAdmin(u) == Exists(u) /\ users[u].role = "admin" /\ users[u].active

\* Mutant: an administrator may give up the own role.
UpdateRole_mutant(t, u, r) ==
    /\ AsAdmin(t) /\ Exists(u)
    /\ users' = [users EXCEPT ![u].role = r]
    /\ unseated' = (unseated \/ ~ActiveAdmin(req[t].user))
    /\ UNCHANGED <<now, sess, fails, left, gen, chosen, overtaken>>

\* update_user with a role: never the own admin role.
UpdateRole(t, u, r) ==
    /\ AsAdmin(t) /\ Exists(u)
    /\ ~(u = req[t].user /\ r # "admin")
    /\ users' = [users EXCEPT ![u].role = r]
    /\ unseated' = (unseated \/ ~ActiveAdmin(req[t].user))
    /\ UNCHANGED <<now, sess, fails, left, gen, chosen, overtaken>>

\* update_user with is_active: never the own account; disabling ends the sessions.
UpdateActive(t, u, active) ==
    /\ AsAdmin(t) /\ Exists(u)
    /\ ~(u = req[t].user /\ ~active)
    /\ users' = [users EXCEPT ![u].active = active]
    /\ IF active THEN UNCHANGED <<sess, gen>>
                 ELSE sess' = revoke_all_sessions(u) /\ gen' = [gen EXCEPT ![u] = @ + 1]
    /\ unseated' = (unseated \/ ~ActiveAdmin(req[t].user))
    /\ UNCHANGED <<now, fails, left, chosen, overtaken>>

ResetPassword(t, u) ==
    /\ AsAdmin(t) /\ Exists(u)
    /\ set_password(u, TRUE, FALSE)
    /\ UNCHANGED <<now, fails, left, overtaken, unseated>>

\* gemp-bootstrap: refused once there is an account, unless forced.  A generated
\* password has to be changed.
Bootstrap(u, forced, generated) ==
    /\ Spend("bootstrap")
    /\ forced \/ \A v \in User : ~Exists(v)
    /\ ~Exists(u)
    /\ users' = [users EXCEPT ![u] = NewUser("admin", generated, Never)]
    /\ UNCHANGED <<now, sess, fails, req, history>>

----------------------------------------------------------------------------
(* The environment *)

Tick ==
    /\ Spend("tick") /\ now < MaxTime
    /\ now' = now + 1
    /\ UNCHANGED <<users, sess, fails, req, history>>

\* The process ends: requests and their transactions are gone, and with them the
\* counters, which live in memory.
Restart ==
    /\ Spend("restart")
    /\ req' = [t \in Thread |-> Idle]
    /\ fails' = NoFailures
    /\ UNCHANGED <<now, users, sess, history>>

\* DEFAULT_N was raised by an upgrade: stored hashes are now below the current cost.
RaiseCost ==
    /\ Spend("restart")
    /\ req' = [t \in Thread |-> Idle]
    /\ fails' = NoFailures
    /\ users' = [u \in User |-> IF Exists(u) THEN [users[u] EXCEPT !.weak = TRUE] ELSE users[u]]
    /\ UNCHANGED <<now, sess, history>>

Init ==
    /\ now = 0
    /\ users = [u \in User |-> NoUser]
    /\ sess = [k \in Token |-> NoSession]
    /\ fails = NoFailures
    /\ req = [t \in Thread |-> Idle]
    /\ left \in Budgets
    /\ gen = [u \in User |-> 0] /\ chosen = gen
    /\ overtaken = {} /\ unseated = FALSE

Requests ==
    \/ \E u \in User, forced, generated \in BOOLEAN : Bootstrap(u, forced, generated)
    \/ \E k \in Token : Logout(k)
    \/ \E t \in Thread :
         \/ Refused(t) \/ Wake(t) \/ LoginIssue(t) \/ LoginLost(t)
         \/ Read(t) \/ AdminRead(t) \/ PasswordWrite(t)
         \/ \E right \in BOOLEAN : LoginVerify(t, right)
         \/ \E k \in Token : Resolve(t, k)
         \/ \E a \in Addr, right, acceptable \in BOOLEAN :
              PasswordVerify(t, a, right, acceptable)
         \/ \E u \in User :
              \/ \E r \in ROLES : AddUser(t, u, r) \/ UpdateRole(t, u, r)
              \/ \E active \in BOOLEAN : UpdateActive(t, u, active)
              \/ ResetPassword(t, u)
              \/ \E a \in Addr : LoginCheck(t, u, a)

Next == Tick \/ Restart \/ RaiseCost \/ Requests

Spec == Init /\ [][Next]_vars

----------------------------------------------------------------------------
(* Properties *)

Request ==
    {Idle}
    \cup [pc : {"login", "sleep"}, user : User, addr : Addr]
    \cup [pc : {"refused"}, user : User, addr : Addr, own : BOOLEAN]
    \cup [pc : {"verified"}, user : User, pw : Nat, weak : BOOLEAN, gen : Nat]
    \cup [pc : {"served"}, token : Token, user : User, role : ROLES, must : BOOLEAN]
    \cup [pc : {"changing"}, user : User, gen : Nat]
    \cup [pc : {"issuing"}, user : User, at : Time]      \* a Judge Pass, see JudgePass

\* Type correctness of the tables, the counters and the request threads.
AccountsTypeOK ==
    /\ now \in Time
    /\ users \in [User -> UserRow \cup {NoUser}]
    /\ sess \in [Token -> SessionRow \cup {NoSession}]
    /\ fails \in [Key -> Seq(Time)]
    /\ req \in [Thread -> Request]
    /\ gen \in [User -> Nat] /\ chosen \in [User -> Nat] /\ overtaken \subseteq User /\ unseated \in BOOLEAN

\* "Every other session for this account dies": no session that rests on a password, or
\* on an enabled account, from before the last change, reset or disabling is unrevoked,
\* unless its request was between checking the password and its commit at that moment.
EndedSessionsStayDead ==
    \A k \in Token : sess[k] # NoSession /\ ~sess[k].revoked
        => sess[k].gen = gen[sess[k].user] \/ sess[k].user \in overtaken

\* The password that works is the one set last, unless a sign-in that upgrades the cost
\* of the hash was between reading it and its commit when it was set.
PasswordIsLatest ==
    \A u \in User : Exists(u) => users[u].pw = chosen[u] \/ u \in overtaken

\* There is an active administrator from the first one on, unless someone took the role
\* away after having lost it between the middleware and the handler.
AdminRemains ==
    [][(\E u \in User : ActiveAdmin(u)) =>
           unseated' \/ \E u \in User : ActiveAdmin(u)']_vars

\* Checking and recording are two steps, so concurrent guesses overrun the limit, but by
\* no more than the requests that can be in flight: it is never exceeded by waiting,
\* clearing, or a second address.
GuessesBounded ==
    \A u \in User :
        Len(trim(fails[<<"user", u>>])) < MAX_FAILURES + Cardinality(Thread)

\* The shared bucket "costs time rather than access": behind an address that does not
\* tell callers apart only failures on the account itself refuse an attempt on it.
NoSharedLockout ==
    \A t \in Thread : req[t].pc = "refused" /\ req[t].addr \notin Distinct => req[t].own
============================================================================
