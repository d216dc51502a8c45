--------------------------- MODULE AccountsProofs ---------------------------
(***************************************************************************)
(* Theorems about the accounts, sessions, throttle and passes for every    *)
(* set of users, addresses and request threads, every length of the        *)
(* windows and lifetimes and every sequence of requests.                   *)
(***************************************************************************)
EXTENDS JudgePass, FiniteSetTheorems, NaturalsInduction, WellFoundedInduction, TLAPS

----------------------------------------------------------------------------
(* Rows *)

\* A set of naturals has a least member.
LEMMA LeastOf ==
    ASSUME NEW S \in SUBSET Nat, S # {}
    PROVE  \E n \in S : \A m \in S : n <= m
<1> DEFINE R == { p \in Nat \X Nat : p[1] < p[2] }
<1>1. IsWellFoundedOn(R, Nat)
  BY NatLessThanWellFounded, Zenon DEF OpToRel
<1>2. PICK n \in S : \A m \in S : <<m, n>> \notin R
  <2> HIDE DEF R
  <2> QED
    BY <1>1, WFMin
<1>3. \A m \in S : ~(m < n)
  BY <1>2
<1> QED
  BY <1>3

\* The constants' kinds.
LEMMA Sizes ==
    /\ MaxTokens \in Nat \ {0} /\ MAX_FAILURES \in Nat \ {0} /\ FAILURE_WINDOW \in Nat
    /\ MaxTime \in Nat /\ ABSOLUTE_LIFETIME \in Nat /\ Never \in Nat
    /\ judge_pass_until \in Nat /\ judge_pass_until # Never
    /\ judge_pass_daily_max \in Nat /\ WINDOW \in Nat
    /\ "none" \notin User /\ Email \subseteq User
<1>1. /\ MaxTokens \in Nat \ {0} /\ MAX_FAILURES \in Nat \ {0}
      /\ FAILURE_WINDOW \in Nat \ {0}
  BY AccountsAssumption
<1>2. MaxTime \in Nat /\ ABSOLUTE_LIFETIME \in Nat
  BY AccountsAssumption
<1>3. Never \in Nat /\ "none" \notin User
  BY AccountsAssumption
<1>4. /\ judge_pass_until \in Nat /\ judge_pass_until < Never
      /\ judge_pass_daily_max \in Nat /\ WINDOW \in Nat /\ Email \subseteq User
  BY PassAssumption
<1> QED
  BY <1>1, <1>2, <1>3, <1>4

\* A row of table user, and what the handlers write into one.
LEMMA UserRowIs ==
    ASSUME NEW x \in UserRow
    PROVE  /\ x # NoUser
           /\ x.role \in ROLES /\ x.active \in BOOLEAN /\ x.must \in BOOLEAN /\ x.pw \in Nat
           /\ x.weak \in BOOLEAN /\ x.until \in Nat
<1>1. /\ x.role \in ROLES /\ x.active \in BOOLEAN /\ x.must \in BOOLEAN /\ x.pw \in Nat
      /\ x.weak \in BOOLEAN /\ x.until \in Nat
  BY DEF UserRow
<1>2. NoUser.role = "none"
  BY DEF NoUser
<1>3. "none" \notin ROLES
  BY DEF ROLES
<1> QED
  BY <1>1, <1>2, <1>3

LEMMA UserRowWrites ==
    ASSUME NEW x \in UserRow
    PROVE  /\ \A r \in ROLES : [x EXCEPT !.role = r] \in UserRow
           /\ \A b \in BOOLEAN : [x EXCEPT !.active = b] \in UserRow
           /\ \A p \in Nat : [x EXCEPT !.pw = p, !.weak = FALSE] \in UserRow
           /\ \A p \in Nat, b \in BOOLEAN :
                 [x EXCEPT !.pw = p, !.weak = FALSE, !.must = b] \in UserRow
  BY DEF UserRow

LEMMA NewUserIs ==
    ASSUME NEW r \in ROLES, NEW must \in BOOLEAN, NEW until \in Nat
    PROVE  NewUser(r, must, until) \in UserRow
  BY DEF NewUser, UserRow

\* A row of table session.
LEMMA SessionRowIs ==
    ASSUME NEW x \in SessionRow
    PROVE  /\ x # NoSession
           /\ x.user \in User /\ x.gen \in Nat /\ x.seen \in Time /\ x.expires \in Nat
           /\ x.revoked \in BOOLEAN
           /\ [x EXCEPT !.revoked = TRUE] \in SessionRow
           /\ \A n \in Time : [x EXCEPT !.seen = n] \in SessionRow
<1>1. /\ x.user \in User /\ x.gen \in Nat /\ x.seen \in Time /\ x.expires \in Nat
      /\ x.revoked \in BOOLEAN
  BY DEF SessionRow
<1>2. NoSession.user = "none"
  BY DEF NoSession
<1>3. /\ [x EXCEPT !.revoked = TRUE] \in SessionRow
      /\ \A n \in Time : [x EXCEPT !.seen = n] \in SessionRow
  BY DEF SessionRow
<1> QED
  BY <1>1, <1>2, <1>3, Sizes

\* The token of a new session is one nobody has, the least free one here.
LEMMA FreeTokenIs ==
    ASSUME NEW table, \E k \in Token : table[k] = NoSession
    PROVE  FreeToken(table) \in Token /\ table[FreeToken(table)] = NoSession
<1> DEFINE S == { k \in Token : table[k] = NoSession }
<1>1. S \in SUBSET Nat /\ S # {}
  BY DEF Token
<1>2. PICK k \in S : \A m \in S : k <= m
  <2> HIDE DEF S
  <2> QED
    BY <1>1, LeastOf
<1>3. \A m \in 1..(k - 1) : table[m] # NoSession
  <2> SUFFICES ASSUME NEW m \in 1..(k - 1), table[m] = NoSession PROVE FALSE
    OBVIOUS
  <2>1. m \in Token /\ ~(k <= m)
    BY <1>2, Sizes DEF Token
  <2> QED
    BY <1>2, <2>1
<1>4. \E j \in Token : table[j] = NoSession /\ \A m \in 1..(j - 1) : table[m] # NoSession
  BY <1>2, <1>3
<1> QED
  BY <1>4 DEF FreeToken

----------------------------------------------------------------------------
(* Types *)

UsersOK == users \in [User -> UserRow \cup {NoUser}]
SessOK  == sess \in [Token -> SessionRow \cup {NoSession}]
FailsOK == fails \in [Key -> Seq(Time)]
ReqOK   == req \in [Thread -> Request]
HistOK  == /\ gen \in [User -> Nat] /\ chosen \in [User -> Nat]
           /\ overtaken \subseteq User /\ unseated \in BOOLEAN
PassOK  == /\ enabled \in BOOLEAN
           /\ passes \in [Email -> PassRow \cup {NoPass}]
           /\ tasks \subseteq Email

LEMMA TypeParts ==
    TypeOK <=> now \in Time /\ UsersOK /\ SessOK /\ FailsOK /\ ReqOK /\ HistOK /\ PassOK
  BY DEF TypeOK, AccountsTypeOK, UsersOK, SessOK, FailsOK, ReqOK, HistOK, PassOK

\* Accounts are never deleted: whoever has a session, or a request past its check of the
\* password or the session, has an account.
Owned ==
    /\ \A k \in Token : sess[k] # NoSession => Exists(sess[k].user)
    /\ \A t \in Thread : req[t].pc \in {"verified", "served", "changing"} => Exists(req[t].user)
    /\ \A t \in Thread : req[t].pc = "issuing" => req[t].user \in Email
    /\ \A e \in tasks : passes[e] # NoPass

TypeInv == TypeOK /\ Owned

\* An account that exists has a row.
LEMMA ExistsIs ==
    ASSUME UsersOK, NEW u \in User
    PROVE  Exists(u) <=> users[u] \in UserRow
  BY UserRowIs DEF UsersOK, Exists

\* What each step of a request thread holds.
LEMMA RequestIs ==
    ASSUME NEW x \in Request
    PROVE  /\ x.pc \in {"idle", "login", "sleep", "refused", "verified", "served", "changing", "issuing"}
           /\ x.pc \in {"login", "sleep"} => x \in [pc : {"login", "sleep"}, user : User, addr : Addr]
           /\ x.pc = "refused" => x \in [pc : {"refused"}, user : User, addr : Addr, own : BOOLEAN]
           /\ x.pc = "verified" => x \in [pc : {"verified"}, user : User, pw : Nat, weak : BOOLEAN, gen : Nat]
           /\ x.pc = "served" => x \in [pc : {"served"}, token : Token, user : User, role : ROLES, must : BOOLEAN]
           /\ x.pc = "changing" => x \in [pc : {"changing"}, user : User, gen : Nat]
           /\ x.pc = "issuing" => x \in [pc : {"issuing"}, user : User, at : Time]
  BY DEF Request, Idle

\* A request thread moves on.
LEMMA GotoType ==
    ASSUME ReqOK, NEW t \in Thread, NEW s \in Request, Goto(t, s)
    PROVE  ReqOK' /\ req'[t] = s /\ \A u \in Thread \ {t} : req'[u] = req[u]
  BY DEF ReqOK, Goto

LEMMA BeginType ==
    ASSUME ReqOK, NEW t \in Thread, NEW s \in Request, Begin(t, s)
    PROVE  /\ ReqOK' /\ req'[t] = s /\ \A u \in Thread \ {t} : req'[u] = req[u]
           /\ req[t] = Idle
  BY DEF ReqOK, Begin

\* revoke_all_sessions: no session is made or removed, and those of the account are ended.
LEMMA RevokedIs ==
    ASSUME SessOK, NEW u \in User, NEW k \in Token
    PROVE  /\ revoke_all_sessions(u) \in [Token -> SessionRow \cup {NoSession}]
           /\ sess[k] = NoSession => revoke_all_sessions(u)[k] = NoSession
           /\ sess[k] # NoSession =>
                 /\ revoke_all_sessions(u)[k] \in SessionRow
                 /\ revoke_all_sessions(u)[k].user = sess[k].user
                 /\ revoke_all_sessions(u)[k].gen = sess[k].gen
                 /\ revoke_all_sessions(u)[k].expires = sess[k].expires
                 /\ IF sess[k].user = u THEN revoke_all_sessions(u)[k].revoked = TRUE
                                        ELSE revoke_all_sessions(u)[k] = sess[k]
<1> DEFINE rev(j) == IF sess[j].user = u THEN [sess[j] EXCEPT !.revoked = TRUE] ELSE sess[j]
<1>0. revoke_all_sessions(u) = [j \in Token |-> rev(j)]
  BY DEF revoke_all_sessions
<1>1. ASSUME NEW j \in Token, sess[j] = NoSession PROVE rev(j) = NoSession
  <2>1. sess[j].user = "none"
    BY <1>1 DEF NoSession
  <2>2. sess[j].user # u
    BY <2>1, Sizes
  <2> QED
    BY <1>1, <2>2
<1>2. ASSUME NEW j \in Token, sess[j] # NoSession
      PROVE  /\ rev(j) \in SessionRow /\ rev(j).user = sess[j].user /\ rev(j).gen = sess[j].gen
             /\ rev(j).expires = sess[j].expires
             /\ IF sess[j].user = u THEN rev(j).revoked = TRUE ELSE rev(j) = sess[j]
  <2>1. sess[j] \in SessionRow
    BY <1>2 DEF SessOK
  <2>2. [sess[j] EXCEPT !.revoked = TRUE] \in SessionRow
    BY <2>1, SessionRowIs
  <2>3. /\ [sess[j] EXCEPT !.revoked = TRUE].user = sess[j].user
        /\ [sess[j] EXCEPT !.revoked = TRUE].gen = sess[j].gen
        /\ [sess[j] EXCEPT !.revoked = TRUE].expires = sess[j].expires
        /\ [sess[j] EXCEPT !.revoked = TRUE].revoked = TRUE
    BY <2>1 DEF SessionRow
  <2> QED
    BY <2>1, <2>2, <2>3
<1> HIDE DEF rev
<1>3. \A j \in Token : rev(j) \in SessionRow \cup {NoSession}
  BY <1>1, <1>2
<1> QED
  BY <1>0, <1>1, <1>2, <1>3

\* issue_session: one row more, at a token that was free.
LEMMA IssuedIs ==
    ASSUME NEW table \in [Token -> SessionRow \cup {NoSession}],
           \E k \in Token : table[k] = NoSession,
           now \in Time, NEW u \in User, NEW g \in Nat, NEW until \in Nat
    PROVE  /\ issue_session(table, u, g, until) \in [Token -> SessionRow \cup {NoSession}]
           /\ \E f \in Token :
                 /\ table[f] = NoSession
                 /\ issue_session(table, u, g, until)[f] \in SessionRow
                 /\ issue_session(table, u, g, until)[f].user = u
                 /\ issue_session(table, u, g, until)[f].gen = g
                 /\ issue_session(table, u, g, until)[f].expires <= until
                 /\ \A k \in Token \ {f} : issue_session(table, u, g, until)[k] = table[k]
<1> DEFINE f == FreeToken(table)
           x == earlier(now + ABSOLUTE_LIFETIME, until)
           row == [user |-> u, gen |-> g, seen |-> now, revoked |-> FALSE, expires |-> x]
<1>1. f \in Token /\ table[f] = NoSession
  BY FreeTokenIs
<1>2. x \in Nat /\ x <= until
  BY Sizes DEF earlier, Time
<1>3. issue_session(table, u, g, until) = [table EXCEPT ![f] = row]
  BY DEF issue_session
<1> HIDE DEF x, f
<1>4. row \in SessionRow
  BY <1>2 DEF SessionRow
<1>5. row.user = u /\ row.gen = g /\ row.expires = x
  OBVIOUS
<1> HIDE DEF row
<1> QED
  BY <1>1, <1>2, <1>3, <1>4, <1>5

----------------------------------------------------------------------------
(* The windows of the throttle *)

\* Trimming drops the attempts before the first one that is recent enough.
LEMMA NotBeforeIs ==
    ASSUME NEW s \in Seq(Time), NEW c \in Int
    PROVE  \E k \in 1..Len(s)+1 :
              /\ NotBefore(s, c) = SubSeq(s, k, Len(s))
              /\ \A i \in 1..k-1 : s[i] < c
              /\ k <= Len(s) => s[k] >= c
<1> DEFINE recent == { i \in DOMAIN s : s[i] >= c }
           first == CHOOSE i \in recent : \A j \in recent : i <= j
<1>0. Len(s) \in Nat /\ DOMAIN s = 1..Len(s) /\ \A i \in 1..Len(s) : s[i] \in Int
  BY Sizes DEF Time
<1>1. CASE recent = {}
  <2>1. NotBefore(s, c) = <<>>
    BY <1>1 DEF NotBefore
  <2>2. SubSeq(s, Len(s) + 1, Len(s)) = <<>>
    BY <1>0
  <2>3. \A i \in 1..Len(s) : s[i] < c
    BY <1>0, <1>1
  <2>4. (Len(s) + 1) - 1 = Len(s) /\ Len(s) + 1 \in 1..Len(s)+1 /\ ~(Len(s) + 1 <= Len(s))
    BY <1>0
  <2> QED
    BY <2>1, <2>2, <2>3, <2>4
<1>2. CASE recent # {}
  <2>1. recent \in SUBSET Nat
    BY <1>0
  <2>2. first \in recent /\ \A j \in recent : first <= j
    <3> HIDE DEF recent
    <3> QED
      BY <1>2, <2>1, LeastOf
  <2>3. NotBefore(s, c) = SubSeq(s, first, Len(s))
    BY <1>2 DEF NotBefore
  <2> HIDE DEF first
  <2>4. first \in 1..Len(s) /\ s[first] >= c
    BY <1>0, <2>2
  <2>5. ASSUME NEW i \in 1..first-1 PROVE s[i] < c
    <3>1. i \in 1..Len(s) /\ ~(first <= i)
      BY <1>0, <2>4
    <3>2. i \notin recent
      BY <2>2, <3>1
    <3> QED
      BY <1>0, <3>1, <3>2
  <2>6. first \in 1..Len(s)+1
    BY <1>0, <2>4
  <2> QED
    BY <2>3, <2>4, <2>5, <2>6
<1> QED
  BY <1>1, <1>2

LEMMA NotBeforeType ==
    ASSUME NEW s \in Seq(Time), NEW c \in Int
    PROVE  NotBefore(s, c) \in Seq(Time) /\ Len(NotBefore(s, c)) \in Nat
<1>1. PICK k \in 1..Len(s)+1 : NotBefore(s, c) = SubSeq(s, k, Len(s))
  BY NotBeforeIs
<1> QED
  BY <1>1

\* A second trim at the same instant drops nothing.
LEMMA TrimmedTwice ==
    ASSUME NEW s \in Seq(Time), NEW c \in Int
    PROVE  Len(NotBefore(NotBefore(s, c), c)) = Len(NotBefore(s, c))
<1> DEFINE r == NotBefore(s, c)
<1>1. PICK k \in 1..Len(s)+1 :
         /\ r = SubSeq(s, k, Len(s))
         /\ k <= Len(s) => s[k] >= c
  BY NotBeforeIs
<1>2. r \in Seq(Time)
  BY NotBeforeType
<1>t. \A i \in 1..Len(s) : s[i] \in Int
  BY Sizes DEF Time
<1> HIDE DEF r
<1>3. PICK m \in 1..Len(r)+1 :
         /\ NotBefore(r, c) = SubSeq(r, m, Len(r))
         /\ \A i \in 1..m-1 : r[i] < c
  BY <1>2, NotBeforeIs
<1>4. m = 1
  <2> SUFFICES ASSUME m # 1 PROVE FALSE
    OBVIOUS
  <2>1. 1 \in 1..m-1 /\ Len(r) >= 1
    BY <1>2, <1>3
  <2>2. r[1] < c
    BY <1>3, <2>1
  <2>3. k <= Len(s)
    BY <1>1, <2>1
  <2>4. r[1] = s[k]
    BY <1>1, <2>1, <2>3
  <2>5. k \in 1..Len(s)
    BY <2>3
  <2> QED
    BY <1>1, <1>t, <2>2, <2>3, <2>4, <2>5
<1> QED
  BY <1>2, <1>3, <1>4 DEF r

\* Time only takes attempts out of the window.
LEMMA TrimmedLater ==
    ASSUME NEW s \in Seq(Time), NEW c \in Int, NEW d \in Int, c <= d
    PROVE  Len(NotBefore(s, d)) <= Len(NotBefore(s, c))
<1>t. \A i \in 1..Len(s) : s[i] \in Int
  BY Sizes DEF Time
<1>1. PICK k \in 1..Len(s)+1 : /\ NotBefore(s, c) = SubSeq(s, k, Len(s))
                               /\ \A i \in 1..k-1 : s[i] < c
  BY NotBeforeIs
<1>2. PICK m \in 1..Len(s)+1 : /\ NotBefore(s, d) = SubSeq(s, m, Len(s))
                               /\ m <= Len(s) => s[m] >= d
  BY NotBeforeIs
<1>3. k <= m
  <2> SUFFICES ASSUME m < k PROVE FALSE
    OBVIOUS
  <2>1. m \in 1..k-1 /\ m \in 1..Len(s)
    OBVIOUS
  <2>2. s[m] < c /\ s[m] >= d /\ s[m] \in Int
    BY <1>t, <1>1, <1>2, <2>1
  <2> QED
    BY <2>2
<1>4. Len(SubSeq(s, k, Len(s))) = Len(s) - k + 1 /\ Len(SubSeq(s, m, Len(s))) = Len(s) - m + 1
  OBVIOUS
<1>5. Len(s) - m + 1 <= Len(s) - k + 1
  BY <1>3
<1> QED
  BY <1>1, <1>2, <1>4, <1>5

\* One attempt more is at most one more in the window.
LEMMA TrimmedAppend ==
    ASSUME NEW s \in Seq(Time), NEW x \in Time, NEW c \in Int
    PROVE  Len(NotBefore(Append(s, x), c)) <= Len(NotBefore(s, c)) + 1
<1> DEFINE r == Append(s, x)
<1>0. r \in Seq(Time) /\ Len(r) = Len(s) + 1 /\ \A i \in 1..Len(s) : r[i] = s[i]
  OBVIOUS
<1>t. Len(s) \in Nat /\ \A i \in 1..Len(s) : s[i] \in Int
  BY Sizes DEF Time
<1> HIDE DEF r
<1>1. PICK k \in 1..Len(s)+1 : /\ NotBefore(s, c) = SubSeq(s, k, Len(s))
                               /\ \A i \in 1..k-1 : s[i] < c
  BY NotBeforeIs
<1>2. PICK m \in 1..Len(r)+1 : /\ NotBefore(r, c) = SubSeq(r, m, Len(r))
                               /\ m <= Len(r) => r[m] >= c
  BY <1>0, NotBeforeIs
<1>3. k <= m
  <2> SUFFICES ASSUME m < k PROVE FALSE
    BY <1>0
  <2>1. m \in 1..k-1 /\ m \in 1..Len(s) /\ m <= Len(r)
    BY <1>0
  <2>2. s[m] < c /\ s[m] >= c /\ s[m] \in Int
    BY <1>0, <1>t, <1>1, <1>2, <2>1
  <2> QED
    BY <2>2
<1>4. Len(SubSeq(s, k, Len(s))) = Len(s) - k + 1
  OBVIOUS
<1>5. Len(SubSeq(r, m, Len(r))) = Len(r) - m + 1
  BY <1>0
<1>6. Len(r) - m + 1 <= (Len(s) - k + 1) + 1
  BY <1>0, <1>3, <1>t
<1> QED
  BY <1>1, <1>2, <1>4, <1>5, <1>6 DEF r

\* How many recent failures a table of windows holds against an account.
Depth(f, u) == Len(trim(f[<<"user", u>>]))

LEMMA CutoffType ==
    ASSUME now \in Time PROVE now - FAILURE_WINDOW \in Int
  BY Sizes DEF Time

\* The keys of an account are among the keys.
LEMMA AccountKey ==
    ASSUME NEW u \in User PROVE <<"user", u>> \in Key
  BY DEF Key

\* A counter is cleared.
LEMMA ClearType ==
    ASSUME NEW f \in [Key -> Seq(Time)], NEW u
    PROVE  clear_failures(f, u) \in [Key -> Seq(Time)]
<1> DEFINE K == <<"user", u>>
           none == <<>>
           S == Seq(Time)
<1>1. clear_failures(f, u) = [f EXCEPT ![K] = none]
  BY DEF clear_failures
<1>2. none \in S
  OBVIOUS
<1> HIDE DEF K, none
<1> QED
  BY <1>1, <1>2

\* What the throttle writes are windows again.
LEMMA FailsWrites ==
    ASSUME FailsOK, now \in Time, NEW u \in User, NEW a \in Addr
    PROVE  /\ NoFailures \in [Key -> Seq(Time)]
           /\ trimmed(u, a) \in [Key -> Seq(Time)]
           /\ record_login_failure(u, a) \in [Key -> Seq(Time)]
<1>1. \A k \in Key : fails[k] \in Seq(Time)
  BY DEF FailsOK
<1>2. \A s \in Seq(Time) : trim(s) \in Seq(Time)
  BY CutoffType, NotBeforeType DEF trim
<1>3. sweep(fails) \in [Key -> Seq(Time)]
  BY <1>1, <1>2 DEF sweep, FailsOK
<1>4. record_login_failure(u, a) \in [Key -> Seq(Time)]
  BY <1>2, <1>3 DEF record_login_failure
<1>5. trimmed(u, a) \in [Key -> Seq(Time)]
  BY <1>1, <1>2 DEF trimmed
<1> QED
  BY <1>4, <1>5 DEF NoFailures

\* Clearing adds no failure.
LEMMA DepthCleared ==
    ASSUME now \in Time, NEW u \in User, NEW f \in [Key -> Seq(Time)]
    PROVE  /\ Depth(f, u) \in Nat
           /\ Depth(NoFailures, u) = 0
           /\ \A v : /\ Depth(clear_failures(f, v), u) \in Nat
                    /\ Depth(clear_failures(f, v), u) <= Depth(f, u)
<1> DEFINE K == <<"user", u>>
           c == now - FAILURE_WINDOW
<1>1. K \in Key /\ c \in Int
  BY AccountKey, CutoffType
<1>2. f[K] \in Seq(Time)
  BY <1>1
<1>3. Depth(f, u) \in Nat
  BY <1>1, <1>2, NotBeforeType DEF Depth, trim
<1>4. trim(<<>>) = <<>>
  BY DEF trim, NotBefore
<1>5. Depth(NoFailures, u) = 0
  BY <1>1, <1>4 DEF Depth, NoFailures
<1>6. ASSUME NEW v PROVE Depth(clear_failures(f, v), u) \in {Depth(f, u), 0}
  <2>1. clear_failures(f, v)[K] \in {f[K], <<>>}
    BY <1>1 DEF clear_failures
  <2> QED
    BY <1>4, <2>1 DEF Depth
<1> QED
  BY <1>3, <1>5, <1>6

\* A failed attempt adds at most one failure, and only to the account it was made on;
\* looking adds none.
LEMMA DepthWrites ==
    ASSUME FailsOK, now \in Time, NEW v \in User, NEW a \in Addr, NEW u \in User
    PROVE  /\ Depth(fails, u) \in Nat
           /\ Depth(trimmed(v, a), u) = Depth(fails, u)
           /\ Depth(record_login_failure(v, a), u) \in Nat
           /\ Depth(record_login_failure(v, a), u) <= Depth(fails, u) + 1
           /\ v # u => Depth(record_login_failure(v, a), u) = Depth(fails, u)
<1> DEFINE K == <<"user", u>>
           c == now - FAILURE_WINDOW
<1>1. K \in Key /\ c \in Int
  BY AccountKey, CutoffType
<1>2. ASSUME NEW s \in Seq(Time)
      PROVE  /\ trim(s) \in Seq(Time) /\ Len(trim(s)) \in Nat
             /\ Len(trim(trim(s))) = Len(trim(s))
             /\ Len(trim(Append(s, now))) <= Len(trim(s)) + 1
    <2> HIDE DEF c
    <2>1. \A r : trim(r) = NotBefore(r, c)
      BY DEF trim, c
    <2> QED
      BY <1>1, <2>1, NotBeforeType, TrimmedTwice, TrimmedAppend
<1>3. fails[K] \in Seq(Time)
  BY <1>1 DEF FailsOK
<1>4. Depth(fails, u) \in Nat
  BY <1>2, <1>3 DEF Depth
<1>6. Depth(trimmed(v, a), u) = Depth(fails, u)
  <2>1. trimmed(v, a)[K] \in {fails[K], trim(fails[K])}
    BY <1>1 DEF trimmed
  <2> QED
    BY <1>2, <1>3, <2>1 DEF Depth
<1>7. sweep(fails)[K] \in {fails[K], trim(fails[K])}
  BY <1>1 DEF sweep
<1>8. sweep(fails)[K] \in Seq(Time) /\ Len(trim(sweep(fails)[K])) = Len(trim(fails[K]))
  BY <1>2, <1>3, <1>7
<1>9. /\ Depth(record_login_failure(v, a), u) \in Nat
      /\ Depth(record_login_failure(v, a), u) <= Depth(fails, u) + 1
      /\ v # u => Depth(record_login_failure(v, a), u) = Depth(fails, u)
  <2>1. CASE K \in login_throttle_keys(v, a)
    <3>1. record_login_failure(v, a)[K] = Append(trim(sweep(fails)[K]), now)
      BY <1>1, <2>1 DEF record_login_failure
    <3> DEFINE w == trim(sweep(fails)[K])
    <3>2. w \in Seq(Time) /\ Len(trim(w)) = Len(trim(fails[K]))
      BY <1>2, <1>8
    <3> HIDE DEF w
    <3>3. Append(w, now) \in Seq(Time)
      BY <3>2
    <3>4. Len(trim(Append(w, now))) <= Len(trim(w)) + 1 /\ Len(trim(Append(w, now))) \in Nat
      BY <1>2, <3>2, <3>3
    <3>5. v = u
      BY <2>1 DEF login_throttle_keys, lockout_keys, SHARED_IP_KEY
    <3> QED
      BY <3>1, <3>2, <3>4, <3>5 DEF Depth, w
  <2>2. CASE K \notin login_throttle_keys(v, a)
    <3>1. record_login_failure(v, a)[K] = sweep(fails)[K]
      BY <1>1, <2>2 DEF record_login_failure
    <3>2. Depth(record_login_failure(v, a), u) = Depth(fails, u)
      BY <1>8, <3>1 DEF Depth
    <3> QED
      BY <1>4, <3>2
  <2> QED
    BY <2>1, <2>2
<1> QED
  BY <1>4, <1>6, <1>9

----------------------------------------------------------------------------
(* What a step may do to table user *)

\* A row written over an existing account leaves its end date alone.
Kept(u) == users'[u] \in UserRow /\ users'[u].until = users[u].until

LEMMA WriteUser ==
    ASSUME UsersOK, NEW u \in User, NEW row \in UserRow, users' = [users EXCEPT ![u] = row],
           ~Exists(u) \/ row.until = users[u].until
    PROVE  UsersOK' /\ \A v \in User : Exists(v) => Kept(v)
<1>1. UsersOK'
  BY DEF UsersOK
<1>2. ASSUME NEW v \in User, Exists(v) PROVE Kept(v)
  <2>1. users[v] \in UserRow
    BY <1>2, ExistsIs
  <2>2. CASE v = u
    BY <1>2, <2>2 DEF UsersOK, Kept
  <2>3. CASE v # u
    BY <2>1, <2>3 DEF UsersOK, Kept
  <2> QED
    BY <2>2, <2>3
<1> QED
  BY <1>1, <1>2

\* set_password, update_user and the upgrade of a hash write one row each.
LEMMA RoleWrite ==
    ASSUME UsersOK, NEW u \in User, Exists(u), NEW r \in ROLES
    PROVE  LET row == [users[u] EXCEPT !.role = r]
           IN  /\ [users EXCEPT ![u].role = r] = [users EXCEPT ![u] = row]
               /\ row \in UserRow /\ row.until = users[u].until
<1> DEFINE x == users[u]
<1>1. x \in UserRow
  BY ExistsIs
<1>2. [x EXCEPT !.role = r] \in UserRow
  BY <1>1, UserRowWrites
<1>3. [x EXCEPT !.role = r].until = x.until
  BY <1>1 DEF UserRow
<1>4. [users EXCEPT ![u].role = r] = [users EXCEPT ![u] = [x EXCEPT !.role = r]]
  BY DEF UsersOK
<1> QED
  BY <1>2, <1>3, <1>4

LEMMA ActiveWrite ==
    ASSUME UsersOK, NEW u \in User, Exists(u), NEW b \in BOOLEAN
    PROVE  LET row == [users[u] EXCEPT !.active = b]
           IN  /\ [users EXCEPT ![u].active = b] = [users EXCEPT ![u] = row]
               /\ row \in UserRow /\ row.until = users[u].until
<1> DEFINE x == users[u]
<1>1. x \in UserRow
  BY ExistsIs
<1>2. [x EXCEPT !.active = b] \in UserRow
  BY <1>1, UserRowWrites
<1>3. [x EXCEPT !.active = b].until = x.until
  BY <1>1 DEF UserRow
<1>4. [users EXCEPT ![u].active = b] = [users EXCEPT ![u] = [x EXCEPT !.active = b]]
  BY DEF UsersOK
<1> QED
  BY <1>2, <1>3, <1>4

LEMMA HashWrite ==
    ASSUME UsersOK, NEW u \in User, Exists(u), NEW p \in Nat
    PROVE  LET row == [users[u] EXCEPT !.pw = p, !.weak = FALSE]
           IN  /\ [users EXCEPT ![u].pw = p, ![u].weak = FALSE] = [users EXCEPT ![u] = row]
               /\ row \in UserRow /\ row.until = users[u].until
<1> DEFINE x == users[u]
<1>1. x \in UserRow
  BY ExistsIs
<1>2. [x EXCEPT !.pw = p, !.weak = FALSE] \in UserRow
  BY <1>1, UserRowWrites
<1>3. [x EXCEPT !.pw = p, !.weak = FALSE].until = x.until
  BY <1>1 DEF UserRow
<1>4. [users EXCEPT ![u].pw = p, ![u].weak = FALSE] = [users EXCEPT ![u] = [x EXCEPT !.pw = p, !.weak = FALSE]]
  BY DEF UsersOK
<1> QED
  BY <1>2, <1>3, <1>4

LEMMA PasswordWriteRow ==
    ASSUME UsersOK, NEW u \in User, Exists(u), NEW p \in Nat, NEW b \in BOOLEAN
    PROVE  LET row == [users[u] EXCEPT !.pw = p, !.weak = FALSE, !.must = b]
           IN  /\ [users EXCEPT ![u].pw = p, ![u].weak = FALSE, ![u].must = b] = [users EXCEPT ![u] = row]
               /\ row \in UserRow /\ row.until = users[u].until
<1> DEFINE x == users[u]
<1>1. x \in UserRow
  BY ExistsIs
<1>2. [x EXCEPT !.pw = p, !.weak = FALSE, !.must = b] \in UserRow
  BY <1>1, UserRowWrites
<1>3. [x EXCEPT !.pw = p, !.weak = FALSE, !.must = b].until = x.until
  BY <1>1 DEF UserRow
<1>4. [users EXCEPT ![u].pw = p, ![u].weak = FALSE, ![u].must = b] = [users EXCEPT ![u] = [x EXCEPT !.pw = p, !.weak = FALSE, !.must = b]]
  BY DEF UsersOK
<1> QED
  BY <1>2, <1>3, <1>4

\* No step deletes an account or moves its end date.
LEMMA UsersStep ==
    ASSUME TypeInv, [PassNext]_allVars
    PROVE  UsersOK' /\ \A v \in User : Exists(v) => Kept(v)
<1>t. now \in Time /\ UsersOK /\ SessOK /\ ReqOK /\ HistOK
  BY TypeParts DEF TypeInv
<1>q. ASSUME NEW t \in Thread PROVE req[t] \in Request
  BY <1>t DEF ReqOK
<1>0. CASE users' = users
  <2>1. \A v \in User : Exists(v) => users[v] \in UserRow
    BY <1>t, ExistsIs
  <2> QED
    BY <1>0, <1>t, <2>1 DEF UsersOK, Kept
<1>1. ASSUME NEW u \in User, NEW forced \in BOOLEAN, NEW generated \in BOOLEAN,
             Bootstrap(u, forced, generated)
      PROVE  UsersOK' /\ \A v \in User : Exists(v) => Kept(v)
  <2>1. NewUser("admin", generated, Never) \in UserRow
    BY NewUserIs, Sizes DEF ROLES
  <2> QED
    BY <1>t, <1>1, <2>1, WriteUser DEF Bootstrap
<1>2. ASSUME NEW t \in Thread, NEW u \in User, NEW r \in ROLES, AddUser(t, u, r)
      PROVE  UsersOK' /\ \A v \in User : Exists(v) => Kept(v)
  <2>1. NewUser(r, TRUE, Never) \in UserRow
    BY NewUserIs, Sizes
  <2> QED
    BY <1>t, <1>2, <2>1, WriteUser DEF AddUser
<1>3. ASSUME NEW t \in Thread, NEW u \in User, NEW r \in ROLES, UpdateRole(t, u, r)
      PROVE  UsersOK' /\ \A v \in User : Exists(v) => Kept(v)
  <2>0. Exists(u) /\ users' = [users EXCEPT ![u].role = r]
    BY <1>3 DEF UpdateRole
  <2>1. /\ users' = [users EXCEPT ![u] = [users[u] EXCEPT !.role = r]]
        /\ [users[u] EXCEPT !.role = r] \in UserRow
        /\ [users[u] EXCEPT !.role = r].until = users[u].until
    BY <1>t, <2>0, RoleWrite
  <2> QED
    BY <1>t, <2>1, WriteUser
<1>4. ASSUME NEW t \in Thread, NEW u \in User, NEW active \in BOOLEAN, UpdateActive(t, u, active)
      PROVE  UsersOK' /\ \A v \in User : Exists(v) => Kept(v)
  <2>0. Exists(u) /\ users' = [users EXCEPT ![u].active = active]
    BY <1>4 DEF UpdateActive
  <2>1. /\ users' = [users EXCEPT ![u] = [users[u] EXCEPT !.active = active]]
        /\ [users[u] EXCEPT !.active = active] \in UserRow
        /\ [users[u] EXCEPT !.active = active].until = users[u].until
    BY <1>t, <2>0, ActiveWrite
  <2> QED
    BY <1>t, <2>1, WriteUser
<1>5. ASSUME NEW u \in User, Exists(u), NEW must \in BOOLEAN, NEW reissue \in BOOLEAN,
             set_password(u, must, reissue)
      PROVE  UsersOK' /\ \A v \in User : Exists(v) => Kept(v)
  <2> DEFINE p == gen[u] + 1
  <2>0. p \in Nat /\ users' = [users EXCEPT ![u].pw = p, ![u].weak = FALSE, ![u].must = must]
    BY <1>t, <1>5 DEF set_password, HistOK
  <2> HIDE DEF p
  <2>1. /\ users' = [users EXCEPT ![u] = [users[u] EXCEPT !.pw = p, !.weak = FALSE, !.must = must]]
        /\ [users[u] EXCEPT !.pw = p, !.weak = FALSE, !.must = must] \in UserRow
        /\ [users[u] EXCEPT !.pw = p, !.weak = FALSE, !.must = must].until = users[u].until
    BY <1>t, <1>5, <2>0, PasswordWriteRow
  <2> QED
    BY <1>t, <2>1, WriteUser
<1>6. ASSUME NEW t \in Thread, ~UNCHANGED users, LoginIssue(t)
      PROVE  UsersOK' /\ \A v \in User : Exists(v) => Kept(v)
  <2> DEFINE u == req[t].user
             p == req[t].pw
  <2>0. u \in User /\ p \in Nat /\ Exists(u)
    BY <1>q, <1>6, RequestIs DEF LoginIssue, TypeInv, Owned
  <2>1. users' = [users EXCEPT ![u].pw = p, ![u].weak = FALSE]
    BY <1>6 DEF LoginIssue, Rehashed
  <2> HIDE DEF u, p
  <2>2. /\ users' = [users EXCEPT ![u] = [users[u] EXCEPT !.pw = p, !.weak = FALSE]]
        /\ [users[u] EXCEPT !.pw = p, !.weak = FALSE] \in UserRow
        /\ [users[u] EXCEPT !.pw = p, !.weak = FALSE].until = users[u].until
    BY <1>t, <2>0, <2>1, HashWrite
  <2> QED
    BY <1>t, <2>0, <2>2, WriteUser
<1>7. ASSUME RaiseCost PROVE UsersOK' /\ \A v \in User : Exists(v) => Kept(v)
  <2>1. \A v \in User : Exists(v) => users[v] \in UserRow
    BY <1>t, ExistsIs
  <2>2. \A v \in User : Exists(v) => /\ [users[v] EXCEPT !.weak = TRUE] \in UserRow
                                     /\ [users[v] EXCEPT !.weak = TRUE].until = users[v].until
    <3> SUFFICES ASSUME NEW v \in User, users[v] \in UserRow
                 PROVE  /\ [users[v] EXCEPT !.weak = TRUE] \in UserRow
                        /\ [users[v] EXCEPT !.weak = TRUE].until = users[v].until
      BY <2>1
    <3> QED
      BY DEF UserRow
  <2>3. users' = [v \in User |-> IF Exists(v) THEN [users[v] EXCEPT !.weak = TRUE] ELSE users[v]]
    BY <1>7 DEF RaiseCost
  <2> QED
    BY <1>t, <2>2, <2>3 DEF UsersOK, Kept
<1>8. ASSUME NEW t \in Thread, ~UNCHANGED users, RedeemCommit(t)
      PROVE  UsersOK' /\ \A v \in User : Exists(v) => Kept(v)
  <2>1. req[t].user \in User
    BY <1>q, <1>8, RequestIs DEF RedeemCommit
  <2>2. NewUser("viewer", FALSE, judge_pass_until) \in UserRow
    BY NewUserIs, Sizes DEF ROLES
  <2>3. /\ ~Exists(req[t].user)
        /\ users' = [users EXCEPT ![req[t].user] = NewUser("viewer", FALSE, judge_pass_until)]
    BY <1>8 DEF RedeemCommit, Free
  <2> QED
    BY <1>t, <2>1, <2>2, <2>3, WriteUser
<1>9. ASSUME NEW t \in Thread, PasswordWrite(t)
      PROVE  UsersOK' /\ \A v \in User : Exists(v) => Kept(v)
  <2>1. req[t].user \in User /\ Exists(req[t].user)
    BY <1>q, <1>9, RequestIs DEF PasswordWrite, TypeInv, Owned
  <2> QED
    BY <1>5, <1>9, <2>1 DEF PasswordWrite
<1>10. ASSUME NEW t \in Thread, NEW u \in User, ResetPassword(t, u)
       PROVE  UsersOK' /\ \A v \in User : Exists(v) => Kept(v)
  BY <1>5, <1>10 DEF ResetPassword
<1>11. ASSUME ~RaiseCost,
              \A u \in User : \A forced, generated \in BOOLEAN : ~Bootstrap(u, forced, generated),
              \A t \in Thread : ~PasswordWrite(t) /\ ~LoginIssue(t) /\ ~RedeemCommit(t),
              \A t \in Thread : \A u \in User :
                 /\ ~ResetPassword(t, u)
                 /\ \A r \in ROLES : ~AddUser(t, u, r) /\ ~UpdateRole(t, u, r)
                 /\ \A active \in BOOLEAN : ~UpdateActive(t, u, active)
       PROVE  users' = users
  BY <1>11 DEF PassNext, allVars, vars, Requests, Tick, Restart, Logout, Refused, Wake, LoginLost,
               Read, AdminRead, LoginVerify, Resolve, PasswordVerify, LoginCheck, RedeemCheck,
               Switch, Deliver, DeliverUnrecorded
<1> QED
  BY <1>0, <1>1, <1>2, <1>3, <1>4, <1>6, <1>7, <1>8, <1>9, <1>10, <1>11

----------------------------------------------------------------------------
(* What a step may do to table session *)

\* A session that was there: still the same one, and either ended or of an account whose
\* sessions were not all ended by this step.
OldSession(k) ==
    /\ sess[k] # NoSession /\ sess'[k] \in SessionRow
    /\ sess'[k].user = sess[k].user /\ sess'[k].gen = sess[k].gen
    /\ sess'[k].expires = sess[k].expires
    /\ \/ sess'[k].revoked = TRUE
       \/ sess'[k].revoked = sess[k].revoked /\ gen'[sess[k].user] = gen[sess[k].user]

\* A new session: of an account that exists, of its present generation unless it was
\* overtaken, and not longer than the account.
NewSession(k) ==
    /\ sess[k] = NoSession /\ sess'[k] \in SessionRow
    /\ users'[sess'[k].user] \in UserRow
    /\ sess'[k].gen = gen'[sess'[k].user] \/ sess'[k].user \in overtaken'
    /\ sess'[k].expires <= users'[sess'[k].user].until

SessionMove(k) ==
    \/ sess[k] = NoSession /\ sess'[k] = NoSession
    \/ OldSession(k)
    \/ NewSession(k)

\* Sessions and generations as they were.
LEMMA SessionsStill ==
    ASSUME SessOK, NEW k \in Token, sess'[k] = sess[k],
           sess[k] # NoSession => gen'[sess[k].user] = gen[sess[k].user]
    PROVE  SessionMove(k)
  BY DEF SessOK, SessionMove, OldSession

\* All sessions of u are ended, and its generation moves on.
LEMMA SessionsEnd ==
    ASSUME SessOK, HistOK, NEW u \in User, NEW k \in Token,
           sess'[k] = revoke_all_sessions(u)[k], gen' = [gen EXCEPT ![u] = @ + 1]
    PROVE  SessionMove(k)
<1>1. CASE sess[k] = NoSession
  BY <1>1, RevokedIs DEF SessionMove
<1>2. CASE sess[k] # NoSession
  <2>1. sess[k] \in SessionRow /\ sess[k].user \in User
    BY <1>2, SessionRowIs DEF SessOK
  <2>2. CASE sess[k].user = u
    BY <1>2, <2>2, RevokedIs DEF SessionMove, OldSession
  <2>3. CASE sess[k].user # u
    <3>1. sess'[k] = sess[k]
      BY <1>2, <2>3, RevokedIs
    <3>2. gen'[sess[k].user] = gen[sess[k].user]
      BY <2>1, <2>3 DEF HistOK
    <3> QED
      BY <3>1, <3>2, SessionsStill
  <2> QED
    BY <2>2, <2>3
<1> QED
  BY <1>1, <1>2

\* A session is inserted.
LEMMA SessionInserted ==
    ASSUME SessOK, now \in Time, TokenLeft, NEW u \in User, NEW g \in Nat, NEW until \in Nat,
           sess' = issue_session(sess, u, g, until), gen' = gen,
           users'[u] \in UserRow, users'[u].until = until, g = gen'[u] \/ u \in overtaken'
    PROVE  SessOK' /\ \A k \in Token : SessionMove(k)
<1>1. sess \in [Token -> SessionRow \cup {NoSession}] /\ \E k \in Token : sess[k] = NoSession
  BY DEF SessOK, TokenLeft
<1>2. SessOK'
  BY <1>1, IssuedIs DEF SessOK
<1>3. PICK f \in Token :
         /\ sess[f] = NoSession
         /\ sess'[f] \in SessionRow
         /\ sess'[f].user = u
         /\ sess'[f].gen = g
         /\ sess'[f].expires <= until
         /\ \A k \in Token \ {f} : sess'[k] = sess[k]
  BY <1>1, IssuedIs
<1>4. SessionMove(f)
  BY <1>3 DEF SessionMove, NewSession
<1>5. ASSUME NEW k \in Token, k # f PROVE SessionMove(k)
  BY <1>3, <1>5, SessionsStill
<1> QED
  BY <1>2, <1>4, <1>5

\* set_password: the sessions are ended, and the owner's own change gets a new one.
LEMMA PasswordSessions ==
    ASSUME SessOK, HistOK, UsersOK, now \in Time, NEW u \in User, Exists(u), Kept(u),
           NEW must \in BOOLEAN, NEW reissue \in BOOLEAN, reissue => TokenLeft,
           set_password(u, must, reissue)
    PROVE  /\ SessOK' /\ \A k \in Token : SessionMove(k)
           /\ gen' \in [User -> Nat] /\ chosen' \in [User -> Nat]
<1> DEFINE rev == revoke_all_sessions(u)
<1>0. gen' = [gen EXCEPT ![u] = @ + 1] /\ chosen' = [chosen EXCEPT ![u] = gen[u] + 1]
  BY DEF set_password
<1>g. gen' \in [User -> Nat] /\ chosen' \in [User -> Nat] /\ gen'[u] = gen[u] + 1 /\ gen[u] + 1 \in Nat
  BY <1>0 DEF HistOK
<1>1. rev \in [Token -> SessionRow \cup {NoSession}]
  <2>1. PICK k \in Token : TRUE
    BY Sizes DEF Token
  <2> QED
    BY <2>1, RevokedIs
<1>2. CASE ~reissue
  <2>1. sess' = rev
    BY <1>2 DEF set_password
  <2>2. SessOK'
    BY <1>1, <2>1 DEF SessOK
  <2> QED
    BY <1>0, <1>g, <2>1, <2>2, SessionsEnd
<1>3. CASE reissue
  <2>1. sess' = issue_session(rev, u, gen[u] + 1, users[u].until)
    BY <1>3 DEF set_password
  <2>2. users[u].until \in Nat
    BY ExistsIs, UserRowIs
  <2>3. \E k \in Token : rev[k] = NoSession
    BY <1>3, RevokedIs DEF TokenLeft
  <2> DEFINE g == gen[u] + 1
             until == users[u].until
  <2>a. g \in Nat /\ until \in Nat /\ sess' = issue_session(rev, u, g, until)
    BY <1>g, <2>1, <2>2
  <2> HIDE DEF rev, g, until
  <2>4. sess' \in [Token -> SessionRow \cup {NoSession}]
    BY <1>1, <2>a, <2>3, IssuedIs
  <2>5. PICK f \in Token :
           /\ rev[f] = NoSession
           /\ sess'[f] \in SessionRow
           /\ sess'[f].user = u
           /\ sess'[f].gen = g
           /\ sess'[f].expires <= until
           /\ \A k \in Token \ {f} : sess'[k] = rev[k]
    BY <1>1, <2>a, <2>3, IssuedIs
  <2>6. sess[f] = NoSession
    <3> SUFFICES ASSUME sess[f] # NoSession PROVE FALSE
      OBVIOUS
    <3>1. rev[f] \in SessionRow
      BY RevokedIs DEF rev
    <3> QED
      BY <2>5, <3>1, SessionRowIs
  <2>7. SessionMove(f)
    BY <1>g, <2>5, <2>6 DEF SessionMove, NewSession, Kept, g, until
  <2>8. ASSUME NEW k \in Token, k # f PROVE SessionMove(k)
    BY <1>0, <2>5, <2>8, SessionsEnd DEF rev
  <2> QED
    BY <1>g, <2>4, <2>7, <2>8 DEF SessOK
<1> QED
  BY <1>2, <1>3

\* Every step moves sessions and generations in one of these ways.
LEMMA SessionsStep ==
    ASSUME TypeInv, [PassNext]_allVars
    PROVE  SessOK' /\ HistOK' /\ \A k \in Token : SessionMove(k)
<1>t. now \in Time /\ UsersOK /\ SessOK /\ ReqOK /\ HistOK
  BY TypeParts DEF TypeInv
<1>q. ASSUME NEW t \in Thread PROVE req[t] \in Request
  BY <1>t DEF ReqOK
<1>h. gen \in [User -> Nat] /\ chosen \in [User -> Nat] /\ overtaken \subseteq User /\ unseated \in BOOLEAN
  BY <1>t DEF HistOK
<1>k. UsersOK' /\ \A v \in User : Exists(v) => Kept(v)
  BY UsersStep
<1>0. CASE UNCHANGED <<sess, gen, chosen, overtaken, unseated>>
  <2>1. SessOK' /\ HistOK'
    BY <1>0, <1>t DEF SessOK, HistOK
  <2> QED
    BY <1>0, <1>t, <2>1, SessionsStill
<1>1. ASSUME NEW k \in Token, Logout(k) PROVE SessOK' /\ HistOK' /\ \A j \in Token : SessionMove(j)
  <2>0. /\ sess[k] # NoSession /\ sess' = [sess EXCEPT ![k].revoked = TRUE]
        /\ UNCHANGED <<gen, chosen, overtaken, unseated>>
    BY <1>1 DEF Logout, history
  <2>1. sess[k] \in SessionRow
    BY <1>t, <2>0 DEF SessOK
  <2>2. sess'[k] = [sess[k] EXCEPT !.revoked = TRUE] /\ \A j \in Token \ {k} : sess'[j] = sess[j]
    BY <1>t, <2>0 DEF SessOK
  <2>3. [sess[k] EXCEPT !.revoked = TRUE] \in SessionRow
    BY <2>1, SessionRowIs
  <2>4. SessOK'
    BY <1>t, <2>0, <2>3 DEF SessOK
  <2>5. SessionMove(k)
    <3>1. /\ sess'[k].user = sess[k].user /\ sess'[k].gen = sess[k].gen
          /\ sess'[k].expires = sess[k].expires /\ sess'[k].revoked = TRUE
      BY <2>1, <2>2 DEF SessionRow
    <3> QED
      BY <2>0, <2>2, <2>3, <3>1 DEF SessionMove, OldSession
  <2>6. ASSUME NEW j \in Token, j # k PROVE SessionMove(j)
    BY <1>t, <2>0, <2>2, <2>6, SessionsStill
  <2> QED
    BY <1>h, <2>0, <2>4, <2>5, <2>6 DEF HistOK
<1>2. ASSUME NEW t \in Thread, NEW k \in Token, Resolve(t, k), ~UNCHANGED sess
      PROVE  SessOK' /\ HistOK' /\ \A j \in Token : SessionMove(j)
  <2>0. /\ sess[k] # NoSession /\ sess' = [sess EXCEPT ![k].seen = now]
        /\ UNCHANGED <<gen, chosen, overtaken, unseated>>
    BY <1>2 DEF Resolve, Resolvable, history
  <2>1. sess[k] \in SessionRow
    BY <1>t, <2>0 DEF SessOK
  <2>2. sess'[k] = [sess[k] EXCEPT !.seen = now] /\ \A j \in Token \ {k} : sess'[j] = sess[j]
    BY <1>t, <2>0 DEF SessOK
  <2>3. [sess[k] EXCEPT !.seen = now] \in SessionRow
    BY <1>t, <2>1, SessionRowIs
  <2>4. SessOK'
    BY <1>t, <2>0, <2>3 DEF SessOK
  <2>5. SessionMove(k)
    <3>1. /\ sess'[k].user = sess[k].user /\ sess'[k].gen = sess[k].gen
          /\ sess'[k].expires = sess[k].expires /\ sess'[k].revoked = sess[k].revoked
      BY <2>1, <2>2 DEF SessionRow
    <3> QED
      BY <2>0, <2>2, <2>3, <3>1 DEF SessionMove, OldSession
  <2>6. ASSUME NEW j \in Token, j # k PROVE SessionMove(j)
    BY <1>t, <2>0, <2>2, <2>6, SessionsStill
  <2> QED
    BY <1>h, <2>0, <2>4, <2>5, <2>6 DEF HistOK
<1>3. ASSUME NEW t \in Thread, LoginIssue(t)
      PROVE  SessOK' /\ HistOK' /\ \A j \in Token : SessionMove(j)
  <2> DEFINE u == req[t].user
             g == req[t].gen
  <2>1. u \in User /\ g \in Nat /\ Exists(u)
    BY <1>q, <1>3, RequestIs DEF LoginIssue, TypeInv, Owned
  <2>2. /\ TokenLeft /\ sess' = issue_session(sess, u, g, users[u].until)
        /\ Overtakes(u, g) /\ UNCHANGED <<gen, chosen, unseated>>
    BY <1>3 DEF LoginIssue
  <2> HIDE DEF u, g
  <2>3. users'[u] \in UserRow /\ users'[u].until = users[u].until /\ users[u].until \in Nat
    BY <1>k, <2>1, UserRowIs DEF Kept
  <2>4. (g = gen'[u] \/ u \in overtaken') /\ overtaken' \subseteq User
    BY <1>h, <2>1, <2>2 DEF Overtakes
  <2>5. SessOK' /\ \A j \in Token : SessionMove(j)
    BY <1>t, <2>1, <2>2, <2>3, <2>4, SessionInserted
  <2> QED
    BY <1>h, <2>2, <2>4, <2>5 DEF HistOK
<1>4. ASSUME NEW t \in Thread, PasswordWrite(t)
      PROVE  SessOK' /\ HistOK' /\ \A j \in Token : SessionMove(j)
  <2> DEFINE u == req[t].user
             g == req[t].gen
  <2>1. u \in User /\ g \in Nat /\ Exists(u)
    BY <1>q, <1>4, RequestIs DEF PasswordWrite, TypeInv, Owned
  <2>2. TokenLeft /\ set_password(u, FALSE, TRUE) /\ Overtakes(u, g) /\ UNCHANGED unseated
    BY <1>4 DEF PasswordWrite
  <2> HIDE DEF u, g
  <2>3. /\ SessOK' /\ \A j \in Token : SessionMove(j)
        /\ gen' \in [User -> Nat] /\ chosen' \in [User -> Nat]
    BY <1>t, <1>k, <2>1, <2>2, PasswordSessions
  <2>4. overtaken' \subseteq User
    BY <1>h, <2>1, <2>2 DEF Overtakes
  <2> QED
    BY <1>h, <2>2, <2>3, <2>4 DEF HistOK
<1>5. ASSUME NEW t \in Thread, NEW u \in User, ResetPassword(t, u)
      PROVE  SessOK' /\ HistOK' /\ \A j \in Token : SessionMove(j)
  <2>2. Exists(u) /\ set_password(u, TRUE, FALSE) /\ UNCHANGED <<overtaken, unseated>>
    BY <1>5 DEF ResetPassword
  <2>3. /\ SessOK' /\ \A j \in Token : SessionMove(j)
        /\ gen' \in [User -> Nat] /\ chosen' \in [User -> Nat]
    BY <1>t, <1>k, <2>2, PasswordSessions
  <2> QED
    BY <1>h, <2>2, <2>3 DEF HistOK
<1>6. ASSUME NEW t \in Thread, NEW u \in User, NEW active \in BOOLEAN, UpdateActive(t, u, active)
      PROVE  SessOK' /\ HistOK' /\ \A j \in Token : SessionMove(j)
  <2>0. unseated' = (unseated \/ ~ActiveAdmin(req[t].user)) /\ UNCHANGED <<chosen, overtaken>>
    BY <1>6 DEF UpdateActive
  <2>1. unseated' \in BOOLEAN
    BY <2>0, Zenon
  <2>2. CASE active
    <3>1. UNCHANGED <<sess, gen>>
      BY <1>6, <2>2 DEF UpdateActive
    <3>2. SessOK' /\ HistOK'
      BY <1>t, <2>0, <2>1, <3>1 DEF SessOK, HistOK
    <3> QED
      BY <1>t, <3>1, <3>2, SessionsStill
  <2>3. CASE ~active
    <3>1. sess' = revoke_all_sessions(u) /\ gen' = [gen EXCEPT ![u] = @ + 1]
      BY <1>6, <2>3 DEF UpdateActive
    <3>2. revoke_all_sessions(u) \in [Token -> SessionRow \cup {NoSession}]
      <4>1. PICK k \in Token : TRUE
        BY Sizes DEF Token
      <4> QED
        BY <1>t, <4>1, RevokedIs
    <3>3. SessOK' /\ HistOK'
      BY <1>h, <2>0, <2>1, <3>1, <3>2 DEF SessOK, HistOK
    <3> QED
      BY <1>t, <3>1, <3>3, SessionsEnd
  <2> QED
    BY <2>2, <2>3
<1>7. ASSUME NEW t \in Thread, RedeemCommit(t), ~UNCHANGED sess
      PROVE  SessOK' /\ HistOK' /\ \A j \in Token : SessionMove(j)
  <2> DEFINE e == req[t].user
  <2>1. e \in User
    BY <1>q, <1>7, RequestIs DEF RedeemCommit
  <2>2. /\ TokenLeft /\ sess' = issue_session(sess, e, gen[e], judge_pass_until)
        /\ users' = [users EXCEPT ![e] = NewUser("viewer", FALSE, judge_pass_until)]
        /\ UNCHANGED <<gen, chosen, overtaken, unseated>>
    BY <1>7 DEF RedeemCommit, history
  <2> HIDE DEF e
  <2>3. users'[e] = NewUser("viewer", FALSE, judge_pass_until)
    BY <1>t, <2>1, <2>2 DEF UsersOK
  <2>4. users'[e] \in UserRow /\ users'[e].until = judge_pass_until
    <3>1. "viewer" \in ROLES /\ FALSE \in BOOLEAN /\ judge_pass_until \in Nat
      BY Sizes DEF ROLES
    <3>2. NewUser("viewer", FALSE, judge_pass_until).until = judge_pass_until
      BY DEF NewUser
    <3> QED
      BY <2>3, <3>1, <3>2, NewUserIs
  <2>5. gen[e] \in Nat
    BY <1>h, <2>1
  <2>6. SessOK' /\ \A j \in Token : SessionMove(j)
    BY <1>t, <2>1, <2>2, <2>4, <2>5, Sizes, SessionInserted
  <2> QED
    BY <1>h, <2>2, <2>6 DEF HistOK
<1>8. ASSUME NEW t \in Thread, NEW u \in User, NEW r \in ROLES, UpdateRole(t, u, r)
      PROVE  SessOK' /\ HistOK' /\ \A j \in Token : SessionMove(j)
  <2>0. unseated' = (unseated \/ ~ActiveAdmin(req[t].user)) /\ UNCHANGED <<sess, gen, chosen, overtaken>>
    BY <1>8 DEF UpdateRole
  <2>1. unseated' \in BOOLEAN
    BY <2>0, Zenon
  <2>2. SessOK' /\ HistOK'
    BY <1>t, <2>0, <2>1 DEF SessOK, HistOK
  <2> QED
    BY <1>t, <2>0, <2>2, SessionsStill
<1>9. ASSUME \A k \in Token : ~Logout(k),
             \A t \in Thread :
                /\ ~PasswordWrite(t) /\ ~LoginIssue(t)
                /\ ~(RedeemCommit(t) /\ ~UNCHANGED sess)
                /\ \A k \in Token : ~(Resolve(t, k) /\ ~UNCHANGED sess),
             \A t \in Thread : \A u \in User :
                /\ ~ResetPassword(t, u)
                /\ \A r \in ROLES : ~UpdateRole(t, u, r)
                /\ \A active \in BOOLEAN : ~UpdateActive(t, u, active)
      PROVE  UNCHANGED <<sess, gen, chosen, overtaken, unseated>>
  BY <1>9 DEF PassNext, allVars, vars, history, Requests, Tick, Restart, RaiseCost, Bootstrap,
              Refused, Wake, LoginLost, Read, AdminRead, LoginVerify, Resolve, PasswordVerify,
              LoginCheck, AddUser, RedeemCheck, RedeemCommit, Switch, Deliver, DeliverUnrecorded
<1> QED
  BY <1>0, <1>1, <1>2, <1>3, <1>4, <1>5, <1>6, <1>7, <1>8, <1>9

----------------------------------------------------------------------------
(* What a step may do to a request thread *)

\* A request rests, ends, or comes to a point at which it holds what it has just read.
ReqMove(t) ==
    \/ req'[t] \in {req[t], Idle}
    \/ req'[t].pc \in {"login", "sleep"}
    \/ /\ req'[t].pc = "issuing" /\ req'[t].user \in Email
       /\ state = "open" /\ UNCHANGED <<now, passes>>
    \/ req'[t].pc = "refused" /\ (req'[t].addr \notin Distinct => req'[t].own)
    \/ req'[t].pc \in {"served", "changing"} /\ Exists(req'[t].user)
    \/ /\ req'[t].pc = "verified" /\ Exists(req'[t].user)
       /\ req'[t].gen = gen[req'[t].user] /\ req'[t].pw = users[req'[t].user].pw
       /\ UNCHANGED <<users, gen, chosen, overtaken>>

\* One thread moves, the others rest.
LEMMA OneMoves ==
    ASSUME ReqOK, NEW t \in Thread, NEW s \in Request, req' = [req EXCEPT ![t] = s], ReqMove(t)
    PROVE  ReqOK' /\ \A q \in Thread : ReqMove(q)
<1>1. \A q \in Thread \ {t} : req'[q] = req[q]
  BY DEF ReqOK
<1>2. \A q \in Thread \ {t} : ReqMove(q)
  BY <1>1 DEF ReqMove
<1> QED
  BY <1>2 DEF ReqOK

LEMMA OneEnds ==
    ASSUME ReqOK, NEW t \in Thread, Goto(t, Idle)
    PROVE  ReqOK' /\ \A q \in Thread : ReqMove(q)
<1>1. Idle \in Request
  BY DEF Request
<1>2. req' = [req EXCEPT ![t] = Idle] /\ req'[t] = Idle
  BY DEF Goto, ReqOK
<1>3. ReqMove(t)
  BY <1>2 DEF ReqMove
<1> QED
  BY <1>1, <1>2, <1>3, OneMoves

\* Only failures on the account itself refuse an attempt from a shared address.
LEMMA SharedRefusal ==
    ASSUME NEW u, NEW a, a \notin Distinct, throttled(u, a)
    PROVE  Len(trim(fails[<<"user", u>>])) >= MAX_FAILURES
<1>1. lockout_keys(u, a) = {<<"user", u>>}
  BY DEF lockout_keys, distinguishing_ip
<1> QED
  BY <1>1 DEF throttled

LEMMA RequestsStep ==
    ASSUME TypeInv, [PassNext]_allVars
    PROVE  ReqOK' /\ \A t \in Thread : ReqMove(t)
<1>t. now \in Time /\ UsersOK /\ SessOK /\ ReqOK /\ HistOK
  BY TypeParts DEF TypeInv
<1>q. ASSUME NEW t \in Thread PROVE req[t] \in Request
  BY <1>t DEF ReqOK
<1>0. CASE UNCHANGED req
  BY <1>0, <1>t DEF ReqOK, ReqMove
<1>1. ASSUME NEW t \in Thread, Goto(t, Idle) PROVE ReqOK' /\ \A q \in Thread : ReqMove(q)
  BY <1>t, <1>1, OneEnds
<1>2. ASSUME req' = [t \in Thread |-> Idle] PROVE ReqOK' /\ \A q \in Thread : ReqMove(q)
  BY <1>2 DEF ReqOK, ReqMove, Request
<1>3. ASSUME NEW t \in Thread, NEW u \in User, NEW a \in Addr, LoginCheck(t, u, a)
      PROVE  ReqOK' /\ \A q \in Thread : ReqMove(q)
  <2>1. CASE throttled(u, a)
    <3> DEFINE own == Len(trim(fails[<<"user", u>>])) >= MAX_FAILURES
               s == [pc |-> "refused", user |-> u, addr |-> a, own |-> own]
    <3>1. req' = [req EXCEPT ![t] = s]
      BY <1>3, <2>1 DEF LoginCheck, Begin
    <3>2. own \in BOOLEAN /\ (a \notin Distinct => own)
      BY <2>1, SharedRefusal
    <3> HIDE DEF own
    <3>3. s \in Request
      BY <3>2 DEF Request
    <3>4. s.pc = "refused" /\ s.addr = a /\ s.own = own
      OBVIOUS
    <3> HIDE DEF s
    <3>5. req'[t] = s
      BY <1>t, <3>1 DEF ReqOK
    <3>6. ReqMove(t)
      BY <3>2, <3>4, <3>5 DEF ReqMove
    <3> QED
      BY <1>t, <3>1, <3>3, <3>6, OneMoves
  <2>2. CASE ~throttled(u, a)
    <3> DEFINE p == IF shared_spray_delay /\ Cardinality(Sleepers) < MAX_CONCURRENT_SHARED_DELAYS
                    THEN "sleep" ELSE "login"
               s == [pc |-> p, user |-> u, addr |-> a]
    <3>1. req' = [req EXCEPT ![t] = s]
      BY <1>3, <2>2 DEF LoginCheck, Begin
    <3>2. p \in {"login", "sleep"}
      OBVIOUS
    <3> HIDE DEF p
    <3>3. s \in Request
      BY <3>2 DEF Request
    <3>4. s.pc = p
      OBVIOUS
    <3> HIDE DEF s
    <3>5. req'[t] = s
      BY <1>t, <3>1 DEF ReqOK
    <3>6. ReqMove(t)
      BY <3>2, <3>4, <3>5 DEF ReqMove
    <3> QED
      BY <1>t, <3>1, <3>3, <3>6, OneMoves
  <2> QED
    BY <2>1, <2>2
<1>4. ASSUME NEW t \in Thread, Wake(t) PROVE ReqOK' /\ \A q \in Thread : ReqMove(q)
  <2> DEFINE s == [req[t] EXCEPT !.pc = "login"]
  <2>1. req' = [req EXCEPT ![t] = s] /\ req[t].pc = "sleep"
    BY <1>4 DEF Wake, Goto
  <2>2. req[t] \in [pc : {"login", "sleep"}, user : User, addr : Addr]
    BY <1>q, <2>1, RequestIs
  <2>3. s \in [pc : {"login", "sleep"}, user : User, addr : Addr] /\ s.pc = "login"
    BY <2>2
  <2>4. s \in Request
    BY <2>3 DEF Request
  <2> HIDE DEF s
  <2>5. req'[t] = s
    BY <1>t, <2>1 DEF ReqOK
  <2>6. ReqMove(t)
    BY <2>3, <2>5 DEF ReqMove
  <2> QED
    BY <1>t, <2>1, <2>4, <2>6, OneMoves
<1>5. ASSUME NEW t \in Thread, NEW right \in BOOLEAN, LoginVerify(t, right), ~Goto(t, Idle)
      PROVE  ReqOK' /\ \A q \in Thread : ReqMove(q)
  <2> DEFINE u == req[t].user
             s == [pc |-> "verified", user |-> u, pw |-> users[u].pw, weak |-> users[u].weak,
                   gen |-> gen[u]]
  <2>1. /\ req' = [req EXCEPT ![t] = s] /\ Exists(u)
        /\ UNCHANGED <<users, gen, chosen, overtaken>>
    BY <1>5 DEF LoginVerify, Goto, history
  <2>2. u \in User
    BY <1>q, <1>5, RequestIs DEF LoginVerify
  <2>3. users[u].pw \in Nat /\ users[u].weak \in BOOLEAN /\ gen[u] \in Nat
    BY <1>t, <2>1, <2>2, ExistsIs, UserRowIs DEF HistOK
  <2> HIDE DEF u
  <2>4. s \in Request
    BY <2>2, <2>3 DEF Request
  <2>5. s.pc = "verified" /\ s.user = u /\ s.gen = gen[u] /\ s.pw = users[u].pw
    OBVIOUS
  <2> HIDE DEF s
  <2>6. req'[t] = s
    BY <1>t, <2>1 DEF ReqOK
  <2>7. ReqMove(t)
    BY <2>1, <2>5, <2>6 DEF ReqMove
  <2> QED
    BY <1>t, <2>1, <2>4, <2>7, OneMoves
<1>6. ASSUME NEW t \in Thread, NEW k \in Token, Resolve(t, k)
      PROVE  ReqOK' /\ \A q \in Thread : ReqMove(q)
  <2> DEFINE s == Principal(k)
  <2>1. req' = [req EXCEPT ![t] = s] /\ sess[k] # NoSession
    BY <1>6 DEF Resolve, Begin, Resolvable
  <2>2. sess[k].user \in User /\ Exists(sess[k].user)
    BY <1>t, <2>1, SessionRowIs DEF SessOK, TypeInv, Owned
  <2>3. users[sess[k].user].role \in ROLES /\ users[sess[k].user].must \in BOOLEAN
    BY <1>t, <2>2, ExistsIs, UserRowIs
  <2>4. s \in Request /\ s.pc = "served" /\ s.user = sess[k].user
    BY <2>2, <2>3 DEF Request, Principal
  <2> HIDE DEF s
  <2>5. req'[t] = s
    BY <1>t, <2>1 DEF ReqOK
  <2>6. ReqMove(t)
    BY <2>2, <2>4, <2>5 DEF ReqMove
  <2> QED
    BY <1>t, <2>1, <2>4, <2>6, OneMoves
<1>7. ASSUME NEW t \in Thread, NEW a \in Addr, NEW right \in BOOLEAN, NEW acceptable \in BOOLEAN,
             PasswordVerify(t, a, right, acceptable), ~Goto(t, Idle)
      PROVE  ReqOK' /\ \A q \in Thread : ReqMove(q)
  <2> DEFINE u == req[t].user
             s == [pc |-> "changing", user |-> u, gen |-> gen[u]]
  <2>1. req' = [req EXCEPT ![t] = s] /\ req[t].pc = "served"
    BY <1>7 DEF PasswordVerify, Goto
  <2>2. u \in User /\ Exists(u)
    BY <1>q, <2>1, RequestIs DEF TypeInv, Owned
  <2>3. gen[u] \in Nat
    BY <1>t, <2>2 DEF HistOK
  <2> HIDE DEF u
  <2>4. s \in Request /\ s.pc = "changing" /\ s.user = u
    BY <2>2, <2>3 DEF Request
  <2> HIDE DEF s
  <2>5. req'[t] = s
    BY <1>t, <2>1 DEF ReqOK
  <2>6. ReqMove(t)
    BY <2>2, <2>4, <2>5 DEF ReqMove
  <2> QED
    BY <1>t, <2>1, <2>4, <2>6, OneMoves
<1>8. ASSUME NEW t \in Thread, NEW e \in Email, RedeemCheck(t, e)
      PROVE  ReqOK' /\ \A q \in Thread : ReqMove(q)
  <2> DEFINE s == [pc |-> "issuing", user |-> e, at |-> now]
  <2>1. req' = [req EXCEPT ![t] = s] /\ state = "open" /\ UNCHANGED <<now, passes>>
    BY <1>8 DEF RedeemCheck, Begin, passVars
  <2>2. s \in Request /\ s.pc = "issuing" /\ s.user = e
    BY <1>t, Sizes DEF Request
  <2> HIDE DEF s
  <2>3. req'[t] = s
    BY <1>t, <2>1 DEF ReqOK
  <2>4. ReqMove(t)
    BY <2>1, <2>2, <2>3 DEF ReqMove
  <2> QED
    BY <1>t, <2>1, <2>2, <2>4, OneMoves
<1>9. ASSUME \A t \in Thread : ~Goto(t, Idle), req' # [t \in Thread |-> Idle],
             \A t \in Thread :
                /\ ~Wake(t)
                /\ \A u \in User, a \in Addr : ~LoginCheck(t, u, a)
                /\ \A right \in BOOLEAN : ~LoginVerify(t, right)
                /\ \A k \in Token : ~Resolve(t, k)
                /\ \A a \in Addr, right, acceptable \in BOOLEAN : ~PasswordVerify(t, a, right, acceptable)
                /\ \A e \in Email : ~RedeemCheck(t, e)
      PROVE  UNCHANGED req
  BY <1>9 DEF PassNext, allVars, vars, Requests, Tick, Restart, RaiseCost, Bootstrap, Logout,
              Refused, LoginLost, LoginIssue, Read, AdminRead, AsAdmin, AddUser, UpdateRole,
              UpdateActive, ResetPassword, PasswordWrite, RedeemCommit, Switch, Deliver,
              DeliverUnrecorded
<1> QED
  BY <1>0, <1>1, <1>2, <1>3, <1>4, <1>5, <1>6, <1>7, <1>8, <1>9

----------------------------------------------------------------------------
(* The throttle's windows, the passes, and types together *)

LEMMA WindowsStep ==
    ASSUME TypeInv, [PassNext]_allVars PROVE FailsOK'
<1>t. now \in Time /\ FailsOK /\ ReqOK
  BY TypeParts DEF TypeInv
<1>q. ASSUME NEW t \in Thread PROVE req[t] \in Request
  BY <1>t DEF ReqOK
<1>f. fails \in [Key -> Seq(Time)]
  BY <1>t DEF FailsOK
<1>0. CASE UNCHANGED fails
  BY <1>0, <1>t DEF FailsOK
<1>1. ASSUME fails' = NoFailures PROVE FailsOK'
  BY <1>1 DEF FailsOK, NoFailures
<1>2. ASSUME NEW t \in Thread, NEW u \in User, NEW a \in Addr, LoginCheck(t, u, a) PROVE FailsOK'
  <2>1. fails' = trimmed(u, a)
    BY <1>2 DEF LoginCheck
  <2> QED
    BY <1>t, <2>1, FailsWrites DEF FailsOK
<1>3. ASSUME NEW t \in Thread, NEW right \in BOOLEAN, LoginVerify(t, right), ~UNCHANGED fails
      PROVE  FailsOK'
  <2>1. fails' = record_login_failure(req[t].user, req[t].addr) /\ req[t].pc = "login"
    BY <1>3 DEF LoginVerify
  <2>2. req[t].user \in User /\ req[t].addr \in Addr
    BY <1>q, <2>1, RequestIs
  <2> QED
    BY <1>t, <2>1, <2>2, FailsWrites DEF FailsOK
<1>4. ASSUME NEW t \in Thread, LoginIssue(t) \/ LoginLost(t) PROVE FailsOK'
  <2>1. fails' = clear_failures(fails, req[t].user) /\ req[t].pc = "verified"
    BY <1>4 DEF LoginIssue, LoginLost
  <2> QED
    BY <1>f, <2>1, ClearType DEF FailsOK
<1>5. ASSUME NEW t \in Thread, NEW a \in Addr, NEW right \in BOOLEAN, NEW acceptable \in BOOLEAN,
             PasswordVerify(t, a, right, acceptable)
      PROVE  FailsOK'
  <2>1. /\ req[t].pc = "served"
        /\ \/ fails' = record_login_failure(req[t].user, a)
           \/ fails' = clear_failures(trimmed(req[t].user, a), req[t].user)
    BY <1>5 DEF PasswordVerify
  <2>2. req[t].user \in User
    BY <1>q, <2>1, RequestIs
  <2>3. /\ record_login_failure(req[t].user, a) \in [Key -> Seq(Time)]
        /\ trimmed(req[t].user, a) \in [Key -> Seq(Time)]
    BY <1>t, <2>2, FailsWrites
  <2>4. clear_failures(trimmed(req[t].user, a), req[t].user) \in [Key -> Seq(Time)]
    BY <2>3, ClearType
  <2> QED
    BY <2>1, <2>3, <2>4 DEF FailsOK
<1>6. ASSUME fails' # NoFailures,
             \A t \in Thread :
                /\ ~LoginIssue(t) /\ ~LoginLost(t)
                /\ \A u \in User, a \in Addr : ~LoginCheck(t, u, a)
                /\ \A right \in BOOLEAN : ~LoginVerify(t, right)
                /\ \A a \in Addr, right, acceptable \in BOOLEAN : ~PasswordVerify(t, a, right, acceptable)
      PROVE  UNCHANGED fails
  BY <1>6 DEF PassNext, allVars, vars, Requests, Tick, Restart, RaiseCost, Bootstrap, Logout,
              Refused, Wake, Read, AdminRead, Resolve, AddUser, UpdateRole, UpdateActive,
              ResetPassword, PasswordWrite, RedeemCheck, RedeemCommit, Switch, Deliver,
              DeliverUnrecorded
<1> QED
  BY <1>0, <1>1, <1>2, <1>3, <1>4, <1>5, <1>6

\* A row of table judge_pass.
LEMMA PassRowIs ==
    ASSUME NEW x \in PassRow
    PROVE  /\ x # NoPass /\ x.at \in Time
           /\ \A o \in {"sent", "failed", "off"} :
                 [x EXCEPT !.mail = o] \in PassRow /\ [x EXCEPT !.mail = o].at = x.at
<1>1. x.mail \in {"queued", "off", "sent", "failed"} /\ x.at \in Time
  BY DEF PassRow
<1>2. NoPass.mail = "none"
  BY DEF NoPass
<1>3. \A o \in {"sent", "failed", "off"} :
         [x EXCEPT !.mail = o] \in PassRow /\ [x EXCEPT !.mail = o].at = x.at
  BY DEF PassRow
<1> QED
  BY <1>1, <1>2, <1>3

\* A pass is issued by the one transaction that creates its account, at a token that was
\* free; otherwise it keeps the instant it was issued at.
PassMove(e) ==
    \/ passes'[e] = passes[e]
    \/ passes[e] \in PassRow /\ passes'[e] \in PassRow /\ passes'[e].at = passes[e].at
    \/ /\ passes[e] = NoPass /\ passes'[e] \in PassRow /\ ~Exists(e)
       /\ \E t \in Thread : /\ req[t].pc = "issuing" /\ req[t].user = e
                            /\ RedeemCommit(t)
                            /\ passes'[e].at = req[t].at
                            /\ users' = [users EXCEPT ![e] = NewUser("viewer", FALSE, judge_pass_until)]

LEMMA PassesStep ==
    ASSUME TypeInv, [PassNext]_allVars
    PROVE  PassOK' /\ (\A e \in Email : PassMove(e)) /\ \A e \in tasks' : passes'[e] # NoPass
<1>t. now \in Time /\ PassOK /\ ReqOK
  BY TypeParts DEF TypeInv
<1>q. ASSUME NEW t \in Thread PROVE req[t] \in Request
  BY <1>t DEF ReqOK
<1>p. enabled \in BOOLEAN /\ passes \in [Email -> PassRow \cup {NoPass}] /\ tasks \subseteq Email
  BY <1>t DEF PassOK
<1>k. \A e \in tasks : passes[e] # NoPass
  BY DEF TypeInv, Owned
<1>0. CASE UNCHANGED passes /\ enabled' \in BOOLEAN /\ tasks' \subseteq tasks
  BY <1>0, <1>p, <1>k DEF PassOK, PassMove
<1>1. ASSUME NEW e \in Email, NEW o \in send, Deliver(e, o)
      PROVE  PassOK' /\ (\A x \in Email : PassMove(x)) /\ \A x \in tasks' : passes'[x] # NoPass
  <2>1. /\ e \in tasks /\ tasks' = tasks \ {e} /\ enabled' = enabled
        /\ passes' = [passes EXCEPT ![e].mail = o]
    BY <1>1 DEF Deliver
  <2>2. passes[e] \in PassRow
    BY <1>p, <1>k, <2>1
  <2>3. o \in {"sent", "failed", "off"}
    BY DEF send
  <2>4. [passes[e] EXCEPT !.mail = o] \in PassRow /\ [passes[e] EXCEPT !.mail = o].at = passes[e].at
    BY <2>2, <2>3, PassRowIs
  <2>5. passes'[e] = [passes[e] EXCEPT !.mail = o] /\ \A x \in Email \ {e} : passes'[x] = passes[x]
    BY <1>p, <2>1
  <2>6. PassOK'
    BY <1>p, <2>1, <2>4 DEF PassOK
  <2>7. \A x \in Email : PassMove(x)
    BY <2>2, <2>4, <2>5 DEF PassMove
  <2> QED
    BY <1>p, <1>k, <2>1, <2>5, <2>6, <2>7
<1>2. ASSUME NEW t \in Thread, RedeemCommit(t), ~UNCHANGED <<passes, tasks>>
      PROVE  PassOK' /\ (\A x \in Email : PassMove(x)) /\ \A x \in tasks' : passes'[x] # NoPass
  <2> DEFINE e == req[t].user
             row == [at |-> req[t].at, mail |-> IF MailConfigured THEN "queued" ELSE "off"]
  <2>1. /\ req[t].pc = "issuing" /\ Free(e) /\ passes' = [passes EXCEPT ![e] = row]
        /\ users' = [users EXCEPT ![e] = NewUser("viewer", FALSE, judge_pass_until)]
        /\ tasks' \in {tasks, tasks \cup {e}} /\ enabled' = enabled
    BY <1>2 DEF RedeemCommit
  <2>2. e \in Email /\ req[t].at \in Time
    BY <1>q, <2>1, RequestIs DEF TypeInv, Owned
  <2>3. row \in PassRow /\ row.at = req[t].at
    BY <2>2 DEF PassRow
  <2> HIDE DEF row
  <2>4. passes'[e] = row /\ \A x \in Email \ {e} : passes'[x] = passes[x]
    BY <1>p, <2>1, <2>2
  <2>5. PassOK'
    BY <1>p, <2>1, <2>2, <2>3 DEF PassOK
  <2>6. PassMove(e)
    BY <1>2, <2>1, <2>3, <2>4 DEF PassMove, Free
  <2>7. \A x \in Email \ {e} : PassMove(x)
    BY <2>4 DEF PassMove
  <2>8. row # NoPass
    BY <2>3, PassRowIs
  <2> HIDE DEF e
  <2> QED
    BY <1>p, <1>k, <2>1, <2>2, <2>4, <2>5, <2>6, <2>7, <2>8
<1>3. ASSUME NEW t \in Thread, NEW value \in BOOLEAN, Switch(t, value)
      PROVE  UNCHANGED passes /\ enabled' \in BOOLEAN /\ tasks' \subseteq tasks
  BY <1>3 DEF Switch
<1>4. ASSUME \A t \in Thread : ~(RedeemCommit(t) /\ ~UNCHANGED <<passes, tasks>>),
             \A t \in Thread, value \in BOOLEAN : ~Switch(t, value),
             \A e \in Email, o \in send : ~Deliver(e, o)
      PROVE  UNCHANGED passes /\ enabled' \in BOOLEAN /\ tasks' \subseteq tasks
  BY <1>p, <1>4 DEF PassNext, allVars, passVars, RedeemCheck, RedeemCommit, DeliverUnrecorded
<1> QED
  BY <1>0, <1>1, <1>2, <1>3, <1>4

\* The clock.
LEMMA ClockStep ==
    ASSUME TypeInv, [PassNext]_allVars
    PROVE  now' \in Time /\ now <= now'
<1>t. now \in Time
  BY TypeParts DEF TypeInv
<1>1. CASE Tick
  BY <1>1, <1>t, Sizes DEF Tick, Time
<1>2. CASE UNCHANGED now
  BY <1>2, <1>t, Sizes DEF Time
<1>3. ASSUME ~Tick PROVE UNCHANGED now
  BY <1>3 DEF PassNext, allVars, vars, Requests, Restart, RaiseCost, Bootstrap, Logout, Refused,
              Wake, LoginIssue, LoginLost, Read, AdminRead, PasswordWrite, LoginVerify, Resolve,
              PasswordVerify, AddUser, UpdateRole, UpdateActive, ResetPassword, LoginCheck,
              RedeemCheck, RedeemCommit, Switch, Deliver, DeliverUnrecorded
<1> QED
  BY <1>1, <1>2, <1>3

LEMMA TypeInvInit == PassInit => TypeInv
<1> SUFFICES ASSUME PassInit PROVE TypeInv
  OBVIOUS
<1>1. now \in Time /\ UsersOK /\ SessOK /\ FailsOK /\ HistOK /\ PassOK
  <2>1. now \in Time /\ UsersOK /\ SessOK
    BY Sizes DEF PassInit, Init, Time, UsersOK, SessOK
  <2>2. FailsOK
    BY DEF PassInit, Init, FailsOK, NoFailures
  <2>3. HistOK /\ PassOK
    BY DEF PassInit, Init, HistOK, PassOK
  <2> QED
    BY <2>1, <2>2, <2>3
<1>2. ReqOK
  BY DEF PassInit, Init, ReqOK, Request
<1>3. Owned
  BY DEF PassInit, Init, Owned, Idle
<1> QED
  BY <1>1, <1>2, <1>3, TypeParts DEF TypeInv

LEMMA TypeInvStep == TypeInv /\ [PassNext]_allVars => TypeInv'
<1> SUFFICES ASSUME TypeInv, [PassNext]_allVars PROVE TypeInv'
  OBVIOUS
<1>1. /\ now' \in Time /\ UsersOK' /\ SessOK' /\ FailsOK' /\ ReqOK' /\ HistOK' /\ PassOK'
      /\ \A v \in User : Exists(v) => Kept(v)
      /\ \A k \in Token : SessionMove(k)
      /\ \A t \in Thread : ReqMove(t)
      /\ \A e \in tasks' : passes'[e] # NoPass
  BY ClockStep, UsersStep, SessionsStep, WindowsStep, RequestsStep, PassesStep
<1>2. TypeOK'
  BY <1>1 DEF TypeOK, AccountsTypeOK, UsersOK, SessOK, FailsOK, ReqOK, HistOK, PassOK
<1>3. \A v \in User : Exists(v) => users'[v] # NoUser
  BY <1>1, UserRowIs DEF Kept
<1>4. ASSUME NEW k \in Token, sess'[k] # NoSession PROVE users'[sess'[k].user] # NoUser
  <2>1. CASE OldSession(k)
    <3>1. sess[k] # NoSession /\ sess'[k].user = sess[k].user
      BY <2>1 DEF OldSession
    <3>2. Exists(sess[k].user) /\ sess[k].user \in User
      BY <3>1, SessionRowIs, TypeParts DEF TypeInv, Owned, SessOK
    <3> QED
      BY <1>3, <3>1, <3>2
  <2>2. CASE NewSession(k)
    BY <2>2, UserRowIs DEF NewSession
  <2> QED
    BY <1>1, <1>4, <2>1, <2>2 DEF SessionMove
<1>5. ASSUME NEW t \in Thread, req'[t].pc \in {"verified", "served", "changing"}
      PROVE  users'[req'[t].user] # NoUser
  <2>1. req'[t] \in Request
    BY <1>1 DEF ReqOK
  <2>2. req'[t].user \in User
    BY <1>5, <2>1, RequestIs
  <2>3. Exists(req'[t].user)
    BY <1>1, <1>5 DEF ReqMove, Idle, TypeInv, Owned
  <2> QED
    BY <1>3, <2>2, <2>3
<1>6. ASSUME NEW t \in Thread, req'[t].pc = "issuing" PROVE req'[t].user \in Email
  BY <1>1, <1>6 DEF ReqMove, Idle, TypeInv, Owned
<1>7. Owned'
  BY <1>1, <1>4, <1>5, <1>6 DEF Owned, Exists
<1> QED
  BY <1>2, <1>7 DEF TypeInv

----------------------------------------------------------------------------
(* Ended sessions *)

LEMMA OvertakenStays ==
    ASSUME [PassNext]_allVars PROVE overtaken \subseteq overtaken'
  BY DEF PassNext, allVars, vars, history, Requests, Tick, Restart, RaiseCost, Bootstrap, Logout,
         Refused, Wake, LoginIssue, LoginLost, Read, AdminRead, PasswordWrite, LoginVerify,
         Resolve, PasswordVerify, AddUser, UpdateRole, UpdateActive, ResetPassword, LoginCheck,
         RedeemCheck, RedeemCommit, Switch, Deliver, DeliverUnrecorded, Overtakes

LEMMA EndedStep ==
    ASSUME TypeInv, EndedSessionsStayDead, [PassNext]_allVars
    PROVE  EndedSessionsStayDead'
<1> SUFFICES ASSUME NEW k \in Token, sess'[k] # NoSession, ~sess'[k].revoked
             PROVE  sess'[k].gen = gen'[sess'[k].user] \/ sess'[k].user \in overtaken'
  BY DEF EndedSessionsStayDead
<1>1. SessionMove(k) /\ overtaken \subseteq overtaken'
  BY SessionsStep, OvertakenStays
<1>2. CASE OldSession(k)
  <2>1. /\ sess[k] # NoSession /\ sess'[k].user = sess[k].user /\ sess'[k].gen = sess[k].gen
        /\ gen'[sess[k].user] = gen[sess[k].user] /\ ~sess[k].revoked
    BY <1>2 DEF OldSession
  <2> QED
    BY <1>1, <2>1 DEF EndedSessionsStayDead
<1>3. CASE NewSession(k)
  BY <1>3 DEF NewSession
<1> QED
  BY <1>1, <1>2, <1>3 DEF SessionMove

----------------------------------------------------------------------------
(* The password that works *)

\* What a step may do to the credentials of an account: nothing, a new account, a new
\* password, the end of its sessions, or the upgrade of a hash by a sign-in.
CredentialMove(u) ==
    \/ /\ ~Exists(u) /\ chosen'[u] = chosen[u] /\ gen'[u] = gen[u]
       /\ users'[u] = NoUser \/ users'[u].pw = 0
    \/ /\ Exists(u) /\ users'[u] # NoUser
       /\ \/ users'[u].pw = users[u].pw /\ chosen'[u] = chosen[u] /\ gen'[u] = gen[u]
          \/ users'[u].pw = users[u].pw /\ chosen'[u] = chosen[u] /\ gen'[u] = gen[u] + 1
          \/ users'[u].pw = chosen'[u] /\ gen'[u] = gen[u] + 1
          \/ /\ chosen'[u] = chosen[u] /\ gen'[u] = gen[u]
             /\ \E t \in Thread : /\ req[t].pc = "verified" /\ req[t].user = u
                                  /\ users'[u].pw = req[t].pw
                                  /\ req[t].gen = gen[u] \/ u \in overtaken'

\* One row is written.
LEMMA OneRow ==
    ASSUME UsersOK, NEW u \in User, NEW row, users' = [users EXCEPT ![u] = row]
    PROVE  users'[u] = row /\ \A v \in User \ {u} : users'[v] = users[v]
  BY DEF UsersOK

LEMMA CredentialsStill ==
    ASSUME UsersOK, NEW u \in User, users'[u] = users[u], gen'[u] = gen[u], chosen'[u] = chosen[u]
    PROVE  CredentialMove(u)
  BY DEF CredentialMove, Exists

LEMMA CredentialsStep ==
    ASSUME TypeInv, [PassNext]_allVars, NEW v \in User
    PROVE  CredentialMove(v)
<1>t. now \in Time /\ UsersOK /\ SessOK /\ ReqOK /\ HistOK
  BY TypeParts DEF TypeInv
<1>q. ASSUME NEW t \in Thread PROVE req[t] \in Request
  BY <1>t DEF ReqOK
<1>h. gen \in [User -> Nat] /\ chosen \in [User -> Nat]
  BY <1>t DEF HistOK
<1>0. CASE UNCHANGED <<users, gen, chosen>>
  BY <1>0, <1>t, CredentialsStill
<1>1. ASSUME NEW u \in User, ~Exists(u), UNCHANGED <<gen, chosen>>,
             NEW r, NEW must, NEW until, users' = [users EXCEPT ![u] = NewUser(r, must, until)]
      PROVE  CredentialMove(v)
  <2>1. users'[u] = NewUser(r, must, until) /\ \A w \in User \ {u} : users'[w] = users[w]
    BY <1>t, <1>1, OneRow
  <2>2. users'[u].pw = 0
    BY <2>1 DEF NewUser
  <2>3. CASE v = u
    BY <1>1, <2>2, <2>3 DEF CredentialMove
  <2>4. CASE v # u
    BY <1>t, <1>1, <2>1, <2>4, CredentialsStill
  <2> QED
    BY <2>3, <2>4
<1>2. ASSUME NEW u \in User, NEW forced \in BOOLEAN, NEW generated \in BOOLEAN,
             Bootstrap(u, forced, generated)
      PROVE  CredentialMove(v)
  BY <1>1, <1>2 DEF Bootstrap, history
<1>3. ASSUME NEW t \in Thread, NEW u \in User, NEW r \in ROLES, AddUser(t, u, r)
      PROVE  CredentialMove(v)
  BY <1>1, <1>3 DEF AddUser, history
<1>4. ASSUME NEW t \in Thread, RedeemCommit(t) PROVE CredentialMove(v)
  <2>1. CASE Free(req[t].user)
    <3>1. req[t].user \in User
      BY <1>q, <1>4, RequestIs DEF RedeemCommit
    <3>2. /\ ~Exists(req[t].user) /\ UNCHANGED <<gen, chosen>>
          /\ users' = [users EXCEPT ![req[t].user] = NewUser("viewer", FALSE, judge_pass_until)]
      BY <1>4, <2>1 DEF RedeemCommit, Free, history
    <3> QED
      BY <1>1, <3>1, <3>2
  <2>2. CASE ~Free(req[t].user)
    BY <1>0, <1>4, <2>2 DEF RedeemCommit, history
  <2> QED
    BY <2>1, <2>2
<1>5. ASSUME NEW t \in Thread, NEW u \in User, NEW r \in ROLES, UpdateRole(t, u, r)
      PROVE  CredentialMove(v)
  <2>0. Exists(u) /\ users' = [users EXCEPT ![u].role = r] /\ UNCHANGED <<gen, chosen>>
    BY <1>5 DEF UpdateRole
  <2> DEFINE row == [users[u] EXCEPT !.role = r]
  <2>1. users' = [users EXCEPT ![u] = row] /\ row \in UserRow
    BY <1>t, <2>0, RoleWrite
  <2>2. row.pw = users[u].pw
    BY <1>t, <2>0, ExistsIs DEF UserRow
  <2> HIDE DEF row
  <2>3. users'[u] = row /\ \A w \in User \ {u} : users'[w] = users[w]
    BY <1>t, <2>1, OneRow
  <2>4. CASE v = u
    BY <2>0, <2>1, <2>2, <2>3, <2>4, UserRowIs DEF CredentialMove
  <2>5. CASE v # u
    BY <1>t, <2>0, <2>3, <2>5, CredentialsStill
  <2> QED
    BY <2>4, <2>5
<1>6. ASSUME NEW t \in Thread, NEW u \in User, NEW active \in BOOLEAN, UpdateActive(t, u, active)
      PROVE  CredentialMove(v)
  <2>0. /\ Exists(u) /\ users' = [users EXCEPT ![u].active = active] /\ UNCHANGED chosen
        /\ gen' = gen \/ gen' = [gen EXCEPT ![u] = @ + 1]
    BY <1>6 DEF UpdateActive
  <2> DEFINE row == [users[u] EXCEPT !.active = active]
  <2>1. users' = [users EXCEPT ![u] = row] /\ row \in UserRow
    BY <1>t, <2>0, ActiveWrite
  <2>2. row.pw = users[u].pw
    BY <1>t, <2>0, ExistsIs DEF UserRow
  <2> HIDE DEF row
  <2>3. users'[u] = row /\ \A w \in User \ {u} : users'[w] = users[w]
    BY <1>t, <2>1, OneRow
  <2>4. gen'[u] \in {gen[u], gen[u] + 1} /\ \A w \in User \ {u} : gen'[w] = gen[w]
    BY <1>h, <2>0
  <2>5. CASE v = u
    BY <2>0, <2>1, <2>2, <2>3, <2>4, <2>5, UserRowIs DEF CredentialMove
  <2>6. CASE v # u
    BY <1>t, <2>0, <2>3, <2>4, <2>6, CredentialsStill
  <2> QED
    BY <2>5, <2>6
<1>7. ASSUME NEW u \in User, Exists(u), NEW must \in BOOLEAN, NEW reissue \in BOOLEAN,
             set_password(u, must, reissue)
      PROVE  CredentialMove(v)
  <2> DEFINE p == gen[u] + 1
             row == [users[u] EXCEPT !.pw = p, !.weak = FALSE, !.must = must]
  <2>p. p \in Nat /\ users' = [users EXCEPT ![u].pw = p, ![u].weak = FALSE, ![u].must = must]
    BY <1>h, <1>7 DEF set_password
  <2>0. /\ gen'[u] = gen[u] + 1 /\ chosen'[u] = p
        /\ \A w \in User \ {u} : gen'[w] = gen[w] /\ chosen'[w] = chosen[w]
    BY <1>h, <1>7 DEF set_password
  <2> HIDE DEF p
  <2>1. users' = [users EXCEPT ![u] = row] /\ row \in UserRow
    BY <1>t, <1>7, <2>p, PasswordWriteRow
  <2>2. row.pw = p
    BY <1>t, <1>7, ExistsIs DEF UserRow
  <2> HIDE DEF row
  <2>3. users'[u] = row /\ \A w \in User \ {u} : users'[w] = users[w]
    BY <1>t, <2>1, OneRow
  <2>4. CASE v = u
    BY <1>7, <2>0, <2>1, <2>2, <2>3, <2>4, UserRowIs DEF CredentialMove
  <2>5. CASE v # u
    BY <1>t, <2>0, <2>3, <2>5, CredentialsStill
  <2> QED
    BY <2>4, <2>5
<1>8. ASSUME NEW t \in Thread, PasswordWrite(t) PROVE CredentialMove(v)
  <2>1. req[t].user \in User /\ Exists(req[t].user)
    BY <1>q, <1>8, RequestIs DEF PasswordWrite, TypeInv, Owned
  <2> QED
    BY <1>7, <1>8, <2>1 DEF PasswordWrite
<1>9. ASSUME NEW t \in Thread, NEW u \in User, ResetPassword(t, u) PROVE CredentialMove(v)
  BY <1>7, <1>9 DEF ResetPassword
<1>10. ASSUME NEW t \in Thread, LoginIssue(t) PROVE CredentialMove(v)
  <2> DEFINE u == req[t].user
             p == req[t].pw
             row == [users[u] EXCEPT !.pw = p, !.weak = FALSE]
  <2>0. u \in User /\ p \in Nat /\ Exists(u)
    BY <1>q, <1>10, RequestIs DEF LoginIssue, TypeInv, Owned
  <2>1. /\ req[t].pc = "verified" /\ UNCHANGED <<gen, chosen>>
        /\ req[t].gen = gen[u] \/ u \in overtaken'
        /\ users' = users \/ users' = [users EXCEPT ![u].pw = p, ![u].weak = FALSE]
    BY <1>10 DEF LoginIssue, Rehashed, Overtakes
  <2>2. CASE users' = users
    BY <1>0, <2>1, <2>2
  <2>3. CASE users' = [users EXCEPT ![u].pw = p, ![u].weak = FALSE]
    <3> HIDE DEF u, p
    <3>1. users' = [users EXCEPT ![u] = row] /\ row \in UserRow
      BY <1>t, <2>0, <2>3, HashWrite
    <3>2. row.pw = p
      BY <1>t, <2>0, ExistsIs DEF UserRow
    <3> HIDE DEF row
    <3>3. users'[u] = row /\ \A w \in User \ {u} : users'[w] = users[w]
      BY <1>t, <2>0, <3>1, OneRow
    <3>4. users'[u] # NoUser
      BY <3>1, <3>3, UserRowIs
    <3>5. CASE v = u
      BY <2>0, <2>1, <3>2, <3>3, <3>4, <3>5 DEF CredentialMove, u, p
    <3>6. CASE v # u
      BY <1>t, <2>1, <3>3, <3>6, CredentialsStill
    <3> QED
      BY <3>5, <3>6
  <2> QED
    BY <2>1, <2>2, <2>3
<1>11. ASSUME RaiseCost PROVE CredentialMove(v)
  <2>1. /\ UNCHANGED <<gen, chosen>>
        /\ users'[v] = IF Exists(v) THEN [users[v] EXCEPT !.weak = TRUE] ELSE users[v]
    BY <1>11 DEF RaiseCost, history
  <2>2. CASE Exists(v)
    <3>1. users[v] \in UserRow
      BY <1>t, <2>2, ExistsIs
    <3>2. [users[v] EXCEPT !.weak = TRUE] \in UserRow /\ [users[v] EXCEPT !.weak = TRUE].pw = users[v].pw
      BY <3>1 DEF UserRow
    <3> QED
      BY <2>1, <2>2, <3>2, UserRowIs DEF CredentialMove
  <2>3. CASE ~Exists(v)
    BY <1>t, <2>1, <2>3, CredentialsStill
  <2> QED
    BY <2>2, <2>3
<1>12. ASSUME ~RaiseCost,
              \A u \in User : \A forced, generated \in BOOLEAN : ~Bootstrap(u, forced, generated),
              \A t \in Thread : ~PasswordWrite(t) /\ ~LoginIssue(t) /\ ~RedeemCommit(t),
              \A t \in Thread : \A u \in User :
                 /\ ~ResetPassword(t, u)
                 /\ \A r \in ROLES : ~AddUser(t, u, r) /\ ~UpdateRole(t, u, r)
                 /\ \A active \in BOOLEAN : ~UpdateActive(t, u, active)
       PROVE  UNCHANGED <<users, gen, chosen>>
  BY <1>12 DEF PassNext, allVars, vars, history, Requests, Tick, Restart, Logout, Refused, Wake,
               LoginLost, Read, AdminRead, LoginVerify, Resolve, PasswordVerify, LoginCheck,
               RedeemCheck, Switch, Deliver, DeliverUnrecorded
<1> QED
  BY <1>0, <1>2, <1>3, <1>4, <1>5, <1>6, <1>8, <1>9, <1>10, <1>11, <1>12

\* What a request that has verified a password knows of it: it is the current one as
\* long as no session end came in between.
Fresh(t) ==
    req[t].pc = "verified" =>
        /\ req[t].gen <= gen[req[t].user]
        /\ \/ req[t].gen # gen[req[t].user]
           \/ req[t].pw = chosen[req[t].user]
           \/ req[t].user \in overtaken

PasswordInv ==
    /\ PasswordIsLatest
    /\ \A u \in User : ~Exists(u) => chosen[u] = 0
    /\ \A t \in Thread : Fresh(t)

LEMMA PasswordStep ==
    ASSUME TypeInv, PasswordInv, [PassNext]_allVars
    PROVE  PasswordInv'
<1>t. UsersOK /\ ReqOK /\ HistOK
  BY TypeParts DEF TypeInv
<1>h. gen \in [User -> Nat] /\ chosen \in [User -> Nat]
  BY <1>t DEF HistOK
<1>m. /\ ReqOK' /\ overtaken \subseteq overtaken'
      /\ \A u \in User : CredentialMove(u)
      /\ \A t \in Thread : ReqMove(t)
  BY RequestsStep, OvertakenStays, CredentialsStep
<1>1. ASSUME NEW u \in User, users'[u] # NoUser PROVE users'[u].pw = chosen'[u] \/ u \in overtaken'
  <2>1. CASE ~Exists(u)
    BY <1>m, <1>1, <2>1 DEF CredentialMove, PasswordInv
  <2>2. CASE Exists(u) /\ users'[u].pw = users[u].pw /\ chosen'[u] = chosen[u]
    BY <1>m, <2>2 DEF PasswordInv, PasswordIsLatest
  <2>3. ASSUME Exists(u), chosen'[u] = chosen[u], gen'[u] = gen[u],
               NEW t \in Thread, req[t].pc = "verified", req[t].user = u,
               users'[u].pw = req[t].pw, req[t].gen = gen[u] \/ u \in overtaken'
        PROVE  users'[u].pw = chosen'[u] \/ u \in overtaken'
    BY <1>m, <2>3 DEF PasswordInv, Fresh
  <2> QED
    BY <1>m, <2>1, <2>2, <2>3 DEF CredentialMove
<1>2. ASSUME NEW u \in User, users'[u] = NoUser PROVE chosen'[u] = 0
  BY <1>m, <1>2 DEF CredentialMove, PasswordInv
<1>3. ASSUME NEW t \in Thread PROVE Fresh(t)'
  <2> SUFFICES ASSUME req'[t].pc = "verified"
               PROVE  /\ req'[t].gen <= gen'[req'[t].user]
                      /\ \/ req'[t].gen # gen'[req'[t].user]
                         \/ req'[t].pw = chosen'[req'[t].user]
                         \/ req'[t].user \in overtaken'
    BY DEF Fresh
  <2> DEFINE u == req'[t].user
             g == req'[t].gen
  <2>0. u \in User /\ g \in Nat
    BY <1>m, RequestIs DEF ReqOK
  <2>1. CASE req'[t] = req[t]
    <3>1. /\ req[t].pc = "verified" /\ Exists(u) /\ g <= gen[u]
          /\ g # gen[u] \/ req'[t].pw = chosen[u] \/ u \in overtaken
      BY <2>1 DEF TypeInv, Owned, PasswordInv, Fresh
    <3>2. \/ gen'[u] = gen[u] /\ chosen'[u] = chosen[u]
          \/ gen'[u] = gen[u] + 1
      BY <1>m, <2>0, <3>1 DEF CredentialMove
    <3> HIDE DEF u, g
    <3>3. gen[u] \in Nat
      BY <1>h, <2>0
    <3>4. g <= gen'[u] /\ (g # gen'[u] \/ (gen'[u] = gen[u] /\ chosen'[u] = chosen[u]))
      BY <2>0, <3>1, <3>2, <3>3
    <3> QED
      BY <1>m, <3>1, <3>2, <3>4 DEF u, g
  <2>2. CASE /\ Exists(u) /\ g = gen[u] /\ req'[t].pw = users[u].pw
             /\ UNCHANGED <<users, gen, chosen, overtaken>>
    <3>1. req'[t].pw = chosen[u] \/ u \in overtaken
      BY <2>0, <2>2 DEF PasswordInv, PasswordIsLatest
    <3>2. g <= gen[u]
      BY <2>0, <2>2
    <3> QED
      BY <2>2, <3>1, <3>2
  <2> QED
    BY <1>m, <2>1, <2>2 DEF ReqMove, Idle
<1> QED
  BY <1>1, <1>2, <1>3 DEF PasswordInv, PasswordIsLatest, Exists

\* A refusal stands as it was made.
LEMMA RefusalStep ==
    ASSUME TypeInv, NoSharedLockout, [PassNext]_allVars
    PROVE  NoSharedLockout'
<1> SUFFICES ASSUME NEW t \in Thread, req'[t].pc = "refused", req'[t].addr \notin Distinct
             PROVE  req'[t].own
  BY DEF NoSharedLockout
<1>1. ReqMove(t)
  BY RequestsStep
<1>2. CASE req'[t] = req[t]
  BY <1>2 DEF NoSharedLockout
<1> QED
  BY <1>1, <1>2 DEF ReqMove, Idle

----------------------------------------------------------------------------
(* The end of a pass *)

\* An account that was not there before has no end date, or a pass came with it.
LEMMA NewAccount ==
    ASSUME TypeInv, [PassNext]_allVars, NEW v \in User, ~Exists(v), users'[v] # NoUser
    PROVE  users'[v].until = Never \/ (v \in Email /\ passes'[v] # NoPass)
<1>t. UsersOK /\ ReqOK /\ PassOK
  BY TypeParts DEF TypeInv
<1>q. ASSUME NEW t \in Thread PROVE req[t] \in Request
  BY <1>t DEF ReqOK
<1>n. ASSUME NEW u \in User, NEW r, NEW must,
             users' = [users EXCEPT ![u] = NewUser(r, must, Never)]
      PROVE  users'[v].until = Never
  <2>1. users'[u] = NewUser(r, must, Never) /\ \A w \in User \ {u} : users'[w] = users[w]
    BY <1>t, <1>n, OneRow
  <2>2. v = u
    BY <2>1 DEF Exists
  <2>3. NewUser(r, must, Never).until = Never
    BY DEF NewUser
  <2> QED
    BY <2>1, <2>2, <2>3
<1>1. ASSUME NEW u \in User, NEW forced \in BOOLEAN, NEW generated \in BOOLEAN,
             Bootstrap(u, forced, generated)
      PROVE  users'[v].until = Never
  BY <1>n, <1>1 DEF Bootstrap
<1>2. ASSUME NEW t \in Thread, NEW u \in User, NEW r \in ROLES, AddUser(t, u, r)
      PROVE  users'[v].until = Never
  BY <1>n, <1>2 DEF AddUser
<1>3. ASSUME NEW t \in Thread, RedeemCommit(t) PROVE v \in Email /\ passes'[v] # NoPass
  <2> DEFINE e == req[t].user
             row == [at |-> req[t].at, mail |-> IF MailConfigured THEN "queued" ELSE "off"]
  <2>0. e \in Email /\ e \in User
    BY <1>q, <1>3, Sizes DEF RedeemCommit, TypeInv, Owned
  <2>1. Free(e)
    BY <1>3 DEF RedeemCommit, Exists
  <2>2. /\ users' = [users EXCEPT ![e] = NewUser("viewer", FALSE, judge_pass_until)]
        /\ passes' = [passes EXCEPT ![e] = row]
    BY <1>3, <2>1 DEF RedeemCommit
  <2>3. row.mail # "none"
    OBVIOUS
  <2> HIDE DEF e, row
  <2>4. v = e
    BY <1>t, <2>0, <2>2, OneRow DEF Exists
  <2>5. row # NoPass
    BY <2>3 DEF NoPass
  <2> QED
    BY <1>t, <2>0, <2>2, <2>4, <2>5 DEF PassOK
<1>u. ASSUME NEW u \in User, Exists(u), NEW row, users' = [users EXCEPT ![u] = row]
      PROVE  FALSE
  BY <1>t, <1>u, OneRow DEF Exists
<1>4. ASSUME NEW t \in Thread, NEW u \in User, NEW r \in ROLES, UpdateRole(t, u, r) PROVE FALSE
  <2>1. Exists(u) /\ users' = [users EXCEPT ![u].role = r]
    BY <1>4 DEF UpdateRole
  <2> QED
    BY <1>t, <1>u, <2>1, RoleWrite
<1>5. ASSUME NEW t \in Thread, NEW u \in User, NEW active \in BOOLEAN, UpdateActive(t, u, active)
      PROVE  FALSE
  <2>1. Exists(u) /\ users' = [users EXCEPT ![u].active = active]
    BY <1>5 DEF UpdateActive
  <2> QED
    BY <1>t, <1>u, <2>1, ActiveWrite
<1>6. ASSUME NEW u \in User, Exists(u), NEW must, NEW reissue, set_password(u, must, reissue)
      PROVE  FALSE
  <2>1. \A w \in User \ {u} : users'[w] = users[w]
    BY <1>t, <1>6 DEF set_password, UsersOK
  <2> QED
    BY <1>6, <2>1 DEF Exists
<1>7. ASSUME NEW t \in Thread, PasswordWrite(t) PROVE FALSE
  <2>1. req[t].user \in User /\ Exists(req[t].user)
    BY <1>q, <1>7, RequestIs DEF PasswordWrite, TypeInv, Owned
  <2> QED
    BY <1>6, <1>7, <2>1 DEF PasswordWrite
<1>8. ASSUME NEW t \in Thread, NEW u \in User, ResetPassword(t, u) PROVE FALSE
  BY <1>6, <1>8 DEF ResetPassword
<1>9. ASSUME NEW t \in Thread, LoginIssue(t) PROVE FALSE
  <2> DEFINE u == req[t].user
  <2>1. u \in User /\ Exists(u)
    BY <1>q, <1>9, RequestIs DEF LoginIssue, TypeInv, Owned
  <2>2. users' = users \/ users' = [users EXCEPT ![u].pw = req[t].pw, ![u].weak = FALSE]
    BY <1>9 DEF LoginIssue, Rehashed
  <2> HIDE DEF u
  <2>3. \A w \in User \ {u} : users'[w] = users[w]
    BY <1>t, <2>2 DEF UsersOK
  <2> QED
    BY <2>1, <2>3 DEF Exists
<1>10. ASSUME RaiseCost PROVE FALSE
  <2>1. users'[v] = users[v]
    BY <1>10 DEF RaiseCost
  <2> QED
    BY <2>1 DEF Exists
<1>11. ASSUME ~RaiseCost,
              \A u \in User : \A forced, generated \in BOOLEAN : ~Bootstrap(u, forced, generated),
              \A t \in Thread : ~PasswordWrite(t) /\ ~LoginIssue(t) /\ ~RedeemCommit(t),
              \A t \in Thread : \A u \in User :
                 /\ ~ResetPassword(t, u)
                 /\ \A r \in ROLES : ~AddUser(t, u, r) /\ ~UpdateRole(t, u, r)
                 /\ \A active \in BOOLEAN : ~UpdateActive(t, u, active)
       PROVE  UNCHANGED users
  BY <1>11 DEF PassNext, allVars, vars, Requests, Tick, Restart, Logout, Refused, Wake, LoginLost,
               Read, AdminRead, LoginVerify, Resolve, PasswordVerify, LoginCheck, RedeemCheck,
               Switch, Deliver, DeliverUnrecorded
<1>12. ~UNCHANGED users
  BY DEF Exists
<1> QED
  BY <1>1, <1>2, <1>3, <1>4, <1>5, <1>7, <1>8, <1>9, <1>10, <1>11, <1>12

\* Passes and end dates belong together, and so do the sessions.
PassEnds(e) ==
    /\ passes[e] # NoPass => Exists(e) /\ users[e].until = judge_pass_until
    /\ passes[e] = NoPass => ~Exists(e) \/ users[e].until = Never
    /\ \A k \in Token : sess[k].user = e /\ passes[e] # NoPass => sess[k].expires <= judge_pass_until

EndsInv == \A e \in Email : PassEnds(e)

LEMMA EndsStep ==
    ASSUME TypeInv, EndsInv, [PassNext]_allVars
    PROVE  EndsInv'
<1> SUFFICES ASSUME NEW e \in Email PROVE PassEnds(e)'
  BY DEF EndsInv
<1>t. UsersOK /\ SessOK /\ ReqOK /\ PassOK /\ e \in User /\ UsersOK'
  BY TypeParts, Sizes, UsersStep DEF TypeInv
<1>i. PassEnds(e)
  BY DEF EndsInv
<1>m. /\ PassMove(e) /\ (Exists(e) => Kept(e))
      /\ \A k \in Token : SessionMove(k)
  BY <1>t, PassesStep, UsersStep, SessionsStep
<1>u. Exists(e) => users'[e] # NoUser /\ users'[e].until = users[e].until
  BY <1>m, UserRowIs DEF Kept
<1>p. ASSUME NEW x \in PassRow PROVE x # NoPass
  BY PassRowIs
<1>n. ASSUME passes[e] = NoPass, passes'[e] # NoPass
      PROVE  ~Exists(e) /\ users'[e] # NoUser /\ users'[e].until = judge_pass_until
  <2>1. ~Exists(e) /\ users' = [users EXCEPT ![e] = NewUser("viewer", FALSE, judge_pass_until)]
    BY <1>m, <1>n, <1>p DEF PassMove
  <2>2. users'[e] = NewUser("viewer", FALSE, judge_pass_until)
    BY <1>t, <2>1, OneRow
  <2>3. NewUser("viewer", FALSE, judge_pass_until).until = judge_pass_until
    BY DEF NewUser
  <2>4. NewUser("viewer", FALSE, judge_pass_until) # NoUser
    BY NewUserIs, UserRowIs, Sizes DEF ROLES
  <2> QED
    BY <2>1, <2>2, <2>3, <2>4
<1>1. passes'[e] # NoPass => users'[e] # NoUser /\ users'[e].until = judge_pass_until
  BY <1>i, <1>u, <1>n DEF PassEnds
<1>2. passes'[e] = NoPass => users'[e] = NoUser \/ users'[e].until = Never
  <2> SUFFICES ASSUME passes'[e] = NoPass, users'[e] # NoUser PROVE users'[e].until = Never
    OBVIOUS
  <2>1. passes[e] = NoPass
    BY <1>m, <1>p DEF PassMove
  <2>2. CASE Exists(e)
    BY <1>i, <1>u, <2>1, <2>2 DEF PassEnds
  <2>3. CASE ~Exists(e)
    BY <1>t, <2>3, NewAccount
  <2> QED
    BY <2>2, <2>3
<1>3. ASSUME NEW k \in Token, sess'[k].user = e, passes'[e] # NoPass
      PROVE  sess'[k].expires <= judge_pass_until
  <2>0. sess'[k] # NoSession
    BY <1>t, <1>3, Sizes DEF NoSession
  <2>1. CASE OldSession(k)
    <3>1. sess[k] # NoSession /\ sess[k].user = e /\ sess'[k].expires = sess[k].expires
      BY <1>3, <2>1 DEF OldSession
    <3>2. Exists(e)
      BY <3>1 DEF TypeInv, Owned
    <3>3. passes[e] # NoPass
      BY <1>3, <1>n, <3>2
    <3> QED
      BY <1>i, <3>1, <3>3 DEF PassEnds
  <2>2. CASE NewSession(k)
    BY <1>1, <1>3, <2>2 DEF NewSession
  <2> QED
    BY <1>m, <2>0, <2>1, <2>2 DEF SessionMove
<1> QED
  BY <1>1, <1>2, <1>3 DEF PassEnds, Exists

LEMMA EndsAccess == EndsInv => PassEndsAccess
<1>1. judge_pass_until # Never
  BY Sizes
<1> QED
  BY <1>1 DEF EndsInv, PassEnds, PassEndsAccess

----------------------------------------------------------------------------
(* An administrator remains *)

Seat(v) == users'[v] # NoUser /\ users'[v].role = users[v].role /\ users'[v].active = users[v].active

\* A row written over another account, or one that keeps role and state, takes nobody's seat.
LEMMA SeatWritten ==
    ASSUME UsersOK, NEW v \in User, Exists(v), NEW u \in User, NEW row \in UserRow,
           users' = [users EXCEPT ![u] = row],
           \/ u # v
           \/ row.role = users[u].role /\ row.active = users[u].active
    PROVE  Seat(v)
<1>1. users'[u] = row /\ \A w \in User \ {u} : users'[w] = users[w]
  BY OneRow
<1>2. CASE u = v
  BY <1>1, <1>2, UserRowIs DEF Seat
<1>3. CASE u # v
  BY <1>1, <1>3 DEF Seat, Exists
<1> QED
  BY <1>2, <1>3

\* Only update_user touches a role or disables an account.
LEMMA SeatsKept ==
    ASSUME TypeInv, [PassNext]_allVars, NEW v \in User, Exists(v)
    PROVE  \/ Seat(v)
           \/ \E t \in Thread, u \in User :
                 \/ \E r \in ROLES : UpdateRole(t, u, r)
                 \/ \E active \in BOOLEAN : UpdateActive(t, u, active)
<1>t. UsersOK /\ ReqOK /\ HistOK
  BY TypeParts DEF TypeInv
<1>q. ASSUME NEW t \in Thread PROVE req[t] \in Request
  BY <1>t DEF ReqOK
<1>0. CASE UNCHANGED users
  BY <1>0 DEF Seat, Exists
<1>1. ASSUME NEW u \in User, NEW forced \in BOOLEAN, NEW generated \in BOOLEAN,
             Bootstrap(u, forced, generated)
      PROVE  Seat(v)
  <2>1. NewUser("admin", generated, Never) \in UserRow
    BY NewUserIs, Sizes DEF ROLES
  <2> QED
    BY <1>t, <1>1, <2>1, SeatWritten DEF Bootstrap
<1>2. ASSUME NEW t \in Thread, NEW u \in User, NEW r \in ROLES, AddUser(t, u, r) PROVE Seat(v)
  <2>1. NewUser(r, TRUE, Never) \in UserRow
    BY NewUserIs, Sizes
  <2> QED
    BY <1>t, <1>2, <2>1, SeatWritten DEF AddUser
<1>3. ASSUME NEW t \in Thread, RedeemCommit(t), ~UNCHANGED users PROVE Seat(v)
  <2>1. NewUser("viewer", FALSE, judge_pass_until) \in UserRow
    BY NewUserIs, Sizes DEF ROLES
  <2>2. req[t].user \in User
    BY <1>q, <1>3, RequestIs DEF RedeemCommit
  <2>3. /\ ~Exists(req[t].user)
        /\ users' = [users EXCEPT ![req[t].user] = NewUser("viewer", FALSE, judge_pass_until)]
    BY <1>3 DEF RedeemCommit, Free
  <2> QED
    BY <1>t, <2>1, <2>2, <2>3, SeatWritten
<1>4. ASSUME NEW u \in User, Exists(u), NEW must \in BOOLEAN, NEW reissue \in BOOLEAN,
             set_password(u, must, reissue)
      PROVE  Seat(v)
  <2> DEFINE p == gen[u] + 1
             row == [users[u] EXCEPT !.pw = p, !.weak = FALSE, !.must = must]
  <2>p. p \in Nat /\ users' = [users EXCEPT ![u].pw = p, ![u].weak = FALSE, ![u].must = must]
    BY <1>t, <1>4 DEF set_password, HistOK
  <2> HIDE DEF p
  <2>1. users' = [users EXCEPT ![u] = row] /\ row \in UserRow
    BY <1>t, <1>4, <2>p, PasswordWriteRow
  <2>2. row.role = users[u].role /\ row.active = users[u].active
    BY <1>t, <1>4, ExistsIs DEF UserRow
  <2> HIDE DEF row
  <2> QED
    BY <1>t, <2>1, <2>2, SeatWritten
<1>5. ASSUME NEW t \in Thread, PasswordWrite(t) PROVE Seat(v)
  <2>1. req[t].user \in User /\ Exists(req[t].user)
    BY <1>q, <1>5, RequestIs DEF PasswordWrite, TypeInv, Owned
  <2> QED
    BY <1>4, <1>5, <2>1 DEF PasswordWrite
<1>6. ASSUME NEW t \in Thread, NEW u \in User, ResetPassword(t, u) PROVE Seat(v)
  BY <1>4, <1>6 DEF ResetPassword
<1>7. ASSUME NEW t \in Thread, LoginIssue(t), ~UNCHANGED users PROVE Seat(v)
  <2> DEFINE u == req[t].user
             p == req[t].pw
             row == [users[u] EXCEPT !.pw = p, !.weak = FALSE]
  <2>0. u \in User /\ p \in Nat /\ Exists(u)
    BY <1>q, <1>7, RequestIs DEF LoginIssue, TypeInv, Owned
  <2>1. users' = [users EXCEPT ![u].pw = p, ![u].weak = FALSE]
    BY <1>7 DEF LoginIssue, Rehashed
  <2> HIDE DEF u, p
  <2>2. users' = [users EXCEPT ![u] = row] /\ row \in UserRow
    BY <1>t, <2>0, <2>1, HashWrite
  <2>3. row.role = users[u].role /\ row.active = users[u].active
    BY <1>t, <2>0, ExistsIs DEF UserRow
  <2> HIDE DEF row
  <2> QED
    BY <1>t, <2>0, <2>2, <2>3, SeatWritten
<1>8. ASSUME RaiseCost PROVE Seat(v)
  <2>1. users'[v] = [users[v] EXCEPT !.weak = TRUE] /\ users[v] \in UserRow
    BY <1>t, <1>8, ExistsIs DEF RaiseCost
  <2>2. /\ [users[v] EXCEPT !.weak = TRUE] \in UserRow
        /\ [users[v] EXCEPT !.weak = TRUE].role = users[v].role
        /\ [users[v] EXCEPT !.weak = TRUE].active = users[v].active
    BY <2>1 DEF UserRow
  <2> QED
    BY <2>1, <2>2, UserRowIs DEF Seat
<1>9. ASSUME ~RaiseCost,
             \A u \in User : \A forced, generated \in BOOLEAN : ~Bootstrap(u, forced, generated),
             \A t \in Thread : ~PasswordWrite(t) /\ ~LoginIssue(t) /\ ~RedeemCommit(t),
             \A t \in Thread : \A u \in User :
                /\ ~ResetPassword(t, u)
                /\ \A r \in ROLES : ~AddUser(t, u, r) /\ ~UpdateRole(t, u, r)
                /\ \A active \in BOOLEAN : ~UpdateActive(t, u, active)
      PROVE  UNCHANGED users
  BY <1>9 DEF PassNext, allVars, vars, Requests, Tick, Restart, Logout, Refused, Wake, LoginLost,
              Read, AdminRead, LoginVerify, Resolve, PasswordVerify, LoginCheck, RedeemCheck,
              Switch, Deliver, DeliverUnrecorded
<1> QED
  BY <1>0, <1>1, <1>2, <1>3, <1>5, <1>6, <1>7, <1>8, <1>9

\* Whoever takes a seat away keeps the own one, or had lost it already.
LEMMA AdminStep ==
    ASSUME TypeInv, [PassNext]_allVars, NEW v \in User, ActiveAdmin(v)
    PROVE  unseated' \/ \E u \in User : ActiveAdmin(u)'
<1>t. UsersOK /\ ReqOK
  BY TypeParts DEF TypeInv
<1>q. ASSUME NEW t \in Thread PROVE req[t] \in Request
  BY <1>t DEF ReqOK
<1>s. ASSUME NEW w \in User, ActiveAdmin(w), Seat(w) PROVE ActiveAdmin(w)'
  BY <1>s DEF ActiveAdmin, Seat, Exists
<1>1. CASE Seat(v)
  BY <1>s, <1>1
<1>2. ASSUME NEW t \in Thread, NEW u \in User, NEW r \in ROLES, UpdateRole(t, u, r)
      PROVE  unseated' \/ \E w \in User : ActiveAdmin(w)'
  <2> DEFINE c == req[t].user
             row == [users[u] EXCEPT !.role = r]
  <2>1. /\ Exists(u) /\ users' = [users EXCEPT ![u].role = r]
        /\ ~(u = c /\ r # "admin") /\ unseated' = (unseated \/ ~ActiveAdmin(c))
    BY <1>2 DEF UpdateRole
  <2>2. c \in User
    BY <1>q, <1>2, RequestIs DEF UpdateRole, AsAdmin
  <2> HIDE DEF c
  <2>3. CASE ~ActiveAdmin(c)
    BY <2>1, <2>3
  <2>4. CASE ActiveAdmin(c)
    <3>1. users' = [users EXCEPT ![u] = row] /\ row \in UserRow
      BY <1>t, <2>1, RoleWrite
    <3>2. row.role = r /\ row.active = users[u].active
      BY <1>t, <2>1, ExistsIs DEF UserRow
    <3> HIDE DEF row
    <3>3. u # c \/ (row.role = users[u].role /\ row.active = users[u].active)
      BY <2>1, <2>4, <3>2 DEF ActiveAdmin
    <3>4. Seat(c)
      BY <1>t, <2>2, <2>4, <3>1, <3>3, SeatWritten DEF ActiveAdmin
    <3> QED
      BY <1>s, <2>2, <2>4, <3>4
  <2> QED
    BY <2>3, <2>4
<1>3. ASSUME NEW t \in Thread, NEW u \in User, NEW active \in BOOLEAN, UpdateActive(t, u, active)
      PROVE  unseated' \/ \E w \in User : ActiveAdmin(w)'
  <2> DEFINE c == req[t].user
             row == [users[u] EXCEPT !.active = active]
  <2>1. /\ Exists(u) /\ users' = [users EXCEPT ![u].active = active]
        /\ ~(u = c /\ ~active) /\ unseated' = (unseated \/ ~ActiveAdmin(c))
    BY <1>3 DEF UpdateActive
  <2>2. c \in User
    BY <1>q, <1>3, RequestIs DEF UpdateActive, AsAdmin
  <2> HIDE DEF c
  <2>3. CASE ~ActiveAdmin(c)
    BY <2>1, <2>3
  <2>4. CASE ActiveAdmin(c)
    <3>1. users' = [users EXCEPT ![u] = row] /\ row \in UserRow
      BY <1>t, <2>1, ActiveWrite
    <3>2. row.role = users[u].role /\ row.active = active
      BY <1>t, <2>1, ExistsIs DEF UserRow
    <3> HIDE DEF row
    <3>a. users[c].active \in BOOLEAN
      BY <1>t, <2>2, <2>4, ExistsIs, UserRowIs DEF ActiveAdmin
    <3>3. u # c \/ (row.role = users[u].role /\ row.active = users[u].active)
      BY <2>1, <2>4, <3>a, <3>2 DEF ActiveAdmin
    <3>4. Seat(c)
      BY <1>t, <2>2, <2>4, <3>1, <3>3, SeatWritten DEF ActiveAdmin
    <3> QED
      BY <1>s, <2>2, <2>4, <3>4
  <2> QED
    BY <2>3, <2>4
<1> QED
  BY <1>1, <1>2, <1>3, SeatsKept DEF ActiveAdmin

----------------------------------------------------------------------------
(* The limit on guesses *)

\* Sign-ins that passed the throttle for an account and have not been verified yet.
Guessing(u) == { t \in Thread : req[t].pc \in {"login", "sleep"} /\ req[t].user = u }

\* A failure that is counted, or an attempt let through, but never more than that.
GuessMove(u) ==
    \/ Depth(fails, u)' <= Depth(fails, u) /\ Guessing(u)' \subseteq Guessing(u)
    \/ /\ Depth(fails, u)' <= Depth(fails, u) + 1
       /\ \E t \in Guessing(u) : Guessing(u)' \subseteq Guessing(u) \ {t}
    \/ Depth(fails, u)' < MAX_FAILURES
    \/ /\ Depth(fails, u)' <= MAX_FAILURES
       /\ \E t \in Thread : Guessing(u)' \subseteq Thread \ {t}

\* No request begins to guess.
NoGuess == \A t \in Thread : req'[t] = req[t] \/ req'[t].pc \notin {"login", "sleep"}

LEMMA NoGuessIs ==
    ASSUME NoGuess, NEW u PROVE Guessing(u)' \subseteq Guessing(u)
  BY DEF NoGuess, Guessing

LEMMA EndsWithout ==
    ASSUME ReqOK, NEW t \in Thread, NEW s, s.pc \notin {"login", "sleep"},
           req' = [req EXCEPT ![t] = s]
    PROVE  NoGuess /\ req'[t] = s
  BY DEF ReqOK, NoGuess

LEMMA IdleEnds ==
    ASSUME ReqOK, NEW t \in Thread, Goto(t, Idle)
    PROVE  NoGuess /\ req'[t] = Idle
<1>1. Idle.pc \notin {"login", "sleep"}
  BY DEF Idle
<1> QED
  BY <1>1, EndsWithout DEF Goto

\* Steps that neither look at the throttle nor record a failure.
LEMMA QuietSteps ==
    ASSUME TypeInv, [PassNext]_allVars, ~Tick, ~Restart, ~RaiseCost,
           \A t \in Thread :
              /\ ~Wake(t)
              /\ \A u \in User, a \in Addr : ~LoginCheck(t, u, a)
              /\ \A right \in BOOLEAN : ~LoginVerify(t, right)
              /\ \A a \in Addr, right, acceptable \in BOOLEAN : ~PasswordVerify(t, a, right, acceptable)
    PROVE  /\ UNCHANGED now /\ NoGuess
           /\ fails' = fails \/ \E v \in User : fails' = clear_failures(fails, v)
<1>t. ReqOK
  BY TypeParts DEF TypeInv
<1>q. ASSUME NEW t \in Thread PROVE req[t] \in Request
  BY <1>t DEF ReqOK
<1>0. CASE UNCHANGED <<now, req, fails>>
  BY <1>0 DEF NoGuess
<1>1. ASSUME NEW t \in Thread, Goto(t, Idle), UNCHANGED <<now, fails>>
      PROVE  /\ UNCHANGED now /\ NoGuess
             /\ fails' = fails \/ \E v \in User : fails' = clear_failures(fails, v)
  BY <1>t, <1>1, IdleEnds
<1>2. ASSUME NEW t \in Thread, LoginIssue(t) \/ LoginLost(t)
      PROVE  /\ UNCHANGED now /\ NoGuess
             /\ fails' = fails \/ \E v \in User : fails' = clear_failures(fails, v)
  <2>1. /\ req[t].pc = "verified" /\ fails' = clear_failures(fails, req[t].user)
        /\ Goto(t, Idle) /\ UNCHANGED now
    BY <1>2 DEF LoginIssue, LoginLost
  <2>2. req[t].user \in User
    BY <1>q, <2>1, RequestIs
  <2> QED
    BY <1>t, <2>1, <2>2, IdleEnds
<1>3. ASSUME NEW t \in Thread, NEW k \in Token, Resolve(t, k)
      PROVE  /\ UNCHANGED now /\ NoGuess
             /\ fails' = fails \/ \E v \in User : fails' = clear_failures(fails, v)
  <2>1. req' = [req EXCEPT ![t] = Principal(k)] /\ UNCHANGED <<now, fails>>
    BY <1>3 DEF Resolve, Begin
  <2>2. Principal(k).pc \notin {"login", "sleep"}
    BY DEF Principal
  <2> QED
    BY <1>t, <2>1, <2>2, EndsWithout
<1>4. ASSUME NEW t \in Thread, NEW e \in Email, RedeemCheck(t, e)
      PROVE  /\ UNCHANGED now /\ NoGuess
             /\ fails' = fails \/ \E v \in User : fails' = clear_failures(fails, v)
  <2> DEFINE s == [pc |-> "issuing", user |-> e, at |-> now]
  <2>1. req' = [req EXCEPT ![t] = s] /\ UNCHANGED <<now, fails>>
    BY <1>4 DEF RedeemCheck, Begin
  <2>2. s.pc \notin {"login", "sleep"}
    OBVIOUS
  <2> HIDE DEF s
  <2> QED
    BY <1>t, <2>1, <2>2, EndsWithout
<1>5. ASSUME \A t \in Thread : ~(Goto(t, Idle) /\ UNCHANGED <<now, fails>>),
             \A t \in Thread :
                /\ ~LoginIssue(t) /\ ~LoginLost(t)
                /\ \A k \in Token : ~Resolve(t, k)
                /\ \A e \in Email : ~RedeemCheck(t, e)
      PROVE  UNCHANGED <<now, req, fails>>
  BY <1>5 DEF PassNext, allVars, vars, Requests, Bootstrap, Logout, Refused, Read, AdminRead,
              AsAdmin, AddUser, UpdateRole, UpdateActive, ResetPassword, PasswordWrite,
              RedeemCommit, Switch, Deliver, DeliverUnrecorded
<1> QED
  BY <1>0, <1>1, <1>2, <1>3, <1>4, <1>5

\* Whoever is let through has failures left.
LEMMA LetThrough ==
    ASSUME FailsOK, now \in Time, NEW u \in User, NEW a \in Addr, ~throttled(u, a)
    PROVE  Depth(fails, u) < MAX_FAILURES
<1>1. <<"user", u>> \in lockout_keys(u, a)
  BY DEF lockout_keys
<1>2. ~(Depth(fails, u) >= MAX_FAILURES)
  BY <1>1 DEF throttled, Depth
<1>3. Depth(fails, u) \in Nat
  BY DepthWrites
<1> QED
  BY <1>2, <1>3, Sizes

LEMMA GuessStep ==
    ASSUME TypeInv, [PassNext]_allVars, NEW u \in User
    PROVE  GuessMove(u)
<1>t. now \in Time /\ FailsOK /\ ReqOK
  BY TypeParts DEF TypeInv
<1>q. ASSUME NEW t \in Thread PROVE req[t] \in Request
  BY <1>t DEF ReqOK
<1>f. fails \in [Key -> Seq(Time)]
  BY <1>t DEF FailsOK
<1>d. UNCHANGED now => Depth(fails, u)' = Depth(fails', u)
  BY DEF Depth, trim
<1>n. Depth(fails, u) \in Nat /\ Depth(fails, u) <= Depth(fails, u)
  <2>1. Depth(fails, u) \in Nat
    BY <1>t, <1>f, DepthCleared
  <2> QED
    BY <2>1
<1>0. CASE /\ UNCHANGED now /\ NoGuess
           /\ fails' = fails \/ \E v \in User : fails' = clear_failures(fails, v)
  <2>1. Depth(fails', u) <= Depth(fails, u)
    BY <1>0, <1>t, <1>f, <1>n, DepthCleared
  <2> QED
    BY <1>d, <1>0, <2>1, NoGuessIs DEF GuessMove
<1>1. CASE Tick
  <2> DEFINE c == now - FAILURE_WINDOW
             d == now' - FAILURE_WINDOW
             s == fails[<<"user", u>>]
  <2>1. UNCHANGED <<fails, req>> /\ now' = now + 1
    BY <1>1 DEF Tick
  <2>2. c \in Int /\ d \in Int /\ c <= d
    BY <1>t, <2>1, Sizes DEF Time
  <2>3. s \in Seq(Time)
    BY <1>f, AccountKey
  <2>4. Depth(fails, u) = Len(NotBefore(s, c)) /\ Depth(fails, u)' = Len(NotBefore(s, d))
    BY <2>1 DEF Depth, trim
  <2> HIDE DEF c, d, s
  <2>5. Depth(fails, u)' <= Depth(fails, u)
    BY <2>2, <2>3, <2>4, TrimmedLater
  <2>6. NoGuess
    BY <2>1 DEF NoGuess
  <2> QED
    BY <2>5, <2>6, NoGuessIs DEF GuessMove
<1>2. CASE Restart \/ RaiseCost
  <2>1. fails' = NoFailures /\ UNCHANGED now
    BY <1>2 DEF Restart, RaiseCost
  <2>2. Depth(fails, u)' = 0
    BY <1>t, <1>f, <1>d, <2>1, DepthCleared
  <2> QED
    BY <2>2, Sizes DEF GuessMove
<1>3. ASSUME NEW t \in Thread, Wake(t) PROVE GuessMove(u)
  <2>1. /\ req[t].pc = "sleep" /\ req' = [req EXCEPT ![t] = [req[t] EXCEPT !.pc = "login"]]
        /\ UNCHANGED <<now, fails>>
    BY <1>3 DEF Wake, Goto
  <2>2. req[t] \in [pc : {"login", "sleep"}, user : User, addr : Addr]
    BY <1>q, <2>1, RequestIs
  <2>3. /\ req'[t].user = req[t].user
        /\ \A q \in Thread \ {t} : req'[q] = req[q]
    BY <1>t, <2>1, <2>2 DEF ReqOK
  <2>4. Guessing(u)' \subseteq Guessing(u)
    BY <2>1, <2>3 DEF Guessing
  <2> QED
    BY <1>d, <1>n, <2>1, <2>4 DEF GuessMove
<1>4. ASSUME NEW t \in Thread, NEW v \in User, NEW a \in Addr, LoginCheck(t, v, a)
      PROVE  GuessMove(u)
  <2>1. fails' = trimmed(v, a) /\ UNCHANGED now /\ req[t] = Idle
    BY <1>4 DEF LoginCheck, Begin
  <2>2. Depth(fails, u)' = Depth(fails, u)
    BY <1>t, <1>d, <2>1, DepthWrites
  <2>3. CASE throttled(v, a)
    <3> DEFINE s == [pc |-> "refused", user |-> v, addr |-> a,
                     own |-> Len(trim(fails[<<"user", v>>])) >= MAX_FAILURES]
    <3>1. req' = [req EXCEPT ![t] = s]
      BY <1>4, <2>3 DEF LoginCheck, Begin
    <3>2. s.pc \notin {"login", "sleep"}
      OBVIOUS
    <3> HIDE DEF s
    <3>3. NoGuess
      BY <1>t, <3>1, <3>2, EndsWithout
    <3> QED
      BY <1>n, <2>2, <3>3, NoGuessIs DEF GuessMove
  <2>4. CASE ~throttled(v, a) /\ v = u
    <3>1. Depth(fails, u) < MAX_FAILURES
      BY <1>t, <2>4, LetThrough
    <3> QED
      BY <2>2, <3>1 DEF GuessMove
  <2>5. CASE ~throttled(v, a) /\ v # u
    <3> DEFINE p == IF shared_spray_delay /\ Cardinality(Sleepers) < MAX_CONCURRENT_SHARED_DELAYS
                    THEN "sleep" ELSE "login"
               s == [pc |-> p, user |-> v, addr |-> a]
    <3>1. req' = [req EXCEPT ![t] = s]
      BY <1>4, <2>5 DEF LoginCheck, Begin
    <3>2. s.user = v
      OBVIOUS
    <3> HIDE DEF s
    <3>3. req'[t].user = v /\ \A q \in Thread \ {t} : req'[q] = req[q]
      BY <1>t, <3>1, <3>2 DEF ReqOK
    <3>4. Guessing(u)' \subseteq Guessing(u)
      BY <2>5, <3>3 DEF Guessing
    <3> QED
      BY <1>n, <2>2, <3>4 DEF GuessMove
  <2> QED
    BY <2>3, <2>4, <2>5
<1>5. ASSUME NEW t \in Thread, NEW right \in BOOLEAN, LoginVerify(t, right) PROVE GuessMove(u)
  <2> DEFINE v == req[t].user
             a == req[t].addr
             s == [pc |-> "verified", user |-> v, pw |-> users[v].pw, weak |-> users[v].weak,
                   gen |-> gen[v]]
  <2>1. /\ req[t].pc = "login" /\ UNCHANGED now
        /\ \/ req' = [req EXCEPT ![t] = s] /\ fails' = fails
           \/ Goto(t, Idle) /\ fails' = record_login_failure(v, a)
    BY <1>5 DEF LoginVerify, Goto
  <2>2. v \in User /\ a \in Addr
    BY <1>q, <2>1, RequestIs
  <2>3. s.pc \notin {"login", "sleep"}
    OBVIOUS
  <2>4. CASE req' = [req EXCEPT ![t] = s] /\ fails' = fails
    <3> HIDE DEF s
    <3>1. NoGuess
      BY <1>t, <2>3, <2>4, EndsWithout
    <3> QED
      BY <1>0, <2>1, <2>4, <3>1
  <2>5. CASE Goto(t, Idle) /\ fails' = record_login_failure(v, a)
    <3>1. NoGuess /\ req'[t] = Idle
      BY <1>t, <2>5, IdleEnds
    <3>2. Guessing(u)' \subseteq Guessing(u) \ {t}
      BY <3>1, NoGuessIs DEF Guessing, Idle
    <3>3. t \in Guessing(v)
      BY <2>1 DEF Guessing
    <3> HIDE DEF v, a, s
    <3>4. CASE v = u
      <4>1. Depth(fails, u)' <= Depth(fails, u) + 1
        BY <1>t, <1>d, <2>1, <2>2, <2>5, DepthWrites
      <4> QED
        BY <3>2, <3>3, <3>4, <4>1 DEF GuessMove
    <3>5. CASE v # u
      <4>1. Depth(fails, u)' = Depth(fails, u)
        BY <1>t, <1>d, <2>1, <2>2, <2>5, <3>5, DepthWrites
      <4> QED
        BY <1>n, <3>2, <4>1 DEF GuessMove
    <3> QED
      BY <3>4, <3>5
  <2> QED
    BY <2>1, <2>4, <2>5
<1>6. ASSUME NEW t \in Thread, NEW a \in Addr, NEW right \in BOOLEAN, NEW acceptable \in BOOLEAN,
             PasswordVerify(t, a, right, acceptable)
      PROVE  GuessMove(u)
  <2> DEFINE v == req[t].user
             s == IF acceptable THEN [pc |-> "changing", user |-> v, gen |-> gen[v]] ELSE Idle
  <2>1. /\ req[t].pc = "served" /\ UNCHANGED now /\ ~throttled(v, a)
        /\ \/ req' = [req EXCEPT ![t] = s] /\ fails' = clear_failures(trimmed(v, a), v)
           \/ Goto(t, Idle) /\ fails' = record_login_failure(v, a)
    BY <1>6 DEF PasswordVerify, Goto
  <2>2. v \in User
    BY <1>q, <2>1, RequestIs
  <2>3. s.pc \notin {"login", "sleep"}
    BY DEF Idle
  <2>4. CASE req' = [req EXCEPT ![t] = s] /\ fails' = clear_failures(trimmed(v, a), v)
    <3> HIDE DEF s
    <3>1. NoGuess
      BY <1>t, <2>3, <2>4, EndsWithout
    <3> HIDE DEF v
    <3>2. trimmed(v, a) \in [Key -> Seq(Time)] /\ Depth(trimmed(v, a), u) = Depth(fails, u)
      BY <1>t, <2>2, FailsWrites, DepthWrites
    <3>3. Depth(fails', u) <= Depth(fails, u)
      BY <1>t, <2>4, <3>2, DepthCleared
    <3> QED
      BY <1>d, <2>1, <3>1, <3>3, NoGuessIs DEF GuessMove
  <2>5. CASE Goto(t, Idle) /\ fails' = record_login_failure(v, a)
    <3>1. NoGuess /\ req'[t] = Idle
      BY <1>t, <2>5, IdleEnds
    <3> HIDE DEF v, s
    <3>2. CASE v = u
      <4>1. /\ Depth(fails, u) < MAX_FAILURES
            /\ Depth(fails, u)' <= Depth(fails, u) + 1 /\ Depth(fails, u)' \in Nat
        BY <1>t, <1>d, <2>1, <2>2, <2>5, <3>2, LetThrough, DepthWrites
      <4>2. Depth(fails, u)' <= MAX_FAILURES
        BY <1>n, <4>1, Sizes
      <4>3. Guessing(u)' \subseteq Thread \ {t}
        BY <3>1 DEF Guessing, Idle
      <4> QED
        BY <4>2, <4>3 DEF GuessMove
    <3>3. CASE v # u
      <4>1. Depth(fails, u)' = Depth(fails, u)
        BY <1>t, <1>d, <2>1, <2>2, <2>5, <3>3, DepthWrites
      <4> QED
        BY <1>n, <3>1, <4>1, NoGuessIs DEF GuessMove
    <3> QED
      BY <3>2, <3>3
  <2> QED
    BY <2>1, <2>4, <2>5
<1> QED
  BY <1>0, <1>1, <1>2, <1>3, <1>4, <1>5, <1>6, QuietSteps

\* Failures counted and guesses under way together stay below the limit and the threads.
GuessInv ==
    \A u \in User :
        Depth(fails, u) + Cardinality(Guessing(u)) < MAX_FAILURES + Cardinality(Thread)

\* Sizes of sets of threads.
LEMMA ThreadSets ==
    /\ IsFiniteSet(Thread) /\ Cardinality(Thread) \in Nat /\ Cardinality(Thread) >= 1
    /\ \A S \in SUBSET Thread : /\ IsFiniteSet(S) /\ Cardinality(S) \in Nat
                                /\ Cardinality(S) <= Cardinality(Thread)
    /\ \A S, T \in SUBSET Thread : S \subseteq T => Cardinality(S) <= Cardinality(T)
    /\ \A S, T \in SUBSET Thread :
          \A t \in T : S \subseteq T \ {t} => Cardinality(S) <= Cardinality(T) - 1
<1>1. IsFiniteSet(Thread) /\ Thread # {}
  BY AccountsAssumption
<1>2. Cardinality(Thread) \in Nat /\ Cardinality(Thread) >= 1
  <2>1. Cardinality(Thread) \in Nat /\ (Cardinality(Thread) = 0 <=> Thread = {})
    BY <1>1, FS_CardinalityType, FS_EmptySet
  <2> QED
    BY <1>1, <2>1
<1>3. ASSUME NEW T \in SUBSET Thread PROVE IsFiniteSet(T) /\ Cardinality(T) \in Nat
  BY <1>1, FS_Subset, FS_CardinalityType
<1>4. ASSUME NEW S \in SUBSET Thread, NEW T \in SUBSET Thread, S \subseteq T
      PROVE  Cardinality(S) <= Cardinality(T)
  BY <1>3, <1>4, FS_Subset
<1>5. ASSUME NEW S \in SUBSET Thread, NEW T \in SUBSET Thread, NEW t \in T, S \subseteq T \ {t}
      PROVE  Cardinality(S) <= Cardinality(T) - 1
  <2>1. Cardinality(T \ {t}) = Cardinality(T) - 1
    BY <1>3, FS_RemoveElement
  <2>2. Cardinality(S) <= Cardinality(T \ {t})
    BY <1>4, <1>5
  <2> QED
    BY <2>1, <2>2
<1>6. ASSUME NEW T \in SUBSET Thread PROVE Cardinality(T) <= Cardinality(Thread)
  BY <1>4
<1> QED
  BY <1>1, <1>2, <1>3, <1>4, <1>5, <1>6

LEMMA GuessInvStep ==
    ASSUME TypeInv, GuessInv, [PassNext]_allVars
    PROVE  GuessInv'
<1> SUFFICES ASSUME NEW u \in User
             PROVE  Depth(fails, u)' + Cardinality(Guessing(u)') < MAX_FAILURES + Cardinality(Thread)
  BY DEF GuessInv
<1> DEFINE d == Depth(fails, u)
           e == Depth(fails, u)'
           G == Guessing(u)
           H == Guessing(u)'
           N == Cardinality(Thread)
<1>1. G \in SUBSET Thread /\ H \in SUBSET Thread
  BY DEF Guessing
<1>2. now \in Time /\ fails \in [Key -> Seq(Time)]
  BY TypeParts DEF TypeInv, FailsOK
<1>3. now' \in Time /\ fails' \in [Key -> Seq(Time)]
  BY ClockStep, WindowsStep DEF FailsOK
<1>4. d \in Nat
  BY <1>2, DepthCleared
<1>5. e \in Nat
  <2>1. now' - FAILURE_WINDOW \in Int
    BY <1>3, Sizes DEF Time
  <2>2. fails'[<<"user", u>>] \in Seq(Time)
    BY <1>3, AccountKey
  <2> QED
    BY <2>1, <2>2, NotBeforeType DEF Depth, trim
<1>6. GuessMove(u)
  BY GuessStep
<1>7. \/ e <= d /\ H \subseteq G
      \/ e <= d + 1 /\ \E t \in G : H \subseteq G \ {t}
      \/ e < MAX_FAILURES
      \/ e <= MAX_FAILURES /\ \E t \in Thread : H \subseteq Thread \ {t}
  BY <1>6 DEF GuessMove
<1>8. d + Cardinality(G) < MAX_FAILURES + N
  BY DEF GuessInv
<1> HIDE DEF d, e, G, H
<1>9. /\ N \in Nat /\ Cardinality(G) \in Nat /\ Cardinality(H) \in Nat /\ Cardinality(H) <= N
      /\ MAX_FAILURES \in Nat
  BY <1>1, ThreadSets, Sizes
<1> HIDE DEF N
<1>10. CASE e <= d /\ H \subseteq G
  <2>1. Cardinality(H) <= Cardinality(G)
    BY <1>1, <1>10, ThreadSets
  <2> QED
    BY <1>4, <1>5, <1>8, <1>9, <1>10, <2>1 DEF e, H, N
<1>11. CASE e <= d + 1 /\ \E t \in G : H \subseteq G \ {t}
  <2>1. Cardinality(H) <= Cardinality(G) - 1
    BY <1>1, <1>11, ThreadSets
  <2> QED
    BY <1>4, <1>5, <1>8, <1>9, <1>11, <2>1 DEF e, H, N
<1>12. CASE e < MAX_FAILURES
  BY <1>4, <1>5, <1>9, <1>12 DEF e, H, N
<1>13. CASE e <= MAX_FAILURES /\ \E t \in Thread : H \subseteq Thread \ {t}
  <2>1. Cardinality(H) <= N - 1
    BY <1>1, <1>13, ThreadSets DEF N
  <2> QED
    BY <1>4, <1>5, <1>9, <1>13, <2>1 DEF e, H, N
<1> QED
  BY <1>7, <1>10, <1>11, <1>12, <1>13

LEMMA GuessLimit == TypeInv /\ GuessInv => GuessesBounded
<1> SUFFICES ASSUME TypeInv, GuessInv, NEW u \in User
             PROVE  Depth(fails, u) < MAX_FAILURES + Cardinality(Thread)
  BY DEF GuessesBounded, Depth
<1>1. Depth(fails, u) \in Nat
  BY TypeParts, DepthCleared DEF TypeInv, FailsOK
<1>2. Guessing(u) \in SUBSET Thread
  BY DEF Guessing
<1>3. Cardinality(Guessing(u)) \in Nat /\ Cardinality(Thread) \in Nat
  BY <1>2, ThreadSets
<1>4. Depth(fails, u) + Cardinality(Guessing(u)) < MAX_FAILURES + Cardinality(Thread)
  BY DEF GuessInv
<1> QED
  BY <1>1, <1>3, <1>4, Sizes

----------------------------------------------------------------------------
(* The limit on passes *)

\* The passes there are, those of the window, and the requests that were promised one.
Passed  == { e \in Email : passes[e] # NoPass }
Recent  == { e \in Email : passes[e] # NoPass /\ passes[e].at > now - WINDOW }
Issuing == { t \in Thread : req[t].pc = "issuing" /\ req[t].at > now - WINDOW }

\* A promise is kept, or made below the limit.
QuotaMove ==
    \/ Recent' \subseteq Recent /\ Issuing' \subseteq Issuing
    \/ \E e \in Email, t \in Issuing : Recent' \subseteq Recent \cup {e} /\ Issuing' \subseteq Issuing \ {t}
    \/ Recent' = Recent /\ Cardinality(Recent) < judge_pass_daily_max

LEMMA QuotaStep ==
    ASSUME TypeInv, [PassNext]_allVars, IsFiniteSet(Passed)
    PROVE  QuotaMove /\ \E e : Passed' \subseteq Passed \cup {e}
<1>t. now \in Time /\ ReqOK /\ PassOK
  BY TypeParts DEF TypeInv
<1>q. ASSUME NEW t \in Thread PROVE req[t] \in Request
  BY <1>t DEF ReqOK
<1>p. passes \in [Email -> PassRow \cup {NoPass}]
  BY <1>t DEF PassOK
<1>c. now' \in Time /\ now <= now'
  BY ClockStep
<1>w. \A x \in Time : x > now' - WINDOW => x > now - WINDOW
  <2>1. now \in Int /\ now' \in Int /\ WINDOW \in Int /\ Time \subseteq Int
    BY <1>t, <1>c, Sizes DEF Time
  <2>2. \A a, b, w, x \in Int : a <= b /\ x > b - w => x > a - w
    OBVIOUS
  <2> QED
    BY <1>c, <2>1, <2>2
<1>m. (\A t \in Thread : ReqMove(t)) /\ \A e \in Email : PassMove(e)
  BY RequestsStep, PassesStep
<1>1. CASE \E t \in Thread : req'[t] # req[t] /\ req'[t].pc = "issuing"
  <2>1. state = "open" /\ UNCHANGED <<now, passes>>
    BY <1>m, <1>1 DEF ReqMove, Idle
  <2>2. ~(Cardinality(Recent) >= judge_pass_daily_max)
    BY <2>1 DEF state, issued_in_window, Recent
  <2>3. Recent' = Recent /\ Passed' = Passed
    BY <2>1 DEF Recent, Passed
  <2>4. Cardinality(Recent) \in Nat
    <3>1. Recent \subseteq Passed
      BY DEF Recent, Passed
    <3> QED
      BY <3>1, FS_Subset, FS_CardinalityType
  <2>5. Cardinality(Recent) < judge_pass_daily_max
    BY <2>2, <2>4, Sizes
  <2> QED
    BY <2>3, <2>5 DEF QuotaMove
<1>2. CASE \A t \in Thread : req'[t].pc = "issuing" => req'[t] = req[t]
  <2>1. Issuing' \subseteq Issuing
    <3> SUFFICES ASSUME NEW t \in Thread, req'[t].pc = "issuing", req'[t].at > now' - WINDOW
                 PROVE  req[t].pc = "issuing" /\ req[t].at > now - WINDOW
      BY DEF Issuing
    <3>1. req'[t] = req[t]
      BY <1>2
    <3>2. req[t].at \in Time
      BY <1>q, <3>1, RequestIs
    <3> QED
      BY <1>w, <3>1, <3>2
  <2>2. ASSUME NEW e \in Email, passes'[e] = passes[e] \/
                  (passes[e] \in PassRow /\ passes'[e] \in PassRow /\ passes'[e].at = passes[e].at)
        PROVE  (e \in Passed' => e \in Passed) /\ (e \in Recent' => e \in Recent)
    <3>1. passes'[e] # NoPass => passes[e] # NoPass /\ passes'[e].at = passes[e].at
      BY <2>2, PassRowIs
    <3>2. passes[e] # NoPass => passes[e].at \in Time
      BY <1>p, PassRowIs
    <3> QED
      BY <1>w, <3>1, <3>2 DEF Passed, Recent
  <2>3. CASE \A e \in Email : passes'[e] = passes[e] \/
                  (passes[e] \in PassRow /\ passes'[e] \in PassRow /\ passes'[e].at = passes[e].at)
    <3>1. Passed' \subseteq Passed /\ Recent' \subseteq Recent
      <4>1. Passed' \subseteq Email /\ Recent' \subseteq Email
        BY DEF Passed, Recent
      <4> QED
        BY <2>2, <2>3, <4>1
    <3> QED
      BY <2>1, <3>1 DEF QuotaMove
  <2>4. CASE \E e \in Email : passes[e] = NoPass /\ passes'[e] \in PassRow /\ passes'[e] # passes[e]
    <3>1. PICK e \in Email, t \in Thread :
             /\ req[t].pc = "issuing" /\ req[t].user = e /\ RedeemCommit(t)
             /\ passes'[e].at = req[t].at /\ passes[e] = NoPass /\ passes'[e] # NoPass
      BY <1>m, <2>4, PassRowIs DEF PassMove
    <3>2. /\ \A x \in Email \ {e} : passes'[x] = passes[x]
          /\ Goto(t, Idle) /\ UNCHANGED now
      BY <1>p, <3>1 DEF RedeemCommit
    <3>3. req'[t] = Idle
      BY <1>t, <3>2, IdleEnds
    <3>4. Issuing' \subseteq Issuing \ {t}
      BY <2>1, <3>3 DEF Issuing, Idle
    <3>5. Passed' \subseteq Passed \cup {e} /\ Recent' \subseteq Recent \cup {e}
      BY <3>2 DEF Passed, Recent
    <3>6. CASE t \in Issuing
      BY <3>4, <3>5, <3>6 DEF QuotaMove
    <3>7. CASE t \notin Issuing
      <4>1. ~(passes'[e].at > now' - WINDOW)
        BY <3>1, <3>2, <3>7 DEF Issuing
      <4>2. e \notin Recent'
        BY <4>1 DEF Recent
      <4>3. Recent' \subseteq Recent
        BY <3>5, <4>2
      <4> QED
        BY <2>1, <3>5, <4>3 DEF QuotaMove
    <3> QED
      BY <3>6, <3>7
  <2> QED
    BY <1>m, <2>3, <2>4 DEF PassMove
<1> QED
  BY <1>1, <1>2

QuotaInv ==
    /\ IsFiniteSet(Passed)
    /\ Cardinality(Recent) + Cardinality(Issuing) < judge_pass_daily_max + Cardinality(Thread)

LEMMA QuotaInvStep ==
    ASSUME TypeInv, QuotaInv, [PassNext]_allVars
    PROVE  QuotaInv'
<1> DEFINE R == Recent
           S == Recent'
           G == Issuing
           H == Issuing'
           N == Cardinality(Thread)
<1>1. IsFiniteSet(Passed) /\ Cardinality(R) + Cardinality(G) < judge_pass_daily_max + N
  BY DEF QuotaInv
<1>2. QuotaMove /\ \E e : Passed' \subseteq Passed \cup {e}
  BY <1>1, QuotaStep
<1>3. IsFiniteSet(Passed')
  <2>1. PICK e : Passed' \subseteq Passed \cup {e}
    BY <1>2
  <2>2. IsFiniteSet(Passed \cup {e})
    BY <1>1, FS_AddElement
  <2> QED
    BY <2>1, <2>2, FS_Subset
<1>4. R \subseteq Passed /\ S \subseteq Passed' /\ G \in SUBSET Thread /\ H \in SUBSET Thread
  BY DEF Recent, Passed, Issuing
<1>5. \/ S \subseteq R /\ H \subseteq G
      \/ \E e \in Email, t \in G : S \subseteq R \cup {e} /\ H \subseteq G \ {t}
      \/ S = R /\ Cardinality(R) < judge_pass_daily_max
  BY <1>2 DEF QuotaMove
<1>6. IsFiniteSet(R) /\ Cardinality(R) \in Nat
  BY <1>1, <1>4, FS_Subset, FS_CardinalityType
<1>7. IsFiniteSet(S) /\ Cardinality(S) \in Nat
  <2> HIDE DEF S
  <2> QED
    BY <1>3, <1>4, FS_Subset, FS_CardinalityType
<1> HIDE DEF R, S, G, H
<1>8. /\ N \in Nat /\ Cardinality(G) \in Nat /\ Cardinality(H) \in Nat /\ Cardinality(H) <= N
      /\ N >= 1 /\ judge_pass_daily_max \in Nat
  BY <1>4, ThreadSets, Sizes
<1> HIDE DEF N
<1>9. CASE S \subseteq R /\ H \subseteq G
  <2>1. Cardinality(H) <= Cardinality(G)
    BY <1>4, <1>9, ThreadSets
  <2>2. Cardinality(S) <= Cardinality(R)
    BY <1>6, <1>9, FS_Subset
  <2>3. Cardinality(S) + Cardinality(H) < judge_pass_daily_max + N
    BY <1>1, <1>6, <1>7, <1>8, <2>1, <2>2
  <2> QED
    BY <1>3, <2>3 DEF QuotaInv, S, H, N
<1>10. ASSUME NEW e \in Email, NEW t \in G, S \subseteq R \cup {e}, H \subseteq G \ {t}
       PROVE  QuotaInv'
  <2>1. Cardinality(H) <= Cardinality(G) - 1
    BY <1>4, <1>10, ThreadSets
  <2>2. IsFiniteSet(R \cup {e}) /\ Cardinality(R \cup {e}) <= Cardinality(R) + 1
    <3>1. Cardinality(R \cup {e}) \in {Cardinality(R), Cardinality(R) + 1} /\ IsFiniteSet(R \cup {e})
      BY <1>6, FS_AddElement
    <3> QED
      BY <1>6, <3>1
  <2>a. Cardinality(R \cup {e}) \in Nat
    BY <2>2, FS_CardinalityType
  <2>3. Cardinality(S) <= Cardinality(R \cup {e})
    BY <1>10, <2>2, FS_Subset
  <2>4. Cardinality(S) <= Cardinality(R) + 1
    BY <1>6, <1>7, <2>2, <2>a, <2>3
  <2>5. Cardinality(S) + Cardinality(H) < judge_pass_daily_max + N
    BY <1>1, <1>6, <1>7, <1>8, <2>1, <2>4
  <2> QED
    BY <1>3, <2>5 DEF QuotaInv, S, H, N
<1>11. CASE S = R /\ Cardinality(R) < judge_pass_daily_max
  <2>1. Cardinality(S) + Cardinality(H) < judge_pass_daily_max + N
    BY <1>6, <1>8, <1>11
  <2> QED
    BY <1>3, <2>1 DEF QuotaInv, S, H, N
<1> QED
  BY <1>5, <1>9, <1>10, <1>11

LEMMA QuotaLimit == QuotaInv => DailyLimitOverrun
<1> SUFFICES ASSUME QuotaInv
             PROVE  Cardinality(Recent) < judge_pass_daily_max + Cardinality(Thread)
  BY DEF DailyLimitOverrun, issued_in_window, Recent
<1>1. Recent \subseteq Passed /\ Issuing \in SUBSET Thread
  BY DEF Recent, Passed, Issuing
<1>2. Cardinality(Recent) \in Nat
  BY <1>1, FS_Subset, FS_CardinalityType DEF QuotaInv
<1>3. Cardinality(Issuing) \in Nat /\ Cardinality(Thread) \in Nat
  BY <1>1, ThreadSets
<1> QED
  BY <1>2, <1>3, Sizes DEF QuotaInv

----------------------------------------------------------------------------
(* Theorems *)

\* The inductive invariant of the accounts: types and ownership, and what each property
\* below needs of the requests that are under way.
AccountsInv ==
    /\ TypeInv
    /\ EndedSessionsStayDead
    /\ PasswordInv
    /\ NoSharedLockout
    /\ EndsInv
    /\ GuessInv
    /\ QuotaInv

LEMMA AccountsInvInit == PassInit => AccountsInv
<1> SUFFICES ASSUME PassInit PROVE AccountsInv
  OBVIOUS
<1>0. TypeInv
  BY TypeInvInit
<1>1. /\ users = [u \in User |-> NoUser] /\ sess = [k \in Token |-> NoSession]
      /\ fails = NoFailures /\ req = [t \in Thread |-> Idle] /\ gen = [u \in User |-> 0]
      /\ chosen = gen /\ passes = [e \in Email |-> NoPass]
  BY DEF PassInit, Init
<1>2. EndedSessionsStayDead
  BY <1>1 DEF EndedSessionsStayDead
<1>3. PasswordInv
  BY <1>1 DEF PasswordInv, PasswordIsLatest, Exists, Fresh, Idle
<1>4. NoSharedLockout
  BY <1>1 DEF NoSharedLockout, Idle
<1>5. EndsInv
  BY <1>1, Sizes DEF EndsInv, PassEnds, Exists
<1>6. ASSUME NEW S, S = {} PROVE IsFiniteSet(S) /\ Cardinality(S) = 0
  BY <1>6, FS_EmptySet
<1>7. GuessInv
  <2> SUFFICES ASSUME NEW u \in User
               PROVE  Depth(fails, u) + Cardinality(Guessing(u)) < MAX_FAILURES + Cardinality(Thread)
    BY DEF GuessInv
  <2>1. Depth(fails, u) = 0
    BY <1>0, <1>1, TypeParts, DepthCleared DEF TypeInv, FailsOK
  <2>2. Guessing(u) = {}
    BY <1>1 DEF Guessing, Idle
  <2>3. Cardinality(Guessing(u)) = 0
    BY <1>6, <2>2
  <2> QED
    BY <2>1, <2>3, ThreadSets, Sizes
<1>8. QuotaInv
  <2>1. Passed = {} /\ Recent = {} /\ Issuing = {}
    BY <1>1 DEF Passed, Recent, Issuing, Idle
  <2>2. IsFiniteSet(Passed) /\ Cardinality(Recent) = 0 /\ Cardinality(Issuing) = 0
    BY <1>6, <2>1
  <2>3. judge_pass_daily_max \in Nat \ {0}
    BY PassAssumption
  <2> QED
    BY <2>2, <2>3, ThreadSets DEF QuotaInv
<1> QED
  BY <1>0, <1>2, <1>3, <1>4, <1>5, <1>7, <1>8 DEF AccountsInv

LEMMA AccountsInvStep == AccountsInv /\ [PassNext]_allVars => AccountsInv'
  BY TypeInvStep, EndedStep, PasswordStep, RefusalStep, EndsStep, GuessInvStep, QuotaInvStep
     DEF AccountsInv

LEMMA AccountsInvariant == PassSpec => []AccountsInv
  BY AccountsInvInit, AccountsInvStep, PTL DEF PassSpec

\* The tables, the throttle's windows and the request threads keep their types, whatever
\* the handlers of auth_routes.py and judge_pass.py do in whatever order.
THEOREM AccountsTypes == PassSpec => []TypeOK
<1>1. AccountsInv => TypeOK
  BY DEF AccountsInv, TypeInv
<1> QED
  BY <1>1, AccountsInvariant, PTL

\* set_password and update_user end every session of the account: none from before is
\* unrevoked unless its request was overtaken between its check and its commit.
THEOREM SessionsStayEnded == PassSpec => []EndedSessionsStayDead
<1>1. AccountsInv => EndedSessionsStayDead
  BY DEF AccountsInv
<1> QED
  BY <1>1, AccountsInvariant, PTL

\* The hash upgrade of authenticate never brings an old password back, unless its
\* request was overtaken by a change of the password.
THEOREM OldPasswordsStayDead == PassSpec => []PasswordIsLatest
<1>1. AccountsInv => PasswordIsLatest
  BY DEF AccountsInv, PasswordInv
<1> QED
  BY <1>1, AccountsInvariant, PTL

\* Behind a proxy or a private address only an account's own failures refuse a sign-in
\* (login_throttle_keys against lockout_keys).
THEOREM SharedAddressesCostTime == PassSpec => []NoSharedLockout
<1>1. AccountsInv => NoSharedLockout
  BY DEF AccountsInv
<1> QED
  BY <1>1, AccountsInvariant, PTL

\* However check, delay, record and clear interleave, the recent failures on an account
\* stay below the sum of the limit and the number of request threads.
THEOREM GuessesStayBounded == PassSpec => []GuessesBounded
<1>1. AccountsInv => GuessesBounded
  BY GuessLimit DEF AccountsInv
<1> QED
  BY <1>1, AccountsInvariant, PTL

\* pass_redeem checks the daily limit before it hashes and inserts after it: the overrun
\* is less than the number of request threads.
THEOREM DailyLimitHolds == PassSpec => []DailyLimitOverrun
<1>1. AccountsInv => DailyLimitOverrun
  BY QuotaLimit DEF AccountsInv
<1> QED
  BY <1>1, AccountsInvariant, PTL

\* An account has an end date exactly if it has a pass, and no session of it runs beyond
\* that date, whoever resets its password, changes its role or signs it in again.
THEOREM PassesEnd == PassSpec => []PassEndsAccess
<1>1. AccountsInv => PassEndsAccess
  BY EndsAccess DEF AccountsInv
<1> QED
  BY <1>1, AccountsInvariant, PTL

\* The commit of pass_redeem never attaches a pass to an account that exists.
THEOREM PassesOpenNoOldAccount == PassSpec => NoSecondWayIn
<1>1. AccountsInv /\ [PassNext]_allVars =>
         [\A e \in Email : passes[e] = NoPass /\ passes'[e] # NoPass => ~Exists(e)]_allVars
  <2> SUFFICES ASSUME AccountsInv, [PassNext]_allVars, NEW e \in Email,
                      passes[e] = NoPass, passes'[e] # NoPass
               PROVE  ~Exists(e)
    OBVIOUS
  <2>1. PassMove(e)
    BY PassesStep DEF AccountsInv
  <2> QED
    BY <2>1, PassRowIs DEF PassMove
<1> QED
  BY <1>1, AccountsInvariant, PTL DEF PassSpec, NoSecondWayIn

\* update_user never lets the last active administrator go, unless its caller had lost
\* the role between the middleware and the handler.
THEOREM AdministratorsRemain == PassSpec => AdminRemains
<1>1. AccountsInv /\ [PassNext]_allVars =>
         [(\E u \in User : ActiveAdmin(u)) => unseated' \/ \E u \in User : ActiveAdmin(u)']_vars
  <2> SUFFICES ASSUME AccountsInv, [PassNext]_allVars, NEW v \in User, ActiveAdmin(v)
               PROVE  unseated' \/ \E u \in User : ActiveAdmin(u)'
    OBVIOUS
  <2> QED
    BY AdminStep DEF AccountsInv
<1> QED
  BY <1>1, AccountsInvariant, PTL DEF PassSpec, AdminRemains
=============================================================================
