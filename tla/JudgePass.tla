----------------------------- MODULE JudgePass ------------------------------
(***************************************************************************)
(* The Judge Pass (gemp/auth/judge_pass.py, its four endpoints and         *)
(* gemp/mail.py) beside the accounts it creates: a shared code opens a     *)
(* view-only account for an address and signs it in, until the event       *)
(* closes, so many a day, while an administrator has not paused it.  The   *)
(* email with the password goes out after the response.                    *)
(***************************************************************************)
EXTENDS Accounts

CONSTANTS
    Email,           \* addresses; an address IS a username
    Problem,         \* the settings do not allow passes at all
    judge_pass_until, judge_pass_daily_max,
    WINDOW,          \* of the daily limit
    MailConfigured   \* mail.configured: a provider and a sender

ASSUME PassAssumption ==
    /\ Email \subseteq User
    /\ Problem \in BOOLEAN /\ MailConfigured \in BOOLEAN
    /\ judge_pass_until \in Nat /\ judge_pass_until < Never
    /\ judge_pass_daily_max \in Nat \ {0} /\ WINDOW \in Nat \ {0}

VARIABLES
    enabled,   \* the switch in table app_setting
    passes,    \* table judge_pass: a row or NoPass
    tasks      \* addresses whose email is still to be sent by this process

passVars == <<enabled, passes, tasks>>
allVars  == <<vars, passVars>>

NoPass  == [mail |-> "none"]
PassRow == [at : Time, mail : {"queued", "off", "sent", "failed"}]

issued_in_window == Cardinality({ e \in Email : passes[e] # NoPass
                                                /\ passes[e].at > now - WINDOW })

\* Mutant: one pass more than the limit of a day.
state_mutant ==
    CASE Problem                                  -> "unconfigured"
      [] now >= judge_pass_until                  -> "closed"
      [] ~enabled                                 -> "paused"
      [] issued_in_window > judge_pass_daily_max  -> "full"
      [] OTHER                                    -> "open"

\* In that order of precedence.
state == CASE Problem                                   -> "unconfigured"
           [] now >= judge_pass_until                   -> "closed"
           [] ~enabled                                  -> "paused"
           [] issued_in_window >= judge_pass_daily_max  -> "full"
           [] OTHER                                     -> "open"

\* pass_redeem up to the generation and hashing of the password: the right code, an
\* open state and an address nobody has.  Every refusal leaves things as they are.
RedeemCheck(t, e) ==
    /\ Spend("redeem")
    /\ state = "open" /\ ~Exists(e) /\ passes[e] = NoPass
    /\ Begin(t, [pc |-> "issuing", user |-> e, at |-> now])
    /\ UNCHANGED <<now, users, sess, fails, history, passVars>>

\* Mutant: the address is not looked at again, nor is its username unique.
Free_mutant(e) == passes[e] = NoPass

\* create_user looks again, and the username and the address are unique columns.
Free(e) == ~Exists(e) /\ passes[e] = NoPass

\* Account, pass, session and audit row are one transaction.  Lost to another request
\* for the same name, it is rolled back.
RedeemCommit(t) ==
    /\ req[t].pc = "issuing" /\ TokenLeft
    /\ LET e == req[t].user
       IN  IF Free(e)
           THEN /\ users'  = [users EXCEPT ![e] = NewUser("viewer", FALSE, judge_pass_until)]
                /\ passes' = [passes EXCEPT ![e] = [at   |-> req[t].at,
                                                    mail |-> IF MailConfigured THEN "queued" ELSE "off"]]
                /\ sess'   = issue_session(sess, e, gen[e], judge_pass_until)
                /\ tasks'  = IF MailConfigured THEN tasks \cup {e} ELSE tasks
           ELSE UNCHANGED <<users, passes, sess, tasks>>
    /\ Goto(t, Idle)
    /\ UNCHANGED <<now, fails, left, history, enabled>>

\* mail.send: whichever provider is set up takes the message, or a refusal, a timeout
\* or an unreachable host is an outcome like any other.
send == IF MailConfigured THEN {"sent", "failed"} ELSE {"off"}

\* Mutant: the row is replaced by one that only knows the outcome.
Deliver_mutant(e, outcome) ==
    /\ e \in tasks /\ tasks' = tasks \ {e}
    /\ passes' = [passes EXCEPT ![e] = [mail |-> outcome]]
    /\ UNCHANGED <<vars, enabled>>

\* deliver: mail.send gives an outcome, which is recorded.
Deliver(e, outcome) ==
    /\ e \in tasks /\ tasks' = tasks \ {e}
    /\ passes' = [passes EXCEPT ![e].mail = outcome]
    /\ UNCHANGED <<vars, enabled>>

\* An exception mail.send does not expect, or a database that cannot take the outcome.
DeliverUnrecorded(e) ==
    /\ e \in tasks /\ tasks' = tasks \ {e}
    /\ UNCHANGED <<vars, enabled, passes>>

\* judge_pass_switch
Switch(t, value) ==
    /\ AsAdmin(t)
    /\ enabled' = value
    /\ UNCHANGED <<now, users, sess, fails, left, history, passes, tasks>>

PassInit == Init /\ enabled = TRUE /\ passes = [e \in Email |-> NoPass] /\ tasks = {}

\* A restart loses the emails that had not been sent.
PassNext ==
    \/ (Restart \/ RaiseCost) /\ tasks' = {} /\ UNCHANGED <<enabled, passes>>
    \/ (Tick \/ Requests) /\ UNCHANGED passVars
    \/ \E t \in Thread :
         \/ \E e \in Email : RedeemCheck(t, e)
         \/ RedeemCommit(t)
         \/ \E value \in BOOLEAN : Switch(t, value)
    \/ \E e \in Email : DeliverUnrecorded(e) \/ \E o \in send : Deliver(e, o)

PassSpec == PassInit /\ [][PassNext]_allVars

----------------------------------------------------------------------------
(* Properties *)

\* Type correctness, of the accounts as well.
TypeOK ==
    /\ AccountsTypeOK
    /\ enabled \in BOOLEAN
    /\ passes \in [Email -> PassRow \cup {NoPass}]
    /\ tasks \subseteq Email

\* The limit of a day is checked before the password is hashed and the row inserted
\* after it; however many requests are between the two, the overrun is at most the
\* requests in flight beside the one that was entitled to the last pass.
DailyLimitOverrun == issued_in_window < judge_pass_daily_max + Cardinality(Thread)

\* "An address that is already somebody's username must not become a second way into
\* it": a pass is only ever committed together with a new account.
NoSecondWayIn ==
    [][\A e \in Email : passes[e] = NoPass /\ passes'[e] # NoPass => ~Exists(e)]_allVars

\* "A session never outlives its account": of an account with a pass no session runs
\* beyond the close of the event, and an account has an end date exactly if it has a pass.
PassEndsAccess ==
    \A e \in Email :
        /\ (Exists(e) /\ users[e].until # Never) <=> passes[e] # NoPass
        /\ \A k \in Token : sess[k].user = e /\ passes[e] # NoPass
                                => sess[k].expires <= judge_pass_until
============================================================================
