------------------------------ MODULE Accounts ------------------------------
(***************************************************************************)
(* One account: its password, its sessions, its lock and its second        *)
(* factor (src/api/app/main.py, the /auth and /platform-admin/users        *)
(* routes, and src/api/app/mfa.py).                                        *)
(*                                                                         *)
(* A session is a signed token that carries the session_version of its     *)
(* day; the account's own version decides whether it still opens anything. *)
(* A handler checks its caller's token in a database session of its own,   *)
(* then reads the row, then writes: three steps between which every other  *)
(* handler may run.  Only the SQL of the write sees the row as it is.      *)
(***************************************************************************)
EXTENDS Naturals

CONSTANTS
    Requests,           \* requests about the account in flight
    Passwords,
    Secrets, NoSecret,  \* seeds of an authenticator app
    Codes,              \* backup codes
    Links,              \* password reset links
    MaxAttempts,        \* MAX_FAILED_LOGIN_ATTEMPTS
    MaxVersion,         \* bound: revocations
    MaxFailures         \* bound: wrong passwords typed

ASSUME AccountBounds ==
    /\ MaxAttempts \in Nat \ {0} /\ MaxVersion \in Nat \ {0} /\ MaxFailures \in Nat
    /\ NoSecret \notin Secrets

VARIABLES
    account,    \* the row of users
    tokens,     \* session versions of the access tokens handed out
    challenge,  \* a second-step token is out and has not expired
    link,       \* link[k]: a row of password_reset_tokens, dead when used or expired
    request,    \* request[r]: what the handler has read
    failures,   \* history: wrong passwords typed
    proven      \* history: secrets a valid code was shown for

accountVars == <<account, tokens, challenge, link, request, failures, proven>>

-----------------------------------------------------------------------------
Account ==
    [password : Passwords, active : BOOLEAN, version : 1..MaxVersion,
     attempts : 0..(MaxAttempts - 1), lock : {"none", "running", "past"},
     enabled : BOOLEAN, secret : Secrets \cup {NoSecret}, codes : SUBSET Codes]

Guarded == {"change_password", "logout_everywhere", "mfa_setup", "mfa_enable", "mfa_disable"}

Request ==
    [op : {"idle", "block", "unblock", "unlock", "admin_reset", "forgot_password"}]
    \cup [op : {"authorized"}, next : Guarded]
    \cup [op : {"change_password"}, password : Passwords]
    \cup [op : {"mfa_setup", "mfa_enable", "mfa_disable"}]
    \cup [op : {"reset_password"}, password : Passwords, link : Links]
    \cup [op : {"failed_login"}, attempts : 0..(MaxAttempts - 1)]
    \cup [op : {"login"}, clear : BOOLEAN, enabled : BOOLEAN, version : 1..MaxVersion]
    \cup [op : {"login_mfa"}, spend : BOOLEAN, left : SUBSET Codes, version : 1..MaxVersion]

Idle == [op |-> "idle"]

AccountInit ==
    /\ account \in [password : Passwords, active : {TRUE}, version : {1}, attempts : {0},
                    lock : {"none"}, enabled : {FALSE}, secret : {NoSecret}, codes : {{}}]
    /\ tokens = {1}
    /\ challenge = FALSE
    /\ link = [k \in Links |-> "unused"]
    /\ request = [r \in Requests |-> Idle]
    /\ failures = 0
    /\ proven = {}

Free(r) == request[r] = Idle
Doing(r, op) == request[r].op = op
Becomes(r, next) == request' = [request EXCEPT ![r] = next]

\* "set session_version = session_version + 1", in SQL
Revoked(a) == [a EXCEPT !.version = @ + 1]
CanRevoke == account.version < MaxVersion

-----------------------------------------------------------------------------
\* get_current_user: the caller's token is one of the current version.
Authorize(r, op) ==
    /\ Free(r)
    /\ account.version \in tokens
    /\ Becomes(r, [op |-> "authorized", next |-> op])
    /\ UNCHANGED <<account, tokens, challenge, link, failures, proven>>

Authorized(r, op) == Doing(r, "authorized") /\ request[r].next = op

\* An error answer, a rollback, a lost connection: nothing was committed.
Abandon(r) ==
    /\ ~Free(r)
    /\ Becomes(r, Idle)
    /\ UNCHANGED <<account, tokens, challenge, link, failures, proven>>

ChangePasswordRead(r, typed, new) ==
    /\ Authorized(r, "change_password")
    /\ typed = account.password
    /\ Becomes(r, [op |-> "change_password", password |-> new])
    /\ UNCHANGED <<account, tokens, challenge, link, failures, proven>>

\* Mutant: the sessions are left alone.
ChangePasswordKeepsSessions(r) ==
    /\ Doing(r, "change_password") /\ CanRevoke
    /\ account' = [account EXCEPT !.password = request[r].password]
    /\ Becomes(r, Idle)
    /\ UNCHANGED <<tokens, challenge, link, failures, proven>>

ChangePasswordCommit(r) ==
    /\ Doing(r, "change_password") /\ CanRevoke
    /\ account' = Revoked([account EXCEPT !.password = request[r].password])
    /\ Becomes(r, Idle)
    /\ UNCHANGED <<tokens, challenge, link, failures, proven>>

LogoutEverywhere(r) ==
    /\ Authorized(r, "logout_everywhere") /\ CanRevoke
    /\ account' = Revoked(account)
    /\ Becomes(r, Idle)
    /\ UNCHANGED <<tokens, challenge, link, failures, proven>>

-----------------------------------------------------------------------------
\* The password is compared with the row just read, so the answer is known
\* here; what the handler writes next rests on this row.
LoginRead(r, typed) ==
    /\ Free(r)
    /\ account.active /\ account.lock # "running"
    /\ \/ /\ typed = account.password
          /\ Becomes(r, [op |-> "login", enabled |-> account.enabled, version |-> account.version,
                         clear |-> account.attempts > 0 \/ account.lock # "none"])
          /\ UNCHANGED failures
       \/ /\ typed # account.password /\ failures < MaxFailures
          /\ failures' = failures + 1
          /\ Becomes(r, [op |-> "failed_login", attempts |-> account.attempts])
    /\ UNCHANGED <<account, tokens, challenge, link, proven>>

\* Mutants: one attempt too few; the lock does not reset the counter.
FailedLogin(a, seen) ==
    IF seen + 1 >= MaxAttempts - 1 THEN [a EXCEPT !.attempts = 0, !.lock = "running"]
    ELSE [a EXCEPT !.attempts = seen + 1, !.lock = "none"]
LockKeepsCounter(a, seen) ==
    IF seen + 1 >= MaxAttempts THEN [a EXCEPT !.attempts = seen + 1, !.lock = "running"]
    ELSE [a EXCEPT !.attempts = seen + 1, !.lock = "none"]

\* The row after a wrong password, counted from the row that was read
AfterFailure(a, seen) ==
    IF seen + 1 >= MaxAttempts THEN [a EXCEPT !.attempts = 0, !.lock = "running"]
    ELSE [a EXCEPT !.attempts = seen + 1, !.lock = "none"]

LoginFails(r) ==
    /\ Doing(r, "failed_login")
    /\ account' = AfterFailure(account, request[r].attempts)
    /\ Becomes(r, Idle)
    /\ UNCHANGED <<tokens, challenge, link, failures, proven>>

\* The counter is cleared when the row read had one; the token, or the
\* challenge of the second step, carries the version that was read.
LoginSucceeds(r) ==
    /\ Doing(r, "login")
    /\ account' = IF request[r].clear
                  THEN [account EXCEPT !.attempts = 0, !.lock = "none"] ELSE account
    /\ IF request[r].enabled
       THEN challenge' = TRUE /\ UNCHANGED tokens
       ELSE tokens' = tokens \cup {request[r].version} /\ UNCHANGED challenge
    /\ Becomes(r, Idle)
    /\ UNCHANGED <<link, failures, proven>>

\* login_mfa takes a code of the app or an unused backup code.  The version
\* is read here: the challenge does not carry one.
LoginMfaRead(r, code) ==
    /\ Free(r) /\ challenge
    /\ account.enabled /\ account.secret # NoSecret
    /\ \E spend \in BOOLEAN :
        /\ spend => code \in account.codes
        /\ Becomes(r, [op |-> "login_mfa", spend |-> spend, version |-> account.version,
                       left |-> IF spend THEN account.codes \ {code} ELSE {}])
    /\ UNCHANGED <<account, tokens, challenge, link, failures, proven>>

LoginMfaSucceeds(r) ==
    /\ Doing(r, "login_mfa")
    /\ account' = IF request[r].spend THEN [account EXCEPT !.codes = request[r].left] ELSE account
    /\ tokens' = tokens \cup {request[r].version}
    /\ Becomes(r, Idle)
    /\ UNCHANGED <<challenge, link, failures, proven>>

-----------------------------------------------------------------------------
\* The platform admin's operations and the public "forgot password" read
\* the row for their early returns.  A lock that has run out is still a lock
\* to unlock.
SupportRead(r, op) ==
    /\ Free(r)
    /\ CASE op \in {"block", "admin_reset", "forgot_password"} -> account.active
         [] op = "unblock" -> ~account.active
         [] op = "unlock" -> account.lock # "none"
    /\ Becomes(r, [op |-> op])
    /\ UNCHANGED <<account, tokens, challenge, link, failures, proven>>

BlockCommit(r) ==
    /\ Doing(r, "block") /\ CanRevoke
    /\ account' = Revoked([account EXCEPT !.active = FALSE])
    /\ Becomes(r, Idle)
    /\ UNCHANGED <<tokens, challenge, link, failures, proven>>

UnblockCommit(r) ==
    /\ Doing(r, "unblock")
    /\ account' = [account EXCEPT !.active = TRUE]
    /\ Becomes(r, Idle)
    /\ UNCHANGED <<tokens, challenge, link, failures, proven>>

UnlockCommit(r) ==
    /\ Doing(r, "unlock")
    /\ account' = [account EXCEPT !.attempts = 0, !.lock = "none"]
    /\ Becomes(r, Idle)
    /\ UNCHANGED <<tokens, challenge, link, failures, proven>>

ForgotPassword(r, k) ==
    /\ Doing(r, "forgot_password")
    /\ link[k] = "unused"
    /\ link' = [link EXCEPT ![k] = "live"]
    /\ Becomes(r, Idle)
    /\ UNCHANGED <<account, tokens, challenge, failures, proven>>

AdminResetCommit(r, k) ==
    /\ Doing(r, "admin_reset") /\ CanRevoke
    /\ link[k] = "unused"
    /\ link' = [link EXCEPT ![k] = "live"]
    /\ account' = Revoked(account)
    /\ Becomes(r, Idle)
    /\ UNCHANGED <<tokens, challenge, failures, proven>>

ResetPasswordRead(r, k, new) ==
    /\ Free(r)
    /\ link[k] = "live"
    /\ Becomes(r, [op |-> "reset_password", password |-> new, link |-> k])
    /\ UNCHANGED <<account, tokens, challenge, link, failures, proven>>

\* Neither update looks again at the link or at the account.
ResetPasswordCommit(r) ==
    /\ Doing(r, "reset_password") /\ CanRevoke
    /\ account' = Revoked([account EXCEPT !.password = request[r].password])
    /\ link' = [link EXCEPT ![request[r].link] = "dead"]
    /\ Becomes(r, Idle)
    /\ UNCHANGED <<tokens, challenge, failures, proven>>

-----------------------------------------------------------------------------
MfaSetupRead(r) ==
    /\ Authorized(r, "mfa_setup")
    /\ ~account.enabled
    /\ Becomes(r, [op |-> "mfa_setup"])
    /\ UNCHANGED <<account, tokens, challenge, link, failures, proven>>

\* A new random secret
MfaSetupCommit(r, secret) ==
    /\ Doing(r, "mfa_setup")
    /\ secret \notin proven \cup {account.secret}
    /\ account' = [account EXCEPT !.secret = secret]
    /\ Becomes(r, Idle)
    /\ UNCHANGED <<tokens, challenge, link, failures, proven>>

\* The code shown is checked against the secret that was read.
MfaEnableRead(r) ==
    /\ Authorized(r, "mfa_enable")
    /\ ~account.enabled /\ account.secret # NoSecret
    /\ proven' = proven \cup {account.secret}
    /\ Becomes(r, [op |-> "mfa_enable"])
    /\ UNCHANGED <<account, tokens, challenge, link, failures>>

MfaEnableCommit(r) ==
    /\ Doing(r, "mfa_enable")
    /\ account' = [account EXCEPT !.enabled = TRUE, !.codes = Codes]
    /\ Becomes(r, Idle)
    /\ UNCHANGED <<tokens, challenge, link, failures, proven>>

MfaDisableRead(r, typed) ==
    /\ Authorized(r, "mfa_disable")
    /\ typed = account.password
    /\ Becomes(r, [op |-> "mfa_disable"])
    /\ UNCHANGED <<account, tokens, challenge, link, failures, proven>>

MfaDisableCommit(r) ==
    /\ Doing(r, "mfa_disable")
    /\ account' = [account EXCEPT !.enabled = FALSE, !.secret = NoSecret, !.codes = {}]
    /\ Becomes(r, Idle)
    /\ UNCHANGED <<tokens, challenge, link, failures, proven>>

-----------------------------------------------------------------------------
\* Time: locked_until and the expiry of the tokens
LockRunsOut ==
    /\ account.lock = "running"
    /\ account' = [account EXCEPT !.lock = "past"]
    /\ UNCHANGED <<tokens, challenge, link, request, failures, proven>>

ChallengeExpires ==
    /\ challenge
    /\ challenge' = FALSE
    /\ UNCHANGED <<account, tokens, link, request, failures, proven>>

LinkExpires(k) ==
    /\ link[k] = "live"
    /\ link' = [link EXCEPT ![k] = "dead"]
    /\ UNCHANGED <<account, tokens, challenge, request, failures, proven>>

PasswordStep(r) ==
    \/ Authorize(r, "change_password") \/ Authorize(r, "logout_everywhere")
    \/ \E typed, new \in Passwords : ChangePasswordRead(r, typed, new)
    \/ ChangePasswordCommit(r) \/ LogoutEverywhere(r)
    \/ \E k \in Links : ForgotPassword(r, k) \/ AdminResetCommit(r, k)
    \/ \E k \in Links, new \in Passwords : ResetPasswordRead(r, k, new)
    \/ ResetPasswordCommit(r)

SignInStep(r) ==
    \/ \E typed \in Passwords : LoginRead(r, typed)
    \/ LoginFails(r) \/ LoginSucceeds(r)
    \/ \E op \in {"block", "unblock", "unlock", "admin_reset", "forgot_password"} :
           SupportRead(r, op)
    \/ BlockCommit(r) \/ UnblockCommit(r) \/ UnlockCommit(r)
    \/ Abandon(r)

FactorStep(r) ==
    \/ \E op \in {"mfa_setup", "mfa_enable", "mfa_disable"} : Authorize(r, op)
    \/ MfaSetupRead(r) \/ MfaEnableRead(r) \/ MfaEnableCommit(r)
    \/ \E secret \in Secrets : MfaSetupCommit(r, secret)
    \/ \E typed \in Passwords : MfaDisableRead(r, typed)
    \/ MfaDisableCommit(r)
    \/ \E code \in Codes : LoginMfaRead(r, code)
    \/ LoginMfaSucceeds(r)

TimePasses == LockRunsOut \/ ChallengeExpires \/ \E k \in Links : LinkExpires(k)

AccountNext ==
    \/ \E r \in Requests : PasswordStep(r) \/ SignInStep(r) \/ FactorStep(r)
    \/ TimePasses

AccountSpec == AccountInit /\ [][AccountNext]_accountVars

-----------------------------------------------------------------------------
\* The variables stay in their sets: in particular the counter of failed
\* logins, which the next failure compares with MAX_FAILED_LOGIN_ATTEMPTS,
\* never reaches it in a stored row.
AccountTypeOK ==
    /\ account \in Account
    /\ tokens \in SUBSET (1..MaxVersion)
    /\ challenge \in BOOLEAN
    /\ link \in [Links -> {"unused", "live", "dead"}]
    /\ request \in [Requests -> Request]
    /\ failures \in 0..MaxFailures
    /\ proven \in SUBSET Secrets

\* Versions a login in flight has read and will put into a token
InFlight == {request[r].version : r \in {q \in Requests : request[q].op \in {"login", "login_mfa"}}}

\* "Blocking takes effect on this user's very next request", and so does a
\* new password: in the step that changes the password or blocks the account,
\* no token handed out before is of the account's new version, nor will one be
\* that an overlapping login is about to hand out from the row it has read.
NoSessionOutlivesRevocation ==
    [][account'.password # account.password \/ (account.active /\ ~account'.active)
       => account'.version \notin tokens \cup InFlight]_accountVars

\* Nobody is locked out by fewer than MAX_FAILED_LOGIN_ATTEMPTS wrong
\* passwords, although overlapping logins count from rows read earlier: the
\* lost updates of login only ever count too few.
LockoutNeedsFailures ==
    /\ account.attempts <= failures
    /\ account.lock # "none" => failures >= MaxAttempts

\* "A secret the user hasn't proven they can actually use yet must never gate
\* their own login" (the comment above mfa_setup): an enabled second factor is
\* one a valid code was shown for.
EnabledSecretIsProven == account.enabled => account.secret \in proven

\* "Has been blocked and can no longer sign in" (platform_admin_block_user):
\* while the account is blocked, no login hands out a token of its version.
BlockedStaysOut ==
    [][~account.active /\ ~account'.active
       => account'.version \notin tokens' \ tokens]_accountVars
=============================================================================
