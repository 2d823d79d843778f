--------------------------- MODULE Accounts_proofs ---------------------------
(***************************************************************************)
(* Proofs about Accounts, for any number of overlapping requests, of       *)
(* passwords, secrets, codes and links, and any limits.                    *)
(***************************************************************************)
EXTENDS Accounts, TLAPS

\* What a request will write or hand out rests on a row that was true: a
\* failed login counts one failure more than the row it read, and a login's
\* version is not of the future.
RestsOnRow(q) ==
    /\ q.op = "failed_login" => q.attempts + 1 <= failures
    /\ q.op \in {"login", "login_mfa"} => q.version <= account.version

AllRestOnRow == \A r \in Requests : RestsOnRow(request[r])

\* No token is of a version the account has not reached.
TokensArePast == \A v \in tokens : v <= account.version

AccountInv == AccountTypeOK /\ LockoutNeedsFailures /\ AllRestOnRow /\ TokensArePast

-----------------------------------------------------------------------------
\* The fields of the row, one by one
LEMMA RowFields ==
    ASSUME NEW a \in Account
    PROVE  /\ a.password \in Passwords /\ a.active \in BOOLEAN
           /\ a.version \in 1..MaxVersion /\ a.version \in Nat
           /\ a.attempts \in 0..(MaxAttempts - 1) /\ a.attempts \in Nat
           /\ a.lock \in {"none", "running", "past"}
           /\ a.enabled \in BOOLEAN /\ a.secret \in Secrets \cup {NoSecret}
           /\ a.codes \in SUBSET Codes
  BY AccountBounds DEF Account

\* A row b that differs from a in columns the counter, the version and the
\* password do not depend on
Alike(a, b) ==
    /\ b \in Account
    /\ b.version = a.version /\ b.attempts = a.attempts /\ b.lock = a.lock
    /\ b.password = a.password /\ b.active = a.active

LEMMA FactorRows ==
    ASSUME NEW a \in Account
    PROVE  /\ \A c \in SUBSET Codes : Alike(a, [a EXCEPT !.codes = c])
           /\ \A s \in Secrets : Alike(a, [a EXCEPT !.secret = s])
           /\ Alike(a, [a EXCEPT !.enabled = TRUE, !.codes = Codes])
           /\ Alike(a, [a EXCEPT !.enabled = FALSE, !.secret = NoSecret, !.codes = {}])
  <1>1. ASSUME NEW c \in SUBSET Codes PROVE Alike(a, [a EXCEPT !.codes = c])
    BY DEF Account, Alike
  <1>2. ASSUME NEW s \in Secrets PROVE Alike(a, [a EXCEPT !.secret = s])
    BY DEF Account, Alike
  <1>3. Alike(a, [a EXCEPT !.enabled = TRUE, !.codes = Codes])
    BY DEF Account, Alike
  <1>4. Alike(a, [a EXCEPT !.enabled = FALSE, !.secret = NoSecret, !.codes = {}])
    BY DEF Account, Alike
  <1> QED
    BY <1>1, <1>2, <1>3, <1>4

\* The password and the block
LEMMA PasswordRow ==
    ASSUME NEW a \in Account, NEW x \in Passwords, NEW b, b = [a EXCEPT !.password = x]
    PROVE  /\ b \in Account /\ b.version = a.version /\ b.active = a.active
           /\ b.attempts = a.attempts /\ b.lock = a.lock
  BY DEF Account

LEMMA ActiveRow ==
    ASSUME NEW a \in Account, NEW x \in BOOLEAN, NEW b, b = [a EXCEPT !.active = x]
    PROVE  /\ b \in Account /\ b.version = a.version /\ b.password = a.password
           /\ b.attempts = a.attempts /\ b.lock = a.lock /\ b.active = x
  BY DEF Account

\* A revocation moves the version on and nothing else.
LEMMA RevokedRow ==
    ASSUME NEW a \in Account, a.version < MaxVersion
    PROVE  /\ Revoked(a) \in Account
           /\ Revoked(a).version = a.version + 1
           /\ Revoked(a).attempts = a.attempts /\ Revoked(a).lock = a.lock
           /\ Revoked(a).password = a.password /\ Revoked(a).active = a.active
  <1>1. a.version + 1 \in 1..MaxVersion
    BY RowFields, AccountBounds
  <1>2. Revoked(a) \in Account
    BY <1>1 DEF Account, Revoked
  <1> QED
    BY <1>2 DEF Account, Revoked

\* The counter and the lock
LEMMA ClearedRow ==
    ASSUME NEW a \in Account, NEW b, b = [a EXCEPT !.attempts = 0, !.lock = "none"]
    PROVE  /\ b \in Account /\ b.version = a.version /\ b.attempts = 0 /\ b.lock = "none"
           /\ b.password = a.password /\ b.active = a.active
  <1>1. 0 \in 0..(MaxAttempts - 1)
    BY AccountBounds
  <1> QED
    BY <1>1 DEF Account

LEMMA FailedRow ==
    ASSUME NEW a \in Account, NEW seen \in 0..(MaxAttempts - 1), NEW b, b = AfterFailure(a, seen)
    PROVE  /\ b \in Account /\ b.version = a.version
           /\ b.password = a.password /\ b.active = a.active
           /\ \/ seen + 1 >= MaxAttempts /\ b.attempts = 0
              \/ b.lock = "none" /\ b.attempts = seen + 1
  <1>1. CASE seen + 1 >= MaxAttempts
    <2>1. b = [a EXCEPT !.attempts = 0, !.lock = "running"] /\ 0 \in 0..(MaxAttempts - 1)
      BY <1>1, AccountBounds DEF AfterFailure
    <2> QED
      BY <1>1, <2>1 DEF Account
  <1>2. CASE ~(seen + 1 >= MaxAttempts)
    <2>1. b = [a EXCEPT !.attempts = seen + 1, !.lock = "none"] /\ seen + 1 \in 0..(MaxAttempts - 1)
      BY <1>2, AccountBounds DEF AfterFailure
    <2> QED
      BY <2>1 DEF Account
  <1> QED
    BY <1>1, <1>2

LEMMA LockRow ==
    ASSUME NEW a \in Account, NEW b, b = [a EXCEPT !.lock = "past"]
    PROVE  /\ b \in Account /\ b.version = a.version /\ b.attempts = a.attempts /\ b.lock = "past"
           /\ b.password = a.password /\ b.active = a.active
  BY DEF Account

\* The fields of a request by its operation
LEMMA RequestFields ==
    ASSUME NEW q \in Request
    PROVE  /\ q.op \in {"change_password", "reset_password"} => q.password \in Passwords
           /\ q.op = "reset_password" => q.link \in Links
           /\ q.op = "failed_login" => q.attempts \in 0..(MaxAttempts - 1)
           /\ q.op = "login" => q.version \in 1..MaxVersion /\ q.clear \in BOOLEAN
                                /\ q.enabled \in BOOLEAN
           /\ q.op = "login_mfa" => q.version \in 1..MaxVersion /\ q.left \in SUBSET Codes
                                    /\ q.spend \in BOOLEAN
  BY DEF Request, Guarded
LEMMA RequestAfter ==
    ASSUME NEW f \in [Requests -> Request], NEW r \in Requests, NEW x \in Request
    PROVE  /\ [f EXCEPT ![r] = x] \in [Requests -> Request]
           /\ [f EXCEPT ![r] = x][r] = x
           /\ \A q \in Requests \ {r} : [f EXCEPT ![r] = x][q] = f[q]
  OBVIOUS

-----------------------------------------------------------------------------
LEMMA InitAccount == AccountInit => AccountInv
  <1> SUFFICES ASSUME AccountInit PROVE AccountInv
    OBVIOUS
  <1>1. account \in Account /\ account.attempts = 0 /\ account.lock = "none" /\ account.version = 1
    <2>1. 1 \in 1..MaxVersion /\ 0 \in 0..(MaxAttempts - 1)
      BY AccountBounds
    <2>2. /\ account.version = 1 /\ account.attempts = 0 /\ account.lock = "none"
          /\ account.password \in Passwords /\ account.active = TRUE /\ account.enabled = FALSE
          /\ account.secret = NoSecret /\ account.codes = {}
      BY DEF AccountInit
    <2>3. account \in Account
      BY <2>1, <2>2 DEF AccountInit, Account
    <2> QED
      BY <2>2, <2>3
  <1>2. \A r \in Requests : request[r] \in Request /\ request[r].op = "idle"
    BY DEF AccountInit, Idle, Request
  <1>3. AccountTypeOK
    <2>1. request \in [Requests -> Request] /\ link \in [Links -> {"unused", "live", "dead"}]
      BY <1>2 DEF AccountInit
    <2>2. tokens \in SUBSET (1..MaxVersion) /\ failures \in 0..MaxFailures
      BY AccountBounds DEF AccountInit
    <2> QED
      BY <1>1, <2>1, <2>2 DEF AccountInit, AccountTypeOK
  <1>4. LockoutNeedsFailures
    BY <1>1 DEF AccountInit, LockoutNeedsFailures
  <1>5. AllRestOnRow
    BY <1>2 DEF AllRestOnRow, RestsOnRow
  <1>6. TokensArePast
    BY <1>1 DEF AccountInit, TokensArePast
  <1> QED
    BY <1>3, <1>4, <1>5, <1>6 DEF AccountInv

\* A request takes a step: it ends with x, which rests on the row as it is
\* then; the version and the failures only grow.
LEMMA StepKeeps ==
    ASSUME AccountInv, NEW r \in Requests, NEW x \in Request, Becomes(r, x),
           account' \in Account, account.version <= account'.version,
           failures' \in 0..MaxFailures, failures <= failures', LockoutNeedsFailures',
           tokens' \in SUBSET (1..MaxVersion), TokensArePast',
           challenge' \in BOOLEAN, link' \in [Links -> {"unused", "live", "dead"}],
           proven' \in SUBSET Secrets,
           x.op = "failed_login" => x.attempts + 1 <= failures',
           x.op \in {"login", "login_mfa"} => x.version <= account'.version
    PROVE  AccountInv'
  <1>1. /\ request' \in [Requests -> Request] /\ request'[r] = x
        /\ \A q \in Requests \ {r} : request'[q] = request[q]
    BY RequestAfter DEF AccountInv, AccountTypeOK, Becomes
  <1>2. AccountTypeOK'
    BY <1>1 DEF AccountTypeOK
  <1>3. AllRestOnRow'
    <2> SUFFICES ASSUME NEW q \in Requests PROVE RestsOnRow(request[q])'
      BY DEF AllRestOnRow
    <2>1. CASE q = r
      BY <1>1, <2>1 DEF RestsOnRow
    <2>2. CASE q # r
      <3>1. RestsOnRow(request[q]) /\ request'[q] = request[q] /\ request[q] \in Request
        BY <1>1, <2>2 DEF AccountInv, AllRestOnRow, AccountTypeOK
      <3>2. /\ account.version \in Nat /\ account'.version \in Nat
            /\ failures \in Nat /\ failures' \in Nat
        BY RowFields, AccountBounds DEF AccountInv, AccountTypeOK
      <3>3. request[q].op = "failed_login" => request[q].attempts \in Nat
        BY <3>1, RequestFields, AccountBounds
      <3>4. request[q].op \in {"login", "login_mfa"} => request[q].version \in Nat
        BY <3>1, RequestFields, AccountBounds
      <3> QED
        BY <3>1, <3>2, <3>3, <3>4 DEF RestsOnRow
    <2> QED
      BY <2>1, <2>2
  <1> QED
    BY <1>2, <1>3 DEF AccountInv

\* A request that only reads, and one that only hands out a link
LEMMA QuietKeeps ==
    ASSUME AccountInv, NEW r \in Requests, NEW x \in Request, Becomes(r, x),
           x.op \notin {"failed_login", "login", "login_mfa"},
           UNCHANGED <<account, tokens, failures, challenge>>,
           link' \in [Links -> {"unused", "live", "dead"}], proven' \in SUBSET Secrets
    PROVE  AccountInv'
  <1>1. /\ account' \in Account /\ account.version <= account'.version
        /\ failures' \in 0..MaxFailures /\ failures <= failures'
        /\ tokens' \in SUBSET (1..MaxVersion) /\ challenge' \in BOOLEAN
    BY RowFields, AccountBounds DEF AccountInv, AccountTypeOK
  <1>2. LockoutNeedsFailures' /\ TokensArePast'
    BY DEF AccountInv, LockoutNeedsFailures, TokensArePast
  <1> QED
    BY <1>1, <1>2, StepKeeps

\* A request that ends by writing the row, and perhaps a link, with counter
\* and lock as they are
LEMMA CommitKeeps ==
    ASSUME AccountInv, NEW r \in Requests, Becomes(r, Idle),
           account' \in Account, account.version <= account'.version,
           LockoutNeedsFailures', tokens' \in SUBSET (1..MaxVersion),
           TokensArePast', challenge' \in BOOLEAN,
           link' \in [Links -> {"unused", "live", "dead"}],
           UNCHANGED <<failures, proven>>
    PROVE  AccountInv'
  <1>1. Idle \in Request /\ Idle.op = "idle"
    BY DEF Idle, Request
  <1>2. /\ failures' \in 0..MaxFailures /\ failures <= failures' /\ proven' \in SUBSET Secrets
    BY AccountBounds DEF AccountInv, AccountTypeOK
  <1> QED
    BY <1>1, <1>2, StepKeeps

\* The same without new tokens
LEMMA WriteKeeps ==
    ASSUME AccountInv, NEW r \in Requests, Becomes(r, Idle),
           account' \in Account, account.version <= account'.version,
           LockoutNeedsFailures', link' \in [Links -> {"unused", "live", "dead"}],
           UNCHANGED <<tokens, challenge, failures, proven>>
    PROVE  AccountInv'
  <1>1. tokens' \in SUBSET (1..MaxVersion) /\ challenge' \in BOOLEAN
    BY DEF AccountInv, AccountTypeOK
  <1>2. TokensArePast'
    <2>1. account.version \in Nat /\ account'.version \in Nat /\ \A v \in tokens : v \in Nat
      BY RowFields, AccountBounds DEF AccountInv, AccountTypeOK
    <2> QED
      BY <2>1 DEF AccountInv, TokensArePast
  <1> QED
    BY <1>1, <1>2, CommitKeeps

-----------------------------------------------------------------------------
\* What the invariant says of the row and of a request, field by field
LEMMA RowNow ==
    ASSUME AccountInv
    PROVE  /\ account \in Account /\ account.version \in Nat /\ account.attempts \in Nat
           /\ failures \in Nat /\ failures \in 0..MaxFailures
           /\ account.attempts <= failures
           /\ account.lock # "none" => failures >= MaxAttempts
           /\ tokens \in SUBSET (1..MaxVersion) /\ TokensArePast
           /\ challenge \in BOOLEAN /\ proven \in SUBSET Secrets
           /\ link \in [Links -> {"unused", "live", "dead"}]
           /\ \A r \in Requests : request[r] \in Request /\ RestsOnRow(request[r])
  BY RowFields, AccountBounds DEF AccountInv, AccountTypeOK, LockoutNeedsFailures, AllRestOnRow

\* A row with the counter and the lock it had, or with both cleared
LEMMA LockoutStays ==
    ASSUME AccountInv, UNCHANGED failures,
           \/ account'.attempts = account.attempts /\ account'.lock = account.lock
           \/ account'.attempts = 0 /\ account'.lock = "none"
    PROVE  LockoutNeedsFailures'
  BY RowNow DEF LockoutNeedsFailures

LEMMA AuthorizeKeeps ==
    ASSUME AccountInv, NEW r \in Requests, NEW op \in Guarded, Authorize(r, op)
    PROVE  AccountInv'
  <1>1. [op |-> "authorized", next |-> op] \in Request
    BY DEF Request
  <1> QED
    BY <1>1, RowNow, QuietKeeps DEF Authorize

LEMMA AbandonKeeps == ASSUME AccountInv, NEW r \in Requests, Abandon(r) PROVE AccountInv'
  <1>1. Idle \in Request /\ Idle.op = "idle"
    BY DEF Idle, Request
  <1> QED
    BY <1>1, RowNow, QuietKeeps DEF Abandon

\* Reads that keep what a commit needs
LEMMA ReadKeeps ==
    ASSUME AccountInv, NEW r \in Requests,
           \/ \E typed, new \in Passwords : ChangePasswordRead(r, typed, new)
           \/ \E k \in Links, new \in Passwords : ResetPasswordRead(r, k, new)
           \/ \E op \in {"block", "unblock", "unlock", "admin_reset", "forgot_password"} :
                  SupportRead(r, op)
           \/ MfaSetupRead(r) \/ MfaEnableRead(r)
           \/ \E typed \in Passwords : MfaDisableRead(r, typed)
    PROVE  AccountInv'
  <1>1. ASSUME NEW typed \in Passwords, NEW new \in Passwords, ChangePasswordRead(r, typed, new)
        PROVE  AccountInv'
    <2>1. [op |-> "change_password", password |-> new] \in Request
      BY DEF Request
    <2> QED
      BY <1>1, <2>1, RowNow, QuietKeeps DEF ChangePasswordRead
  <1>2. ASSUME NEW k \in Links, NEW new \in Passwords, ResetPasswordRead(r, k, new)
        PROVE  AccountInv'
    <2>1. [op |-> "reset_password", password |-> new, link |-> k] \in Request
      BY DEF Request
    <2> QED
      BY <1>2, <2>1, RowNow, QuietKeeps DEF ResetPasswordRead
  <1>3. ASSUME NEW op \in {"block", "unblock", "unlock", "admin_reset", "forgot_password"},
               SupportRead(r, op)
        PROVE  AccountInv'
    <2>1. [op |-> op] \in Request
      BY DEF Request
    <2> QED
      BY <1>3, <2>1, RowNow, QuietKeeps DEF SupportRead
  <1>4. CASE MfaSetupRead(r)
    <2>1. [op |-> "mfa_setup"] \in Request
      BY DEF Request
    <2> QED
      BY <1>4, <2>1, RowNow, QuietKeeps DEF MfaSetupRead
  <1>5. CASE MfaEnableRead(r)
    <2>1. [op |-> "mfa_enable"] \in Request
      BY DEF Request
    <2>2. proven' \in SUBSET Secrets
      BY <1>5, RowNow, RowFields DEF MfaEnableRead
    <2> QED
      BY <1>5, <2>1, <2>2, RowNow, QuietKeeps DEF MfaEnableRead
  <1>6. ASSUME NEW typed \in Passwords, MfaDisableRead(r, typed)
        PROVE  AccountInv'
    <2>1. [op |-> "mfa_disable"] \in Request
      BY DEF Request
    <2> QED
      BY <1>6, <2>1, RowNow, QuietKeeps DEF MfaDisableRead
  <1> QED
    BY <1>1, <1>2, <1>3, <1>4, <1>5, <1>6

\* The revocations.  Each says of the row what both invariants need.
Revokes ==
    /\ account' \in Account /\ account'.version = account.version + 1
    /\ account'.attempts = account.attempts /\ account'.lock = account.lock

LEMMA RevokingSteps ==
    ASSUME AccountInv, NEW r \in Requests,
           \/ ChangePasswordCommit(r) \/ LogoutEverywhere(r) \/ BlockCommit(r)
           \/ ResetPasswordCommit(r) \/ \E k \in Links : AdminResetCommit(r, k)
    PROVE  Revokes /\ UNCHANGED <<tokens, challenge, failures, proven>> /\ Becomes(r, Idle)
  <1>a. account \in Account
    BY RowNow
  <1>1. CASE ChangePasswordCommit(r)
    <2>1. request[r].password \in Passwords
      BY <1>1, RowNow, RequestFields DEF ChangePasswordCommit, Doing
    <2> DEFINE b == [account EXCEPT !.password = request[r].password]
    <2>2. /\ b \in Account /\ b.version = account.version
          /\ b.attempts = account.attempts /\ b.lock = account.lock
      BY <1>a, <2>1, PasswordRow
    <2>3. account' = Revoked(b) /\ b.version < MaxVersion
      BY <1>1, <2>2 DEF ChangePasswordCommit, CanRevoke
    <2> HIDE DEF b
    <2> QED
      BY <1>1, <2>2, <2>3, RevokedRow DEF ChangePasswordCommit, Revokes
  <1>2. CASE LogoutEverywhere(r)
    BY <1>a, <1>2, RevokedRow DEF LogoutEverywhere, CanRevoke, Revokes
  <1>3. CASE BlockCommit(r)
    <2> DEFINE b == [account EXCEPT !.active = FALSE]
    <2>2. /\ b \in Account /\ b.version = account.version
          /\ b.attempts = account.attempts /\ b.lock = account.lock
      BY <1>a, ActiveRow
    <2>3. account' = Revoked(b) /\ b.version < MaxVersion
      BY <1>3, <2>2 DEF BlockCommit, CanRevoke
    <2> HIDE DEF b
    <2> QED
      BY <1>3, <2>2, <2>3, RevokedRow DEF BlockCommit, Revokes
  <1>4. CASE ResetPasswordCommit(r)
    <2>1. request[r].password \in Passwords
      BY <1>4, RowNow, RequestFields DEF ResetPasswordCommit, Doing
    <2> DEFINE b == [account EXCEPT !.password = request[r].password]
    <2>2. /\ b \in Account /\ b.version = account.version
          /\ b.attempts = account.attempts /\ b.lock = account.lock
      BY <1>a, <2>1, PasswordRow
    <2>3. account' = Revoked(b) /\ b.version < MaxVersion
      BY <1>4, <2>2 DEF ResetPasswordCommit, CanRevoke
    <2> HIDE DEF b
    <2> QED
      BY <1>4, <2>2, <2>3, RevokedRow DEF ResetPasswordCommit, Revokes
  <1>5. CASE \E k \in Links : AdminResetCommit(r, k)
    BY <1>a, <1>5, RevokedRow DEF AdminResetCommit, CanRevoke, Revokes
  <1> QED
    BY <1>1, <1>2, <1>3, <1>4, <1>5

LEMMA RevokingKeeps ==
    ASSUME AccountInv, NEW r \in Requests,
           \/ ChangePasswordCommit(r) \/ LogoutEverywhere(r) \/ BlockCommit(r)
           \/ ResetPasswordCommit(r) \/ \E k \in Links : AdminResetCommit(r, k)
    PROVE  AccountInv'
  <1>1. Revokes /\ UNCHANGED <<tokens, challenge, failures, proven>> /\ Becomes(r, Idle)
    BY RevokingSteps
  <1>2. link' \in [Links -> {"unused", "live", "dead"}]
    BY RowNow DEF ChangePasswordCommit, LogoutEverywhere, BlockCommit, ResetPasswordCommit,
                  AdminResetCommit
  <1>3. account' \in Account /\ account.version <= account'.version /\ LockoutNeedsFailures'
    BY <1>1, RowNow, LockoutStays DEF Revokes
  <1> QED
    BY <1>1, <1>2, <1>3, WriteKeeps

\* The other commits leave the version and the password.
LEMMA PlainSteps ==
    ASSUME AccountInv, NEW r \in Requests,
           \/ UnblockCommit(r) \/ UnlockCommit(r) \/ LoginFails(r)
           \/ MfaEnableCommit(r) \/ MfaDisableCommit(r)
           \/ \E secret \in Secrets : MfaSetupCommit(r, secret)
    PROVE  /\ account' \in Account /\ account'.version = account.version
           /\ account'.password = account.password
           /\ account'.active = account.active \/ account'.active = TRUE
           /\ LockoutNeedsFailures'
           /\ Becomes(r, Idle) /\ UNCHANGED <<tokens, challenge, link, failures, proven>>
  <1>a. account \in Account
    BY RowNow
  <1>1. CASE UnblockCommit(r)
    BY <1>a, <1>1, ActiveRow, LockoutStays DEF UnblockCommit
  <1>2. CASE UnlockCommit(r)
    BY <1>a, <1>2, ClearedRow, LockoutStays DEF UnlockCommit
  <1>3. CASE LoginFails(r)
    <2>1. /\ request[r].attempts \in 0..(MaxAttempts - 1)
          /\ request[r].attempts + 1 <= failures
      BY <1>3, RowNow, RequestFields DEF LoginFails, Doing, RestsOnRow
    <2>2. /\ account' \in Account /\ account'.version = account.version
          /\ account'.password = account.password /\ account'.active = account.active
          /\ \/ request[r].attempts + 1 >= MaxAttempts /\ account'.attempts = 0
             \/ account'.lock = "none" /\ account'.attempts = request[r].attempts + 1
      BY <1>a, <1>3, <2>1, FailedRow DEF LoginFails
    <2>3. LockoutNeedsFailures'
      BY <1>3, <2>1, <2>2, RowNow, AccountBounds DEF LoginFails, LockoutNeedsFailures
    <2> QED
      BY <1>3, <2>2, <2>3 DEF LoginFails
  <1>4. CASE MfaEnableCommit(r)
    BY <1>a, <1>4, FactorRows, LockoutStays DEF MfaEnableCommit, Alike
  <1>5. CASE MfaDisableCommit(r)
    BY <1>a, <1>5, FactorRows, LockoutStays DEF MfaDisableCommit, Alike
  <1>6. ASSUME NEW secret \in Secrets, MfaSetupCommit(r, secret)
        PROVE  /\ account' \in Account /\ account'.version = account.version
               /\ account'.password = account.password /\ account'.active = account.active
               /\ LockoutNeedsFailures'
               /\ Becomes(r, Idle) /\ UNCHANGED <<tokens, challenge, link, failures, proven>>
    BY <1>a, <1>6, FactorRows, LockoutStays DEF MfaSetupCommit, Alike
  <1> QED
    BY <1>1, <1>2, <1>3, <1>4, <1>5, <1>6

LEMMA PlainKeeps ==
    ASSUME AccountInv, NEW r \in Requests,
           \/ UnblockCommit(r) \/ UnlockCommit(r) \/ LoginFails(r)
           \/ MfaEnableCommit(r) \/ MfaDisableCommit(r)
           \/ \E secret \in Secrets : MfaSetupCommit(r, secret)
    PROVE  AccountInv'
  <1>1. /\ account' \in Account /\ account'.version = account.version
        /\ LockoutNeedsFailures'
        /\ Becomes(r, Idle) /\ UNCHANGED <<tokens, challenge, link, failures, proven>>
    BY PlainSteps
  <1>2. /\ account.version <= account'.version
        /\ link' \in [Links -> {"unused", "live", "dead"}]
    BY <1>1, RowNow
  <1> QED
    BY <1>1, <1>2, WriteKeeps

LEMMA ForgotPasswordKeeps ==
    ASSUME AccountInv, NEW r \in Requests, NEW k \in Links, ForgotPassword(r, k)
    PROVE  AccountInv'
  <1>1. Idle \in Request /\ Idle.op = "idle"
    BY DEF Idle, Request
  <1>2. link' \in [Links -> {"unused", "live", "dead"}]
    BY RowNow DEF ForgotPassword
  <1> QED
    BY <1>1, <1>2, RowNow, QuietKeeps DEF ForgotPassword

\* A login counts the failure it has just seen, or remembers the version.
LEMMA LoginReadKeeps ==
    ASSUME AccountInv, NEW r \in Requests, NEW typed \in Passwords, LoginRead(r, typed)
    PROVE  AccountInv'
  <1>1. CASE /\ failures < MaxFailures /\ failures' = failures + 1
             /\ Becomes(r, [op |-> "failed_login", attempts |-> account.attempts])
    <2> DEFINE x == [op |-> "failed_login", attempts |-> account.attempts]
    <2>1. x \in Request /\ x.op = "failed_login" /\ x.attempts + 1 <= failures'
      BY <1>1, RowNow, RowFields DEF Request
    <2>2. /\ account' = account /\ failures' \in 0..MaxFailures /\ failures <= failures'
          /\ UNCHANGED <<tokens, challenge, link, proven>>
      BY <1>1, RowNow, AccountBounds DEF LoginRead
    <2>3. LockoutNeedsFailures' /\ TokensArePast'
      BY <1>1, <2>2, RowNow, AccountBounds DEF LockoutNeedsFailures, TokensArePast
    <2>4. account.version <= account'.version
      BY <2>2, RowNow
    <2>5. Becomes(r, x)
      BY <1>1
    <2> HIDE DEF x
    <2> QED
      BY <2>1, <2>2, <2>3, <2>4, <2>5, RowNow, StepKeeps
  <1>2. CASE /\ UNCHANGED failures
             /\ Becomes(r, [op |-> "login", enabled |-> account.enabled,
                            version |-> account.version,
                            clear |-> account.attempts > 0 \/ account.lock # "none"])
    <2> DEFINE clear == account.attempts > 0 \/ account.lock # "none"
               x == [op |-> "login", enabled |-> account.enabled,
                     version |-> account.version, clear |-> clear]
    <2>1. clear \in BOOLEAN /\ account.enabled \in BOOLEAN /\ account.version \in 1..MaxVersion
      BY RowNow, RowFields
    <2>5. Becomes(r, x)
      BY <1>2
    <2> HIDE DEF clear
    <2>2. x \in Request /\ x.op = "login" /\ x.version <= account.version
      BY <2>1, RowNow DEF Request
    <2>3. /\ account' = account /\ failures' = failures
          /\ UNCHANGED <<tokens, challenge, link, proven>>
      BY <1>2 DEF LoginRead
    <2>4. LockoutNeedsFailures' /\ TokensArePast' /\ failures <= failures'
      BY <2>3, RowNow, AccountBounds DEF LockoutNeedsFailures, TokensArePast
    <2>6. account.version <= account'.version
      BY <2>3, RowNow
    <2> HIDE DEF x
    <2> QED
      BY <2>2, <2>3, <2>4, <2>5, <2>6, RowNow, StepKeeps
  <1> QED
    BY <1>1, <1>2 DEF LoginRead

LEMMA LoginMfaReadKeeps ==
    ASSUME AccountInv, NEW r \in Requests, NEW code \in Codes, LoginMfaRead(r, code)
    PROVE  AccountInv'
  <1>1. PICK spend \in BOOLEAN :
            Becomes(r, [op |-> "login_mfa", spend |-> spend, version |-> account.version,
                        left |-> IF spend THEN account.codes \ {code} ELSE {}])
    BY DEF LoginMfaRead
  <1> DEFINE left == IF spend THEN account.codes \ {code} ELSE {}
             x == [op |-> "login_mfa", spend |-> spend, version |-> account.version, left |-> left]
  <1>2. left \in SUBSET Codes /\ account.version \in 1..MaxVersion
    BY RowNow, RowFields
  <1>3. Becomes(r, x)
    BY <1>1
  <1> HIDE DEF left
  <1>4. x \in Request /\ x.op = "login_mfa" /\ x.version <= account.version
    BY <1>2, RowNow DEF Request
  <1>5. UNCHANGED <<account, tokens, challenge, link, failures, proven>>
    BY DEF LoginMfaRead
  <1>6. LockoutNeedsFailures' /\ TokensArePast' /\ failures <= failures'
        /\ account.version <= account'.version
    BY <1>5, RowNow DEF LockoutNeedsFailures, TokensArePast
  <1> HIDE DEF x
  <1> QED
    BY <1>3, <1>4, <1>5, <1>6, RowNow, StepKeeps

\* The token of a login is of the version it read, which is not of the future.
LEMMA LoginSucceedsKeeps ==
    ASSUME AccountInv, NEW r \in Requests, LoginSucceeds(r)
    PROVE  AccountInv'
  <1>1. request[r].version \in 1..MaxVersion /\ request[r].version <= account.version
    BY RowNow, RequestFields DEF LoginSucceeds, Doing, RestsOnRow
  <1>2. /\ account' \in Account /\ account'.version = account.version /\ LockoutNeedsFailures'
    <2>1. UNCHANGED failures /\ account \in Account
      BY RowNow DEF LoginSucceeds
    <2>2. CASE request[r].clear
      <3>1. account' = [account EXCEPT !.attempts = 0, !.lock = "none"]
        BY <2>2 DEF LoginSucceeds
      <3> QED
        BY <2>1, <3>1, ClearedRow, LockoutStays
    <2>3. CASE ~request[r].clear
      <3>1. account' = account
        BY <2>3 DEF LoginSucceeds
      <3> QED
        BY <2>1, <3>1, LockoutStays
    <2> QED
      BY <2>2, <2>3
  <1>3. /\ tokens' \subseteq tokens \cup {request[r].version}
        /\ challenge' \in BOOLEAN /\ UNCHANGED <<link, failures, proven>> /\ Becomes(r, Idle)
    BY RowNow DEF LoginSucceeds
  <1>4. tokens' \in SUBSET (1..MaxVersion) /\ TokensArePast'
    BY <1>1, <1>2, <1>3, RowNow DEF TokensArePast
  <1>5. account.version <= account'.version
    BY <1>2, RowNow
  <1> QED
    BY <1>2, <1>3, <1>4, <1>5, RowNow, CommitKeeps

LEMMA LoginMfaSucceedsKeeps ==
    ASSUME AccountInv, NEW r \in Requests, LoginMfaSucceeds(r)
    PROVE  AccountInv'
  <1>1. /\ request[r].version \in 1..MaxVersion /\ request[r].version <= account.version
        /\ request[r].left \in SUBSET Codes
    BY RowNow, RequestFields DEF LoginMfaSucceeds, Doing, RestsOnRow
  <1>2. /\ account' \in Account /\ account'.version = account.version /\ LockoutNeedsFailures'
    <2>1. UNCHANGED failures /\ account \in Account
      BY RowNow DEF LoginMfaSucceeds
    <2>2. CASE request[r].spend
      <3>1. Alike(account, account')
        BY <1>1, <2>1, <2>2, FactorRows DEF LoginMfaSucceeds
      <3> QED
        BY <2>1, <3>1, LockoutStays DEF Alike
    <2>3. CASE ~request[r].spend
      <3>1. account' = account
        BY <2>3 DEF LoginMfaSucceeds
      <3> QED
        BY <2>1, <3>1, LockoutStays
    <2> QED
      BY <2>2, <2>3
  <1>3. /\ tokens' = tokens \cup {request[r].version}
        /\ challenge' \in BOOLEAN /\ UNCHANGED <<link, failures, proven>> /\ Becomes(r, Idle)
    BY RowNow DEF LoginMfaSucceeds
  <1>4. tokens' \in SUBSET (1..MaxVersion) /\ TokensArePast'
    BY <1>1, <1>2, <1>3, RowNow DEF TokensArePast
  <1>5. account.version <= account'.version
    BY <1>2, RowNow
  <1> QED
    BY <1>2, <1>3, <1>4, <1>5, RowNow, CommitKeeps

LEMMA TimeKeeps == AccountInv /\ TimePasses => AccountInv'
  <1> SUFFICES ASSUME AccountInv, TimePasses PROVE AccountInv'
    OBVIOUS
  <1>1. UNCHANGED <<tokens, request, failures, proven>>
    BY DEF TimePasses, LockRunsOut, ChallengeExpires, LinkExpires
  <1>2. /\ account' \in Account /\ account'.version = account.version
        /\ account'.attempts = account.attempts
        /\ account'.lock # "none" => account.lock # "none"
    <2>1. CASE LockRunsOut
      BY <2>1, RowNow, LockRow DEF LockRunsOut
    <2>2. CASE account' = account
      BY <2>2, RowNow
    <2> QED
      BY <2>1, <2>2 DEF TimePasses, ChallengeExpires, LinkExpires
  <1>3. challenge' \in BOOLEAN /\ link' \in [Links -> {"unused", "live", "dead"}]
    BY RowNow DEF TimePasses, LockRunsOut, ChallengeExpires, LinkExpires
  <1>4. AccountTypeOK'
    BY <1>1, <1>2, <1>3 DEF AccountInv, AccountTypeOK
  <1>5. LockoutNeedsFailures' /\ AllRestOnRow' /\ TokensArePast'
    BY <1>1, <1>2 DEF AccountInv, LockoutNeedsFailures, AllRestOnRow, RestsOnRow, TokensArePast
  <1> QED
    BY <1>4, <1>5 DEF AccountInv

LEMMA NextKeepsAccount == AccountInv /\ [AccountNext]_accountVars => AccountInv'
  <1> SUFFICES ASSUME AccountInv, [AccountNext]_accountVars PROVE AccountInv'
    OBVIOUS
  <1>1. ASSUME NEW r \in Requests, PasswordStep(r) PROVE AccountInv'
    <2>1. \A op \in {"change_password", "logout_everywhere"} : op \in Guarded
      BY DEF Guarded
    <2> QED
      BY <1>1, <2>1, AuthorizeKeeps, ReadKeeps, RevokingKeeps, ForgotPasswordKeeps
      DEF PasswordStep
  <1>2. ASSUME NEW r \in Requests, SignInStep(r) PROVE AccountInv'
    BY <1>2, LoginReadKeeps, PlainKeeps, LoginSucceedsKeeps, ReadKeeps, RevokingKeeps,
       AbandonKeeps DEF SignInStep
  <1>3. ASSUME NEW r \in Requests, FactorStep(r) PROVE AccountInv'
    <2>1. \A op \in {"mfa_setup", "mfa_enable", "mfa_disable"} : op \in Guarded
      BY DEF Guarded
    <2> QED
      BY <1>3, <2>1, AuthorizeKeeps, ReadKeeps, PlainKeeps, LoginMfaReadKeeps,
         LoginMfaSucceedsKeeps DEF FactorStep
  <1>4. CASE TimePasses
    BY <1>4, TimeKeeps
  <1>5. CASE UNCHANGED accountVars
    BY <1>5 DEF accountVars, AccountInv, AccountTypeOK, LockoutNeedsFailures, AllRestOnRow,
                RestsOnRow, TokensArePast
  <1> QED
    BY <1>1, <1>2, <1>3, <1>4, <1>5 DEF AccountNext

-----------------------------------------------------------------------------
\* A step that leaves the password alone and blocks nobody
Harmless ==
    /\ account'.password = account.password
    /\ account'.active = account.active \/ account'.active = TRUE

LEMMA OnlyRevocationsHarm ==
    ASSUME AccountInv, [AccountNext]_accountVars
    PROVE  Revokes \/ Harmless
  <1>1. ASSUME account' = account PROVE Harmless
    BY <1>1 DEF Harmless
  <1>2. ASSUME NEW r \in Requests,
               \/ UnblockCommit(r) \/ UnlockCommit(r) \/ LoginFails(r)
               \/ MfaEnableCommit(r) \/ MfaDisableCommit(r)
               \/ \E secret \in Secrets : MfaSetupCommit(r, secret)
        PROVE  Harmless
    BY <1>2, PlainSteps DEF Harmless
  <1>3. ASSUME NEW r \in Requests,
               \/ ChangePasswordCommit(r) \/ LogoutEverywhere(r) \/ BlockCommit(r)
               \/ ResetPasswordCommit(r) \/ \E k \in Links : AdminResetCommit(r, k)
        PROVE  Revokes
    BY <1>3, RevokingSteps
  <1>4. ASSUME NEW r \in Requests, LoginSucceeds(r) PROVE Harmless
    <2>1. CASE request[r].clear
      <3>1. account' = [account EXCEPT !.attempts = 0, !.lock = "none"] /\ account \in Account
        BY <1>4, <2>1, RowNow DEF LoginSucceeds
      <3> QED
        BY <3>1, ClearedRow DEF Harmless
    <2>2. CASE ~request[r].clear
      BY <1>1, <1>4, <2>2 DEF LoginSucceeds
    <2> QED
      BY <2>1, <2>2
  <1>5. ASSUME NEW r \in Requests, LoginMfaSucceeds(r) PROVE Harmless
    <2>1. CASE request[r].spend
      <3>1. request[r].left \in SUBSET Codes /\ account \in Account
        BY <1>5, RowNow, RequestFields DEF LoginMfaSucceeds, Doing
      <3>2. Alike(account, account')
        BY <1>5, <2>1, <3>1, FactorRows DEF LoginMfaSucceeds
      <3> QED
        BY <3>2 DEF Alike, Harmless
    <2>2. CASE ~request[r].spend
      BY <1>1, <1>5, <2>2 DEF LoginMfaSucceeds
    <2> QED
      BY <2>1, <2>2
  <1>6. CASE LockRunsOut
    BY <1>6, RowNow, LockRow DEF LockRunsOut, Harmless
  <1>7. CASE UNCHANGED accountVars
    BY <1>1, <1>7 DEF accountVars
  <1>8. CASE TimePasses
    BY <1>1, <1>6, <1>8 DEF TimePasses, ChallengeExpires, LinkExpires
  <1>9. ASSUME NEW r \in Requests, PasswordStep(r) PROVE Revokes \/ Harmless
    BY <1>1, <1>3, <1>9 DEF PasswordStep, Authorize, ChangePasswordRead, ForgotPassword, ResetPasswordRead
  <1>10. ASSUME NEW r \in Requests, SignInStep(r) PROVE Revokes \/ Harmless
    BY <1>1, <1>2, <1>3, <1>4, <1>10 DEF SignInStep, LoginRead, SupportRead, Abandon
  <1>11. ASSUME NEW r \in Requests, FactorStep(r) PROVE Revokes \/ Harmless
    BY <1>1, <1>2, <1>5, <1>11
    DEF FactorStep, Authorize, MfaSetupRead, MfaEnableRead, MfaDisableRead, LoginMfaRead
  <1> QED
    BY <1>7, <1>8, <1>9, <1>10, <1>11 DEF AccountNext

\* A new version is one no token and no login in flight has.
LEMMA RevokedIsNew ==
    ASSUME AccountInv, Revokes
    PROVE  account'.version \notin tokens \cup InFlight
  <1>1. account'.version = account.version + 1 /\ account.version \in Nat
    BY RowNow DEF Revokes
  <1>2. ASSUME account'.version \in tokens PROVE FALSE
    BY <1>1, <1>2, RowNow DEF TokensArePast
  <1>3. ASSUME account'.version \in InFlight PROVE FALSE
    <2>1. PICK r \in Requests : /\ request[r].op \in {"login", "login_mfa"}
                                /\ request[r].version = account'.version
      BY <1>3 DEF InFlight
    <2>2. request[r].version <= account.version
      BY <2>1, RowNow DEF RestsOnRow
    <2> QED
      BY <1>1, <2>1, <2>2
  <1> QED
    BY <1>2, <1>3

-----------------------------------------------------------------------------
\* The inductive invariant of the /auth and /platform-admin/users handlers
THEOREM AccountInvariant == AccountSpec => []AccountInv
  BY InitAccount, NextKeepsAccount, PTL DEF AccountSpec

\* The row, the tokens and what requests have read keep their types: the
\* stored counter of failed logins stays below MAX_FAILED_LOGIN_ATTEMPTS.
THEOREM AccountTypeCorrect == AccountSpec => []AccountTypeOK
  BY AccountInvariant, PTL DEF AccountInv

\* No lock without as many wrong passwords, however logins overlap
THEOREM LockoutIsEarned == AccountSpec => []LockoutNeedsFailures
  BY AccountInvariant, PTL DEF AccountInv

\* A new password or a block ends every session there is, and every one that
\* an overlapping login is about to open from the row it has read.
THEOREM RevocationIsComplete == AccountSpec => NoSessionOutlivesRevocation
  <1>1. ASSUME AccountInv, [AccountNext]_accountVars
        PROVE  [account'.password # account.password \/ (account.active /\ ~account'.active)
                => account'.version \notin tokens \cup InFlight]_accountVars
    BY <1>1, OnlyRevocationsHarm, RevokedIsNew DEF Harmless
  <1> QED
    BY <1>1, AccountInvariant, PTL DEF AccountSpec, NoSessionOutlivesRevocation
=============================================================================
