------------------------------- MODULE SignUp -------------------------------
(***************************************************************************)
(* How accounts come into being (src/api/app/main.py, src/api/app/oidc.py, *)
(* src/api/app/signup_policy.py): the sign-up form, the sign-in with an    *)
(* identity provider, the completion of a sign-up that started there, and  *)
(* the verification of the address.                                        *)
(*                                                                         *)
(* Each handler reads, decides and writes in one commit.  Two of them meet *)
(* only in the unique constraints of the tables: users.email (schema.sql)  *)
(* and oidc_identities (provider, subject), which roll a commit back.      *)
(***************************************************************************)
EXTENDS Naturals, FiniteSets

CONSTANTS
    Emails,             \* addresses, compared without case (citext)
    Allowed,            \* those the sign-up policy admits
    Subjects,           \* a provider's subjects: (provider, subject) pairs
    Tenants,            \* identifiers of tenants (bounds sign-ups)
    Visitors,           \* requests in flight
    NoTenant

ASSUME SignUpNames == NoTenant \notin Tenants /\ Allowed \subseteq Emails

VARIABLES
    tenant,     \* tenant[t]: whether the row exists
    user,       \* user[e]: the user of an address, tenant NoTenant for none
    identity,   \* identity[s]: the address of the user it is linked to
    mailed,     \* what has become of the verification links of an address
    visitor     \* visitor[v]: what a request has read

signUpVars == <<tenant, user, identity, mailed, visitor>>

-----------------------------------------------------------------------------
User == [tenant : Tenants \cup {NoTenant}, active : BOOLEAN, verified : BOOLEAN,
         origin : {"none", "form", "provider"}]
NoUser == [tenant |-> NoTenant, active |-> FALSE, verified |-> FALSE, origin |-> "none"]
Exists(e) == user[e].tenant # NoTenant

\* An address, or the empty set for none
Linked == {{}} \cup {{e} : e \in Emails}

Visitor ==
    [op : {"idle"}]
    \cup [op : {"signup", "verify", "resend"}, email : Emails]
    \cup [op : {"link", "hold", "complete"}, email : Emails, subject : Subjects]
Waiting == [op |-> "idle"]

SignUpInit ==
    /\ tenant = [t \in Tenants |-> FALSE]
    /\ user = [e \in Emails |-> NoUser]
    /\ identity = [s \in Subjects |-> {}]
    /\ mailed = [e \in Emails |-> {}]
    /\ visitor = [v \in Visitors |-> Waiting]

Turns(v, next) == visitor' = [visitor EXCEPT ![v] = next]

\* is_allowed over SIGNUP_ALLOWLIST
SignupAllowed(e) == e \in Allowed

-----------------------------------------------------------------------------
SignupRead(v, e) ==
    /\ visitor[v] = Waiting
    /\ SignupAllowed(e) /\ ~Exists(e)
    /\ Turns(v, [op |-> "signup", email |-> e])
    /\ UNCHANGED <<tenant, user, identity, mailed>>

\* Mutant: the tenant is committed before the user is inserted.
SignupInTwoCommits(v, t) ==
    LET e == visitor[v].email IN
    /\ visitor[v].op = "signup" /\ ~tenant[t]
    /\ tenant' = [tenant EXCEPT ![t] = TRUE]
    /\ IF Exists(e) THEN UNCHANGED <<user, mailed>>
       ELSE /\ user' = [user EXCEPT ![e] = [tenant |-> t, active |-> TRUE, verified |-> FALSE,
                                            origin |-> "form"]]
            /\ mailed' = [mailed EXCEPT ![e] = @ \cup {"live"}]
    /\ Turns(v, Waiting)
    /\ UNCHANGED identity

\* Tenant, user, audit entry and verification link in one commit, which the
\* unique address refuses as a whole
SignupCommit(v, t) ==
    LET e == visitor[v].email IN
    /\ visitor[v].op = "signup" /\ ~tenant[t] /\ ~Exists(e)
    /\ tenant' = [tenant EXCEPT ![t] = TRUE]
    /\ user' = [user EXCEPT ![e] = [tenant |-> t, active |-> TRUE, verified |-> FALSE,
                                    origin |-> "form"]]
    /\ mailed' = [mailed EXCEPT ![e] = @ \cup {"live"}]
    /\ Turns(v, Waiting)
    /\ UNCHANGED identity

-----------------------------------------------------------------------------
\* oidc_callback, once the provider's token is verified (external): a known
\* identity signs its user in, whatever address the token carries (nothing is
\* written); a new identity whose address has an account is linked to it;
\* otherwise a sign-up token is handed out.
CallbackRead(v, s, e) ==
    /\ visitor[v] = Waiting
    /\ identity[s] = {}
    /\ \/ Exists(e) /\ user[e].active /\ Turns(v, [op |-> "link", email |-> e, subject |-> s])
       \/ ~Exists(e) /\ SignupAllowed(e)
          /\ Turns(v, [op |-> "hold", email |-> e, subject |-> s])
    /\ UNCHANGED <<tenant, user, identity, mailed>>

\* Mutant: "on conflict (provider, subject) do update set user_id".
CallbackRelinks(v) ==
    /\ visitor[v].op = "link"
    /\ identity' = [identity EXCEPT ![visitor[v].subject] = {visitor[v].email}]
    /\ Turns(v, Waiting)
    /\ UNCHANGED <<tenant, user, mailed>>

CallbackLinks(v) ==
    /\ visitor[v].op = "link"
    /\ identity[visitor[v].subject] = {}
    /\ identity' = [identity EXCEPT ![visitor[v].subject] = {visitor[v].email}]
    /\ Turns(v, Waiting)
    /\ UNCHANGED <<tenant, user, mailed>>

\* oidc_complete_signup, with the token of the callback: up to half an hour
\* later, any number of times
CompleteRead(v) ==
    /\ visitor[v].op = "hold"
    /\ SignupAllowed(visitor[v].email) /\ ~Exists(visitor[v].email)
    /\ Turns(v, [visitor[v] EXCEPT !.op = "complete"])
    /\ UNCHANGED <<tenant, user, identity, mailed>>

CompleteCommit(v, t) ==
    LET e == visitor[v].email IN
    /\ visitor[v].op = "complete" /\ ~tenant[t]
    /\ ~Exists(e) /\ identity[visitor[v].subject] = {}
    /\ tenant' = [tenant EXCEPT ![t] = TRUE]
    /\ user' = [user EXCEPT ![e] = [tenant |-> t, active |-> TRUE, verified |-> TRUE,
                                    origin |-> "provider"]]
    /\ identity' = [identity EXCEPT ![visitor[v].subject] = {e}]
    /\ \/ Turns(v, Waiting)
       \/ Turns(v, [visitor[v] EXCEPT !.op = "hold"])
    /\ UNCHANGED mailed

-----------------------------------------------------------------------------
\* verify_email reads an unused, unexpired link and marks it in one commit
\* with the user; another link of the same address may be out as well.
VerifyRead(v, e) ==
    /\ visitor[v] = Waiting
    /\ "live" \in mailed[e]
    /\ Turns(v, [op |-> "verify", email |-> e])
    /\ UNCHANGED <<tenant, user, identity, mailed>>

VerifyCommit(v) ==
    /\ visitor[v].op = "verify"
    /\ user' = [user EXCEPT ![visitor[v].email].verified = TRUE]
    /\ \E others \in SUBSET (mailed[visitor[v].email] \cap {"live"}) :
           mailed' = [mailed EXCEPT ![visitor[v].email] = {"used"} \cup others]
    /\ Turns(v, Waiting)
    /\ UNCHANGED <<tenant, identity>>

ResendRead(v, e) ==
    /\ visitor[v] = Waiting
    /\ Exists(e) /\ ~user[e].verified
    /\ Turns(v, [op |-> "resend", email |-> e])
    /\ UNCHANGED <<tenant, user, identity, mailed>>

ResendCommit(v) ==
    /\ visitor[v].op = "resend"
    /\ mailed' = [mailed EXCEPT ![visitor[v].email] = @ \cup {"live"}]
    /\ Turns(v, Waiting)
    /\ UNCHANGED <<tenant, user, identity>>

MailExpires(e) ==
    /\ "live" \in mailed[e]
    /\ mailed' = [mailed EXCEPT ![e] = @ \ {"live"}]
    /\ UNCHANGED <<tenant, user, identity, visitor>>

\* Blocking and unblocking, as far as sign-in looks at it (module Accounts)
SetActive(e, on) ==
    /\ Exists(e) /\ user[e].active # on
    /\ user' = [user EXCEPT ![e].active = on]
    /\ UNCHANGED <<tenant, identity, mailed, visitor>>

\* An error answer, a constraint that refuses the commit, a token that expires
GiveUp(v) ==
    /\ visitor[v] # Waiting
    /\ Turns(v, Waiting)
    /\ UNCHANGED <<tenant, user, identity, mailed>>

SignUpNext ==
    \/ \E v \in Visitors :
        \/ \E e \in Emails : SignupRead(v, e) \/ VerifyRead(v, e) \/ ResendRead(v, e)
        \/ \E t \in Tenants : SignupCommit(v, t) \/ CompleteCommit(v, t)
        \/ \E s \in Subjects, e \in Emails : CallbackRead(v, s, e)
        \/ CallbackLinks(v) \/ CompleteRead(v) \/ VerifyCommit(v) \/ ResendCommit(v) \/ GiveUp(v)
    \/ \E e \in Emails : MailExpires(e) \/ \E on \in BOOLEAN : SetActive(e, on)

SignUpSpec == SignUpInit /\ [][SignUpNext]_signUpVars

-----------------------------------------------------------------------------
SignUpTypeOK ==
    /\ tenant \in [Tenants -> BOOLEAN]
    /\ user \in [Emails -> User]
    /\ identity \in [Subjects -> Linked]
    /\ mailed \in [Emails -> SUBSET {"live", "used"}]
    /\ visitor \in [Visitors -> Visitor]

\* A sign-up creates a tenant and its first user or neither, also when two
\* visitors sign up with one address, by whatever way, at the same time.
TenantsHaveTheirUser ==
    /\ \A t \in Tenants : tenant[t] <=> \E e \in Emails : user[e].tenant = t
    /\ \A e, f \in Emails : Exists(e) /\ user[e].tenant = user[f].tenant => e = f

\* An address counts as verified only after a link mailed to it was used or
\* when the provider vouched for it.
VerifiedHasProof ==
    \A e \in Emails : user[e].verified => user[e].origin = "provider" \/ "used" \in mailed[e]

\* An identity is linked to an account that exists.
IdentityHasUser == \A s \in Subjects : \A e \in identity[s] : Exists(e)

\* What a sign-up leaves is whole, by whichever way it came and whatever other
\* sign-ups, callbacks and verifications of the same address ran with it.
SignUpsAreWhole == TenantsHaveTheirUser /\ VerifiedHasProof /\ IdentityHasUser

\* "A changed email at the provider can't silently re-point who a login
\* authenticates as" (050_oidc_sso.sql): an identity, once linked, stays with
\* its user, however two callbacks with different addresses overlap.
IdentityStays ==
    [][\A s \in Subjects : identity[s] # {} => identity'[s] = identity[s]]_signUpVars
=============================================================================
