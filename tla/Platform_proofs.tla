-------------------------- MODULE Platform_proofs --------------------------
(***************************************************************************)
(* Theorems about what MCPlatform composes: SignUp, Backups and, proved in *)
(* Accounts_proofs, Accounts.                                              *)
(***************************************************************************)
EXTENDS MCPlatform, Accounts_proofs, FiniteSetTheorems, WellFoundedInduction, TLAPS

-----------------------------------------------------------------------------
(***************************************************************************)
(* SignUp, for any addresses, subjects, tenants and number of visitors     *)
(***************************************************************************)

\* A callback that will link an identity found the account of its address;
\* accounts are not deleted.
LinksHaveTheirUser == \A v \in Visitors : visitor[v].op = "link" => Exists(visitor[v].email)

SignUpInv == SignUpTypeOK /\ SignUpsAreWhole /\ LinksHaveTheirUser

-----------------------------------------------------------------------------

\* The fields of a visitor by its operation
LEMMA VisitorFields ==
    ASSUME NEW q \in Visitor
    PROVE  /\ q.op # "idle" => q.email \in Emails
           /\ q.op \in {"link", "hold", "complete"} => q.subject \in Subjects
  BY DEF Visitor

\* What a visitor can become
LEMMA VisitorKinds ==
    /\ Waiting \in Visitor /\ Waiting.op = "idle"
    /\ \A e \in Emails, o \in {"signup", "verify", "resend"} :
           [op |-> o, email |-> e] \in Visitor
    /\ \A e \in Emails, s \in Subjects, o \in {"link", "hold"} :
           [op |-> o, email |-> e, subject |-> s] \in Visitor
  BY DEF Visitor, Waiting

LEMMA HeldVisitor ==
    ASSUME NEW q \in Visitor, q.op \in {"hold", "complete"}, NEW o \in {"hold", "complete"},
           NEW x, x = [q EXCEPT !.op = o]
    PROVE  x \in Visitor /\ x.op = o
  <1>1. q \in [op : {"link", "hold", "complete"}, email : Emails, subject : Subjects]
    BY DEF Visitor
  <1>2. x \in [op : {"link", "hold", "complete"}, email : Emails, subject : Subjects] /\ x.op = o
    BY <1>1
  <1> QED
    BY <1>2 DEF Visitor

LEMMA VisitorAfter ==
    ASSUME NEW v \in Visitors, NEW x \in Visitor, visitor \in [Visitors -> Visitor], Turns(v, x)
    PROVE  /\ visitor' \in [Visitors -> Visitor] /\ visitor'[v] = x
           /\ \A w \in Visitors \ {v} : visitor'[w] = visitor[w]
  BY DEF Turns

-----------------------------------------------------------------------------
\* A step of a visitor that leaves the tables alone
LEMMA OnlyTurns ==
    ASSUME SignUpInv, NEW v \in Visitors, NEW x \in Visitor, Turns(v, x),
           UNCHANGED <<tenant, user, identity, mailed>>,
           x.op = "link" => Exists(x.email)
    PROVE  SignUpInv'
  <1>1. /\ visitor' \in [Visitors -> Visitor] /\ visitor'[v] = x
        /\ \A w \in Visitors \ {v} : visitor'[w] = visitor[w]
    BY VisitorAfter DEF SignUpInv, SignUpTypeOK
  <1>2. SignUpTypeOK'
    BY <1>1 DEF SignUpInv, SignUpTypeOK
  <1>3. SignUpsAreWhole'
    BY DEF SignUpInv, SignUpsAreWhole, TenantsHaveTheirUser, VerifiedHasProof, IdentityHasUser,
           Exists
  <1>4. LinksHaveTheirUser'
    BY <1>1 DEF SignUpInv, LinksHaveTheirUser, Exists
  <1> QED
    BY <1>2, <1>3, <1>4 DEF SignUpInv

\* A new tenant t with its first user u, at an address without an account
LEMMA NewTenant ==
    ASSUME SignUpInv, NEW t \in Tenants, NEW e \in Emails, NEW u \in User,
           ~tenant[t], ~Exists(e), u.tenant = t,
           tenant' = [tenant EXCEPT ![t] = TRUE], user' = [user EXCEPT ![e] = u]
    PROVE  /\ tenant' \in [Tenants -> BOOLEAN] /\ user' \in [Emails -> User]
           /\ TenantsHaveTheirUser'
           /\ Exists(e)' /\ \A f \in Emails : Exists(f) => Exists(f)'
  <1>0. /\ tenant \in [Tenants -> BOOLEAN] /\ user \in [Emails -> User]
        /\ TenantsHaveTheirUser
    BY DEF SignUpInv, SignUpTypeOK, SignUpsAreWhole
  <1>1. /\ tenant' \in [Tenants -> BOOLEAN] /\ tenant'[t] = TRUE
        /\ \A x \in Tenants \ {t} : tenant'[x] = tenant[x]
    BY <1>0
  <1>2. /\ user' \in [Emails -> User] /\ user'[e] = u
        /\ \A f \in Emails \ {e} : user'[f] = user[f]
    BY <1>0
  <1>3. t # NoTenant /\ user[e].tenant = NoTenant
    BY SignUpNames DEF Exists
  <1>4. \A f \in Emails : user[f].tenant # t
    BY <1>0 DEF TenantsHaveTheirUser
  <1>5. ASSUME NEW x \in Tenants PROVE tenant'[x] <=> \E f \in Emails : user'[f].tenant = x
    <2>1. CASE x = t
      BY <2>1, <1>1, <1>2
    <2>2. CASE x # t
      <3>1. tenant'[x] = tenant[x]
        BY <1>1, <2>2
      <3>2. x # NoTenant
        BY SignUpNames
      <3>3. (\E f \in Emails : user'[f].tenant = x) <=> \E f \in Emails : user[f].tenant = x
        BY <1>2, <1>3, <2>2, <3>2
      <3>4. tenant[x] <=> \E f \in Emails : user[f].tenant = x
        BY <1>0 DEF TenantsHaveTheirUser
      <3> QED
        BY <3>1, <3>3, <3>4
    <2> QED
      BY <2>1, <2>2
  <1>6. ASSUME NEW f \in Emails, NEW g \in Emails, Exists(f)', user'[f].tenant = user'[g].tenant
        PROVE  f = g
    BY <1>0, <1>2, <1>4, <1>6 DEF TenantsHaveTheirUser, Exists
  <1>7. Exists(e)' /\ \A f \in Emails : Exists(f) => Exists(f)'
    BY <1>2, <1>3 DEF Exists
  <1>8. TenantsHaveTheirUser'
    BY <1>5, <1>6 DEF TenantsHaveTheirUser
  <1> QED
    BY <1>1, <1>2, <1>7, <1>8

-----------------------------------------------------------------------------
LEMMA InitSignUp == SignUpInit => SignUpInv
  <1> SUFFICES ASSUME SignUpInit PROVE SignUpInv
    OBVIOUS
  <1>1. NoUser \in User /\ NoUser.tenant = NoTenant /\ NoUser.verified = FALSE
    BY DEF NoUser, User
  <1>2. /\ \A e \in Emails : ~Exists(e) /\ ~user[e].verified
        /\ user \in [Emails -> User]
    BY <1>1 DEF SignUpInit, Exists
  <1>3. Waiting \in Visitor /\ \A v \in Visitors : visitor[v].op # "link"
    BY VisitorKinds DEF SignUpInit
  <1>4. SignUpTypeOK
    BY <1>2, <1>3 DEF SignUpInit, SignUpTypeOK, Linked
  <1>5. TenantsHaveTheirUser
    <2>1. \A t \in Tenants : ~tenant[t] /\ \A e \in Emails : user[e].tenant # t
      BY <1>2, SignUpNames DEF SignUpInit, Exists
    <2> QED
      BY <2>1, <1>2 DEF TenantsHaveTheirUser
  <1>6. VerifiedHasProof /\ IdentityHasUser
    BY <1>2 DEF VerifiedHasProof, IdentityHasUser, SignUpInit
  <1> QED
    BY <1>3, <1>4, <1>5, <1>6 DEF SignUpInv, SignUpsAreWhole, LinksHaveTheirUser

LEMMA SignupCommitKeeps ==
    ASSUME SignUpInv, NEW v \in Visitors, NEW t \in Tenants, SignupCommit(v, t)
    PROVE  SignUpInv'
  <1> DEFINE u == [tenant |-> t, active |-> TRUE, verified |-> FALSE, origin |-> "form"]
  <1>0. SignUpTypeOK /\ SignUpsAreWhole /\ LinksHaveTheirUser
    BY DEF SignUpInv
  <1>1. PICK e \in Emails : e = visitor[v].email
    BY <1>0, VisitorFields DEF SignupCommit, SignUpTypeOK
  <1>2. u \in User /\ u.tenant = t /\ u.verified = FALSE
    BY DEF User
  <1>3. /\ ~tenant[t] /\ ~Exists(e)
        /\ tenant' = [tenant EXCEPT ![t] = TRUE] /\ user' = [user EXCEPT ![e] = u]
        /\ mailed' = [mailed EXCEPT ![e] = @ \cup {"live"}]
        /\ Turns(v, Waiting) /\ identity' = identity
    BY <1>1 DEF SignupCommit
  <1> HIDE DEF u
  <1>4. /\ tenant' \in [Tenants -> BOOLEAN] /\ user' \in [Emails -> User]
        /\ TenantsHaveTheirUser'
        /\ Exists(e)' /\ \A f \in Emails : Exists(f) => Exists(f)'
    BY <1>1, <1>2, <1>3, NewTenant
  <1>5. /\ visitor' \in [Visitors -> Visitor] /\ visitor'[v] = Waiting
        /\ \A w \in Visitors \ {v} : visitor'[w] = visitor[w]
    BY <1>0, <1>3, VisitorAfter, VisitorKinds DEF SignUpTypeOK
  <1>6. mailed' \in [Emails -> SUBSET {"live", "used"}]
        /\ \A f \in Emails : mailed[f] \subseteq mailed'[f]
    BY <1>0, <1>3 DEF SignUpTypeOK
  <1>7. SignUpTypeOK'
    BY <1>0, <1>3, <1>4, <1>5, <1>6 DEF SignUpTypeOK
  <1>8. VerifiedHasProof'
    <2>1. user'[e] = u /\ \A f \in Emails \ {e} : user'[f] = user[f]
      BY <1>0, <1>1, <1>3 DEF SignUpTypeOK
    <2> QED
      BY <2>1, <1>0, <1>2, <1>6 DEF VerifiedHasProof, SignUpsAreWhole
  <1>9. IdentityHasUser'
    <2>1. \A s \in Subjects : identity[s] \subseteq Emails
      BY <1>0 DEF SignUpTypeOK, Linked
    <2> QED
      BY <2>1, <1>0, <1>3, <1>4 DEF IdentityHasUser, SignUpsAreWhole
  <1>10. LinksHaveTheirUser'
    <2> SUFFICES ASSUME NEW w \in Visitors, visitor'[w].op = "link"
                 PROVE  Exists(visitor[w].email)' /\ visitor'[w].email = visitor[w].email
      BY DEF LinksHaveTheirUser, Exists
    <2>1. w # v /\ visitor'[w] = visitor[w]
      BY <1>5, VisitorKinds
    <2>2. visitor[w].email \in Emails /\ Exists(visitor[w].email)
      BY <2>1, <1>0, VisitorFields DEF LinksHaveTheirUser, SignUpTypeOK
    <2> QED
      BY <2>1, <2>2, <1>4 DEF Exists
  <1> QED
    BY <1>4, <1>7, <1>8, <1>9, <1>10 DEF SignUpInv, SignUpsAreWhole

LEMMA CompleteCommitKeeps ==
    ASSUME SignUpInv, NEW v \in Visitors, NEW t \in Tenants, CompleteCommit(v, t)
    PROVE  SignUpInv'
  <1> DEFINE u == [tenant |-> t, active |-> TRUE, verified |-> TRUE, origin |-> "provider"]
  <1>0. SignUpTypeOK /\ SignUpsAreWhole /\ LinksHaveTheirUser
    BY DEF SignUpInv
  <1>1. PICK e \in Emails, s \in Subjects : e = visitor[v].email /\ s = visitor[v].subject
    BY <1>0, VisitorFields DEF CompleteCommit, SignUpTypeOK
  <1>2. u \in User /\ u.tenant = t /\ u.origin = "provider"
    BY DEF User
  <1>3. /\ ~tenant[t] /\ ~Exists(e) /\ visitor[v].op = "complete"
        /\ tenant' = [tenant EXCEPT ![t] = TRUE] /\ user' = [user EXCEPT ![e] = u]
        /\ identity' = [identity EXCEPT ![s] = {e}] /\ mailed' = mailed
    BY <1>1 DEF CompleteCommit
  <1>4. PICK x \in Visitor : Turns(v, x) /\ x.op # "link"
    <2>1. Turns(v, Waiting) \/ Turns(v, [visitor[v] EXCEPT !.op = "hold"])
      BY DEF CompleteCommit
    <2>2. visitor[v] \in Visitor
      BY <1>0 DEF SignUpTypeOK
    <2> QED
      BY <2>1, <2>2, <1>3, HeldVisitor, VisitorKinds
  <1> HIDE DEF u
  <1>5. /\ tenant' \in [Tenants -> BOOLEAN] /\ user' \in [Emails -> User]
        /\ TenantsHaveTheirUser'
        /\ Exists(e)' /\ \A f \in Emails : Exists(f) => Exists(f)'
    BY <1>1, <1>2, <1>3, NewTenant
  <1>6. /\ visitor' \in [Visitors -> Visitor] /\ visitor'[v] = x
        /\ \A w \in Visitors \ {v} : visitor'[w] = visitor[w]
    BY <1>0, <1>4, VisitorAfter DEF SignUpTypeOK
  <1>7. /\ identity' \in [Subjects -> Linked] /\ identity'[s] = {e}
        /\ \A z \in Subjects \ {s} : identity'[z] = identity[z]
    <2>1. {e} \in Linked
      BY DEF Linked
    <2> QED
      BY <2>1, <1>0, <1>3 DEF SignUpTypeOK
  <1>8. SignUpTypeOK'
    BY <1>0, <1>3, <1>5, <1>6, <1>7 DEF SignUpTypeOK
  <1>9. VerifiedHasProof'
    <2>1. user'[e] = u /\ \A f \in Emails \ {e} : user'[f] = user[f]
      BY <1>0, <1>1, <1>3 DEF SignUpTypeOK
    <2> QED
      BY <2>1, <1>0, <1>2, <1>3 DEF VerifiedHasProof, SignUpsAreWhole
  <1>10. IdentityHasUser'
    <2>1. \A z \in Subjects : identity[z] \subseteq Emails
      BY <1>0 DEF SignUpTypeOK, Linked
    <2>2. \A z \in Subjects : \A f \in identity[z] : Exists(f)
      BY <1>0 DEF IdentityHasUser, SignUpsAreWhole
    <2>3. ASSUME NEW z \in Subjects, NEW f \in identity'[z] PROVE Exists(f)'
      BY <2>1, <2>2, <2>3, <1>5, <1>7
    <2> QED
      BY <2>3 DEF IdentityHasUser, Exists
  <1>11. LinksHaveTheirUser'
    <2> SUFFICES ASSUME NEW w \in Visitors, visitor'[w].op = "link"
                 PROVE  Exists(visitor[w].email)' /\ visitor'[w].email = visitor[w].email
      BY DEF LinksHaveTheirUser, Exists
    <2>1. w # v /\ visitor'[w] = visitor[w]
      BY <1>4, <1>6
    <2>2. visitor[w].email \in Emails /\ Exists(visitor[w].email)
      BY <2>1, <1>0, VisitorFields DEF LinksHaveTheirUser, SignUpTypeOK
    <2> QED
      BY <2>1, <2>2, <1>5 DEF Exists
  <1> QED
    BY <1>5, <1>8, <1>9, <1>10, <1>11 DEF SignUpInv, SignUpsAreWhole

LEMMA CallbackLinksKeeps ==
    ASSUME SignUpInv, NEW v \in Visitors, CallbackLinks(v)
    PROVE  SignUpInv'
  <1>0. SignUpTypeOK /\ SignUpsAreWhole /\ LinksHaveTheirUser
    BY DEF SignUpInv
  <1>1. PICK e \in Emails, s \in Subjects : e = visitor[v].email /\ s = visitor[v].subject
    BY <1>0, VisitorFields DEF CallbackLinks, SignUpTypeOK
  <1>2. /\ Exists(e) /\ identity' = [identity EXCEPT ![s] = {e}]
        /\ Turns(v, Waiting) /\ UNCHANGED <<tenant, user, mailed>>
    BY <1>0, <1>1 DEF CallbackLinks, LinksHaveTheirUser
  <1>3. /\ visitor' \in [Visitors -> Visitor] /\ visitor'[v] = Waiting
        /\ \A w \in Visitors \ {v} : visitor'[w] = visitor[w]
    BY <1>0, <1>2, VisitorAfter, VisitorKinds DEF SignUpTypeOK
  <1>4. /\ identity' \in [Subjects -> Linked] /\ identity'[s] = {e}
        /\ \A z \in Subjects \ {s} : identity'[z] = identity[z]
    <2>1. {e} \in Linked
      BY DEF Linked
    <2> QED
      BY <2>1, <1>0, <1>2 DEF SignUpTypeOK
  <1>5. SignUpTypeOK'
    BY <1>0, <1>2, <1>3, <1>4 DEF SignUpTypeOK
  <1>6. SignUpsAreWhole'
    BY <1>0, <1>2, <1>4
       DEF SignUpsAreWhole, TenantsHaveTheirUser, VerifiedHasProof, IdentityHasUser, Exists
  <1>7. LinksHaveTheirUser'
    BY <1>0, <1>2, <1>3, VisitorKinds DEF LinksHaveTheirUser, Exists
  <1> QED
    BY <1>5, <1>6, <1>7 DEF SignUpInv

\* A commit that touches neither tenants nor identities, and of the users only
\* whether they are active, or verified once a link was used
LEMMA MailKeeps ==
    ASSUME SignUpInv, UNCHANGED <<tenant, identity>>,
           visitor' \in [Visitors -> Visitor],
           \A v \in Visitors : visitor'[v] = visitor[v] \/ visitor'[v] = Waiting,
           user' \in [Emails -> User], mailed' \in [Emails -> SUBSET {"live", "used"}],
           \A e \in Emails :
               /\ user'[e].tenant = user[e].tenant /\ user'[e].origin = user[e].origin
               /\ user'[e].verified => user[e].verified \/ "used" \in mailed'[e]
               /\ "used" \in mailed[e] => "used" \in mailed'[e]
    PROVE  SignUpInv'
  <1>0. SignUpTypeOK /\ SignUpsAreWhole /\ LinksHaveTheirUser
    BY DEF SignUpInv
  <1>1. SignUpTypeOK'
    BY <1>0 DEF SignUpTypeOK
  <1>2. TenantsHaveTheirUser'
    BY <1>0 DEF SignUpsAreWhole, TenantsHaveTheirUser, Exists
  <1>3. VerifiedHasProof'
    BY <1>0 DEF SignUpsAreWhole, VerifiedHasProof
  <1>4. IdentityHasUser'
    <2>1. \A z \in Subjects : identity[z] \subseteq Emails
      BY <1>0 DEF SignUpTypeOK, Linked
    <2> QED
      BY <2>1, <1>0 DEF SignUpsAreWhole, IdentityHasUser, Exists
  <1>5. LinksHaveTheirUser'
    <2> SUFFICES ASSUME NEW w \in Visitors, visitor'[w].op = "link"
                 PROVE  user'[visitor'[w].email].tenant # NoTenant
      BY DEF LinksHaveTheirUser, Exists
    <2>1. visitor'[w] = visitor[w]
      BY VisitorKinds
    <2>2. visitor[w].email \in Emails /\ Exists(visitor[w].email)
      BY <2>1, <1>0, VisitorFields DEF LinksHaveTheirUser, SignUpTypeOK
    <2> QED
      BY <2>1, <2>2 DEF Exists
  <1> QED
    BY <1>1, <1>2, <1>3, <1>4, <1>5 DEF SignUpInv, SignUpsAreWhole

LEMMA VerifyCommitKeeps ==
    ASSUME SignUpInv, NEW v \in Visitors, VerifyCommit(v)
    PROVE  SignUpInv'
  <1>0. SignUpTypeOK
    BY DEF SignUpInv
  <1>1. PICK e \in Emails : e = visitor[v].email
    BY <1>0, VisitorFields DEF VerifyCommit, SignUpTypeOK
  <1>2. PICK others \in SUBSET (mailed[e] \cap {"live"}) :
            mailed' = [mailed EXCEPT ![e] = {"used"} \cup others]
    BY <1>1 DEF VerifyCommit
  <1>3. /\ user' = [user EXCEPT ![e].verified = TRUE]
        /\ Turns(v, Waiting) /\ UNCHANGED <<tenant, identity>>
    BY <1>1 DEF VerifyCommit
  <1>4. /\ visitor' \in [Visitors -> Visitor]
        /\ \A w \in Visitors : visitor'[w] = visitor[w] \/ visitor'[w] = Waiting
    BY <1>0, <1>3, VisitorAfter, VisitorKinds DEF SignUpTypeOK
  <1>5. /\ mailed' \in [Emails -> SUBSET {"live", "used"}] /\ "used" \in mailed'[e]
        /\ \A f \in Emails \ {e} : mailed'[f] = mailed[f]
    BY <1>0, <1>2 DEF SignUpTypeOK
  <1>6. ASSUME NEW u \in User, NEW x, x = [u EXCEPT !.verified = TRUE]
        PROVE  x \in User /\ x.tenant = u.tenant /\ x.origin = u.origin
    BY <1>6 DEF User
  <1>7. user \in [Emails -> User] /\ user[e] \in User
    BY <1>0 DEF SignUpTypeOK
  <1>8. user'[e] = [user[e] EXCEPT !.verified = TRUE]
        /\ \A f \in Emails \ {e} : user'[f] = user[f]
    BY <1>3, <1>7
  <1>9. /\ user' \in [Emails -> User]
        /\ \A f \in Emails : user'[f].tenant = user[f].tenant /\ user'[f].origin = user[f].origin
    BY <1>3, <1>6, <1>7, <1>8
  <1>10. \A f \in Emails :
            /\ user'[f].verified => user[f].verified \/ "used" \in mailed'[f]
            /\ "used" \in mailed[f] => "used" \in mailed'[f]
    BY <1>5, <1>8
  <1> QED
    BY <1>3, <1>4, <1>5, <1>9, <1>10, MailKeeps

LEMMA ResendCommitKeeps ==
    ASSUME SignUpInv, NEW v \in Visitors, ResendCommit(v)
    PROVE  SignUpInv'
  <1>0. SignUpTypeOK
    BY DEF SignUpInv
  <1>1. PICK e \in Emails : e = visitor[v].email
    BY <1>0, VisitorFields DEF ResendCommit, SignUpTypeOK
  <1>2. /\ mailed' = [mailed EXCEPT ![e] = @ \cup {"live"}]
        /\ Turns(v, Waiting) /\ UNCHANGED <<tenant, user, identity>>
    BY <1>1 DEF ResendCommit
  <1>3. /\ visitor' \in [Visitors -> Visitor]
        /\ \A w \in Visitors : visitor'[w] = visitor[w] \/ visitor'[w] = Waiting
    BY <1>0, <1>2, VisitorAfter, VisitorKinds DEF SignUpTypeOK
  <1>4. /\ mailed' \in [Emails -> SUBSET {"live", "used"}]
        /\ \A f \in Emails : mailed[f] \subseteq mailed'[f]
    BY <1>0, <1>2 DEF SignUpTypeOK
  <1>5. user' \in [Emails -> User]
    BY <1>0, <1>2 DEF SignUpTypeOK
  <1> QED
    BY <1>2, <1>3, <1>4, <1>5, MailKeeps

LEMMA MailExpiresKeeps ==
    ASSUME SignUpInv, NEW e \in Emails, MailExpires(e)
    PROVE  SignUpInv'
  <1>0. SignUpTypeOK
    BY DEF SignUpInv
  <1>1. /\ mailed' = [mailed EXCEPT ![e] = @ \ {"live"}]
        /\ UNCHANGED <<tenant, user, identity, visitor>>
    BY DEF MailExpires
  <1>2. /\ mailed' \in [Emails -> SUBSET {"live", "used"}]
        /\ \A f \in Emails : "used" \in mailed[f] => "used" \in mailed'[f]
    BY <1>0, <1>1 DEF SignUpTypeOK
  <1>3. user' \in [Emails -> User] /\ visitor' \in [Visitors -> Visitor]
    BY <1>0, <1>1 DEF SignUpTypeOK
  <1> QED
    BY <1>1, <1>2, <1>3, MailKeeps

LEMMA SetActiveKeeps ==
    ASSUME SignUpInv, NEW e \in Emails, NEW on \in BOOLEAN, SetActive(e, on)
    PROVE  SignUpInv'
  <1>0. SignUpTypeOK
    BY DEF SignUpInv
  <1>1. /\ user' = [user EXCEPT ![e].active = on]
        /\ UNCHANGED <<tenant, identity, mailed, visitor>>
    BY DEF SetActive
  <1>2. ASSUME NEW u \in User, NEW x, x = [u EXCEPT !.active = on]
        PROVE  /\ x \in User /\ x.tenant = u.tenant /\ x.origin = u.origin
               /\ x.verified = u.verified
    BY <1>2 DEF User
  <1>3. user \in [Emails -> User] /\ user[e] \in User
    BY <1>0 DEF SignUpTypeOK
  <1>4. user'[e] = [user[e] EXCEPT !.active = on] /\ \A f \in Emails \ {e} : user'[f] = user[f]
    BY <1>1, <1>3
  <1>5. /\ user' \in [Emails -> User]
        /\ \A f \in Emails : /\ user'[f].tenant = user[f].tenant
                             /\ user'[f].origin = user[f].origin
                             /\ user'[f].verified = user[f].verified
    BY <1>1, <1>2, <1>3, <1>4
  <1>6. visitor' \in [Visitors -> Visitor] /\ mailed' \in [Emails -> SUBSET {"live", "used"}]
    BY <1>0, <1>1 DEF SignUpTypeOK
  <1> QED
    BY <1>1, <1>5, <1>6, MailKeeps

LEMMA CallbackReadKeeps ==
    ASSUME SignUpInv, NEW v \in Visitors, NEW s \in Subjects, NEW e \in Emails,
           CallbackRead(v, s, e)
    PROVE  SignUpInv'
  <1>1. UNCHANGED <<tenant, user, identity, mailed>>
    BY DEF CallbackRead
  <1>2. CASE Exists(e) /\ Turns(v, [op |-> "link", email |-> e, subject |-> s])
    <2>1. [op |-> "link", email |-> e, subject |-> s] \in Visitor
      BY VisitorKinds
    <2> QED
      BY <1>1, <1>2, <2>1, OnlyTurns
  <1>3. CASE Turns(v, [op |-> "hold", email |-> e, subject |-> s])
    <2>1. [op |-> "hold", email |-> e, subject |-> s] \in Visitor
      BY VisitorKinds
    <2> QED
      BY <1>1, <1>3, <2>1, OnlyTurns
  <1> QED
    BY <1>2, <1>3 DEF CallbackRead

LEMMA CompleteReadKeeps ==
    ASSUME SignUpInv, NEW v \in Visitors, CompleteRead(v)
    PROVE  SignUpInv'
  <1>1. visitor[v] \in Visitor /\ visitor[v].op = "hold"
    BY DEF CompleteRead, SignUpInv, SignUpTypeOK
  <1>2. PICK x \in Visitor : x = [visitor[v] EXCEPT !.op = "complete"] /\ x.op = "complete"
    BY <1>1, HeldVisitor
  <1>3. Turns(v, x) /\ UNCHANGED <<tenant, user, identity, mailed>>
    BY <1>2 DEF CompleteRead
  <1> QED
    BY <1>2, <1>3, OnlyTurns

\* A request that only notes what it will do
LEMMA NoteKeeps ==
    ASSUME SignUpInv, NEW v \in Visitors, NEW e \in Emails,
           SignupRead(v, e) \/ VerifyRead(v, e) \/ ResendRead(v, e)
    PROVE  SignUpInv'
  <1>1. UNCHANGED <<tenant, user, identity, mailed>>
    BY DEF SignupRead, VerifyRead, ResendRead
  <1>2. PICK o \in {"signup", "verify", "resend"} : Turns(v, [op |-> o, email |-> e])
    BY DEF SignupRead, VerifyRead, ResendRead
  <1>3. [op |-> o, email |-> e] \in Visitor
    BY VisitorKinds
  <1> QED
    BY <1>1, <1>2, <1>3, OnlyTurns

LEMMA StepSignUp ==
    ASSUME SignUpInv, [SignUpNext]_signUpVars
    PROVE  SignUpInv'
  <1>1. ASSUME NEW v \in Visitors, NEW e \in Emails,
               SignupRead(v, e) \/ VerifyRead(v, e) \/ ResendRead(v, e)
        PROVE  SignUpInv'
    BY <1>1, NoteKeeps
  <1>2. ASSUME NEW v \in Visitors, NEW t \in Tenants, SignupCommit(v, t) \/ CompleteCommit(v, t)
        PROVE  SignUpInv'
    BY <1>2, SignupCommitKeeps, CompleteCommitKeeps
  <1>3. ASSUME NEW v \in Visitors, NEW s \in Subjects, NEW e \in Emails, CallbackRead(v, s, e)
        PROVE  SignUpInv'
    BY <1>3, CallbackReadKeeps
  <1>4. ASSUME NEW v \in Visitors, CallbackLinks(v) \/ CompleteRead(v)
        PROVE  SignUpInv'
    BY <1>4, CallbackLinksKeeps, CompleteReadKeeps
  <1>5. ASSUME NEW v \in Visitors, VerifyCommit(v) \/ ResendCommit(v)
        PROVE  SignUpInv'
    BY <1>5, VerifyCommitKeeps, ResendCommitKeeps
  <1>6. ASSUME NEW v \in Visitors, GiveUp(v)
        PROVE  SignUpInv'
    <2>1. /\ Turns(v, Waiting) /\ UNCHANGED <<tenant, user, identity, mailed>>
          /\ Waiting \in Visitor /\ Waiting.op # "link"
      BY <1>6, VisitorKinds DEF GiveUp
    <2> QED
      BY <2>1, OnlyTurns
  <1>7. ASSUME NEW e \in Emails, MailExpires(e) \/ \E on \in BOOLEAN : SetActive(e, on)
        PROVE  SignUpInv'
    BY <1>7, MailExpiresKeeps, SetActiveKeeps
  <1>8. CASE UNCHANGED signUpVars
    BY <1>8 DEF signUpVars, SignUpInv, SignUpTypeOK, SignUpsAreWhole, TenantsHaveTheirUser,
                VerifiedHasProof, IdentityHasUser, LinksHaveTheirUser, Exists
  <1> QED
    BY <1>1, <1>2, <1>3, <1>4, <1>5, <1>6, <1>7, <1>8 DEF SignUpNext

-----------------------------------------------------------------------------
\* What sign-ups, callbacks and verifications leave is consistent, and a
\* callback about to link has an account to link to.
THEOREM SignUpInvariant == SignUpSpec => []SignUpInv
  BY InitSignUp, StepSignUp, PTL DEF SignUpSpec

\* Users, tenants, identities and what a request has read are of their types.
THEOREM SignUpTypeCorrect == SignUpSpec => []SignUpTypeOK
  BY SignUpInvariant, PTL DEF SignUpInv

\* A tenant and its first user are made together, an address is verified only
\* by a used link or the provider, an identity belongs to a user that exists,
\* for any overlapping sign-ups of one address.
THEOREM SignUpLeavesItWhole == SignUpSpec => []SignUpsAreWhole
  BY SignUpInvariant, PTL DEF SignUpInv

\* A linked identity is never re-pointed, whichever callbacks overlap.
THEOREM IdentityIsKept == SignUpSpec => IdentityStays
  <1>1. SignUpInv /\ [SignUpNext]_signUpVars
        => [\A s \in Subjects : identity[s] # {} => identity'[s] = identity[s]]_signUpVars
    <2> SUFFICES ASSUME SignUpInv, [SignUpNext]_signUpVars, NEW s \in Subjects, identity[s] # {}
                 PROVE  identity'[s] = identity[s]
      OBVIOUS
    <2>1. identity \in [Subjects -> Linked]
      BY DEF SignUpInv, SignUpTypeOK
    <2>2. ASSUME NEW v \in Visitors, CallbackLinks(v) PROVE identity'[s] = identity[s]
      BY <2>1, <2>2 DEF CallbackLinks
    <2>3. ASSUME NEW v \in Visitors, NEW t \in Tenants, CompleteCommit(v, t)
          PROVE  identity'[s] = identity[s]
      <3>1. identity[visitor[v].subject] = {}
            /\ identity' = [identity EXCEPT ![visitor[v].subject] = {visitor[v].email}]
        BY <2>3 DEF CompleteCommit
      <3> QED
        BY <3>1, <2>1
    <2>4. CASE identity' = identity
      BY <2>4
    <2> QED
      BY <2>2, <2>3, <2>4 DEF SignUpNext, signUpVars, SignupRead, VerifyRead, ResendRead,
         SignupCommit, CallbackRead, CompleteRead, VerifyCommit, ResendCommit, GiveUp, MailExpires,
         SetActive
  <1> QED
    BY <1>1, SignUpInvariant, PTL DEF SignUpSpec, IdentityStays

-----------------------------------------------------------------------------
(***************************************************************************)
(* Backups, for any number of jobs in all, at once, and of backups kept    *)
(***************************************************************************)

\* There is a newest among some numbered keys.
LEMMA HasNewest ==
    ASSUME NEW N \in Nat, NEW T \in SUBSET (1..N), T # {}
    PROVE  \E m \in T : \A l \in T : l <= m
  <1> DEFINE D == {d \in Nat : \E k \in T : d = N - k}
             R == OpToRel(<, Nat)
  <1>1. D # {}
    <2>1. PICK k \in T : TRUE
      OBVIOUS
    <2>2. N - k \in Nat
      OBVIOUS
    <2> QED
      BY <2>2
  <1>2. IsWellFoundedOn(R, Nat) /\ D \subseteq Nat
    BY NatLessThanWellFounded
  <1> HIDE DEF D
  <1>3. PICK d \in D : \A y \in D : ~(<<y, d>> \in R)
    <2> HIDE DEF R
    <2> QED
      BY <1>1, <1>2, WFMin
  <1>4. \A y \in D : ~(y < d)
    BY <1>2, <1>3 DEF OpToRel
  <1>5. PICK m \in T : d = N - m
    BY DEF D
  <1>6. \A l \in T : l <= m
    <2> TAKE l \in T
    <2>1. N - l \in D
      BY DEF D
    <2>2. ~(N - l < N - m)
      BY <1>4, <1>5, <2>1
    <2> QED
      BY <2>2
  <1> QED
    BY <1>6

LEMMA JobsAreFinite ==
    ASSUME NEW S, S \subseteq Jobs
    PROVE  IsFiniteSet(S) /\ Cardinality(S) \in Nat
  <1>1. IsFiniteSet(Jobs)
    BY BackupAssumptions, FS_Interval DEF Jobs
  <1> QED
    BY <1>1, FS_Subset, FS_CardinalityType

LEMMA NewestIsIn ==
    ASSUME NEW keys, keys \subseteq Jobs, keys # {}
    PROVE  Newest(keys) \in keys
  BY HasNewest, BackupAssumptions DEF Newest, Jobs

Newer(keys, j) == {k \in keys : k > j}

\* Pruning to the Keep newest keys leaves Keep of those that are newer than one
\* that has Keep newer ones: what it takes of them is displaced by the rest.
LEMMA PruneLeavesNewest ==
    ASSUME NEW keys, keys \subseteq Jobs, NEW j \in Jobs,
           Cardinality(Newer(keys, j)) >= Keep
    PROVE  Cardinality(Newer(keys \ Older(keys, Keep), j)) >= Keep
  <1> DEFINE A == Newer(keys, j)
             B == Newer(keys \ Older(keys, Keep), j)
  <1>1. B \subseteq A /\ A \subseteq Jobs
    BY DEF Newer
  <1>2. IsFiniteSet(A) /\ IsFiniteSet(B) /\ Cardinality(A) \in Nat /\ Cardinality(B) \in Nat
    BY <1>1, JobsAreFinite
  <1>k. Keep \in Nat
    BY BackupAssumptions
  <1>3. ASSUME Cardinality(B) < Keep PROVE FALSE
    <2>1. A \ B # {}
      <3>1. A # B
        BY <1>2, <1>3, <1>k
      <3> QED
        BY <1>1, <3>1
    <2>2. PICK m \in A \ B : \A l \in A \ B : l <= m
      <3>1. A \ B \in SUBSET (1..BackupRuns) /\ BackupRuns \in Nat
        BY <1>1, BackupAssumptions DEF Jobs
      <3> QED
        BY <2>1, <3>1, HasNewest
    <2>3. m \in keys /\ m > j /\ m \in Older(keys, Keep)
      BY <2>2 DEF Newer
    <2>4. Cardinality({l \in keys : l > m}) >= Keep
      BY <2>3 DEF Older
    <2>5. {l \in keys : l > m} \subseteq B
      <3> SUFFICES ASSUME NEW l \in keys, l > m PROVE l \in B
        OBVIOUS
      <3>0. l \in Int /\ m \in Int /\ j \in Int
        BY <2>3 DEF Jobs
      <3>1. l \in A
        BY <2>3, <3>0 DEF Newer
      <3>2. ~(l <= m)
        BY <3>0
      <3> QED
        BY <2>2, <3>1, <3>2
    <2>6. Cardinality({l \in keys : l > m}) <= Cardinality(B)
      BY <1>2, <2>5, FS_Subset
    <2>7. Cardinality({l \in keys : l > m}) \in Nat
      BY JobsAreFinite
    <2> HIDE DEF B
    <2> QED
      BY <1>2, <1>3, <1>k, <2>4, <2>6, <2>7
  <1> QED
    BY <1>2, <1>3, <1>k

-----------------------------------------------------------------------------
\* Rows are numbered as they start, and a process is at a step of its kind.
RowsAreStarted == \A j \in Jobs : job[j].kind = "none" <=> j > started
StepsFit ==
    \A j \in Jobs :
        /\ step[j] \in Trying => job[j].status = "running"
        /\ step[j] = "failed" => job[j].status = "failed"
        /\ step[j] = "closing" => job[j].kind = "drill"
        /\ step[j] \in {"uploaded", "pruned"} => job[j].kind = "backup"
        /\ step[j] \in {"downloaded", "created", "restored"} => job[j].kind = "drill"

\* A key of the bucket, and one a drill has taken from it, was written by a
\* backup that does not upload again.
Written(k) == job[k].kind = "backup" /\ step[k] # "begun"
KeysAreWritten ==
    /\ \A k \in bucket : Written(k)
    /\ \A j \in Jobs : job[j].kind = "drill" /\ job[j].key # 0 => Written(job[j].key)

\* From its upload on, a backup is kept or displaced.
Done(j) == step[j] \in {"uploaded", "pruned"} \/ job[j].status = "succeeded"
UploadedIsKept ==
    \A j \in Jobs :
        job[j].kind = "backup" /\ Done(j) => j \in bucket \/ Cardinality(Newer(bucket, j)) >= Keep

\* A drill that no other has met runs alone, and the scratch database holds
\* what it has put there.
LoneDrillOwnsScratch ==
    \A j \in Drilling \ overlapped :
        /\ Drilling = {j}
        /\ step[j] = "created" => scratch = {0}
        /\ step[j] = "restored" /\ scratch \ {0} # {} => job[j].key \notin broken

BackupInv ==
    /\ BackupTypeOK /\ RowsAreStarted /\ StepsFit /\ KeysAreWritten
    /\ UploadedIsKept /\ LoneDrillOwnsScratch
    /\ DrillProvesItsBackup /\ MailedIsFailed

-----------------------------------------------------------------------------
LEMMA RowsAreRows ==
    ASSUME BackupTypeOK, NEW j \in Jobs, job[j].kind # "none"
    PROVE  /\ job[j] \in JobRow
           /\ job[j].kind \in {"backup", "drill"}
           /\ job[j].status \in {"running", "succeeded", "failed"}
           /\ job[j].key \in 0..BackupRuns
  <1>1. job[j] \in JobRow
    BY DEF BackupTypeOK, NoJob
  <1> QED
    BY <1>1 DEF JobRow

LEMMA NoRowHasNoFields ==
    ASSUME BackupTypeOK, NEW j \in Jobs, job[j].kind = "none"
    PROVE  job[j] = NoJob /\ job[j].status = "none" /\ job[j].key = 0
  <1>1. job[j] \notin JobRow
    BY DEF JobRow
  <1> QED
    BY <1>1 DEF BackupTypeOK, NoJob

\* A process is at a step of a row, which is running inside the try block.
LEMMA WhoIsAtWork ==
    ASSUME BackupInv, NEW j \in Jobs, step[j] # "off"
    PROVE  /\ job[j].kind \in {"backup", "drill"}
           /\ step[j] \in Trying => job[j].status = "running" /\ j \notin mailSent
  <1>1. step[j] \in Trying \/ step[j] = "failed" \/ step[j] = "closing"
    BY DEF BackupInv, BackupTypeOK, Steps
  <1>2. step[j] \in Trying => job[j].status = "running" /\ j \notin mailSent
    BY DEF BackupInv, StepsFit, MailedIsFailed
  <1>3. job[j].kind # "none"
    <2>1. step[j] = "closing" => job[j].kind = "drill"
      BY DEF BackupInv, StepsFit
    <2>2. step[j] = "failed" => job[j].status = "failed"
      BY DEF BackupInv, StepsFit
    <2> QED
      BY <1>1, <1>2, <2>1, <2>2, NoRowHasNoFields DEF BackupInv
  <1> QED
    BY <1>2, <1>3, RowsAreRows DEF BackupInv

\* What an update of the status of a row, and of its key, leaves.
LEMMA StatusAfter ==
    ASSUME BackupTypeOK, NEW j \in Jobs, job[j].kind # "none",
           NEW s \in {"running", "succeeded", "failed"},
           job' = [job EXCEPT ![j].status = s]
    PROVE  /\ job' \in [Jobs -> JobRow \cup {NoJob}]
           /\ \A i \in Jobs : i # j => job'[i] = job[i]
           /\ job'[j].kind = job[j].kind /\ job'[j].status = s /\ job'[j].key = job[j].key
  <1>1. PICK row \in JobRow : row = job[j]
    BY RowsAreRows
  <1> DEFINE x == [row EXCEPT !.status = s]
  <1>2. x \in JobRow /\ x.kind = row.kind /\ x.status = s /\ x.key = row.key
    BY DEF JobRow
  <1>3. job' = [job EXCEPT ![j] = x]
    BY <1>1
  <1> HIDE DEF x
  <1> QED
    BY <1>1, <1>2, <1>3 DEF BackupTypeOK

LEMMA KeyAfter ==
    ASSUME BackupTypeOK, NEW j \in Jobs, job[j].kind # "none", NEW k \in 0..BackupRuns,
           job' = [job EXCEPT ![j].key = k]
    PROVE  /\ job' \in [Jobs -> JobRow \cup {NoJob}]
           /\ \A i \in Jobs : i # j => job'[i] = job[i]
           /\ job'[j].kind = job[j].kind /\ job'[j].status = job[j].status /\ job'[j].key = k
  <1>1. PICK row \in JobRow : row = job[j]
    BY RowsAreRows
  <1> DEFINE x == [row EXCEPT !.key = k]
  <1>2. x \in JobRow /\ x.kind = row.kind /\ x.status = row.status /\ x.key = k
    BY DEF JobRow
  <1>3. job' = [job EXCEPT ![j] = x]
    BY <1>1
  <1> HIDE DEF x
  <1> QED
    BY <1>1, <1>2, <1>3 DEF BackupTypeOK

LEMMA RowPut ==
    ASSUME BackupTypeOK, NEW j \in Jobs, NEW row \in JobRow, job' = [job EXCEPT ![j] = row]
    PROVE  /\ job' \in [Jobs -> JobRow \cup {NoJob}]
           /\ job'[j] = row
           /\ \A i \in Jobs : i # j => job'[i] = job[i]
  BY DEF BackupTypeOK

LEMMA RowAfterSuccess ==
    ASSUME BackupTypeOK, NEW j \in Jobs, job[j].kind # "none",
           job' = [job EXCEPT ![j].status = "succeeded", ![j].key = j]
    PROVE  /\ job' \in [Jobs -> JobRow \cup {NoJob}]
           /\ \A i \in Jobs : i # j => job'[i] = job[i]
           /\ job'[j].kind = job[j].kind /\ job'[j].status = "succeeded" /\ job'[j].key = j
  <1>1. PICK row \in JobRow : row = job[j]
    BY RowsAreRows
  <1>j. j \in 0..BackupRuns
    BY BackupAssumptions DEF Jobs
  <1> DEFINE x == [row EXCEPT !.status = "succeeded", !.key = j]
  <1>2. x \in JobRow /\ x.kind = row.kind /\ x.status = "succeeded" /\ x.key = j
    BY <1>j DEF JobRow
  <1>3. job' = [job EXCEPT ![j] = x]
    BY <1>1 DEF BackupTypeOK
  <1> HIDE DEF x
  <1>6. job' \in [Jobs -> JobRow \cup {NoJob}] /\ job'[j] = x
        /\ \A i \in Jobs : i # j => job'[i] = job[i]
    BY <1>2, <1>3, RowPut, Zenon
  <1> QED
    BY <1>1, <1>2, <1>6

\* What is in the bucket is newer than j in no smaller number after more is
\* put in.
LEMMA MoreIsNewer ==
    ASSUME NEW keys, keys \subseteq Jobs, NEW more, more \subseteq Jobs, keys \subseteq more,
           NEW j \in Jobs, Cardinality(Newer(keys, j)) >= Keep
    PROVE  Cardinality(Newer(more, j)) >= Keep
  <1> DEFINE A == Newer(keys, j)
             B == Newer(more, j)
  <1>1. A \subseteq B /\ B \subseteq Jobs
    BY DEF Newer
  <1>2. IsFiniteSet(B) /\ Cardinality(B) \in Nat /\ Cardinality(A) \in Nat
    BY <1>1, JobsAreFinite
  <1>3. Cardinality(A) <= Cardinality(B)
    BY <1>1, <1>2, FS_Subset
  <1>4. Cardinality(A) >= Keep
    OBVIOUS
  <1> HIDE DEF A, B
  <1>5. Cardinality(B) >= Keep
    BY <1>2, <1>3, <1>4, BackupAssumptions
  <1> QED
    BY <1>5 DEF B

LEMMA BackupInitInv == BackupInit => BackupInv
  <1> SUFFICES ASSUME BackupInit PROVE BackupInv
    OBVIOUS
  <1>1. \A j \in Jobs : /\ job[j] = NoJob /\ step[j] = "off" /\ job[j].kind = "none"
                        /\ job[j].status = "none" /\ job[j].key = 0 /\ j > 0
    BY BackupAssumptions DEF BackupInit, NoJob, Jobs
  <1>2. BackupTypeOK
    BY BackupAssumptions DEF BackupInit, BackupTypeOK, Steps
  <1>3. Drilling = {}
    BY <1>1 DEF Drilling
  <1>4. RowsAreStarted /\ StepsFit /\ KeysAreWritten /\ UploadedIsKept
    BY <1>1 DEF BackupInit, RowsAreStarted, StepsFit, KeysAreWritten, UploadedIsKept, Trying
  <1>5. LoneDrillOwnsScratch /\ DrillProvesItsBackup /\ MailedIsFailed
    BY <1>1, <1>3 DEF BackupInit, LoneDrillOwnsScratch, DrillProvesItsBackup, MailedIsFailed
  <1> QED
    BY <1>2, <1>4, <1>5 DEF BackupInv

-----------------------------------------------------------------------------
\* The written keys stay so when no step back is made and none is taken from
\* elsewhere than the bucket.
LEMMA WrittenStays ==
    ASSUME BackupTypeOK, KeysAreWritten,
           \A k \in Jobs : job[k].kind = "backup" /\ step[k] # "begun"
                         => job'[k].kind = "backup" /\ step'[k] # "begun",
           \A k \in bucket' : k \in bucket \/ (job'[k].kind = "backup" /\ step'[k] # "begun"),
           \A i \in Jobs : job'[i].kind = "drill"
                         => \/ job'[i].key = 0
                            \/ job[i].kind = "drill" /\ job'[i].key = job[i].key
                            \/ job'[i].key \in bucket
    PROVE  KeysAreWritten'
  <1>1. \A k \in bucket : k \in Jobs /\ job'[k].kind = "backup" /\ step'[k] # "begun"
    BY DEF BackupTypeOK, KeysAreWritten, Written
  <1>2. \A k \in bucket' : job'[k].kind = "backup" /\ step'[k] # "begun"
    BY <1>1
  <1>3. ASSUME NEW i \in Jobs, job'[i].kind = "drill", job'[i].key # 0
        PROVE  job'[job'[i].key].kind = "backup" /\ step'[job'[i].key] # "begun"
    <2>1. CASE job'[i].key \in bucket
      BY <1>1, <2>1
    <2>2. CASE job[i].kind = "drill" /\ job'[i].key = job[i].key
      <3>1. job[i].key \in Jobs
        BY <1>3, <2>2, RowsAreRows, BackupAssumptions DEF Jobs
      <3>2. job[job[i].key].kind = "backup" /\ step[job[i].key] # "begun"
        BY <1>3, <2>2 DEF KeysAreWritten, Written
      <3> QED
        BY <2>2, <3>1, <3>2
    <2> QED
      BY <1>3, <2>1, <2>2
  <1> QED
    BY <1>2, <1>3 DEF KeysAreWritten, Written

LEMMA StartKeeps ==
    ASSUME BackupInv, NEW kind \in {"backup", "drill"}, StartJob(kind)
    PROVE  BackupInv'
  <1> DEFINE n == started + 1
             row == [kind |-> kind, status |-> "running", key |-> 0]
  <1>t. BackupTypeOK
    BY DEF BackupInv
  <1>1. n \in Jobs /\ started' = n /\ started \in Nat /\ n \in 0..BackupRuns
    BY <1>t, BackupAssumptions DEF StartJob, BackupTypeOK, Jobs
  <1>2. job' = [job EXCEPT ![n] = row] /\ step' = [step EXCEPT ![n] = "begun"]
    BY DEF StartJob
  <1>3. UNCHANGED <<bucket, broken, scratch, mailSent>>
    BY DEF StartJob
  <1>4. row \in JobRow /\ row.kind = kind /\ row.status = "running" /\ row.key = 0
    BY BackupAssumptions DEF JobRow
  <1>5. overlapped' = IF kind = "drill" /\ Drilling # {}
                      THEN overlapped \cup Drilling \cup {n} ELSE overlapped
    BY DEF StartJob
  <1> HIDE DEF row
  <1>6. /\ job' \in [Jobs -> JobRow \cup {NoJob}] /\ job'[n] = row
        /\ \A i \in Jobs : i # n => job'[i] = job[i]
    BY <1>t, <1>1, <1>2, <1>4, RowPut
  <1>7. /\ step' \in [Jobs -> Steps]
        /\ step'[n] = "begun" /\ \A i \in Jobs : i # n => step'[i] = step[i]
    BY <1>t, <1>1, <1>2 DEF BackupTypeOK, Steps, Trying
  <1>8. /\ job[n].kind = "none" /\ job[n].status = "none" /\ job[n].key = 0
        /\ step[n] = "off" /\ n \notin mailSent
    <2>1. job[n].kind = "none"
      BY <1>1 DEF BackupInv, RowsAreStarted
    <2>2. job[n].status = "none" /\ job[n].key = 0
      BY <1>t, <1>1, <2>1, NoRowHasNoFields
    <2>3. step[n] = "off"
      BY <1>1, <2>1, WhoIsAtWork
    <2> QED
      BY <1>1, <2>1, <2>2, <2>3 DEF BackupInv, MailedIsFailed
  <1>9. Drilling \subseteq Jobs /\ n \notin Drilling
        /\ Drilling' = IF kind = "drill" THEN Drilling \cup {n} ELSE Drilling
    BY <1>1, <1>4, <1>6, <1>7, <1>8 DEF Drilling
  <1>10. BackupTypeOK'
    <2>1. overlapped' \subseteq Jobs
      BY <1>t, <1>1, <1>5, <1>9 DEF BackupTypeOK
    <2> QED
      BY <1>t, <1>1, <1>3, <1>6, <1>7, <2>1 DEF BackupTypeOK
  <1>11. RowsAreStarted'
    <2> SUFFICES ASSUME NEW i \in Jobs PROVE job'[i].kind = "none" <=> i > n
      BY <1>1 DEF RowsAreStarted
    <2>1. i \in Nat
      BY BackupAssumptions DEF Jobs
    <2>2. CASE i = n
      BY <1>4, <1>6, <2>1, <2>2
    <2>3. CASE i # n
      BY <1>1, <1>6, <2>1, <2>3 DEF BackupInv, RowsAreStarted
    <2> QED
      BY <2>2, <2>3
  <1>12. StepsFit'
    BY <1>4, <1>6, <1>7 DEF BackupInv, StepsFit, Trying
  <1>14. KeysAreWritten'
    <2>1. \A k \in Jobs : job[k].kind = "backup" /\ step[k] # "begun"
                         => job'[k].kind = "backup" /\ step'[k] # "begun"
      BY <1>6, <1>7, <1>8
    <2>2. \A i \in Jobs : job'[i].kind = "drill"
                         => \/ job'[i].key = 0
                            \/ job[i].kind = "drill" /\ job'[i].key = job[i].key
                            \/ job'[i].key \in bucket
      BY <1>4, <1>6
    <2> QED
      BY <1>t, <1>3, <2>1, <2>2, WrittenStays DEF BackupInv
  <1>15. UploadedIsKept'
    BY <1>3, <1>4, <1>6, <1>7 DEF BackupInv, UploadedIsKept, Done, Newer
  <1>16. LoneDrillOwnsScratch'
    <2> SUFFICES ASSUME NEW i \in Drilling' \ overlapped'
                 PROVE  /\ Drilling' = {i}
                        /\ step'[i] = "created" => scratch = {0}
                        /\ step'[i] = "restored" /\ scratch \ {0} # {} => job'[i].key \notin broken
      BY <1>3 DEF LoneDrillOwnsScratch
    <2>1. CASE i = n
      <3>1. kind = "drill" /\ Drilling = {}
        BY <1>5, <1>9, <2>1
      <3> QED
        BY <1>7, <1>9, <2>1, <3>1
    <2>2. CASE i # n
      <3>1. i \in Drilling \ overlapped /\ i \in Jobs
        BY <1>5, <1>9, <2>2
      <3>2. kind # "drill"
        BY <1>5, <3>1
      <3> QED
        BY <1>6, <1>7, <1>9, <2>2, <3>1, <3>2 DEF BackupInv, LoneDrillOwnsScratch
    <2> QED
      BY <2>1, <2>2
  <1>17. DrillProvesItsBackup' /\ MailedIsFailed'
    <2>1. overlapped \subseteq overlapped'
      BY <1>5
    <2> QED
      BY <1>t, <1>3, <1>4, <1>6, <1>8, <2>1
         DEF BackupInv, BackupTypeOK, DrillProvesItsBackup, MailedIsFailed
  <1> QED
    BY <1>10, <1>11, <1>12, <1>14, <1>15, <1>16, <1>17 DEF BackupInv

\* What the process of job j does to its own row and step, to the others not.
OnlyJob(j, to) ==
    /\ started' = started /\ overlapped' = overlapped
    /\ job' \in [Jobs -> JobRow \cup {NoJob}]
    /\ \A i \in Jobs : i # j => job'[i] = job[i]
    /\ job'[j].kind = job[j].kind
    /\ step' = [step EXCEPT ![j] = to]

LEMMA OnlyJobSteps ==
    ASSUME BackupInv, NEW j \in Jobs, step[j] # "off",
           NEW to \in Steps \ {"begun"},
           to \in {"uploaded", "pruned"} => job[j].kind = "backup",
           to \in {"downloaded", "created", "restored", "closing"} => job[j].kind = "drill",
           OnlyJob(j, to),
           to \in Trying => step[j] \in Trying /\ job'[j].status = job[j].status,
           to = "failed" => job'[j].status = "failed"
    PROVE  /\ step' \in [Jobs -> Steps]
           /\ step'[j] = to /\ \A i \in Jobs : i # j => step'[i] = step[i]
           /\ RowsAreStarted' /\ StepsFit'
           /\ Drilling' = IF to = "off" THEN Drilling \ {j} ELSE Drilling
           /\ \A k \in Jobs : job[k].kind = "backup" /\ step[k] # "begun"
                             => job'[k].kind = "backup" /\ step'[k] # "begun"
  <1>1. /\ step' \in [Jobs -> Steps]
        /\ step'[j] = to /\ \A i \in Jobs : i # j => step'[i] = step[i]
    BY DEF OnlyJob, BackupInv, BackupTypeOK
  <1>2. /\ \A i \in Jobs : i # j => job'[i] = job[i]
        /\ job'[j].kind = job[j].kind /\ started' = started
    BY DEF OnlyJob
  <1>3. RowsAreStarted'
    BY <1>2 DEF BackupInv, RowsAreStarted
  <1>4. StepsFit'
    BY <1>1, <1>2 DEF BackupInv, StepsFit, Trying
  <1>5. Drilling' = IF to = "off" THEN Drilling \ {j} ELSE Drilling
    BY <1>1, <1>2 DEF Drilling
  <1> QED
    BY <1>1, <1>2, <1>3, <1>4, <1>5

\* A drill that runs alone is not disturbed by a step of a backup, nor by its
\* own that leaves the scratch database as its step promises.
LEMMA LoneDrillStays ==
    ASSUME BackupInv, NEW j \in Jobs, step[j] # "off",
           Drilling' \subseteq Drilling, overlapped' = overlapped,
           \A i \in Jobs : i # j => job'[i] = job[i] /\ step'[i] = step[i],
           job[j].kind = "backup" => scratch' = scratch,
           j \in Drilling' \ overlapped /\ Drilling' = {j} =>
               /\ step'[j] = "created" => scratch' = {0}
               /\ step'[j] = "restored" /\ scratch' \ {0} # {} => job'[j].key \notin broken',
           \A b \in broken' : b \in broken \/ (b = j /\ job[j].kind = "backup" /\ step[j] = "begun")
    PROVE  LoneDrillOwnsScratch'
  <1> SUFFICES ASSUME NEW i \in Drilling' \ overlapped
               PROVE  /\ Drilling' = {i}
                      /\ step'[i] = "created" => scratch' = {0}
                      /\ step'[i] = "restored" /\ scratch' \ {0} # {} => job'[i].key \notin broken'
    BY DEF LoneDrillOwnsScratch
  <1>1. i \in Jobs /\ i \in Drilling /\ Drilling = {i} /\ job[i].kind = "drill"
    BY DEF Drilling, BackupInv, LoneDrillOwnsScratch
  <1>2. Drilling' = {i}
    BY <1>1
  <1>3. CASE i = j
    BY <1>2, <1>3
  <1>4. CASE i # j
    <2>1. j \notin Drilling /\ job[j].kind = "backup"
      BY <1>1, <1>4, WhoIsAtWork DEF Drilling
    <2>2. job'[i] = job[i] /\ step'[i] = step[i] /\ scratch' = scratch
      BY <1>1, <1>4, <2>1
    <2>3. step[i] = "created" => scratch = {0}
      BY DEF BackupInv, LoneDrillOwnsScratch
    <2>4. ASSUME step[i] = "restored", scratch \ {0} # {} PROVE job[i].key \notin broken'
      <3>1. job[i].key \notin broken
        BY <2>4 DEF BackupInv, LoneDrillOwnsScratch
      <3>2. job[i].key # j \/ step[j] # "begun"
        <4>1. CASE job[i].key = 0
          BY <4>1, BackupAssumptions DEF Jobs
        <4>2. CASE job[i].key # 0
          BY <1>1, <4>2 DEF BackupInv, KeysAreWritten, Written
        <4> QED
          BY <4>1, <4>2
      <3> QED
        BY <3>1, <3>2
    <2> QED
      BY <1>2, <2>2, <2>3, <2>4
  <1> QED
    BY <1>3, <1>4

\* A drill that has succeeded stays right when only a backup that uploads breaks
\* a key: it is not the one of the drill.
LEMMA ProofStays ==
    ASSUME BackupInv, NEW j \in Jobs, overlapped' = overlapped,
           \A i \in Jobs : i # j => job'[i] = job[i],
           job'[j].kind = "drill" /\ job'[j].status = "succeeded" /\ j \notin overlapped
               => job'[j].key \notin broken',
           \A b \in broken' : b \in broken \/ (b = j /\ job[j].kind = "backup" /\ step[j] = "begun")
    PROVE  DrillProvesItsBackup'
  <1> SUFFICES ASSUME NEW i \in Jobs \ overlapped, i # j,
                      job[i].kind = "drill", job[i].status = "succeeded"
               PROVE  job[i].key \notin broken'
    BY DEF DrillProvesItsBackup
  <1>1. job[i].key \notin broken
    BY DEF BackupInv, DrillProvesItsBackup
  <1>2. job[i].key # j \/ step[j] # "begun"
    <2>1. CASE job[i].key = 0
      BY <2>1, BackupAssumptions DEF Jobs
    <2>2. CASE job[i].key # 0
      BY <2>2 DEF BackupInv, KeysAreWritten, Written
    <2> QED
      BY <2>1, <2>2
  <1> QED
    BY <1>1, <1>2

-----------------------------------------------------------------------------
LEMMA UploadKeeps ==
    ASSUME BackupInv, NEW j \in Jobs, Upload(j)
    PROVE  BackupInv'
  <1>t. BackupTypeOK
    BY DEF BackupInv
  <1>1. /\ job[j].kind = "backup" /\ step[j] = "begun"
        /\ bucket' = bucket \cup {j} /\ broken' \in {broken, broken \cup {j}}
        /\ UNCHANGED <<started, job, scratch, mailSent, overlapped>>
    BY DEF Upload
  <1>2. OnlyJob(j, "uploaded")
    BY <1>t DEF Upload, OnlyJob, BackupTypeOK
  <1>3. /\ step' \in [Jobs -> Steps]
        /\ step'[j] = "uploaded" /\ \A i \in Jobs : i # j => step'[i] = step[i]
        /\ RowsAreStarted' /\ StepsFit' /\ Drilling' = Drilling
        /\ \A k \in Jobs : job[k].kind = "backup" /\ step[k] # "begun"
                          => job'[k].kind = "backup" /\ step'[k] # "begun"
    BY <1>1, <1>2, OnlyJobSteps DEF Trying, Steps
  <1>4. BackupTypeOK'
    BY <1>t, <1>1, <1>3 DEF BackupTypeOK
  <1>5. KeysAreWritten'
    BY <1>t, <1>1, <1>3, WrittenStays DEF BackupInv
  <1>6. UploadedIsKept'
    <2> SUFFICES ASSUME NEW i \in Jobs, job[i].kind = "backup", Done(i)', i # j
                 PROVE  i \in bucket \/ Cardinality(Newer(bucket', i)) >= Keep
      BY <1>1 DEF UploadedIsKept, Newer
    <2>1. i \in bucket \/ Cardinality(Newer(bucket, i)) >= Keep
      BY <1>1, <1>3 DEF BackupInv, UploadedIsKept, Done
    <2>2. bucket \subseteq bucket' /\ bucket' \subseteq Jobs /\ bucket \subseteq Jobs
      BY <1>t, <1>1 DEF BackupTypeOK
    <2> QED
      BY <2>1, <2>2, MoreIsNewer
  <1>7. LoneDrillOwnsScratch'
    <2>1. j \notin Drilling
      BY <1>1 DEF Drilling
    <2> QED
      BY <1>1, <1>3, <2>1, LoneDrillStays
  <1>8. DrillProvesItsBackup'
    BY <1>1, ProofStays
  <1>9. MailedIsFailed'
    BY <1>1, <1>3 DEF BackupInv, MailedIsFailed
  <1> QED
    BY <1>3, <1>4, <1>5, <1>6, <1>7, <1>8, <1>9 DEF BackupInv

LEMMA PruneKeeps ==
    ASSUME BackupInv, NEW j \in Jobs, Prune(j)
    PROVE  BackupInv'
  <1>t. BackupTypeOK
    BY DEF BackupInv
  <1>1. /\ job[j].kind = "backup" /\ step[j] = "uploaded"
        /\ bucket' = bucket \ Older(bucket, Keep)
        /\ UNCHANGED <<started, job, broken, scratch, mailSent, overlapped>>
    BY DEF Prune
  <1>2. OnlyJob(j, "pruned")
    BY <1>t DEF Prune, OnlyJob, BackupTypeOK
  <1>3. /\ step' \in [Jobs -> Steps]
        /\ step'[j] = "pruned" /\ \A i \in Jobs : i # j => step'[i] = step[i]
        /\ RowsAreStarted' /\ StepsFit' /\ Drilling' = Drilling
        /\ \A k \in Jobs : job[k].kind = "backup" /\ step[k] # "begun"
                          => job'[k].kind = "backup" /\ step'[k] # "begun"
    BY <1>1, <1>2, OnlyJobSteps DEF Trying, Steps
  <1>4. BackupTypeOK'
    BY <1>t, <1>1, <1>3 DEF BackupTypeOK
  <1>5. KeysAreWritten'
    BY <1>t, <1>1, <1>3, WrittenStays DEF BackupInv
  <1>6. UploadedIsKept'
    <2> SUFFICES ASSUME NEW i \in Jobs, job[i].kind = "backup", Done(i)', i \notin bucket'
                 PROVE  Cardinality(Newer(bucket', i)) >= Keep
      BY <1>1 DEF UploadedIsKept, Newer
    <2>1. i \in bucket \/ Cardinality(Newer(bucket, i)) >= Keep
      BY <1>1, <1>3 DEF BackupInv, UploadedIsKept, Done
    <2>2. Cardinality(Newer(bucket, i)) >= Keep
      BY <1>1, <2>1 DEF Older, Newer
    <2> QED
      BY <1>t, <1>1, <2>2, PruneLeavesNewest DEF BackupTypeOK
  <1>7. LoneDrillOwnsScratch'
    <2>1. j \notin Drilling
      BY <1>1 DEF Drilling
    <2> QED
      BY <1>1, <1>3, <2>1, LoneDrillStays
  <1>8. DrillProvesItsBackup'
    BY <1>1, ProofStays
  <1>9. MailedIsFailed'
    BY <1>1, <1>3 DEF BackupInv, MailedIsFailed
  <1> QED
    BY <1>3, <1>4, <1>5, <1>6, <1>7, <1>8, <1>9 DEF BackupInv

\* A step of a drill inside its try block that leaves the bucket alone: what is
\* kept and what is mailed stays.
LEMMA KeptAndMailedStay ==
    ASSUME BackupInv, NEW j \in Jobs, job[j].kind = "drill", step[j] \in Trying,
           bucket' = bucket, mailSent' = mailSent,
           \A i \in Jobs : i # j => job'[i] = job[i] /\ step'[i] = step[i],
           job'[j].kind = "drill"
    PROVE  UploadedIsKept' /\ MailedIsFailed'
  <1>1. UploadedIsKept'
    BY DEF BackupInv, UploadedIsKept, Done, Newer
  <1>2. j \notin mailSent /\ mailSent \subseteq Jobs
    BY WhoIsAtWork DEF BackupInv, BackupTypeOK, Trying, Steps
  <1>3. MailedIsFailed'
    BY <1>2 DEF BackupInv, MailedIsFailed
  <1> QED
    BY <1>1, <1>3

LEMMA DownloadKeeps ==
    ASSUME BackupInv, NEW j \in Jobs, Download(j)
    PROVE  BackupInv'
  <1>t. BackupTypeOK
    BY DEF BackupInv
  <1>1. /\ job[j].kind = "drill" /\ step[j] = "begun" /\ bucket # {}
        /\ job' = [job EXCEPT ![j].key = Newest(bucket)]
        /\ UNCHANGED <<started, bucket, broken, scratch, mailSent, overlapped>>
    BY DEF Download
  <1>n. Newest(bucket) \in bucket /\ Newest(bucket) \in 0..BackupRuns
    BY <1>t, <1>1, NewestIsIn, BackupAssumptions DEF BackupTypeOK, Jobs
  <1>j. /\ job' \in [Jobs -> JobRow \cup {NoJob}]
        /\ \A i \in Jobs : i # j => job'[i] = job[i]
        /\ job'[j].kind = "drill" /\ job'[j].status = job[j].status /\ job'[j].key = Newest(bucket)
    BY <1>t, <1>1, <1>n, KeyAfter
  <1>r. step[j] \in Trying /\ job[j].status = "running"
    BY <1>1, WhoIsAtWork DEF Trying
  <1>2. OnlyJob(j, "downloaded")
    BY <1>1, <1>j DEF Download, OnlyJob
  <1>3. /\ step' \in [Jobs -> Steps]
        /\ step'[j] = "downloaded" /\ \A i \in Jobs : i # j => step'[i] = step[i]
        /\ RowsAreStarted' /\ StepsFit' /\ Drilling' = Drilling
        /\ \A k \in Jobs : job[k].kind = "backup" /\ step[k] # "begun"
                          => job'[k].kind = "backup" /\ step'[k] # "begun"
    BY <1>1, <1>2, <1>j, OnlyJobSteps DEF Trying, Steps
  <1>4. BackupTypeOK'
    BY <1>t, <1>1, <1>3, <1>j DEF BackupTypeOK
  <1>5. KeysAreWritten'
    <2>1. \A i \in Jobs : job'[i].kind = "drill"
                         => \/ job'[i].key = 0
                            \/ job[i].kind = "drill" /\ job'[i].key = job[i].key
                            \/ job'[i].key \in bucket
      BY <1>j, <1>n
    <2> QED
      BY <1>t, <1>1, <1>3, <2>1, WrittenStays DEF BackupInv
  <1>6. UploadedIsKept' /\ MailedIsFailed'
    BY <1>1, <1>3, <1>j, <1>r, KeptAndMailedStay
  <1>7. LoneDrillOwnsScratch'
    BY <1>1, <1>3, <1>j, LoneDrillStays
  <1>8. DrillProvesItsBackup'
    BY <1>1, <1>j, <1>r, ProofStays
  <1> QED
    BY <1>3, <1>4, <1>5, <1>6, <1>7, <1>8 DEF BackupInv

LEMMA CreateKeeps ==
    ASSUME BackupInv, NEW j \in Jobs, CreateScratch(j)
    PROVE  BackupInv'
  <1>t. BackupTypeOK
    BY DEF BackupInv
  <1>1. /\ job[j].kind = "drill" /\ step[j] = "downloaded" /\ scratch' = {0}
        /\ UNCHANGED <<started, job, bucket, broken, mailSent, overlapped>>
    BY DEF CreateScratch
  <1>r. step[j] \in Trying /\ job[j].status = "running"
    BY <1>1, WhoIsAtWork DEF Trying
  <1>2. OnlyJob(j, "created")
    BY <1>t, <1>1 DEF CreateScratch, OnlyJob, BackupTypeOK
  <1>3. /\ step' \in [Jobs -> Steps]
        /\ step'[j] = "created" /\ \A i \in Jobs : i # j => step'[i] = step[i]
        /\ RowsAreStarted' /\ StepsFit' /\ Drilling' = Drilling
        /\ \A k \in Jobs : job[k].kind = "backup" /\ step[k] # "begun"
                          => job'[k].kind = "backup" /\ step'[k] # "begun"
    BY <1>1, <1>2, OnlyJobSteps DEF Trying, Steps
  <1>4. BackupTypeOK'
    BY <1>t, <1>1, <1>3, BackupAssumptions DEF BackupTypeOK
  <1>5. KeysAreWritten'
    BY <1>t, <1>1, <1>3, WrittenStays DEF BackupInv
  <1>6. UploadedIsKept' /\ MailedIsFailed'
    BY <1>1, <1>3, <1>r, KeptAndMailedStay
  <1>7. LoneDrillOwnsScratch'
    BY <1>1, <1>3, LoneDrillStays
  <1>8. DrillProvesItsBackup'
    BY <1>1, <1>r, ProofStays
  <1> QED
    BY <1>3, <1>4, <1>5, <1>6, <1>7, <1>8 DEF BackupInv

LEMMA RestoreKeeps ==
    ASSUME BackupInv, NEW j \in Jobs, Restore(j)
    PROVE  BackupInv'
  <1>t. BackupTypeOK
    BY DEF BackupInv
  <1>1. /\ job[j].kind = "drill" /\ step[j] = "created"
        /\ scratch' = IF scratch = {} \/ job[j].key \in broken THEN scratch
                      ELSE scratch \cup {job[j].key}
        /\ UNCHANGED <<started, job, bucket, broken, mailSent, overlapped>>
    BY DEF Restore
  <1>r. step[j] \in Trying /\ job[j].status = "running"
    BY <1>1, WhoIsAtWork DEF Trying
  <1>2. OnlyJob(j, "restored")
    BY <1>t, <1>1 DEF Restore, OnlyJob, BackupTypeOK
  <1>3. /\ step' \in [Jobs -> Steps]
        /\ step'[j] = "restored" /\ \A i \in Jobs : i # j => step'[i] = step[i]
        /\ RowsAreStarted' /\ StepsFit' /\ Drilling' = Drilling
        /\ \A k \in Jobs : job[k].kind = "backup" /\ step[k] # "begun"
                          => job'[k].kind = "backup" /\ step'[k] # "begun"
    BY <1>1, <1>2, OnlyJobSteps DEF Trying, Steps
  <1>4. BackupTypeOK'
    <2>1. job[j].key \in 0..BackupRuns
      BY <1>t, <1>1, RowsAreRows
    <2>2. scratch' \subseteq 0..BackupRuns
      BY <1>t, <1>1, <2>1 DEF BackupTypeOK
    <2> QED
      BY <1>t, <1>1, <1>3, <2>2 DEF BackupTypeOK
  <1>5. KeysAreWritten'
    BY <1>t, <1>1, <1>3, WrittenStays DEF BackupInv
  <1>6. UploadedIsKept' /\ MailedIsFailed'
    BY <1>1, <1>3, <1>r, KeptAndMailedStay
  <1>7. LoneDrillOwnsScratch'
    <2>1. ASSUME j \in Drilling \ overlapped, scratch' \ {0} # {}
          PROVE  job[j].key \notin broken
      <3>1. scratch = {0}
        BY <1>1, <2>1 DEF BackupInv, LoneDrillOwnsScratch
      <3> QED
        BY <1>1, <2>1, <3>1
    <2> QED
      BY <1>1, <1>3, <2>1, LoneDrillStays
  <1>8. DrillProvesItsBackup'
    BY <1>1, <1>r, ProofStays
  <1> QED
    BY <1>3, <1>4, <1>5, <1>6, <1>7, <1>8 DEF BackupInv

-----------------------------------------------------------------------------
LEMMA BackupSucceedsKeeps ==
    ASSUME BackupInv, NEW j \in Jobs, BackupSucceeds(j)
    PROVE  BackupInv'
  <1>t. BackupTypeOK
    BY DEF BackupInv
  <1>1. /\ job[j].kind = "backup" /\ step[j] = "pruned"
        /\ job' = [job EXCEPT ![j].status = "succeeded", ![j].key = j]
        /\ UNCHANGED <<started, bucket, broken, scratch, mailSent, overlapped>>
    BY DEF BackupSucceeds
  <1>j. /\ job' \in [Jobs -> JobRow \cup {NoJob}]
        /\ \A i \in Jobs : i # j => job'[i] = job[i]
        /\ job'[j].kind = "backup" /\ job'[j].status = "succeeded"
    BY <1>t, <1>1, RowAfterSuccess
  <1>2. OnlyJob(j, "off")
    BY <1>1, <1>j DEF BackupSucceeds, OnlyJob
  <1>3. /\ step' \in [Jobs -> Steps]
        /\ step'[j] = "off" /\ \A i \in Jobs : i # j => step'[i] = step[i]
        /\ RowsAreStarted' /\ StepsFit' /\ Drilling' = Drilling \ {j}
        /\ \A k \in Jobs : job[k].kind = "backup" /\ step[k] # "begun"
                          => job'[k].kind = "backup" /\ step'[k] # "begun"
    BY <1>1, <1>2, OnlyJobSteps DEF Trying, Steps
  <1>4. BackupTypeOK'
    BY <1>t, <1>1, <1>3, <1>j DEF BackupTypeOK
  <1>5. KeysAreWritten'
    <2>1. \A i \in Jobs : job'[i].kind = "drill" => job[i].kind = "drill" /\ job'[i].key = job[i].key
      BY <1>j
    <2> QED
      BY <1>t, <1>1, <1>3, <2>1, WrittenStays DEF BackupInv
  <1>6. UploadedIsKept'
    BY <1>1, <1>3, <1>j DEF BackupInv, UploadedIsKept, Done, Newer
  <1>7. LoneDrillOwnsScratch'
    BY <1>1, <1>3, <1>j, LoneDrillStays
  <1>8. DrillProvesItsBackup'
    BY <1>1, <1>j, ProofStays
  <1>9. MailedIsFailed'
    <2>1. j \notin mailSent /\ mailSent \subseteq Jobs
      BY <1>t, <1>1, WhoIsAtWork DEF BackupTypeOK, Trying
    <2> QED
      BY <1>1, <1>j, <2>1 DEF BackupInv, MailedIsFailed
  <1> QED
    BY <1>3, <1>4, <1>5, <1>6, <1>7, <1>8, <1>9 DEF BackupInv

LEMMA DrillSucceedsKeeps ==
    ASSUME BackupInv, NEW j \in Jobs, DrillSucceeds(j)
    PROVE  BackupInv'
  <1>t. BackupTypeOK
    BY DEF BackupInv
  <1>1. /\ job[j].kind = "drill" /\ step[j] = "restored" /\ scratch \ {0} # {}
        /\ job' = [job EXCEPT ![j].status = "succeeded"]
        /\ step' = [step EXCEPT ![j] = "closing"]
        /\ UNCHANGED <<started, bucket, broken, scratch, mailSent, overlapped>>
    BY DEF DrillSucceeds, Leaves
  <1>r. step[j] \in Trying
    BY <1>1 DEF Trying
  <1>j. /\ job' \in [Jobs -> JobRow \cup {NoJob}]
        /\ \A i \in Jobs : i # j => job'[i] = job[i]
        /\ job'[j].kind = "drill" /\ job'[j].status = "succeeded" /\ job'[j].key = job[j].key
    BY <1>t, <1>1, StatusAfter
  <1>2. OnlyJob(j, "closing")
    BY <1>1, <1>j DEF OnlyJob
  <1>3. /\ step' \in [Jobs -> Steps]
        /\ step'[j] = "closing" /\ \A i \in Jobs : i # j => step'[i] = step[i]
        /\ RowsAreStarted' /\ StepsFit' /\ Drilling' = Drilling
        /\ \A k \in Jobs : job[k].kind = "backup" /\ step[k] # "begun"
                          => job'[k].kind = "backup" /\ step'[k] # "begun"
    BY <1>1, <1>2, OnlyJobSteps DEF Trying, Steps
  <1>4. BackupTypeOK'
    BY <1>t, <1>1, <1>3, <1>j DEF BackupTypeOK
  <1>5. KeysAreWritten'
    <2>1. \A i \in Jobs : job'[i].kind = "drill" => job[i].kind = "drill" /\ job'[i].key = job[i].key
      BY <1>1, <1>j
    <2> QED
      BY <1>t, <1>1, <1>3, <2>1, WrittenStays DEF BackupInv
  <1>6. UploadedIsKept' /\ MailedIsFailed'
    BY <1>1, <1>3, <1>j, <1>r, KeptAndMailedStay
  <1>7. LoneDrillOwnsScratch'
    BY <1>1, <1>3, <1>j, LoneDrillStays
  <1>8. DrillProvesItsBackup'
    <2>1. ASSUME j \notin overlapped PROVE job[j].key \notin broken
      <3>1. j \in Drilling \ overlapped
        BY <1>1, <2>1 DEF Drilling
      <3> QED
        BY <1>1, <3>1 DEF BackupInv, LoneDrillOwnsScratch
    <2> QED
      BY <1>1, <1>j, <2>1, ProofStays
  <1> QED
    BY <1>3, <1>4, <1>5, <1>6, <1>7, <1>8 DEF BackupInv

\* A process on its way out, without a success to record: it leaves the try
\* block, sends its mail, or drops the scratch database of its own drill.
LEMMA LeavingKeeps ==
    ASSUME BackupInv, NEW j \in Jobs, step[j] # "off",
           job' \in [Jobs -> JobRow \cup {NoJob}],
           \A i \in Jobs : i # j => job'[i] = job[i],
           job'[j].kind = job[j].kind, job'[j].key = job[j].key,
           job'[j].status = "failed" \/ job'[j].status = job[j].status,
           NEW to \in {"failed", "closing", "off"}, step' = [step EXCEPT ![j] = to],
           to = "failed" => job'[j].status = "failed",
           to = "closing" => job[j].kind = "drill",
           scratch' = scratch \/ (job[j].kind = "drill" /\ scratch' = {}),
           mailSent' = mailSent \/ (mailSent' = mailSent \cup {j} /\ job'[j].status = "failed"),
           UNCHANGED <<started, bucket, broken, overlapped>>
    PROVE  BackupInv'
  <1>t. BackupTypeOK
    BY DEF BackupInv
  <1>1. job[j].kind \in {"backup", "drill"}
    BY WhoIsAtWork
  <1>2. OnlyJob(j, to)
    BY DEF OnlyJob
  <1>3. /\ step' \in [Jobs -> Steps]
        /\ step'[j] = to /\ \A i \in Jobs : i # j => step'[i] = step[i]
        /\ RowsAreStarted' /\ StepsFit' /\ Drilling' \subseteq Drilling
        /\ \A k \in Jobs : job[k].kind = "backup" /\ step[k] # "begun"
                          => job'[k].kind = "backup" /\ step'[k] # "begun"
    BY <1>2, OnlyJobSteps DEF Trying, Steps
  <1>4. BackupTypeOK'
    BY <1>t, <1>3 DEF BackupTypeOK
  <1>5. KeysAreWritten'
    <2>1. \A i \in Jobs : job'[i].kind = "drill" => job[i].kind = "drill" /\ job'[i].key = job[i].key
      OBVIOUS
    <2> QED
      BY <1>t, <1>3, <2>1, WrittenStays DEF BackupInv
  <1>6. UploadedIsKept'
    <2>1. \A i \in Jobs : Done(i)' => Done(i)
      BY <1>3 DEF Done
    <2> QED
      BY <2>1 DEF BackupInv, UploadedIsKept, Newer
  <1>7. LoneDrillOwnsScratch'
    BY <1>1, <1>3, LoneDrillStays
  <1>8. DrillProvesItsBackup'
    <2>1. job'[j].kind = "drill" /\ job'[j].status = "succeeded" /\ j \notin overlapped
          => job[j].key \notin broken
      BY DEF BackupInv, DrillProvesItsBackup
    <2> QED
      BY <2>1, ProofStays
  <1>9. MailedIsFailed'
    <2>1. mailSent \subseteq Jobs /\ (j \in mailSent => job[j].status = "failed")
      BY <1>t DEF BackupTypeOK, BackupInv, MailedIsFailed
    <2> QED
      BY <2>1 DEF BackupInv, MailedIsFailed
  <1> QED
    BY <1>3, <1>4, <1>5, <1>6, <1>7, <1>8, <1>9 DEF BackupInv

LEMMA FailsKeeps ==
    ASSUME BackupInv, NEW j \in Jobs, JobFails(j)
    PROVE  BackupInv'
  <1>t. BackupTypeOK
    BY DEF BackupInv
  <1>1. /\ step[j] # "off" /\ job' = [job EXCEPT ![j].status = "failed"]
        /\ step' = [step EXCEPT ![j] = "failed"]
        /\ UNCHANGED <<started, bucket, broken, scratch, mailSent, overlapped>>
    BY DEF JobFails, Trying
  <1>2. job[j].kind \in {"backup", "drill"}
    BY <1>1, WhoIsAtWork
  <1>3. /\ job' \in [Jobs -> JobRow \cup {NoJob}]
        /\ \A i \in Jobs : i # j => job'[i] = job[i]
        /\ job'[j].kind = job[j].kind /\ job'[j].status = "failed" /\ job'[j].key = job[j].key
    BY <1>t, <1>1, <1>2, StatusAfter
  <1> QED
    BY <1>1, <1>3, LeavingKeeps

\* The mail, the failure that is not recorded, and the finally block leave the
\* row as it is.
LEMMA LeavesKeeps ==
    ASSUME BackupInv, NEW j \in Jobs, Alert(j) \/ JobFailsUnrecorded(j) \/ DropScratch(j)
    PROVE  BackupInv'
  <1> DEFINE to == IF step[j] = "closing" \/ job[j].kind # "drill" THEN "off" ELSE "closing"
  <1>1. /\ step[j] # "off" /\ to \in {"closing", "off"}
        /\ to = "closing" => job[j].kind = "drill"
        /\ step' = [step EXCEPT ![j] = to]
        /\ UNCHANGED <<started, job, bucket, broken, overlapped>>
    BY DEF Alert, JobFailsUnrecorded, DropScratch, Leaves, Trying
  <1>2. job' \in [Jobs -> JobRow \cup {NoJob}]
    BY <1>1 DEF BackupInv, BackupTypeOK
  <1>3. scratch' = scratch \/ (job[j].kind = "drill" /\ scratch' = {})
    BY DEF Alert, JobFailsUnrecorded, DropScratch, BackupInv, StepsFit
  <1>4. mailSent' = mailSent \/ (mailSent' = mailSent \cup {j} /\ job[j].status = "failed")
    BY DEF Alert, JobFailsUnrecorded, DropScratch, BackupInv, StepsFit
  <1> HIDE DEF to
  <1> QED
    BY <1>1, <1>2, <1>3, <1>4, LeavingKeeps

LEMMA CrashKeeps ==
    ASSUME BackupInv, BackupCrash
    PROVE  BackupInv'
  <1>t. BackupTypeOK
    BY DEF BackupInv
  <1>1. /\ step' = [j \in Jobs |-> "off"]
        /\ UNCHANGED <<started, job, bucket, broken, scratch, mailSent, overlapped>>
    BY DEF BackupCrash
  <1>2. \A j \in Jobs : step'[j] = "off"
    BY <1>1
  <1>3. BackupTypeOK'
    BY <1>t, <1>1 DEF BackupTypeOK, Steps
  <1>4. Drilling' = {}
    BY <1>2 DEF Drilling
  <1>5. RowsAreStarted' /\ StepsFit' /\ UploadedIsKept' /\ DrillProvesItsBackup'
    BY <1>1, <1>2 DEF BackupInv, RowsAreStarted, StepsFit, UploadedIsKept, Done, Newer,
                      DrillProvesItsBackup, Trying
  <1>6. KeysAreWritten'
    BY <1>t, <1>1, <1>2, WrittenStays DEF BackupInv
  <1>7. LoneDrillOwnsScratch'
    BY <1>4 DEF LoneDrillOwnsScratch
  <1>8. MailedIsFailed'
    BY <1>1, <1>2 DEF BackupInv, MailedIsFailed
  <1> QED
    BY <1>3, <1>5, <1>6, <1>7, <1>8 DEF BackupInv

LEMMA BackupStep ==
    ASSUME BackupInv, [BackupNext]_backupVars
    PROVE  BackupInv'
  <1>1. CASE \E kind \in {"backup", "drill"} : StartJob(kind)
    BY <1>1, StartKeeps
  <1>2. ASSUME NEW j \in Jobs,
               \/ Upload(j) \/ Prune(j) \/ BackupSucceeds(j)
               \/ Download(j) \/ CreateScratch(j) \/ Restore(j) \/ DrillSucceeds(j)
               \/ JobFails(j) \/ Alert(j) \/ JobFailsUnrecorded(j) \/ DropScratch(j)
        PROVE  BackupInv'
    BY <1>2, UploadKeeps, PruneKeeps, BackupSucceedsKeeps, DownloadKeeps, CreateKeeps,
       RestoreKeeps, DrillSucceedsKeeps, FailsKeeps, LeavesKeeps
  <1>3. CASE BackupCrash
    BY <1>3, CrashKeeps
  <1>4. CASE UNCHANGED backupVars
    BY <1>4 DEF backupVars, BackupInv, BackupTypeOK, RowsAreStarted, StepsFit, KeysAreWritten,
               Written, UploadedIsKept, Done, Newer, LoneDrillOwnsScratch, Drilling,
               DrillProvesItsBackup, MailedIsFailed
  <1> QED
    BY <1>1, <1>2, <1>3, <1>4 DEF BackupNext

LEMMA BackupInvariance == BackupSpec => []BackupInv
  BY BackupInitInv, BackupStep, PTL DEF BackupSpec

\* The rows of backup_jobs, their steps and the sets of keys keep their types
\* through every overlap and restart.
THEOREM BackupTypeCorrect == BackupSpec => []BackupTypeOK
  BY BackupInvariance, PTL DEF BackupInv

\* What the table of jobs says is true, for every number of jobs at once and
\* every number of backups kept: a drill that met no other proves its backup,
\* a backup that succeeded is in the bucket or displaced by newer ones, and a
\* mail is about a row that reads failed.
THEOREM JobsSpeakTrue == BackupSpec => []JobsTellTheTruth
  <1>1. BackupInv => JobsTellTheTruth
    <2> SUFFICES ASSUME BackupInv PROVE JobsTellTheTruth
      OBVIOUS
    <2>1. SucceededIsKept
      BY DEF BackupInv, UploadedIsKept, Done, Newer, SucceededIsKept
    <2> QED
      BY <2>1 DEF BackupInv, JobsTellTheTruth
  <1> QED
    BY <1>1, BackupInvariance, PTL

-----------------------------------------------------------------------------
(***************************************************************************)
(* The three side by side, as the run checks them                          *)
(***************************************************************************)

PartIsNamed == part \in {"account", "signup", "backups"}

\* A behaviour of the run is one of each component, of which two stand still.
LEMMA PlatformParts == MCSpec => AccountSpec /\ SignUpSpec /\ BackupSpec /\ []PartIsNamed
  <1>1. MCInit => AccountInit /\ SignUpInit /\ BackupInit /\ PartIsNamed
    BY DEF MCInit, PartIsNamed
  <1>2. [MCNext]_<<accountVars, signUpVars, backupVars, part>>
        => /\ [AccountNext]_accountVars /\ [SignUpNext]_signUpVars /\ [BackupNext]_backupVars
           /\ PartIsNamed => PartIsNamed'
    BY DEF MCNext, PartIsNamed
  <1> QED
    BY <1>1, <1>2, PTL DEF MCSpec, AccountSpec, SignUpSpec, BackupSpec

\* Whatever is explored, its variables keep their types: among them the counter
\* of failed logins, below MAX_FAILED_LOGIN_ATTEMPTS in every stored row.
THEOREM PlatformTypeCorrect == MCSpec => []TypesOK
  <1>1. /\ AccountTypeOK /\ SignUpTypeOK /\ BackupTypeOK
        /\ PartIsNamed
        => TypesOK
    BY DEF TypesOK, PartIsNamed
  <1> QED
    BY <1>1, PlatformParts, AccountTypeCorrect, SignUpTypeCorrect, BackupTypeCorrect, PTL

\* All that the run checks on a small instance holds for every value of the
\* constants: lockouts are earned, sign-ups are whole, the table of jobs is
\* true, a revocation ends every session and identities stay.
THEOREM PlatformIsSound ==
    MCSpec => /\ [](LockoutNeedsFailures /\ SignUpsAreWhole /\ JobsTellTheTruth)
              /\ NoSessionOutlivesRevocation /\ IdentityStays
  BY PlatformParts, LockoutIsEarned, SignUpLeavesItWhole, JobsSpeakTrue, RevocationIsComplete,
     IdentityIsKept, PTL
=============================================================================
