----------------------------- MODULE MCPlatform -----------------------------
(***************************************************************************)
(* One account, the sign-ups that create accounts, and the backups of the  *)
(* database.  They share no variable: a behaviour is one of the component  *)
(* that part names, so that their states add up instead of multiplying.    *)
(***************************************************************************)
EXTENDS Accounts, SignUp, Backups, TLC

VARIABLE part

MCInit == part \in {"account", "signup", "backups"} /\ AccountInit /\ SignUpInit /\ BackupInit

MCNext ==
    /\ UNCHANGED part
    /\ \/ part = "account" /\ AccountNext /\ UNCHANGED <<signUpVars, backupVars>>
       \/ part = "signup" /\ SignUpNext /\ UNCHANGED <<accountVars, backupVars>>
       \/ part = "backups" /\ BackupNext /\ UNCHANGED <<accountVars, signUpVars>>

MCSpec == MCInit /\ [][MCNext]_<<accountVars, signUpVars, backupVars, part>>

\* Requests and passwords are interchangeable.
Symmetry == Permutations(Requests) \cup Permutations(Passwords)

\* The variables of the components stay in their sets: in particular the
\* counter of failed logins, which the next failure compares with
\* MAX_FAILED_LOGIN_ATTEMPTS, never reaches it in a stored row.
TypesOK ==
    CASE part = "account" -> AccountTypeOK
      [] part = "signup" -> SignUpTypeOK
      [] part = "backups" -> BackupTypeOK
=============================================================================
