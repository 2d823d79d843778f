---------------------------- MODULE KeyRotation ----------------------------
(***************************************************************************)
(* The encrypted columns of tenants (app/pii_encryption.py, PATCH          *)
(* /company/profile) and the script that moves them to another key         *)
(* (scripts/rotate_encryption_key.py), which runs while the API serves     *)
(* requests with the old key.  users.mfa_secret is rotated the same way.   *)
(***************************************************************************)
CONSTANTS
    Companies, Columns,     \* rows and encrypted columns of tenants
    Numbers, NoNumber       \* registration numbers; null

ASSUME NoNumberIsNoNumber == NoNumber \notin Numbers

VARIABLES
    cell,       \* cell[t][c]: the number stored and the key it is stored under
    appKey,     \* the key the running API has
    fresh,      \* a backup has succeeded within the last hour
    script,     \* where the rotation is
    copy,       \* what it has read and re-encrypted in memory
    saved,      \* history: saved[t][c], what the company last entered
    meanwhile   \* history: companies that saved between the read and the restart

rotationVars == <<cell, appKey, fresh, script, copy, saved, meanwhile>>

-----------------------------------------------------------------------------
Keys == {"old", "new"}
Cell == [number : Numbers \cup {NoNumber}, key : Keys]
Table == [Companies -> [Columns -> Cell]]
Null == [number |-> NoNumber, key |-> "old"]

RotationInit ==
    /\ cell = [t \in Companies |-> [c \in Columns |-> Null]]
    /\ appKey = "old" /\ fresh = FALSE /\ script = "idle"
    /\ copy = cell
    /\ saved = [t \in Companies |-> [c \in Columns |-> NoNumber]]
    /\ meanwhile = {}

\* update_company_profile: coalesce(:number, number), encrypted by the API
Save(t, c, n) ==
    /\ cell' = [cell EXCEPT ![t][c] = [number |-> n, key |-> appKey]]
    /\ saved' = [saved EXCEPT ![t][c] = n]
    /\ meanwhile' = IF script \in {"read", "committed"} THEN meanwhile \cup {t} ELSE meanwhile
    /\ UNCHANGED <<appKey, fresh, script, copy>>

\* backup_jobs: a backup succeeds; an hour passes.
BackUp == fresh' = ~fresh /\ UNCHANGED <<cell, appKey, script, copy, saved, meanwhile>>

\* decrypt_field raises for any other key.
Decryptable(x, key) == x.number = NoNumber \/ x.key = key
Reencrypted(x) == [x EXCEPT !.key = "new"]

\* Mutant: only one of the columns is looked at.
RotateReadFirstColumn ==
    LET one == CHOOSE c \in Columns : TRUE
    IN /\ script = "idle" /\ fresh
       /\ \A t \in Companies : Decryptable(cell[t][one], "old")
       /\ script' = "read"
       /\ copy' = [t \in Companies |-> [cell[t] EXCEPT ![one] = Reencrypted(@)]]
       /\ UNCHANGED <<cell, appKey, fresh, saved, meanwhile>>

\* rotate --execute up to the updates: without a row there is nothing to do,
\* one row under another key aborts it with nothing written.
RotateRead ==
    /\ script = "idle" /\ fresh
    /\ \E t \in Companies, c \in Columns : cell[t][c].number # NoNumber
    /\ \A t \in Companies, c \in Columns : Decryptable(cell[t][c], "old")
    /\ script' = "read"
    /\ copy' = [t \in Companies |-> [c \in Columns |-> Reencrypted(cell[t][c])]]
    /\ UNCHANGED <<cell, appKey, fresh, saved, meanwhile>>

\* Every row that had a number when it was read is written as a whole.
RotateCommit ==
    /\ script = "read"
    /\ script' = "committed"
    /\ cell' = [t \in Companies |->
                  IF \E c \in Columns : copy[t][c].number # NoNumber THEN copy[t] ELSE cell[t]]
    /\ UNCHANGED <<appKey, fresh, copy, saved, meanwhile>>

\* The script is killed, or was a dry run.
RotateEnds ==
    /\ script = "read"
    /\ script' = "idle"
    /\ meanwhile' = {}
    /\ UNCHANGED <<cell, appKey, fresh, copy, saved>>

\* Steps 1 and 2 of the script's docstring: the new key in .env, and a restart
Restart ==
    /\ script = "committed"
    /\ script' = "restarted" /\ appKey' = "new"
    /\ UNCHANGED <<cell, fresh, copy, saved, meanwhile>>

RotationNext ==
    \/ \E t \in Companies, c \in Columns, n \in Numbers : Save(t, c, n)
    \/ BackUp \/ RotateRead \/ RotateCommit \/ RotateEnds \/ Restart

RotationSpec == RotationInit /\ [][RotationNext]_rotationVars

-----------------------------------------------------------------------------
RotationTypeOK ==
    /\ cell \in Table /\ copy \in Table
    /\ appKey \in Keys /\ fresh \in BOOLEAN
    /\ script \in {"idle", "read", "committed", "restarted"}
    /\ saved \in [Companies -> [Columns -> Numbers \cup {NoNumber}]]
    /\ meanwhile \in SUBSET Companies

\* Through a rotation and the restart after it a company that saved nothing in
\* between keeps each of its numbers, and the API can read it.
QuietCompaniesSurvive ==
    script \in {"idle", "restarted"} => \A t \in Companies \ meanwhile : \A c \in Columns :
        cell[t][c].number = saved[t][c] /\ Decryptable(cell[t][c], appKey)

\* "Never a partial rotation with some rows on the old key and some on the new
\* one" (the script's docstring).  The code does not show it: a number entered
\* between the read and the commit stays under the old key.
RotationIsWhole ==
    [][script # "committed" /\ script' = "committed"
       => \A t \in Companies, c \in Columns : Decryptable(cell'[t][c], "new")]_rotationVars
=============================================================================
