------------------------------ MODULE Backups ------------------------------
(***************************************************************************)
(* Backups and restore drills (app/backup.py): jobs of the table           *)
(* backup_jobs, the daily/ keys of the bucket, the scratch database a      *)
(* drill restores into, and the mails to the operator.  The scheduler      *)
(* starts at most one of a kind, an administrator may start another at any *)
(* time.  A restart of the API kills what runs; backup_jobs has no reaper. *)
(***************************************************************************)
EXTENDS Naturals, FiniteSets

CONSTANTS
    BackupRuns,     \* bound: job rows, numbered in the order they start
    AtOnce,         \* bound: jobs that run at the same time
    Keep            \* DAILY_RETENTION

ASSUME BackupAssumptions == BackupRuns \in Nat /\ AtOnce \in Nat /\ Keep \in Nat \ {0}

VARIABLES
    started,    \* job rows so far
    job,        \* job[j]: kind, status and storage_key of a row
    step,       \* step[j]: where the process of job j is
    bucket,     \* keys under daily/: the number of the job that wrote each
    broken,     \* keys that cannot be restored
    scratch,    \* keys restored into RESTORE_DRILL_DB, {0} for an empty one,
                \* {} when the database does not exist
    mailSent,   \* jobs whose failure was mailed to the operator
    overlapped  \* history: drills that ran at the same time as another

backupVars == <<started, job, step, bucket, broken, scratch, mailSent, overlapped>>

-----------------------------------------------------------------------------
Jobs == 1..BackupRuns
NoJob == [kind |-> "none", status |-> "none", key |-> 0]
JobRow == [kind : {"backup", "drill"}, status : {"running", "succeeded", "failed"},
           key : 0..BackupRuns]

\* Inside the try block, in the except block with the failure committed, and
\* in the finally block of a drill
Trying == {"begun", "uploaded", "pruned", "downloaded", "created", "restored"}
Steps == Trying \cup {"off", "failed", "closing"}
Newest(keys) == CHOOSE k \in keys : \A l \in keys : l <= k
Drilling == {j \in Jobs : job[j].kind = "drill" /\ step[j] # "off"}

BackupInit ==
    /\ started = 0
    /\ job = [j \in Jobs |-> NoJob] /\ step = [j \in Jobs |-> "off"]
    /\ bucket = {} /\ broken = {} /\ scratch = {}
    /\ mailSent = {} /\ overlapped = {}

\* run_backup, run_restore_drill: the row is committed as running first.
StartJob(kind) ==
    /\ started < BackupRuns /\ Cardinality({j \in Jobs : step[j] # "off"}) < AtOnce
    /\ started' = started + 1
    /\ job' = [job EXCEPT ![started'] = [kind |-> kind, status |-> "running", key |-> 0]]
    /\ step' = [step EXCEPT ![started'] = "begun"]
    /\ overlapped' = IF kind = "drill" /\ Drilling # {}
                     THEN overlapped \cup Drilling \cup {started'} ELSE overlapped
    /\ UNCHANGED <<bucket, broken, scratch, mailSent>>

\* pg_dump, encryption and upload.  The key is the start time of the job; the
\* dump may turn out to be unusable.
Upload(j) ==
    /\ job[j].kind = "backup" /\ step[j] = "begun"
    /\ bucket' = bucket \cup {j}
    /\ broken' \in {broken, broken \cup {j}}
    /\ step' = [step EXCEPT ![j] = "uploaded"]
    /\ UNCHANGED <<started, job, scratch, mailSent, overlapped>>

Older(keys, n) == {k \in keys : Cardinality({l \in keys : l > k}) >= n}

\* _prune_old_backups; monthly/ keys are pruned the same way.
Prune(j) ==
    /\ job[j].kind = "backup" /\ step[j] = "uploaded"
    /\ bucket' = bucket \ Older(bucket, Keep)
    /\ step' = [step EXCEPT ![j] = "pruned"]
    /\ UNCHANGED <<started, job, broken, scratch, mailSent, overlapped>>

BackupSucceeds(j) ==
    /\ job[j].kind = "backup" /\ step[j] = "pruned"
    /\ job' = [job EXCEPT ![j].status = "succeeded", ![j].key = j]
    /\ step' = [step EXCEPT ![j] = "off"]
    /\ UNCHANGED <<started, bucket, broken, scratch, mailSent, overlapped>>

\* The drill downloads the newest key; the archive it validates with
\* pg_restore --list may still be unusable.
Download(j) ==
    /\ job[j].kind = "drill" /\ step[j] = "begun" /\ bucket # {}
    /\ job' = [job EXCEPT ![j].key = Newest(bucket)]
    /\ step' = [step EXCEPT ![j] = "downloaded"]
    /\ UNCHANGED <<started, bucket, broken, scratch, mailSent, overlapped>>

\* Mutant: what an earlier drill has left is restored over.
CreateScratchUnlessThere(j) ==
    /\ job[j].kind = "drill" /\ step[j] = "downloaded"
    /\ scratch' = IF scratch = {} THEN {0} ELSE scratch
    /\ step' = [step EXCEPT ![j] = "created"]
    /\ UNCHANGED <<started, job, bucket, broken, mailSent, overlapped>>

\* dropdb --if-exists, createdb
CreateScratch(j) ==
    /\ job[j].kind = "drill" /\ step[j] = "downloaded"
    /\ scratch' = {0}
    /\ step' = [step EXCEPT ![j] = "created"]
    /\ UNCHANGED <<started, job, bucket, broken, mailSent, overlapped>>

\* pg_restore, whose exit code is not looked at
Restore(j) ==
    /\ job[j].kind = "drill" /\ step[j] = "created"
    /\ scratch' = IF scratch = {} \/ job[j].key \in broken THEN scratch
                  ELSE scratch \cup {job[j].key}
    /\ step' = [step EXCEPT ![j] = "restored"]
    /\ UNCHANGED <<started, job, bucket, broken, mailSent, overlapped>>

\* Where the process goes when its row is committed: a drill has a finally
\* block with an effect.
Leaves(j) == step' = [step EXCEPT ![j] = IF job[j].kind = "drill" THEN "closing" ELSE "off"]

\* The counts of the four tables agree: some dump is in the scratch database.
DrillSucceeds(j) ==
    /\ job[j].kind = "drill" /\ step[j] = "restored"
    /\ scratch \ {0} # {}
    /\ job' = [job EXCEPT ![j].status = "succeeded"]
    /\ Leaves(j)
    /\ UNCHANGED <<started, bucket, broken, scratch, mailSent, overlapped>>

\* The except block commits failed; the mail comes after it.
JobFails(j) ==
    /\ step[j] \in Trying
    /\ job' = [job EXCEPT ![j].status = "failed"]
    /\ step' = [step EXCEPT ![j] = "failed"]
    /\ UNCHANGED <<started, bucket, broken, scratch, mailSent, overlapped>>

\* _alert: without ALERT_EMAIL, or when the SMTP server refuses, which is
\* swallowed, no mail is sent.
Alert(j) ==
    /\ step[j] = "failed"
    /\ mailSent' \in {mailSent, mailSent \cup {j}}
    /\ Leaves(j)
    /\ UNCHANGED <<started, job, bucket, broken, scratch, overlapped>>

\* The update of the except block fails as well (the database is what has
\* failed, or the transaction is aborted: there is no rollback before it).
\* The row stays running and no mail is sent.
JobFailsUnrecorded(j) ==
    /\ step[j] \in Trying
    /\ Leaves(j)
    /\ UNCHANGED <<started, job, bucket, broken, scratch, mailSent, overlapped>>

\* finally: dropdb, whose exit code is not looked at; another drill that is
\* connected makes it fail.
DropScratch(j) ==
    /\ step[j] = "closing"
    /\ scratch' \in {scratch, {}}
    /\ step' = [step EXCEPT ![j] = "off"]
    /\ UNCHANGED <<started, job, bucket, broken, mailSent, overlapped>>

\* The API restarts: nothing of what runs is cleaned up.
BackupCrash ==
    /\ \E j \in Jobs : step[j] # "off"
    /\ step' = [j \in Jobs |-> "off"]
    /\ UNCHANGED <<started, job, bucket, broken, scratch, mailSent, overlapped>>

BackupNext ==
    \/ \E kind \in {"backup", "drill"} : StartJob(kind)
    \/ \E j \in Jobs :
        \/ Upload(j) \/ Prune(j) \/ BackupSucceeds(j)
        \/ Download(j) \/ CreateScratch(j) \/ Restore(j) \/ DrillSucceeds(j)
        \/ JobFails(j) \/ Alert(j) \/ JobFailsUnrecorded(j) \/ DropScratch(j)
    \/ BackupCrash

BackupSpec == BackupInit /\ [][BackupNext]_backupVars

-----------------------------------------------------------------------------
BackupTypeOK ==
    /\ started \in 0..BackupRuns
    /\ job \in [Jobs -> JobRow \cup {NoJob}]
    /\ step \in [Jobs -> Steps]
    /\ bucket \subseteq Jobs /\ broken \subseteq Jobs /\ scratch \subseteq 0..BackupRuns
    /\ mailSent \subseteq Jobs /\ overlapped \subseteq Jobs

\* A drill that succeeded has proved its backup restorable, whatever earlier
\* drills left behind when they crashed; of two drills that overlap one may
\* have counted the rows the other restored.
DrillProvesItsBackup ==
    \A j \in Jobs \ overlapped :
        job[j].kind = "drill" /\ job[j].status = "succeeded" => job[j].key \notin broken

\* A backup reported as succeeded is in the bucket or has been displaced by as
\* many newer ones as are kept, however backups overlap.
SucceededIsKept ==
    \A j \in Jobs :
        job[j].kind = "backup" /\ job[j].status = "succeeded"
        => j \in bucket \/ Cardinality({k \in bucket : k > j}) >= Keep

\* A mail is about a row that reads failed, also when the process dies between
\* the two; the other direction the code does not give.
MailedIsFailed == \A j \in mailSent : job[j].status = "failed"

\* What the table of jobs says is true, in whatever order backups, drills,
\* failures, restarts and prunings overlap.
JobsTellTheTruth == DrillProvesItsBackup /\ SucceededIsKept /\ MailedIsFailed
=============================================================================
