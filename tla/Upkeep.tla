------------------------------- MODULE Upkeep -------------------------------
(***************************************************************************)
(* Day after day: the cron jobs of start_scheduler (src/api/app/main.py)   *)
(* that make a backup and prove it restorable, and what the daily          *)
(* staleness check makes of the rows they leave (app/backup.py).  A run is *)
(* one step here, with the outcomes module Backups has in detail.  The two *)
(* kinds of runs meet in the clock and the process only, so a behaviour    *)
(* follows the rows of one of them.                                        *)
(***************************************************************************)
EXTENDS Integers

CONSTANT MaxDays        \* bound: days modelled

ASSUME MaxDaysIsNat == MaxDays \in Nat

VARIABLES
    day, hour,  \* the hour of the cron job that is due next
    apiUp,      \* the process with the scheduler runs
    configured, \* the storage credentials and the key are in its environment
    kind,       \* the kind of run this behaviour follows
    age,        \* hours since its last success, Never
    silent      \* history: checks since its last success or an alert about it

upkeepVars == <<day, hour, apiUp, configured, kind, age, silent>>

-----------------------------------------------------------------------------
Kinds == {"backup", "restore_drill"}
Never == -1
Day == 24
BackupHour == 3
DrillHour == 4          \* on Sundays, the days divisible by seven
StalenessHour == 6
HoursOfCron == {BackupHour, DrillHour, StalenessHour}
Sunday == day % 7 = 0

\* Mutant: backups are given the slack of the weekly drills.
ThresholdOfDrills == 240

\* threshold_hours of backup_health and restore_drill_health
Threshold == CASE kind = "backup" -> 48 [] kind = "restore_drill" -> 240

\* job_health
Health ==
    IF age = Never THEN "never_run"
    ELSE IF age > Threshold THEN "stale" ELSE "healthy"

UpkeepInit ==
    /\ day = 0 /\ hour = BackupHour
    /\ apiUp = TRUE /\ configured \in BOOLEAN
    /\ kind \in Kinds
    /\ age = Never /\ silent = 0

-----------------------------------------------------------------------------
\* The clock goes to the next cron job; what was not started is not made up for.
Aged(a, hours) == IF a = Never THEN Never ELSE a + hours
NextCron(h) == CASE h = BackupHour -> DrillHour [] h = DrillHour -> StalenessHour
Waits == hour' = NextCron(hour) /\ age' = Aged(age, NextCron(hour) - hour) /\ UNCHANGED day

Succeeds == hour' = NextCron(hour) /\ age' = NextCron(hour) - hour /\ silent' = 0 /\ UNCHANGED day

\* _alert in the except block
FailsMailed == Waits /\ silent' = 0

\* No mail: the run was killed, could not record its failure, or the mail was
\* lost (_alert without ALERT_EMAIL, an SMTP error that is swallowed).
FailsUnnoticed == Waits /\ UNCHANGED silent

Started == apiUp /\ configured

\* The cron jobs of the kind followed: backups daily, drills on Sundays
Due == \/ kind = "backup" /\ hour = BackupHour
       \/ kind = "restore_drill" /\ hour = DrillHour /\ Sunday

RunBackup ==
    /\ kind = "backup" /\ Due /\ Started
    /\ Succeeds \/ FailsMailed \/ FailsUnnoticed
    /\ UNCHANGED <<apiUp, configured, kind>>

RunDrill ==
    /\ kind = "restore_drill" /\ Due /\ Started
    /\ Succeeds \/ FailsMailed \/ FailsUnnoticed
    /\ UNCHANGED <<apiUp, configured, kind>>

\* The process is down, BackupConfigError is skipped, or it is not due.
RunsNothing ==
    /\ hour # StalenessHour
    /\ ~Started \/ ~Due
    /\ Waits
    /\ UNCHANGED <<apiUp, configured, kind, silent>>

\* check_staleness_and_alert, and the night after it.  Nothing that has never
\* run is stale.  Its mail counts as told when _alert is called: whether it
\* arrives is beyond the program.
StalenessCheck ==
    /\ hour = StalenessHour /\ day < MaxDays
    /\ silent' = CASE ~Started \/ Health = "never_run" -> silent
                   [] Started /\ Health = "stale" -> 0
                   [] Started /\ Health = "healthy" -> silent + 1
    /\ hour' = BackupHour /\ day' = day + 1
    /\ age' = Aged(age, Day - StalenessHour + BackupHour)
    /\ UNCHANGED <<apiUp, configured, kind>>

\* POST /admin/backup/run and /admin/backup/verify-restore
RunByHand ==
    /\ Started
    /\ age' = 0 /\ silent' = 0
    /\ UNCHANGED <<day, hour, apiUp, configured, kind>>

\* The process stops, or starts with what its environment holds then.
Stops == apiUp /\ apiUp' = FALSE /\ UNCHANGED <<day, hour, configured, kind, age, silent>>
Starts ==
    /\ ~apiUp /\ apiUp' = TRUE
    /\ configured' \in BOOLEAN
    /\ UNCHANGED <<day, hour, kind, age, silent>>

UpkeepNext ==
    \/ RunBackup \/ RunDrill \/ RunsNothing \/ StalenessCheck
    \/ RunByHand
    \/ Stops \/ Starts

UpkeepSpec == UpkeepInit /\ [][UpkeepNext]_upkeepVars

-----------------------------------------------------------------------------
UpkeepTypeOK ==
    /\ day \in 0..MaxDays /\ hour \in HoursOfCron
    /\ apiUp \in BOOLEAN /\ configured \in BOOLEAN
    /\ kind \in Kinds
    /\ age \in {Never} \cup 0..(Day * (MaxDays + 1))
    /\ silent \in 0..MaxDays

\* "The only way to catch total silence" (check_staleness_and_alert): a kind of
\* run that has succeeded once and then stops succeeding, by whatever mix of
\* failures, killed runs and hours the API was down, reaches the operator: no
\* more than three daily checks of backups, or eleven of drills, pass without
\* a success or an alert.
SilenceIsMailed == silent <= IF kind = "backup" THEN 3 ELSE 11
=============================================================================
