----------------------------- MODULE JobLedger -----------------------------
(***************************************************************************)
(* What the ingestion_jobs table promises to whoever reads it: a row is    *)
(* opened as running and is closed once, with one of two outcomes.  A slot *)
(* of the table may be opened again after it was closed, never before.     *)
(***************************************************************************)
CONSTANT Jobs

VARIABLE status

LedgerInit == status = [j \in Jobs |-> "free"]

Open(j) ==
    /\ status[j] # "running"
    /\ status' = [status EXCEPT ![j] = "running"]

Close(closed, outcome) ==
    /\ \A j \in closed : status[j] = "running"
    /\ status' = [j \in Jobs |-> IF j \in closed THEN outcome ELSE status[j]]

LedgerNext ==
    \/ \E j \in Jobs : Open(j)
    \/ \E closed \in SUBSET Jobs, outcome \in {"succeeded", "failed"} : Close(closed, outcome)

LedgerSpec == LedgerInit /\ [][LedgerNext]_status
=============================================================================
