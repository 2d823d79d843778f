---------------------------- MODULE IngestionRun ----------------------------
(***************************************************************************)
(* Runs of the ingestion modules under src/api/app, with the transactions  *)
(* of their database session, the ingestion_jobs row each run keeps, the   *)
(* rotation cursors of SAM.gov, the end of the process at any moment and   *)
(* the reaper at the next startup.                                         *)
(*                                                                         *)
(* The modules come in three shapes:                                       *)
(*  paged    sam_gov: one query per NAICS code, each at its own offset     *)
(*           cursor; advancing a cursor commits; except rolls back.        *)
(*  listing  uk_ft, ted_eu, south_africa, colombia, prozorro, australia,   *)
(*           paraguay: one listing, one transaction; except does not roll  *)
(*           back.                                                         *)
(*  phased   canada_buys: open tenders (1), then award notices (2) whose   *)
(*           exceptions are caught; one transaction, no rollback.          *)
(*                                                                         *)
(* One process and one event loop, but any number of runs of a source at a *)
(* time: the scheduler starts them and so does an admin's request.         *)
(***************************************************************************)
EXTENDS Naturals

CONSTANTS
    Sources, Shape,     \* Shape[s]: "paged", "listing" or "phased"
    Workers,            \* sessions that can be inside a run
    Jobs, NoJob,        \* slots of ingestion_jobs; closed slots are reused
    NumCodes,           \* NAICS codes of a paged source (two phases of a phased one)
    GroupSize,          \* NAICS_GROUP_SIZE
    NumPages            \* pages of one query (SAM_GOV_OFFSET_GROUPS at most)

ASSUME ShapeAssumption == Shape \in [Sources -> {"paged", "listing", "phased"}]
ASSUME SourcesExist == Sources # {}
ASSUME NoJobAssumption == NoJob \notin Jobs
ASSUME SizeAssumption ==
    NumCodes \in Nat \ {0, 1} /\ GroupSize \in Nat \ {0} /\ NumPages \in Nat \ {0}

VARIABLES
    up,         \* is the API process running
    job,        \* job[j]: the row in slot j
    stored,     \* stored[s]: committed pages of programmes of source s
    offset,     \* offset[c]: SAM_GOV_OFFSET_<c> in ingestion_rotation_state
    rotation,   \* SAM_GOV_NAICS_ROTATION in ingestion_rotation_state
    run         \* run[w]: local variables and open transaction of worker w

ingestionVars == <<up, job, stored, offset, rotation, run>>

-----------------------------------------------------------------------------
Codes == 1..NumCodes
Pages == Codes \X (0..NumPages - 1)
TotalGroups == (NumCodes + GroupSize - 1) \div GroupSize

\* get_naics_group
Group(index) ==
    {c \in Codes : c > (index % TotalGroups) * GroupSize
                /\ c <= ((index % TotalGroups) + 1) * GroupSize}

\* Mutants of advance_rotation_index: never reduced; never past the last one.
NextIndexUnreduced(index, groups) == index + 1
NextIndexSaturating(index, groups) == IF index + 1 = groups THEN index ELSE index + 1

\* advance_rotation_index: one UPSERT, reading and writing in one statement
NextIndex(index, groups) == (index + 1) % groups

AnySource == CHOOSE s \in Sources : TRUE

JobRow == [source : Sources, status : {"free", "running", "succeeded", "failed"},
           ingested : SUBSET Pages]
FreeRow == [source |-> AnySource, status |-> "free", ingested |-> {}]

Resting == [pc |-> "idle", job |-> NoJob, source |-> AnySource,
            rotates |-> FALSE, todo |-> {}, code |-> 1, at |-> 0, batch |-> {}, pending |-> {},
            ingested |-> {}, errors |-> FALSE, poisoned |-> FALSE]
Run == [pc : {"idle", "query", "wait", "upsert", "finish", "except", "rotate"},
        job : Jobs \cup {NoJob}, source : Sources,
        rotates : BOOLEAN,           \* used_rotation
        todo : SUBSET Codes,         \* codes or phases not yet finished
        code : Codes,                \* the one in progress
        at : 0..NumPages - 1,        \* the offset read for the current query
        batch : SUBSET Pages,        \* fetched, not yet upserted
        pending : SUBSET Pages,      \* upserted, not yet committed
        ingested : SUBSET Pages,     \* total_ingested
        errors : BOOLEAN, poisoned : BOOLEAN]

\* Mutant: no except clause rolls back.
RollsBackNever(s) == FALSE

\* SAM.gov's except clause rolls back first, the others go on in the
\* transaction that failed.
RollsBack(s) == Shape[s] = "paged"

IngestionInit ==
    /\ up = TRUE
    /\ job = [j \in Jobs |-> FreeRow]
    /\ stored = [s \in Sources |-> {}]
    /\ offset = [c \in Codes |-> 0]
    /\ rotation = 0
    /\ run = [w \in Workers |-> Resting]

-----------------------------------------------------------------------------
\* The row is inserted as running and committed before anything is fetched.
Begin(w, s, j, rotates, todo) ==
    /\ up /\ run[w].pc = "idle" /\ job[j].status # "running"
    /\ job' = [job EXCEPT ![j] = [source |-> s, status |-> "running", ingested |-> {}]]
    /\ run' = [run EXCEPT ![w] =
           [Resting EXCEPT !.pc = IF todo = {} THEN "finish" ELSE "query",
                           !.job = j, !.source = s, !.rotates = rotates, !.todo = todo]]
    /\ UNCHANGED <<up, stored, offset, rotation>>

\* Without explicit codes a paged run takes the group the cursor points at.
StartPaged(w, s, j) ==
    /\ Shape[s] = "paged"
    /\ \/ Begin(w, s, j, TRUE, Group(rotation))
       \/ \E codes \in SUBSET Codes : Begin(w, s, j, FALSE, codes)

\* Open tenders, and for canada_buys the award notices after them
Phases(s) == IF Shape[s] = "phased" THEN {1, 2} ELSE {1}
StartListing(w, s, j) == Shape[s] # "paged" /\ Begin(w, s, j, FALSE, Phases(s))

\* What follows when the current code or phase needs nothing more
Advance(r) ==
    LET left == r.todo \ {r.code} IN
    [r EXCEPT !.todo = left, !.code = 1, !.at = 0, !.pc = IF left = {} THEN "finish" ELSE "query"]

\* Read the offset cursor of the next code, in the order they were asked for,
\* and send the request for that page.  Phases come in their order.
SendQuery(w, c) ==
    LET r == run[w] IN
    /\ up /\ r.pc = "query" /\ c \in r.todo
    /\ Shape[r.source] = "phased" => \A d \in r.todo : c <= d
    /\ run' = [run EXCEPT ![w].pc = "wait", ![w].code = c,
                          ![w].at = IF Shape[r.source] = "paged" THEN offset[c] ELSE 0]
    /\ UNCHANGED <<up, job, stored, offset, rotation>>

\* The cursor moves as soon as the page is here, and that commits the session:
\* the pages of earlier codes become visible.
PageArrives(w) ==
    LET r == run[w] IN
    /\ up /\ r.pc = "wait" /\ Shape[r.source] = "paged"
    /\ offset' = [offset EXCEPT ![r.code] = NextIndex(@, NumPages)]
    /\ stored' = [stored EXCEPT ![r.source] = @ \cup r.pending]
    /\ run' = [run EXCEPT ![w].pc = "upsert", ![w].pending = {},
                          ![w].batch = {<<r.code, r.at>>}]
    /\ UNCHANGED <<up, job, rotation>>

\* A listing stops at its first failing page and keeps the pages before it.
ListingArrives(w, n, failed) ==
    LET r == [run[w] EXCEPT !.errors = @ \/ failed] IN
    /\ up /\ r.pc = "wait" /\ Shape[r.source] # "paged"
    /\ run' = [run EXCEPT ![w] =
           IF n = 0 THEN Advance(r)
           ELSE [r EXCEPT !.pc = "upsert", !.batch = {r.code} \X (0..n - 1)]]
    /\ UNCHANGED <<up, job, stored, offset, rotation>>

\* HTTPStatusError or RequestError of one code: noted, and on to the next.
QueryFails(w) ==
    /\ up /\ run[w].pc = "wait" /\ Shape[run[w].source] = "paged"
    /\ run' = [run EXCEPT ![w] = Advance([run[w] EXCEPT !.errors = TRUE])]
    /\ UNCHANGED <<up, job, stored, offset, rotation>>

Upsert(w, page) ==
    LET r == [run[w] EXCEPT !.batch = @ \ {page}, !.pending = @ \cup {page},
                            !.ingested = @ \cup {page}] IN
    /\ up /\ run[w].pc = "upsert" /\ page \in run[w].batch
    /\ run' = [run EXCEPT ![w] = IF r.batch = {} THEN Advance(r) ELSE r]
    /\ UNCHANGED <<up, job, stored, offset, rotation>>

\* An exception while fetching or writing.  A failed statement poisons the
\* transaction.  The award phase of a phased source catches what it raises and
\* goes on to the final update; every other exception reaches the except clause.
Raise(w, statementFailed) ==
    LET r == run[w] IN
    /\ up /\ r.pc \in {"wait", "upsert"}
    /\ statementFailed => r.pc = "upsert"
    /\ run' = [run EXCEPT
           ![w].poisoned = statementFailed, ![w].errors = TRUE,
           ![w].code = 1, ![w].at = 0, ![w].batch = {},
           ![w].pc = IF Shape[r.source] = "phased" /\ r.code = 2
                     THEN "finish" ELSE "except"]
    /\ UNCHANGED <<up, job, stored, offset, rotation>>

Outcome(r) == IF r.errors /\ r.ingested = {} THEN "failed" ELSE "succeeded"

\* Mutant: the job is closed in a transaction of its own and the session then
\* ends without a commit.
FinishUncommitted(w) ==
    LET r == run[w] IN
    /\ up /\ r.pc = "finish" /\ ~r.poisoned
    /\ job' = [job EXCEPT ![r.job].status = Outcome(r), ![r.job].ingested = r.ingested]
    /\ run' = [run EXCEPT ![w] = IF r.rotates
                                 THEN [r EXCEPT !.pc = "rotate", !.pending = {}]
                                 ELSE Resting]
    /\ UNCHANGED <<up, stored, offset, rotation>>

\* The final update of the job and the commit of everything pending.
Finish(w) ==
    LET r == run[w] IN
    /\ up /\ r.pc = "finish" /\ ~r.poisoned
    /\ job' = [job EXCEPT ![r.job].status = Outcome(r), ![r.job].ingested = r.ingested]
    /\ stored' = [stored EXCEPT ![r.source] = @ \cup r.pending]
    /\ run' = [run EXCEPT ![w] = IF r.rotates
                                 THEN [r EXCEPT !.pc = "rotate", !.pending = {}]
                                 ELSE Resting]
    /\ UNCHANGED <<up, offset, rotation>>

\* In a poisoned transaction the final update is itself a failed statement.
FinishRefused(w) ==
    /\ up /\ run[w].pc = "finish" /\ run[w].poisoned
    /\ run' = [run EXCEPT ![w].pc = "except"]
    /\ UNCHANGED <<up, job, stored, offset, rotation>>

\* except: mark the job failed and commit.  With a rollback nothing pending
\* survives; without one, what was pending is committed with the mark.
MarkFailed(w) ==
    LET r == run[w] IN
    /\ up /\ r.pc = "except" /\ (r.poisoned => RollsBack(r.source))
    /\ job' = [job EXCEPT ![r.job].status = "failed"]
    /\ stored' = [stored EXCEPT ![r.source] =
           IF RollsBack(r.source) THEN @ ELSE @ \cup r.pending]
    /\ run' = [run EXCEPT ![w] = Resting]
    /\ UNCHANGED <<up, offset, rotation>>

\* except, poisoned and without a rollback: the update raises too, the session
\* closes, everything pending is lost and the row stays as it is.
ExceptRefused(w) ==
    LET r == run[w] IN
    /\ up /\ r.pc = "except" /\ r.poisoned /\ ~RollsBack(r.source)
    /\ run' = [run EXCEPT ![w] = Resting]
    /\ UNCHANGED <<up, job, stored, offset, rotation>>

Rotate(w) ==
    /\ up /\ run[w].pc = "rotate"
    /\ rotation' = NextIndex(rotation, TotalGroups)
    /\ run' = [run EXCEPT ![w] = Resting]
    /\ UNCHANGED <<up, job, stored, offset>>

\* The process ends: sessions and open transactions are gone.
Crash ==
    /\ up
    /\ up' = FALSE
    /\ run' = [w \in Workers |-> Resting]
    /\ UNCHANGED <<job, stored, offset, rotation>>

\* Mutant: the reaper forgets "where status = 'running'".
RestartFailsAll ==
    /\ ~up
    /\ up' = TRUE
    /\ job' = [j \in Jobs |-> [job[j] EXCEPT !.status = "failed"]]
    /\ UNCHANGED <<stored, offset, rotation, run>>

\* Mutant: the reaper runs from time to time, not only at startup.
RestartAnytime ==
    /\ up' = TRUE
    /\ job' = [j \in Jobs |-> IF job[j].status = "running"
                              THEN [job[j] EXCEPT !.status = "failed"] ELSE job[j]]
    /\ UNCHANGED <<stored, offset, rotation, run>>

\* Mutant: nothing is reaped.
RestartWithoutReaper ==
    /\ ~up
    /\ up' = TRUE
    /\ UNCHANGED <<job, stored, offset, rotation, run>>

\* _reap_orphaned_ingestion_jobs, then the scheduler starts.
Restart ==
    /\ ~up
    /\ up' = TRUE
    /\ job' = [j \in Jobs |-> IF job[j].status = "running"
                              THEN [job[j] EXCEPT !.status = "failed"] ELSE job[j]]
    /\ UNCHANGED <<stored, offset, rotation, run>>

\* The steps of a run that has started
Progress(w) ==
    \/ \E c \in Codes : SendQuery(w, c)
    \/ PageArrives(w) \/ QueryFails(w)
    \/ \E n \in 0..NumPages, failed \in BOOLEAN : ListingArrives(w, n, failed)
    \/ \E page \in run[w].batch : Upsert(w, page)
    \/ Finish(w) \/ FinishRefused(w)
    \/ MarkFailed(w) \/ ExceptRefused(w) \/ Rotate(w)
    \/ \E statementFailed \in BOOLEAN : Raise(w, statementFailed)

IngestionNext ==
    \/ \E w \in Workers, s \in Sources, j \in Jobs :
           StartPaged(w, s, j) \/ StartListing(w, s, j)
    \/ \E w \in Workers : Progress(w)
    \/ Crash \/ Restart

\* Every request has a timeout and every statement answers, so a run that has
\* started takes its next step; docker restarts a dead process.  Nothing is
\* assumed of the scheduler, of users, or of what the sources answer.
IngestionSpec == IngestionInit /\ [][IngestionNext]_ingestionVars
FairSpec ==
    /\ IngestionSpec /\ WF_ingestionVars(Restart)
    /\ \A w \in Workers : WF_ingestionVars(Progress(w))

-----------------------------------------------------------------------------
IngestionTypeOK ==
    /\ up \in BOOLEAN
    /\ job \in [Jobs -> JobRow]
    /\ stored \in [Sources -> SUBSET Pages]
    /\ offset \in [Codes -> 0..NumPages - 1]
    /\ rotation \in 0..TotalGroups - 1
    /\ run \in [Workers -> Run]

Active(w) == run[w].pc \notin {"idle", "rotate"}

\* Two runs never share a row, and a row a live run still has to close is
\* running: nobody else, and in particular not the reaper, has closed it
\* (main.py 358-383: "provably orphaned from a previous process").
RowHasOneOwner ==
    /\ \A v, w \in Workers : Active(v) /\ Active(w) /\ run[v].job = run[w].job => v = w
    /\ \A w \in Workers : Active(w) => job[run[w].job].status = "running"

\* What the invariants above and below rest on: a run has a row of its own
\* source, and what it counts is committed or pending; none is left when the
\* process is gone; and only a run on its way out can be poisoned.
RunsAreSound ==
    \A w \in Workers :
        /\ Active(w) => /\ run[w].job \in Jobs
                        /\ job[run[w].job].source = run[w].source
                        /\ run[w].ingested \subseteq stored[run[w].source] \cup run[w].pending
        /\ ~up => run[w].pc = "idle"
        /\ run[w].poisoned => run[w].pc \in {"finish", "except"}

\* A row that reads succeeded tells the truth: every page it counts has been
\* committed, whatever other runs, failures and crashes came in between.
SucceededIsStored ==
    \A j \in Jobs : job[j].status = "succeeded" =>
        job[j].ingested \subseteq stored[job[j].source]

IngestionInv == IngestionTypeOK /\ RowHasOneOwner /\ RunsAreSound /\ SucceededIsStored

\* A SAM.gov job never stays running: every failure is handled, and the reaper
\* closes what a dead process left (sam_gov_ingestion.py 302-316, main.py 358-383).
RollingBackJobEnds ==
    \A w \in Workers, j \in Jobs :
        (Active(w) /\ run[w].job = j /\ Shape[run[w].source] = "paged")
            ~> job[j].status # "running"

\* A row of any source that is still running when the process is gone does not
\* stay so: the reaper of the next startup closes it (main.py 358-383).
OrphanIsReaped ==
    \A j \in Jobs : (~up /\ job[j].status = "running") ~> job[j].status # "running"

\* As long as pages of a code keep arriving, each page of that code does, however
\* often a crash or an error in between loses one: the cursor comes round again.
\* It needs runs of the source not to overlap, one worker in the run that checks
\* it (sam_gov_ingestion.py 186-218, ingestion_common.py 195-218).
Arrives(c, pages) == \E w \in Workers : run[w].batch # {} /\ run[w].batch \subseteq {c} \X pages
                                        /\ Shape[run[w].source] = "paged"
RotationReachesEveryPage ==
    \A c \in Codes, i \in 0..NumPages - 1 :
        ([]<>Arrives(c, 0..NumPages - 1)) => ([]<>Arrives(c, {i}))

\* Seen from outside, the table is a ledger: rows are opened and closed once.
Ledger == INSTANCE JobLedger WITH status <- [j \in Jobs |-> job[j].status]
LedgerSpec == Ledger!LedgerSpec

\* canada_buys_ingestion.py 271-273: "a problem here must not undo the
\* open-tenders phase that already committed."
AwardPhaseUndoesNothing ==
    [][\A w \in Workers :
         (/\ Shape[run[w].source] = "phased"
          /\ run[w].pc # "idle" /\ run'[w].pc = "idle" /\ up'
          /\ 1 \notin run[w].todo)
            => {p \in run[w].ingested : p[1] = 1} \subseteq stored'[run[w].source]]_ingestionVars
=============================================================================
