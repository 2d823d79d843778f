------------------------- MODULE IngestionRun_proofs -------------------------
(***************************************************************************)
(* For any sources of any shapes, any number of overlapping runs, any      *)
(* failures and crashes: job rows have one owner and tell the truth, an    *)
(* aborted transaction shows nothing, and the table is a ledger.           *)
(***************************************************************************)
EXTENDS IngestionRun, TLAPS

USE ShapeAssumption, SourcesExist, NoJobAssumption, SizeAssumption

\* A cursor stays below the number of its positions.
LEMMA NextIndexBelow ==
    ASSUME NEW i \in Nat, NEW n \in Nat \ {0}
    PROVE  NextIndex(i, n) \in 0..n - 1
  BY DEF NextIndex

LEMMA TotalGroupsPositive == TotalGroups \in Nat \ {0}
  BY DEF TotalGroups

LEMMA CodesAndPages ==
    /\ 1 \in Codes /\ 2 \in Codes
    /\ 0 \in 0..NumPages - 1
    /\ \A c \in Codes, n \in 0..NumPages : {c} \X (0..n - 1) \subseteq Pages
    /\ \A c \in Codes, i \in 0..NumPages - 1 : <<c, i>> \in Pages
  BY DEF Codes, Pages

LEMMA RestingIsRun == Resting \in Run /\ FreeRow \in JobRow /\ AnySource \in Sources
<1>1. AnySource \in Sources
  BY DEF AnySource
<1> QED
  BY <1>1, CodesAndPages DEF Resting, Run, FreeRow, JobRow

\* What Advance keeps and what it changes
LEMMA AdvanceIsRun ==
    ASSUME NEW r \in Run
    PROVE  /\ Advance(r) \in Run
           /\ Advance(r).pc \in {"query", "finish"}
           /\ Advance(r).job = r.job /\ Advance(r).source = r.source
           /\ Advance(r).ingested = r.ingested /\ Advance(r).pending = r.pending
           /\ Advance(r).poisoned = r.poisoned
  BY CodesAndPages DEF Advance, Run

LEMMA InitIInv == IngestionInit => IngestionInv
<1> SUFFICES ASSUME IngestionInit PROVE IngestionInv
  OBVIOUS
<1>1. IngestionTypeOK
  BY RestingIsRun, CodesAndPages, TotalGroupsPositive DEF IngestionInit, IngestionTypeOK
<1>2. RowHasOneOwner /\ RunsAreSound /\ SucceededIsStored
  BY DEF IngestionInit, RowHasOneOwner, RunsAreSound, SucceededIsStored, Active, Resting, FreeRow
<1> QED
  BY <1>1, <1>2 DEF IngestionInv

-----------------------------------------------------------------------------
\* A step inside one run that leaves the job rows alone: it goes on with its
\* row and source, or it lets go.
LEMMA RunStepKeeps ==
    ASSUME IngestionInv, NEW w \in Workers, NEW r \in Run,
           up, UNCHANGED <<up, job>>,
           run' = [run EXCEPT ![w] = r],
           offset' \in [Codes -> 0..NumPages - 1],
           rotation' \in 0..TotalGroups - 1,
           stored' \in [Sources -> SUBSET Pages],
           \A s \in Sources : stored[s] \subseteq stored'[s],
           r.pc \notin {"idle", "rotate"} =>
               /\ Active(w)
               /\ r.job = run[w].job /\ r.source = run[w].source
               /\ r.ingested \subseteq stored'[r.source] \cup r.pending,
           r.poisoned => r.pc \in {"finish", "except"}
    PROVE  IngestionInv'
<1> USE DEF IngestionInv
<1>1. /\ run'[w] = r
      /\ \A v \in Workers : v # w => run'[v] = run[v]
      /\ \A v \in Workers : run[v] \in Run /\ run[v].source \in Sources
  BY DEF IngestionTypeOK, Run
<1>2. IngestionTypeOK'
  BY DEF IngestionTypeOK
<1>3. RowHasOneOwner'
  BY <1>1 DEF RowHasOneOwner, Active
<1>4. RunsAreSound'
  BY <1>1 DEF RunsAreSound, Active
<1>5. SucceededIsStored'
  BY DEF SucceededIsStored, IngestionTypeOK, JobRow
<1> QED
  BY <1>2, <1>3, <1>4, <1>5

\* A step that closes the row of a run, which lets go of it.
LEMMA CloseKeeps ==
    ASSUME IngestionInv, NEW w \in Workers, NEW r \in Run,
           Active(w), up, UNCHANGED <<up, offset, rotation>>,
           run' = [run EXCEPT ![w] = r],
           r.pc \in {"idle", "rotate"}, ~r.poisoned,
           NEW row \in JobRow,
           job' = [job EXCEPT ![run[w].job] = row],
           row.source = run[w].source, row.status # "running",
           row.status = "succeeded" => row.ingested \subseteq stored'[row.source],
           stored' \in [Sources -> SUBSET Pages],
           \A s \in Sources : stored[s] \subseteq stored'[s]
    PROVE  IngestionInv'
<1> USE DEF IngestionInv
<1>1. /\ run'[w] = r
      /\ \A v \in Workers : v # w => run'[v] = run[v]
      /\ \A v \in Workers : run[v] \in Run /\ run[v].source \in Sources
  BY DEF IngestionTypeOK, Run
<1>2. /\ run[w].job \in Jobs
      /\ \A j \in Jobs : job'[j] = IF j = run[w].job THEN row ELSE job[j]
  BY DEF RunsAreSound, IngestionTypeOK
<1>3. IngestionTypeOK'
  BY <1>2 DEF IngestionTypeOK
<1>4. \A v \in Workers : Active(v)' => v # w /\ Active(v) /\ run[v].job # run[w].job
  BY <1>1 DEF RowHasOneOwner, Active
<1>5. RowHasOneOwner'
  BY <1>1, <1>2, <1>4 DEF RowHasOneOwner, RunsAreSound
<1>6. RunsAreSound'
  BY <1>1, <1>2, <1>4 DEF RunsAreSound
<1>7. SucceededIsStored'
  BY <1>2 DEF SucceededIsStored, IngestionTypeOK, JobRow
<1> QED
  BY <1>3, <1>5, <1>6, <1>7

-----------------------------------------------------------------------------
\* A row that is not running has no owner, so a run may take it.
LEMMA BeginStep ==
    ASSUME IngestionInv, NEW w \in Workers, NEW s \in Sources, NEW j \in Jobs,
           NEW rotates \in BOOLEAN, NEW todo \in SUBSET Codes, Begin(w, s, j, rotates, todo)
    PROVE  IngestionInv'
<1> USE DEF IngestionInv
<1> DEFINE r == [Resting EXCEPT !.pc = IF todo = {} THEN "finish" ELSE "query",
                                !.job = j, !.source = s, !.rotates = rotates, !.todo = todo]
<1>1. /\ r \in Run /\ r.pc \in {"finish", "query"} /\ r.job = j /\ r.source = s
      /\ r.ingested = {} /\ ~r.poisoned
  BY RestingIsRun DEF Resting, Run
<1>2. /\ run'[w] = r
      /\ \A v \in Workers : v # w => run'[v] = run[v]
      /\ run' \in [Workers -> Run]
  BY <1>1 DEF Begin, IngestionTypeOK
<1> HIDE DEF r
<1>3. /\ job' \in [Jobs -> JobRow]
      /\ job'[j].status = "running" /\ job'[j].source = s
      /\ \A i \in Jobs : i # j => job'[i] = job[i]
  BY DEF Begin, IngestionTypeOK, JobRow
<1>4. up /\ UNCHANGED <<up, stored, offset, rotation>> /\ job[j].status # "running"
  BY DEF Begin
<1>5. IngestionTypeOK'
  BY <1>2, <1>3, <1>4 DEF IngestionTypeOK
<1>6. \A v \in Workers : Active(v) => run[v].job # j
  BY <1>4 DEF RowHasOneOwner
<1>7. RowHasOneOwner'
  BY <1>1, <1>2, <1>3, <1>6 DEF RowHasOneOwner, RunsAreSound, Active
<1>8. RunsAreSound'
  BY <1>1, <1>2, <1>3, <1>4, <1>6 DEF RunsAreSound, Active
<1>9. SucceededIsStored'
  BY <1>3, <1>4 DEF SucceededIsStored
<1> QED
  BY <1>5, <1>7, <1>8, <1>9

LEMMA StartStep ==
    ASSUME IngestionInv, NEW w \in Workers, NEW s \in Sources, NEW j \in Jobs,
           StartPaged(w, s, j) \/ StartListing(w, s, j)
    PROVE  IngestionInv'
<1>1. \E rotates \in BOOLEAN, todo \in SUBSET Codes : Begin(w, s, j, rotates, todo)
  <2>1. Group(rotation) \in SUBSET Codes /\ Phases(s) \in SUBSET Codes
    BY CodesAndPages DEF Group, Phases
  <2> QED
    BY <2>1 DEF StartPaged, StartListing
<1> QED
  BY <1>1, BeginStep

-----------------------------------------------------------------------------
\* Steps of one run.  Each names the run afterwards and what it keeps.
LEMMA SendQueryStep ==
    ASSUME IngestionInv, NEW w \in Workers, NEW c \in Codes, SendQuery(w, c)
    PROVE  IngestionInv'
<1> DEFINE at == IF Shape[run[w].source] = "paged" THEN offset[c] ELSE 0
           r == [run[w] EXCEPT !.pc = "wait", !.code = c, !.at = at]
<1>1. run[w] \in Run /\ at \in 0..NumPages - 1
  BY CodesAndPages DEF IngestionInv, IngestionTypeOK
<1>2. run' = [run EXCEPT ![w] = r]
  BY DEF SendQuery, IngestionInv, IngestionTypeOK
<1>3. /\ r \in Run /\ r.pc = "wait" /\ r.job = run[w].job /\ r.source = run[w].source
      /\ r.ingested = run[w].ingested /\ r.pending = run[w].pending
      /\ r.poisoned = run[w].poisoned
  BY <1>1 DEF Run
<1>4. up /\ run[w].pc = "query" /\ UNCHANGED <<up, job, stored, offset, rotation>>
  BY DEF SendQuery
<1>5. Active(w) /\ ~run[w].poisoned
  BY <1>4 DEF Active, IngestionInv, RunsAreSound
<1> HIDE DEF r
<1> QED
  BY <1>2, <1>3, <1>4, <1>5, RunStepKeeps DEF IngestionInv, IngestionTypeOK, RunsAreSound

LEMMA PageArrivesStep ==
    ASSUME IngestionInv, NEW w \in Workers, PageArrives(w)
    PROVE  IngestionInv'
<1> DEFINE page == <<run[w].code, run[w].at>>
           r == [run[w] EXCEPT !.pc = "upsert", !.pending = {}, !.batch = {page}]
<1>1. run[w] \in Run /\ run[w].code \in Codes /\ page \in Pages /\ run[w].source \in Sources
  BY CodesAndPages DEF IngestionInv, IngestionTypeOK, Run
<1>2. run' = [run EXCEPT ![w] = r]
  BY DEF PageArrives, IngestionInv, IngestionTypeOK
<1>3. /\ r \in Run /\ r.pc = "upsert" /\ r.job = run[w].job /\ r.source = run[w].source
      /\ r.ingested = run[w].ingested /\ r.poisoned = run[w].poisoned
  BY <1>1 DEF Run
<1>4. up /\ run[w].pc = "wait" /\ UNCHANGED <<up, job, rotation>>
  BY DEF PageArrives
<1>5. Active(w) /\ ~run[w].poisoned
  BY <1>4 DEF Active, IngestionInv, RunsAreSound
<1>6. /\ stored' = [stored EXCEPT ![run[w].source] = @ \cup run[w].pending]
      /\ run[w].pending \subseteq Pages
  BY <1>1 DEF PageArrives, Run
<1>7. /\ stored' \in [Sources -> SUBSET Pages]
      /\ \A s \in Sources : stored[s] \subseteq stored'[s]
      /\ run[w].pending \subseteq stored'[run[w].source]
  BY <1>1, <1>6 DEF IngestionInv, IngestionTypeOK
<1>8. offset' \in [Codes -> 0..NumPages - 1]
  <2>1. NextIndex(offset[run[w].code], NumPages) \in 0..NumPages - 1
    BY <1>1, NextIndexBelow DEF IngestionInv, IngestionTypeOK
  <2> QED
    BY <2>1 DEF PageArrives, IngestionInv, IngestionTypeOK
<1>9. r.ingested \subseteq stored'[r.source] \cup r.pending
  BY <1>1, <1>3, <1>5, <1>7 DEF IngestionInv, RunsAreSound
<1> HIDE DEF r
<1> QED
  BY <1>2, <1>3, <1>4, <1>5, <1>7, <1>8, <1>9, RunStepKeeps DEF IngestionInv, IngestionTypeOK

LEMMA ListingArrivesStep ==
    ASSUME IngestionInv, NEW w \in Workers, NEW n \in 0..NumPages, NEW failed \in BOOLEAN,
           ListingArrives(w, n, failed)
    PROVE  IngestionInv'
<1> DEFINE q == [run[w] EXCEPT !.errors = @ \/ failed]
           fetched == [q EXCEPT !.pc = "upsert", !.batch = {q.code} \X (0..n - 1)]
           r == IF n = 0 THEN Advance(q) ELSE fetched
<1>1. run[w] \in Run
  BY DEF IngestionInv, IngestionTypeOK
<1>2. /\ q \in Run /\ q.code \in Codes /\ q.job = run[w].job /\ q.source = run[w].source
      /\ q.ingested = run[w].ingested /\ q.pending = run[w].pending /\ q.poisoned = run[w].poisoned
  BY <1>1 DEF Run
<1>3. run' = [run EXCEPT ![w] = r]
  BY DEF ListingArrives
<1> HIDE DEF q
<1>4. /\ fetched \in Run /\ fetched.pc = "upsert" /\ fetched.job = q.job
      /\ fetched.source = q.source /\ fetched.ingested = q.ingested
      /\ fetched.pending = q.pending /\ fetched.poisoned = q.poisoned
  BY <1>2, CodesAndPages DEF Run
<1>5. /\ r \in Run /\ r.pc \in {"upsert", "query", "finish"} /\ r.job = q.job
      /\ r.source = q.source /\ r.ingested = q.ingested
      /\ r.pending = q.pending /\ r.poisoned = q.poisoned
  BY <1>2, <1>4, AdvanceIsRun
<1>6. up /\ run[w].pc = "wait" /\ UNCHANGED <<up, job, stored, offset, rotation>>
  BY DEF ListingArrives
<1>7. Active(w) /\ ~run[w].poisoned
  BY <1>6 DEF Active, IngestionInv, RunsAreSound
<1> HIDE DEF r
<1> QED
  BY <1>2, <1>3, <1>5, <1>6, <1>7, RunStepKeeps DEF IngestionInv, IngestionTypeOK, RunsAreSound

LEMMA QueryFailsStep ==
    ASSUME IngestionInv, NEW w \in Workers, QueryFails(w)
    PROVE  IngestionInv'
<1> DEFINE q == [run[w] EXCEPT !.errors = TRUE]
           r == Advance(q)
<1>1. /\ q \in Run /\ q.job = run[w].job /\ q.source = run[w].source
      /\ q.ingested = run[w].ingested /\ q.pending = run[w].pending /\ q.poisoned = run[w].poisoned
  <2>1. run[w] \in Run
    BY DEF IngestionInv, IngestionTypeOK
  <2> QED
    BY <2>1 DEF Run
<1>2. run' = [run EXCEPT ![w] = r]
  BY DEF QueryFails
<1>3. up /\ run[w].pc = "wait" /\ UNCHANGED <<up, job, stored, offset, rotation>>
  BY DEF QueryFails
<1>4. Active(w) /\ ~run[w].poisoned
  BY <1>3 DEF Active, IngestionInv, RunsAreSound
<1> HIDE DEF q
<1>5. /\ r \in Run /\ r.pc \in {"query", "finish"} /\ r.job = q.job
      /\ r.source = q.source /\ r.ingested = q.ingested
      /\ r.pending = q.pending /\ r.poisoned = q.poisoned
  BY <1>1, AdvanceIsRun
<1> HIDE DEF r
<1> QED
  BY <1>1, <1>2, <1>3, <1>4, <1>5, RunStepKeeps DEF IngestionInv, IngestionTypeOK, RunsAreSound

LEMMA UpsertStep ==
    ASSUME IngestionInv, NEW w \in Workers, NEW page, Upsert(w, page)
    PROVE  IngestionInv'
<1> DEFINE q == [run[w] EXCEPT !.batch = @ \ {page}, !.pending = @ \cup {page},
                               !.ingested = @ \cup {page}]
           r == IF q.batch = {} THEN Advance(q) ELSE q
<1>1. run[w] \in Run /\ page \in Pages
  BY DEF Upsert, IngestionInv, IngestionTypeOK, Run
<1>2. /\ q \in Run /\ q.job = run[w].job /\ q.source = run[w].source /\ q.pc = run[w].pc
      /\ q.ingested = run[w].ingested \cup {page} /\ q.pending = run[w].pending \cup {page}
      /\ q.poisoned = run[w].poisoned
  BY <1>1 DEF Run
<1>3. run' = [run EXCEPT ![w] = r]
  BY DEF Upsert
<1>4. up /\ run[w].pc = "upsert" /\ UNCHANGED <<up, job, stored, offset, rotation>>
  BY DEF Upsert
<1>5. Active(w) /\ ~run[w].poisoned
  BY <1>4 DEF Active, IngestionInv, RunsAreSound
<1> HIDE DEF q
<1>6. /\ r \in Run /\ r.pc \in {"upsert", "query", "finish"} /\ r.job = q.job
      /\ r.source = q.source /\ r.ingested = q.ingested
      /\ r.pending = q.pending /\ r.poisoned = q.poisoned
  BY <1>2, <1>4, AdvanceIsRun
<1> HIDE DEF r
<1> QED
  BY <1>2, <1>3, <1>4, <1>5, <1>6, RunStepKeeps DEF IngestionInv, IngestionTypeOK, RunsAreSound

\* Whatever is raised, the run keeps its row and what it has pending.
LEMMA RaiseStep ==
    ASSUME IngestionInv, NEW w \in Workers, NEW statementFailed \in BOOLEAN,
           Raise(w, statementFailed)
    PROVE  IngestionInv'
<1> DEFINE pc == IF Shape[run[w].source] = "phased" /\ run[w].code = 2 THEN "finish" ELSE "except"
           r == [run[w] EXCEPT !.poisoned = statementFailed, !.errors = TRUE,
                               !.code = 1, !.at = 0, !.batch = {}, !.pc = pc]
<1>1. run' = [run EXCEPT ![w] = r]
  BY DEF Raise, IngestionInv, IngestionTypeOK
<1>2. pc \in {"finish", "except"}
  OBVIOUS
<1> HIDE DEF pc
<1>3. /\ r \in Run /\ r.pc \in {"finish", "except"} /\ r.job = run[w].job
      /\ r.source = run[w].source /\ r.ingested = run[w].ingested /\ r.pending = run[w].pending
  <2>1. run[w] \in Run
    BY DEF IngestionInv, IngestionTypeOK
  <2> QED
    BY <1>2, <2>1, CodesAndPages DEF Run
<1>4. up /\ Active(w) /\ UNCHANGED <<up, job, stored, offset, rotation>>
  BY DEF Raise, Active
<1> HIDE DEF r
<1> QED
  BY <1>1, <1>3, <1>4, RunStepKeeps DEF IngestionInv, IngestionTypeOK, RunsAreSound

LEMMA FinishRefusedStep ==
    ASSUME IngestionInv, NEW w \in Workers, FinishRefused(w)
    PROVE  IngestionInv'
<1> DEFINE r == [run[w] EXCEPT !.pc = "except"]
<1>1. run' = [run EXCEPT ![w] = r]
  BY DEF FinishRefused, IngestionInv, IngestionTypeOK
<1>2. /\ r \in Run /\ r.pc = "except" /\ r.job = run[w].job
      /\ r.source = run[w].source /\ r.ingested = run[w].ingested /\ r.pending = run[w].pending
  BY DEF IngestionInv, IngestionTypeOK, Run
<1>3. up /\ Active(w) /\ UNCHANGED <<up, job, stored, offset, rotation>>
  BY DEF FinishRefused, Active
<1> HIDE DEF r
<1> QED
  BY <1>1, <1>2, <1>3, RunStepKeeps DEF IngestionInv, IngestionTypeOK, RunsAreSound

\* The run lets go of its row without closing it: only the reaper can.
LEMMA LetGoStep ==
    ASSUME IngestionInv, NEW w \in Workers, ExceptRefused(w) \/ Rotate(w)
    PROVE  IngestionInv'
<1>1. /\ up /\ UNCHANGED <<up, job, stored, offset>>
      /\ run' = [run EXCEPT ![w] = Resting]
      /\ rotation' \in {rotation, NextIndex(rotation, TotalGroups)}
  BY DEF ExceptRefused, Rotate
<1>2. rotation \in Nat /\ rotation' \in 0..TotalGroups - 1
  BY <1>1, NextIndexBelow, TotalGroupsPositive DEF IngestionInv, IngestionTypeOK
<1>3. Resting \in Run /\ Resting.pc = "idle" /\ ~Resting.poisoned
  BY RestingIsRun DEF Resting
<1> QED
  BY <1>1, <1>2, <1>3, RunStepKeeps DEF IngestionInv, IngestionTypeOK

\* A run that finishes is not poisoned, so all it counts is committed with it.
LEMMA FinishStep ==
    ASSUME IngestionInv, NEW w \in Workers, Finish(w)
    PROVE  IngestionInv'
<1> DEFINE j == run[w].job
           row == [job[j] EXCEPT !.status = Outcome(run[w]), !.ingested = run[w].ingested]
           rotating == [run[w] EXCEPT !.pc = "rotate", !.pending = {}]
           r == IF run[w].rotates THEN rotating ELSE Resting
<1>1. /\ up /\ run[w].pc = "finish" /\ ~run[w].poisoned /\ Active(w)
      /\ UNCHANGED <<up, offset, rotation>>
      /\ run[w] \in Run
  BY DEF Finish, Active, IngestionInv, IngestionTypeOK
<1>2. /\ run[w].source \in Sources /\ run[w].ingested \subseteq Pages
      /\ run[w].pending \subseteq Pages
  BY <1>1 DEF Run
<1>3. /\ j \in Jobs /\ job[j] \in JobRow /\ job[j].source = run[w].source
      /\ run[w].ingested \subseteq stored[run[w].source] \cup run[w].pending
  BY <1>1 DEF IngestionInv, RunsAreSound, IngestionTypeOK
<1>4. /\ row \in JobRow /\ row.source = run[w].source /\ row.ingested = run[w].ingested
      /\ row.status \in {"succeeded", "failed"}
  BY <1>2, <1>3 DEF JobRow, Outcome
<1>5. /\ job' = [job EXCEPT ![j] = row]
      /\ run' = [run EXCEPT ![w] = r]
      /\ stored' = [stored EXCEPT ![run[w].source] = @ \cup run[w].pending]
  <2>1. job \in [Jobs -> JobRow]
    BY DEF IngestionInv, IngestionTypeOK
  <2> QED
    BY <1>3, <2>1 DEF Finish
<1>6. r \in Run /\ r.pc \in {"idle", "rotate"} /\ ~r.poisoned
  <2>1. rotating \in Run /\ rotating.pc = "rotate" /\ ~rotating.poisoned
    BY <1>1 DEF Run
  <2>2. Resting \in Run /\ Resting.pc = "idle" /\ ~Resting.poisoned
    BY RestingIsRun DEF Resting
  <2> QED
    BY <2>1, <2>2
<1>7. /\ stored' \in [Sources -> SUBSET Pages]
      /\ \A s \in Sources : stored[s] \subseteq stored'[s]
      /\ run[w].ingested \subseteq stored'[run[w].source]
  BY <1>2, <1>3, <1>5 DEF IngestionInv, IngestionTypeOK
<1> HIDE DEF r, row
<1> QED
  BY <1>1, <1>4, <1>5, <1>6, <1>7, CloseKeeps

LEMMA MarkFailedStep ==
    ASSUME IngestionInv, NEW w \in Workers, MarkFailed(w)
    PROVE  IngestionInv'
<1> DEFINE j == run[w].job
           row == [job[j] EXCEPT !.status = "failed"]
<1>1. /\ up /\ Active(w) /\ UNCHANGED <<up, offset, rotation>> /\ run[w] \in Run
  BY DEF MarkFailed, Active, IngestionInv, IngestionTypeOK
<1>2. run[w].source \in Sources /\ run[w].pending \subseteq Pages
  BY <1>1 DEF Run
<1>3. j \in Jobs /\ job[j] \in JobRow /\ job[j].source = run[w].source
  BY <1>1 DEF IngestionInv, RunsAreSound, IngestionTypeOK
<1>4. row \in JobRow /\ row.source = run[w].source /\ row.status = "failed"
  BY <1>3 DEF JobRow
<1>5. /\ job' = [job EXCEPT ![j] = row]
      /\ run' = [run EXCEPT ![w] = Resting]
      /\ stored' = [stored EXCEPT ![run[w].source] =
             IF RollsBack(run[w].source) THEN @ ELSE @ \cup run[w].pending]
  BY DEF MarkFailed
<1>6. Resting \in Run /\ Resting.pc = "idle" /\ ~Resting.poisoned
  BY RestingIsRun DEF Resting
<1>7. /\ stored' \in [Sources -> SUBSET Pages]
      /\ \A s \in Sources : stored[s] \subseteq stored'[s]
  BY <1>2, <1>5 DEF IngestionInv, IngestionTypeOK
<1> HIDE DEF row
<1> QED
  BY <1>1, <1>4, <1>5, <1>6, <1>7, CloseKeeps

-----------------------------------------------------------------------------
LEMMA CrashStep == IngestionInv /\ Crash => IngestionInv'
<1> SUFFICES ASSUME IngestionInv, Crash PROVE IngestionInv'
  OBVIOUS
<1>1. /\ up' = FALSE /\ run' = [w \in Workers |-> Resting]
      /\ UNCHANGED <<job, stored, offset, rotation>>
  BY DEF Crash
<1>2. IngestionTypeOK'
  BY <1>1, RestingIsRun DEF IngestionInv, IngestionTypeOK
<1>3. RowHasOneOwner' /\ RunsAreSound' /\ SucceededIsStored'
  BY <1>1 DEF IngestionInv, RowHasOneOwner, RunsAreSound, SucceededIsStored, Active, Resting
<1> QED
  BY <1>2, <1>3 DEF IngestionInv

\* The reaper meets no run, because none is left when the process is gone.
LEMMA RestartStep == IngestionInv /\ Restart => IngestionInv'
<1> SUFFICES ASSUME IngestionInv, Restart PROVE IngestionInv'
  OBVIOUS
<1>1. /\ up' = TRUE /\ UNCHANGED <<stored, offset, rotation, run>>
      /\ \A w \in Workers : run[w].pc = "idle"
  BY DEF Restart, IngestionInv, RunsAreSound
<1>2. \A j \in Jobs :
        /\ job'[j] \in JobRow /\ job'[j].status \in {"failed", job[j].status}
        /\ job'[j].source = job[j].source /\ job'[j].ingested = job[j].ingested
  BY DEF Restart, IngestionInv, IngestionTypeOK, JobRow
<1>3. IngestionTypeOK'
  <2>1. job' \in [Jobs -> JobRow]
    BY <1>2 DEF Restart
  <2> QED
    BY <1>1, <2>1 DEF IngestionInv, IngestionTypeOK
<1>4. RowHasOneOwner' /\ RunsAreSound'
  BY <1>1 DEF IngestionInv, RowHasOneOwner, RunsAreSound, Active
<1>5. SucceededIsStored'
  BY <1>1, <1>2 DEF IngestionInv, SucceededIsStored
<1> QED
  BY <1>3, <1>4, <1>5 DEF IngestionInv

LEMMA ProgressStep == ASSUME IngestionInv, NEW w \in Workers, Progress(w) PROVE IngestionInv'
  BY SendQueryStep, PageArrivesStep, ListingArrivesStep, QueryFailsStep, UpsertStep, RaiseStep,
     FinishRefusedStep, LetGoStep, FinishStep, MarkFailedStep
  DEF Progress

LEMMA StutterStep == IngestionInv /\ UNCHANGED ingestionVars => IngestionInv'
<1> SUFFICES ASSUME IngestionInv, UNCHANGED ingestionVars PROVE IngestionInv'
  OBVIOUS
<1>1. UNCHANGED <<up, job, stored, offset, rotation, run>>
  BY DEF ingestionVars
<1>2. IngestionTypeOK'
  BY <1>1 DEF IngestionInv, IngestionTypeOK
<1> QED
  BY <1>1, <1>2 DEF IngestionInv, RowHasOneOwner, RunsAreSound, SucceededIsStored, Active

LEMMA NextStep == IngestionInv /\ [IngestionNext]_ingestionVars => IngestionInv'
  BY StartStep, ProgressStep, CrashStep, RestartStep, StutterStep DEF IngestionNext

-----------------------------------------------------------------------------
\* The inductive invariant
THEOREM Invariance == IngestionSpec => []IngestionInv
  BY InitIInv, NextStep, PTL DEF IngestionSpec

\* Every variable keeps its type, the cursors their range.
THEOREM TypeCorrect == IngestionSpec => []IngestionTypeOK
<1>1. IngestionInv => IngestionTypeOK
  BY DEF IngestionInv
<1> QED
  BY <1>1, Invariance, PTL

\* No two runs share a job row, and the row of a live run is running.
THEOREM RowsAreOwned == IngestionSpec => []RowHasOneOwner
<1>1. IngestionInv => RowHasOneOwner
  BY DEF IngestionInv
<1> QED
  BY <1>1, Invariance, PTL

\* A row that reads succeeded counts nothing that was not committed.
THEOREM SuccessIsTrue == IngestionSpec => []SucceededIsStored
<1>1. IngestionInv => SucceededIsStored
  BY DEF IngestionInv
<1> QED
  BY <1>1, Invariance, PTL

-----------------------------------------------------------------------------
\* The status column, which is all that the ledger sees
status == [j \in Jobs |-> job[j].status]

LEMMA LedgerInitially == IngestionInit => Ledger!LedgerInit
  BY DEF IngestionInit, FreeRow, Ledger!LedgerInit

\* One row closes.
LEMMA OneCloses ==
    ASSUME NEW j \in Jobs, NEW outcome \in {"succeeded", "failed"},
           status[j] = "running",
           \A i \in Jobs : job'[i].status = IF i = j THEN outcome ELSE job[i].status
    PROVE  Ledger!LedgerNext
<1>1. Ledger!Close({j}, outcome)
  BY DEF Ledger!Close, status
<1> QED
  BY <1>1 DEF Ledger!LedgerNext

LEMMA LedgerStep == IngestionInv /\ [IngestionNext]_ingestionVars => [Ledger!LedgerNext]_status
<1> SUFFICES ASSUME IngestionInv, [IngestionNext]_ingestionVars
             PROVE  Ledger!LedgerNext \/ UNCHANGED status
  OBVIOUS
<1>1. ASSUME NEW w \in Workers, NEW s \in Sources, NEW j \in Jobs,
             StartPaged(w, s, j) \/ StartListing(w, s, j)
      PROVE  Ledger!LedgerNext
  <2>1. /\ job[j].status # "running"
        /\ job' = [job EXCEPT ![j] = [source |-> s, status |-> "running", ingested |-> {}]]
    BY <1>1 DEF StartPaged, StartListing, Begin
  <2>2. Ledger!Open(j)
    BY <2>1 DEF Ledger!Open, IngestionInv, IngestionTypeOK
  <2> QED
    BY <2>2 DEF Ledger!LedgerNext
<1>2. ASSUME NEW w \in Workers, Finish(w)
      PROVE  Ledger!LedgerNext
  <2>1. run[w].job \in Jobs /\ job[run[w].job].status = "running"
    BY <1>2 DEF Finish, Active, IngestionInv, RunsAreSound, RowHasOneOwner
  <2>2. \A i \in Jobs : job'[i].status =
          IF i = run[w].job THEN Outcome(run[w]) ELSE job[i].status
    BY <1>2, <2>1 DEF Finish, IngestionInv, IngestionTypeOK, JobRow
  <2> QED
    BY <2>1, <2>2, OneCloses DEF Outcome, status
<1>3. ASSUME NEW w \in Workers, MarkFailed(w)
      PROVE  Ledger!LedgerNext
  <2>1. run[w].job \in Jobs /\ job[run[w].job].status = "running"
    BY <1>3 DEF MarkFailed, Active, IngestionInv, RunsAreSound, RowHasOneOwner
  <2>2. \A i \in Jobs : job'[i].status = IF i = run[w].job THEN "failed" ELSE job[i].status
    BY <1>3, <2>1 DEF MarkFailed, IngestionInv, IngestionTypeOK, JobRow
  <2> QED
    BY <2>1, <2>2, OneCloses DEF status
<1>4. ASSUME Restart
      PROVE  Ledger!LedgerNext
  <2> DEFINE closed == {j \in Jobs : job[j].status = "running"}
  <2>1. \A j \in Jobs : job'[j].status = IF j \in closed THEN "failed" ELSE job[j].status
    BY <1>4 DEF Restart, IngestionInv, IngestionTypeOK, JobRow
  <2>2. Ledger!Close(closed, "failed")
    BY <2>1 DEF Ledger!Close, status
  <2> QED
    BY <2>2 DEF Ledger!LedgerNext
<1>5. CASE UNCHANGED job
  BY <1>5 DEF status
<1>6. ASSUME NEW w \in Workers, Progress(w)
      PROVE  Ledger!LedgerNext \/ UNCHANGED job
  <2>1. CASE \/ \E c \in Codes : SendQuery(w, c)
             \/ PageArrives(w) \/ QueryFails(w) \/ FinishRefused(w) \/ ExceptRefused(w) \/ Rotate(w)
    BY <2>1 DEF SendQuery, PageArrives, QueryFails, FinishRefused, ExceptRefused, Rotate
  <2>2. CASE \/ \E n \in 0..NumPages, failed \in BOOLEAN : ListingArrives(w, n, failed)
             \/ \E page \in run[w].batch : Upsert(w, page)
             \/ \E statementFailed \in BOOLEAN : Raise(w, statementFailed)
    BY <2>2 DEF ListingArrives, Upsert, Raise
  <2> QED
    BY <1>2, <1>3, <1>6, <2>1, <2>2 DEF Progress
<1>7. CASE Crash \/ UNCHANGED ingestionVars
  BY <1>7, <1>5 DEF Crash, ingestionVars
<1> QED
  BY <1>1, <1>4, <1>5, <1>6, <1>7 DEF IngestionNext

\* Seen through its status column, the job table is a ledger: every run of the
\* program is a run of JobLedger.
THEOREM ImplementsLedger == IngestionSpec => LedgerSpec
<1>1. [Ledger!LedgerNext]_status <=> [Ledger!LedgerNext]_[j \in Jobs |-> job[j].status]
  BY DEF status
<1>2. IngestionInv /\ [IngestionNext]_ingestionVars =>
          [Ledger!LedgerNext]_[j \in Jobs |-> job[j].status]
  BY <1>1, LedgerStep
<1> QED
  BY <1>2, LedgerInitially, Invariance, PTL DEF IngestionSpec, LedgerSpec, Ledger!LedgerSpec
=============================================================================
