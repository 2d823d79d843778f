---------------------------- MODULE SourceChecks ----------------------------
(***************************************************************************)
(* The tenders of a source whose records can be looked up again: the       *)
(* ingestion that stores them, the comparison that corrects their stage    *)
(* (app/source_reconcile.py), and the health check that looks for open     *)
(* tenders with an award (app/data_health.py).  All three read first, talk *)
(* to the source or compute, and write what they have read; the scheduler  *)
(* and an administrator may run them at the same time.                     *)
(***************************************************************************)
EXTENDS Naturals, FiniteSets

CONSTANTS
    Notices,
    Comparisons,    \* comparisons that may be in flight
    Checks,         \* health checks that may be in flight
    StatusesUsed,   \* the statuses an instance explores
    MaxComparisons, \* bound: comparisons started
    MaxChecks       \* bound: health checks started

ASSUME SourceBounds ==
    /\ IsFiniteSet(Notices)
    /\ StatusesUsed \subseteq {"planned", "open", "partly", "awarded", "void"}
    /\ MaxComparisons \in Nat /\ MaxChecks \in Nat

VARIABLES
    published,  \* published[n]: where the procedure is, at the source
    shown,      \* shown[n]: programmes.stage
    awarded,    \* notices with a row in contract_awards
    feed,       \* what an ingestion in flight has fetched
    compare,    \* compare[q]: a comparison in flight
    compared,   \* latest source_reconciliation row with a mismatch rate
    compares,   \* comparisons started
    check,      \* check[h]: a health check in flight
    verdict,    \* latest awarded_but_open row
    checks,     \* health checks started
    settled,    \* history: notices the last comparison left right, untouched since
    told        \* history: the operator knows of the error in verdict

sourceVars == <<published, shown, awarded, feed, compare, compared, compares,
                check, verdict, checks, settled, told>>
comparisonVars == <<compare, compared, compares>>
checkVars == <<check, verdict, checks, told>>

-----------------------------------------------------------------------------
Stages == {"requirement_defined", "rfp_issued", "contract_awarded"}
OpenStages == Stages \ {"contract_awarded"}

\* A procedure some of whose lots are awarded is open and has a winner.
Follows(status) ==
    CASE status = "planned" -> {"open", "void"}
      [] status = "open" -> {"partly", "awarded", "void"}
      [] status = "partly" -> {"awarded"}
      [] OTHER -> {}

\* _stage_for of the normalisers; "none" for a procedure that is called off
StageFor(status) ==
    CASE status = "planned" -> "requirement_defined"
      [] status \in {"open", "partly"} -> "rfp_issued"
      [] status = "awarded" -> "contract_awarded"
      [] OTHER -> "none"

HasWinner(status) == status \in {"partly", "awarded"}

NoFeed == [n \in Notices |-> "absent"]
NoComparison == [phase |-> "off", start |-> 0, rows |-> {}, stored |-> NoFeed, said |-> NoFeed,
                 crossed |-> FALSE]
NoCheck == [phase |-> "off", start |-> 0, error |-> FALSE, before |-> FALSE, crossed |-> FALSE]

SourceInit ==
    /\ published \in [Notices -> StatusesUsed \cap {"planned", "open"}]
    /\ shown = NoFeed /\ awarded = {} /\ feed = NoFeed
    /\ compare = [q \in Comparisons |-> NoComparison]
    /\ compared = [start |-> 0, high |-> FALSE, severity |-> "ok"] /\ compares = 0
    /\ check = [h \in Checks |-> NoCheck]
    /\ verdict = [start |-> 0, error |-> FALSE, crossed |-> FALSE] /\ checks = 0
    /\ settled = {} /\ told = FALSE

SourceMoves(n) ==
    /\ \E status \in Follows(published[n]) \cap StatusesUsed :
          published' = [published EXCEPT ![n] = status]
    /\ settled' = settled \ {n}
    /\ UNCHANGED <<shown, awarded, feed, comparisonVars, checkVars>>

\* normalize_batch: what the window of the feed holds and is not called off
FeedArrives ==
    /\ feed = NoFeed
    /\ \E window \in (SUBSET {n \in Notices : StageFor(published[n]) # "none"}) \ {{}} :
          feed' = [n \in Notices |-> IF n \in window THEN published[n] ELSE "absent"]
    /\ UNCHANGED <<published, shown, awarded, comparisonVars, checkVars, settled>>

\* "on conflict do update set stage = excluded.stage", and the awards
FeedCommits ==
    LET got == {n \in Notices : feed[n] # "absent"} IN
    /\ got # {}
    /\ shown' = [n \in Notices |-> IF n \in got THEN StageFor(feed[n]) ELSE shown[n]]
    /\ awarded' = awarded \cup {n \in got : HasWinner(feed[n])}
    /\ feed' = NoFeed
    /\ settled' = settled \ got
    /\ UNCHANGED <<published, comparisonVars, checkVars>>

-----------------------------------------------------------------------------
\* reconcile_source reads all rows of the source, or a random sample; one
\* without a row is done at once.  now() is fixed from here on.
CompareReads(q) ==
    /\ compare[q].phase = "off" /\ compares < MaxComparisons
    /\ compares' = compares + 1
    /\ \E rows \in (SUBSET {n \in Notices : shown[n] # "absent"}) \ {{}} :
          compare' = [compare EXCEPT ![q] =
              [NoComparison EXCEPT !.phase = "reading", !.start = compares',
                                   !.rows = rows,
                  !.stored = [n \in Notices |-> IF n \in rows THEN shown[n] ELSE "absent"]]]
    /\ UNCHANGED <<published, shown, awarded, feed, compared, checkVars, settled>>

\* The adapters ask for a chunk of records; one that keeps failing, or is gone,
\* is not returned.
CompareFetches(q) ==
    /\ compare[q].phase = "reading"
    /\ \E missing \in SUBSET compare[q].rows :
          compare' = [compare EXCEPT ![q].phase = "fetched", ![q].said =
              [n \in Notices |-> IF n \in missing THEN "not_found"
                                ELSE IF n \in compare[q].rows THEN StageFor(published[n])
                                ELSE "absent"]]
    /\ UNCHANGED <<published, shown, awarded, feed, compared, compares, checkVars, settled>>

Returned(q) == {n \in compare[q].rows : compare[q].said[n] # "not_found"}

\* Mutant: a record without a stage, a procedure called off, is a change, too.
ChangesWithoutStage(q) == {n \in Returned(q) : compare[q].said[n] # compare[q].stored[n]}

\* plan_changes
Changes(q) == {n \in Returned(q) : /\ compare[q].said[n] # "none"
                                /\ compare[q].said[n] # compare[q].stored[n]}

\* reconciliation_severity; the rate is compared with MISMATCH_ERROR_RATE, 5%.
MismatchHigh(q) == 20 * Cardinality(Changes(q)) > Cardinality(Returned(q))
ReconciliationSeverity(q) ==
    IF MismatchHigh(q) /\ compared.high THEN "error"
    ELSE IF Changes(q) # {} THEN "warn" ELSE "ok"

\* _record_result; checked_at is the start of the transaction.
RecordResult(q) ==
    compared' = IF compare[q].start < compared.start THEN compared
                ELSE [start |-> compare[q].start, high |-> MismatchHigh(q),
                      severity |-> ReconciliationSeverity(q)]

\* Notices the comparison corrects to what the source says now, finds right, or
\* is told have been called off; not those an ingestion has meanwhile made wrong
LeftRight(q) == {n \in Returned(q) :
    /\ compare[q].said[n] = StageFor(published[n])
    /\ n \in Changes(q) \/ compare[q].said[n] \in {"none", shown[n]}}

Close(q) == compare' = [r \in Comparisons |->
    IF r = q THEN NoComparison
    ELSE IF compare[r].phase = "off" THEN compare[r] ELSE [compare[r] EXCEPT !.crossed = TRUE]]

\* Mutant: the result is recorded, the rows are left alone as in a dry run.
CompareKeepsRows(q) ==
    /\ compare[q].phase = "fetched"
    /\ RecordResult(q) /\ Close(q)
    /\ settled' = LeftRight(q) \cup (settled \ compare[q].rows)
    /\ UNCHANGED <<published, shown, awarded, feed, compares, checkVars>>

CompareCommits(q) ==
    /\ compare[q].phase = "fetched"
    /\ shown' = [n \in Notices |-> IF n \in Changes(q) THEN compare[q].said[n] ELSE shown[n]]
    /\ RecordResult(q) /\ Close(q)
    /\ settled' = LeftRight(q) \cup (settled \ compare[q].rows)
    /\ UNCHANGED <<published, awarded, feed, compares, checkVars>>

\* A dry run, an outage (a row without a rate is recorded), a restart
CompareEnds(q) ==
    /\ compare[q].phase # "off"
    /\ compare' = [compare EXCEPT ![q] = NoComparison]
    /\ UNCHANGED <<published, shown, awarded, feed, compared, compares, checkVars, settled>>

-----------------------------------------------------------------------------
\* collect_checks: the awarded_but_open check of _per_source_counts
CheckCollects(h) ==
    /\ check[h].phase = "off" /\ checks < MaxChecks
    /\ checks' = checks + 1
    /\ LET others == \E g \in Checks : check[g].phase # "off" IN
       check' = [g \in Checks |->
           IF g = h THEN [NoCheck EXCEPT !.phase = "collected", !.start = checks',
                            !.error = \E n \in awarded : shown[n] \in OpenStages, !.crossed = others]
           ELSE IF check[g].phase = "off" THEN check[g] ELSE [check[g] EXCEPT !.crossed = TRUE]]
    /\ UNCHANGED <<published, shown, awarded, feed, comparisonVars, verdict, told, settled>>

\* previous_errors
CheckReadsPrevious(h) ==
    /\ check[h].phase = "collected"
    /\ check' = [check EXCEPT ![h].phase = "read", ![h].before = verdict.error]
    /\ UNCHANGED <<published, shown, awarded, feed, comparisonVars, verdict, checks, told, settled>>

CheckCommits(h) ==
    /\ check[h].phase = "read"
    /\ check' = [check EXCEPT ![h].phase = "committed"]
    /\ verdict' = IF check[h].start < verdict.start THEN verdict
                  ELSE [start |-> check[h].start, error |-> check[h].error,
                        crossed |-> check[h].crossed \/ (check[h].error /\ verdict.crossed)]
    /\ told' = (told /\ verdict'.error)
    /\ UNCHANGED <<published, shown, awarded, feed, comparisonVars, checks, settled>>

\* Mutant: the previous errors are read when the new ones are already stored.
CheckComparesWithItself(h) ==
    /\ check[h].phase = "committed"
    /\ check' = [check EXCEPT ![h] = NoCheck]
    /\ told' = (told \/ (check[h].error /\ ~verdict.error))
    /\ UNCHANGED <<published, shown, awarded, feed, comparisonVars, verdict, checks, settled>>

\* _alert_new_errors
CheckAlerts(h) ==
    /\ check[h].phase = "committed"
    /\ check' = [check EXCEPT ![h] = NoCheck]
    /\ told' = (told \/ (check[h].error /\ ~check[h].before))
    /\ UNCHANGED <<published, shown, awarded, feed, comparisonVars, verdict, checks, settled>>

\* A failing statement or a restart; after the commit the alert is lost, and
\* no later check sends it, since the error is not new to it.
CheckDies(h) ==
    /\ check[h].phase # "off"
    /\ check' = [check EXCEPT ![h] = NoCheck]
    /\ verdict' = [verdict EXCEPT !.crossed = @ \/ check[h].phase = "committed"]
    /\ UNCHANGED <<published, shown, awarded, feed, comparisonVars, checks, told, settled>>

SourceStep == (\E n \in Notices : SourceMoves(n)) \/ FeedArrives \/ FeedCommits

CompareStep ==
    \E q \in Comparisons :
        CompareReads(q) \/ CompareFetches(q) \/ CompareCommits(q) \/ CompareEnds(q)

CheckStep ==
    \E h \in Checks :
        \/ CheckCollects(h) \/ CheckReadsPrevious(h) \/ CheckCommits(h)
        \/ CheckAlerts(h) \/ CheckDies(h)

SourceNext == SourceStep \/ CompareStep \/ CheckStep

SourceSpec == SourceInit /\ [][SourceNext]_sourceVars

-----------------------------------------------------------------------------
Answers == Stages \cup {"absent", "none", "not_found"}

SourceTypeOK ==
    /\ published \in [Notices -> StatusesUsed]
    /\ shown \in [Notices -> Stages \cup {"absent"}]
    /\ feed \in [Notices -> (StatusesUsed \ {"void"}) \cup {"absent"}]
    /\ awarded \subseteq Notices /\ settled \subseteq Notices /\ told \in BOOLEAN
    /\ compare \in [Comparisons ->
          [phase : {"off", "reading", "fetched"}, start : 0..MaxComparisons, rows : SUBSET Notices,
           stored : [Notices -> Stages \cup {"absent"}], said : [Notices -> Answers],
           crossed : BOOLEAN]]
    /\ compared \in [start : 0..MaxComparisons, high : BOOLEAN, severity : {"ok", "warn", "error"}]
    /\ check \in [Checks -> [phase : {"off", "collected", "read", "committed"},
                             start : 0..MaxChecks, error : BOOLEAN, before : BOOLEAN,
                             crossed : BOOLEAN]]
    /\ verdict \in [start : 0..MaxChecks, error : BOOLEAN, crossed : BOOLEAN]

\* "Red must mean 'still not right', not 'was wrong once and has since been
\* fixed'" (reconciliation_severity): a comparison that no other one overtook
\* reports an error only for notices that the one before had not settled, or
\* that an ingestion or the source has touched since.
RedIsNotAlreadyFixed ==
    [][\A q \in Comparisons :
          /\ compare[q].phase = "fetched" /\ compare'[q].phase = "off" /\ compared' # compared
          /\ compared'.severity = "error" /\ ~compare[q].crossed
          => Changes(q) \ settled # {}]_sourceVars

\* "An ERROR that is new since the previous run sends an alert" (the docstring
\* of data_health.py): an error the dashboard shows is one the operator was
\* told of, or a check is about to tell, unless checks overlapped or one died
\* between its commit and its mail.
ShownErrorIsTold ==
    verdict.error /\ ~verdict.crossed
    => told \/ \E h \in Checks : check[h].phase = "committed"
=============================================================================
