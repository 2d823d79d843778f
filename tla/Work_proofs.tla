---------------------------- MODULE Work_proofs ----------------------------
(***************************************************************************)
(* Theorems about the scheduled work - KeyRotation, SourceChecks, Upkeep - *)
(* and about what MCWork composes.                                         *)
(***************************************************************************)
EXTENDS MCWork, Pipeline_proofs, Feeds_proofs, FiniteSetTheorems, TLAPS

-----------------------------------------------------------------------------
(***************************************************************************)
(* KeyRotation, for any companies, columns and numbers                     *)
(***************************************************************************)

\* What company t last entered is stored, and readable with the key.
InForce(t, key) ==
    \A c \in Columns : cell[t][c].number = saved[t][c] /\ Decryptable(cell[t][c], key)

\* The script holds the numbers of t as they are, under the new key.
Copied(t) ==
    \A c \in Columns : copy[t][c].number = cell[t][c].number /\ copy[t][c].key = "new"

\* Before the commit all rows are under the old key, whoever saves; after it
\* those of the companies that saved nothing meanwhile are under the new one.
RowsAreReadable ==
    /\ script \in {"idle", "read"} =>
          appKey = "old" /\ \A t \in Companies : InForce(t, "old")
    /\ script \in {"committed", "restarted"} =>
          \A t \in Companies \ meanwhile : InForce(t, "new")
    /\ script = "committed" => appKey = "old"
    /\ script = "restarted" => appKey = "new"

CopyIsCurrent == script = "read" => \A t \in Companies \ meanwhile : Copied(t)

RotationInv == RotationTypeOK /\ RowsAreReadable /\ CopyIsCurrent

-----------------------------------------------------------------------------
\* A cell of the table after an assignment of a single one
LEMMA CellAfterSave ==
    ASSUME NEW f \in [Companies -> [Columns -> Cell]],
           NEW t \in Companies, NEW c \in Columns, NEW x \in Cell,
           NEW u \in Companies, NEW d \in Columns
    PROVE  /\ [f EXCEPT ![t][c] = x] \in [Companies -> [Columns -> Cell]]
           /\ [f EXCEPT ![t][c] = x][u][d] = IF u = t /\ d = c THEN x ELSE f[u][d]
  OBVIOUS

\* The same for what the companies entered
LEMMA SavedAfterSave ==
    ASSUME NEW S, NEW f \in [Companies -> [Columns -> S]],
           NEW t \in Companies, NEW c \in Columns, NEW n \in S,
           NEW u \in Companies, NEW d \in Columns
    PROVE  /\ [f EXCEPT ![t][c] = n] \in [Companies -> [Columns -> S]]
           /\ [f EXCEPT ![t][c] = n][u][d] = IF u = t /\ d = c THEN n ELSE f[u][d]
  OBVIOUS

LEMMA InitInv == RotationInit => RotationInv
  <1> SUFFICES ASSUME RotationInit PROVE RotationInv
    OBVIOUS
  <1>1. RotationTypeOK
    BY DEF RotationInit, RotationTypeOK, Table, Cell, Null, Keys
  <1>2. RowsAreReadable
    BY DEF RotationInit, RowsAreReadable, InForce, Decryptable, Null
  <1>3. CopyIsCurrent
    BY DEF RotationInit, CopyIsCurrent
  <1> QED
    BY <1>1, <1>2, <1>3 DEF RotationInv

\* A save is under the key of the API, which is the one its company needs.
LEMMA SaveKeeps ==
    ASSUME RotationInv, NEW t \in Companies, NEW c \in Columns, NEW n \in Numbers, Save(t, c, n)
    PROVE  RotationInv'
  <1> DEFINE x == [number |-> n, key |-> appKey]
  <1>x. x \in Cell /\ x.number = n /\ x.key = appKey /\ n \in Numbers \cup {NoNumber}
    BY DEF RotationInv, RotationTypeOK, Cell
  <1>u. UNCHANGED <<appKey, fresh, script, copy>>
    BY DEF Save
  <1>1. /\ cell' \in Table
        /\ \A u \in Companies, d \in Columns :
              cell'[u][d] = IF u = t /\ d = c THEN x ELSE cell[u][d]
    <2> HIDE DEF x
    <2>1. cell' = [cell EXCEPT ![t][c] = x] /\ cell \in [Companies -> [Columns -> Cell]]
      BY DEF Save, x, RotationInv, RotationTypeOK, Table
    <2> QED
      BY <1>x, <2>1, CellAfterSave DEF Table
  <1>2. /\ saved' \in [Companies -> [Columns -> Numbers \cup {NoNumber}]]
        /\ \A u \in Companies, d \in Columns :
              saved'[u][d] = IF u = t /\ d = c THEN n ELSE saved[u][d]
    <2>1. /\ saved' = [saved EXCEPT ![t][c] = n]
          /\ saved \in [Companies -> [Columns -> Numbers \cup {NoNumber}]]
      BY DEF Save, RotationInv, RotationTypeOK
    <2> QED
      BY <1>x, <2>1, SavedAfterSave
  <1>3. /\ meanwhile' \in SUBSET Companies /\ meanwhile \subseteq meanwhile'
        /\ script \in {"read", "committed"} => t \in meanwhile'
    BY DEF Save, RotationInv, RotationTypeOK
  <1>4. \A u \in Companies, key \in Keys :
           InForce(u, key) /\ (u = t => appKey = key) => InForce(u, key)'
    <2> SUFFICES ASSUME NEW u \in Companies, NEW key \in Keys, InForce(u, key),
                        u = t => appKey = key, NEW d \in Columns
                 PROVE  cell'[u][d].number = saved'[u][d] /\ Decryptable(cell'[u][d], key)
      BY DEF InForce
    <2> HIDE DEF x
    <2>1. CASE u = t /\ d = c
      BY <1>1, <1>2, <1>x, <2>1 DEF Decryptable
    <2>2. CASE ~(u = t /\ d = c)
      BY <1>1, <1>2, <2>2 DEF InForce
    <2> QED
      BY <2>1, <2>2
  <1> HIDE DEF x
  <1>5. RotationTypeOK'
    BY <1>u, <1>1, <1>2, <1>3 DEF RotationInv, RotationTypeOK
  <1>6. RowsAreReadable'
    <2>1. script \in {"idle", "read"} => \A u \in Companies : InForce(u, "old")'
      BY <1>4 DEF RotationInv, RowsAreReadable, Keys
    <2>2. script \in {"committed", "restarted"} =>
             \A u \in Companies \ meanwhile' : InForce(u, "new")'
      BY <1>3, <1>4 DEF RotationInv, RowsAreReadable, Keys
    <2> QED
      BY <1>u, <2>1, <2>2 DEF RotationInv, RowsAreReadable
  <1>7. CopyIsCurrent'
    <2> SUFFICES ASSUME script = "read", NEW u \in Companies \ meanwhile'
                 PROVE  Copied(u)'
      BY <1>u DEF CopyIsCurrent
    <2>1. u # t /\ Copied(u)
      BY <1>3 DEF RotationInv, CopyIsCurrent
    <2> QED
      BY <1>u, <1>1, <2>1 DEF Copied
  <1> QED
    BY <1>5, <1>6, <1>7 DEF RotationInv

\* The script has read rows that are all in force and under the old key.
LEMMA ReadKeeps == RotationInv /\ RotateRead => RotationInv'
  <1> SUFFICES ASSUME RotationInv, RotateRead PROVE RotationInv'
    OBVIOUS
  <1>1. \A t \in Companies, c \in Columns :
           /\ copy'[t][c] = Reencrypted(cell[t][c])
           /\ cell[t][c] \in Cell
    BY DEF RotateRead, RotationInv, RotationTypeOK, Table
  <1>2. \A x \in Cell : /\ Reencrypted(x) \in Cell
                        /\ Reencrypted(x).number = x.number /\ Reencrypted(x).key = "new"
    BY DEF Reencrypted, Cell, Keys
  <1>3. copy' \in Table
    BY <1>1, <1>2 DEF RotateRead, Table
  <1>4. RotationTypeOK'
    BY <1>3 DEF RotateRead, RotationInv, RotationTypeOK
  <1>5. RowsAreReadable'
    BY DEF RotateRead, RotationInv, RowsAreReadable, InForce
  <1>6. CopyIsCurrent'
    BY <1>1, <1>2 DEF RotateRead, CopyIsCurrent, Copied
  <1> QED
    BY <1>4, <1>5, <1>6 DEF RotationInv

\* What is written for a company that saved nothing since is what it entered;
\* a company whose numbers are all null needs no key.
LEMMA CommitKeeps == RotationInv /\ RotateCommit => RotationInv'
  <1> SUFFICES ASSUME RotationInv, RotateCommit PROVE RotationInv'
    OBVIOUS
  <1>1. \A t \in Companies : cell'[t] = IF \E c \in Columns : copy[t][c].number # NoNumber
                                        THEN copy[t] ELSE cell[t]
    BY DEF RotateCommit
  <1>2. cell' \in Table
    BY DEF RotateCommit, RotationInv, RotationTypeOK, Table
  <1>3. RotationTypeOK'
    BY <1>2 DEF RotateCommit, RotationInv, RotationTypeOK
  <1>4. \A t \in Companies \ meanwhile : InForce(t, "new")'
    <2> SUFFICES ASSUME NEW t \in Companies \ meanwhile, NEW c \in Columns
                 PROVE  cell'[t][c].number = saved'[t][c] /\ Decryptable(cell'[t][c], "new")
      BY DEF InForce
    <2>1. /\ Copied(t) /\ InForce(t, "old") /\ saved' = saved
      BY DEF RotateCommit, RotationInv, CopyIsCurrent, RowsAreReadable
    <2>2. CASE \E d \in Columns : copy[t][d].number # NoNumber
      BY <1>1, <2>1, <2>2 DEF Copied, InForce, Decryptable
    <2>3. CASE ~\E d \in Columns : copy[t][d].number # NoNumber
      BY <1>1, <2>1, <2>3 DEF Copied, InForce, Decryptable
    <2> QED
      BY <2>2, <2>3
  <1>5. RowsAreReadable'
    BY <1>4 DEF RotateCommit, RotationInv, RowsAreReadable
  <1>6. CopyIsCurrent'
    BY DEF RotateCommit, CopyIsCurrent
  <1> QED
    BY <1>3, <1>5, <1>6 DEF RotationInv

LEMMA NextKeeps == RotationInv /\ [RotationNext]_rotationVars => RotationInv'
  <1> SUFFICES ASSUME RotationInv, [RotationNext]_rotationVars PROVE RotationInv'
    OBVIOUS
  <1>1. CASE \E t \in Companies, c \in Columns, n \in Numbers : Save(t, c, n)
    BY <1>1, SaveKeeps
  <1>2. CASE BackUp
    BY <1>2 DEF BackUp, RotationInv, RotationTypeOK, RowsAreReadable, CopyIsCurrent, InForce, Copied
  <1>3. CASE RotateRead
    BY <1>3, ReadKeeps
  <1>4. CASE RotateCommit
    BY <1>4, CommitKeeps
  <1>5. CASE RotateEnds
    BY <1>5 DEF RotateEnds, RotationInv, RotationTypeOK, RowsAreReadable, CopyIsCurrent, InForce
  <1>6. CASE Restart
    <2>1. RotationTypeOK'
      BY <1>6 DEF Restart, RotationInv, RotationTypeOK, Keys
    <2> QED
      BY <1>6, <2>1 DEF Restart, RotationInv, RowsAreReadable, CopyIsCurrent, InForce
  <1>7. CASE UNCHANGED rotationVars
    BY <1>7 DEF rotationVars, RotationInv, RotationTypeOK, RowsAreReadable, CopyIsCurrent,
                InForce, Copied
  <1> QED
    BY <1>1, <1>2, <1>3, <1>4, <1>5, <1>6, <1>7 DEF RotationNext

-----------------------------------------------------------------------------
\* The inductive invariant, of rotate_encryption_key.py and of the profile's
\* PATCH running beside it.
THEOREM RotationInvariant == RotationSpec => []RotationInv
  BY InitInv, NextKeeps, PTL DEF RotationSpec

\* Table, copy and key keep their types, through any saves and rotations.
THEOREM RotationTypeCorrect == RotationSpec => []RotationTypeOK
  BY RotationInvariant, PTL DEF RotationInv

\* A company that saved nothing between the script's read and the restart of
\* the API keeps every number, and the API can read it.
THEOREM RotationLosesNothingQuiet == RotationSpec => []QuietCompaniesSurvive
  <1>1. RotationInv => QuietCompaniesSurvive
    BY DEF RotationInv, RowsAreReadable, QuietCompaniesSurvive, InForce
  <1> QED
    BY <1>1, RotationInvariant, PTL

-----------------------------------------------------------------------------
(***************************************************************************)
(* SourceChecks, for any notices, comparisons and checks                   *)
(***************************************************************************)

ComparisonRow ==
    [phase : {"off", "reading", "fetched"}, start : 0..MaxComparisons, rows : SUBSET Notices,
     stored : [Notices -> Stages \cup {"absent"}], said : [Notices -> Answers],
     crossed : BOOLEAN]

CheckRow ==
    [phase : {"off", "collected", "read", "committed"}, start : 0..MaxChecks,
     error : BOOLEAN, before : BOOLEAN, crossed : BOOLEAN]

\* What the source says of a settled notice is what the row shows, or that it
\* has been called off.
SettledIsRight == \A n \in settled : StageFor(published[n]) \in {"none", shown[n]}

\* A record that was asked for has an answer.
RowsAreAnswered ==
    \A q \in Comparisons : compare[q].phase = "fetched" =>
        \A n \in compare[q].rows : compare[q].said[n] \in Stages \cup {"none", "not_found"}

\* What a comparison that none has overtaken holds of a settled notice is still
\* so: settling is what would have overtaken it, and all else unsettles.
UncrossedIsCurrent ==
    \A q \in Comparisons : compare[q].phase # "off" /\ ~compare[q].crossed =>
        \A n \in compare[q].rows \cap settled :
            /\ compare[q].stored[n] = shown[n]
            /\ compare[q].phase = "fetched" =>
                  compare[q].said[n] \in {"not_found", StageFor(published[n])}

\* A check that none has overtaken is alone, and still knows the last verdict.
UncrossedIsAlone ==
    \A h \in Checks : check[h].phase # "off" /\ ~check[h].crossed =>
        /\ \A g \in Checks \ {h} : check[g].phase = "off"
        /\ check[h].phase = "read" => check[h].before = verdict.error

\* An error nobody was told of is one that a check that has committed will tell.
ErrorIsAboutToBeTold ==
    verdict.error /\ ~verdict.crossed /\ ~told =>
        \E h \in Checks : check[h].phase = "committed" /\ check[h].error /\ ~check[h].before

SourceInv ==
    /\ SourceTypeOK
    /\ compares \in 0..MaxComparisons /\ checks \in 0..MaxChecks
    /\ SettledIsRight /\ RowsAreAnswered /\ UncrossedIsCurrent
    /\ UncrossedIsAlone /\ ErrorIsAboutToBeTold

-----------------------------------------------------------------------------
LEMMA StageForType ==
    ASSUME NEW status \in {"planned", "open", "partly", "awarded", "void"}
    PROVE  /\ StageFor(status) \in Stages \cup {"none"}
           /\ status # "void" => StageFor(status) \in Stages
           /\ status = "void" => StageFor(status) = "none"
  BY DEF StageFor, Stages

LEMMA TypesOfSource ==
    ASSUME SourceInv
    PROVE  /\ published \in [Notices -> StatusesUsed]
           /\ shown \in [Notices -> Stages \cup {"absent"}]
           /\ feed \in [Notices -> (StatusesUsed \ {"void"}) \cup {"absent"}]
           /\ awarded \subseteq Notices /\ settled \subseteq Notices /\ told \in BOOLEAN
           /\ compare \in [Comparisons -> ComparisonRow]
           /\ compared \in [start : 0..MaxComparisons, high : BOOLEAN,
                            severity : {"ok", "warn", "error"}]
           /\ check \in [Checks -> CheckRow]
           /\ verdict \in [start : 0..MaxChecks, error : BOOLEAN, crossed : BOOLEAN]
  BY DEF SourceInv, SourceTypeOK, ComparisonRow, CheckRow

LEMMA ComparisonFields ==
    ASSUME compare \in [Comparisons -> ComparisonRow], NEW q \in Comparisons
    PROVE  /\ compare[q] \in ComparisonRow
           /\ compare[q].phase \in {"off", "reading", "fetched"}
           /\ compare[q].start \in 0..MaxComparisons /\ compare[q].rows \subseteq Notices
           /\ compare[q].stored \in [Notices -> Stages \cup {"absent"}]
           /\ compare[q].said \in [Notices -> Answers] /\ compare[q].crossed \in BOOLEAN
  BY DEF ComparisonRow

LEMMA CheckFields ==
    ASSUME check \in [Checks -> CheckRow], NEW h \in Checks
    PROVE  /\ check[h] \in CheckRow
           /\ check[h].phase \in {"off", "collected", "read", "committed"}
           /\ check[h].start \in 0..MaxChecks /\ check[h].error \in BOOLEAN
           /\ check[h].before \in BOOLEAN /\ check[h].crossed \in BOOLEAN
  BY DEF CheckRow

\* compare and check after an assignment to one row
LEMMA CompareAfter ==
    ASSUME compare \in [Comparisons -> ComparisonRow], NEW q \in Comparisons,
           NEW x \in ComparisonRow, compare' = [compare EXCEPT ![q] = x]
    PROVE  /\ compare' \in [Comparisons -> ComparisonRow]
           /\ \A r \in Comparisons : compare'[r] = IF r = q THEN x ELSE compare[r]
  OBVIOUS

LEMMA CheckAfter ==
    ASSUME check \in [Checks -> CheckRow], NEW h \in Checks,
           NEW x \in CheckRow, check' = [check EXCEPT ![h] = x]
    PROVE  /\ check' \in [Checks -> CheckRow]
           /\ \A g \in Checks : check'[g] = IF g = h THEN x ELSE check[g]
  OBVIOUS

LEMMA NoComparisonType ==
    /\ NoComparison \in ComparisonRow /\ NoComparison.phase = "off"
    /\ NoFeed \in [Notices -> Stages \cup {"absent"}] /\ NoFeed \in [Notices -> Answers]
  <1>1. NoFeed \in [Notices -> Stages \cup {"absent"}] /\ NoFeed \in [Notices -> Answers]
    BY DEF NoFeed, Answers
  <1>2. 0 \in 0..MaxComparisons
    BY SourceBounds
  <1> QED
    BY <1>1, <1>2 DEF NoComparison, ComparisonRow

LEMMA NoCheckType == NoCheck \in CheckRow /\ NoCheck.phase = "off"
  BY SourceBounds DEF NoCheck, CheckRow

LEMMA SourceInitInv == SourceInit => SourceInv
  <1> SUFFICES ASSUME SourceInit PROVE SourceInv
    OBVIOUS
  <1>1. /\ published \in [Notices -> StatusesUsed]
        /\ shown = NoFeed /\ feed = NoFeed /\ awarded = {} /\ settled = {} /\ told = FALSE
        /\ compares = 0 /\ checks = 0
    BY DEF SourceInit
  <1>2. compare \in [Comparisons -> ComparisonRow] /\ \A q \in Comparisons : compare[q].phase = "off"
    BY NoComparisonType DEF SourceInit
  <1>3. check \in [Checks -> CheckRow] /\ \A h \in Checks : check[h].phase = "off"
    BY NoCheckType DEF SourceInit
  <1>4. /\ compared \in [start : 0..MaxComparisons, high : BOOLEAN, severity : {"ok", "warn", "error"}]
        /\ verdict \in [start : 0..MaxChecks, error : BOOLEAN, crossed : BOOLEAN]
        /\ verdict.error = FALSE
        /\ compares \in 0..MaxComparisons /\ checks \in 0..MaxChecks
    BY SourceBounds DEF SourceInit
  <1>5. feed \in [Notices -> (StatusesUsed \ {"void"}) \cup {"absent"}]
        /\ shown \in [Notices -> Stages \cup {"absent"}]
    BY <1>1, NoComparisonType DEF NoFeed
  <1>6. SourceTypeOK
    BY <1>1, <1>2, <1>3, <1>4, <1>5 DEF SourceTypeOK, ComparisonRow, CheckRow
  <1> QED
    BY <1>1, <1>2, <1>3, <1>4, <1>6
    DEF SourceInv, SettledIsRight, RowsAreAnswered, UncrossedIsCurrent, UncrossedIsAlone,
        ErrorIsAboutToBeTold

-----------------------------------------------------------------------------
\* Steps of the source, of an ingestion and of comparisons leave the checks alone.
LEMMA ChecksKeep ==
    ASSUME SourceInv, UNCHANGED checkVars
    PROVE  (UncrossedIsAlone /\ ErrorIsAboutToBeTold /\ checks \in 0..MaxChecks)'
  BY DEF SourceInv, UncrossedIsAlone, ErrorIsAboutToBeTold, checkVars

\* The source moves on, an ingestion commits: what it touches is not settled.
LEMMA SourceMovesKeeps ==
    ASSUME SourceInv, NEW n \in Notices, SourceMoves(n)
    PROVE  SourceInv'
  <1>1. PICK status \in StatusesUsed : published' = [published EXCEPT ![n] = status]
    BY DEF SourceMoves
  <1>2. /\ published' \in [Notices -> StatusesUsed]
        /\ \A m \in Notices \ {n} : published'[m] = published[m]
    BY <1>1, TypesOfSource
  <1>3. settled' = settled \ {n} /\ UNCHANGED <<shown, awarded, feed, comparisonVars, checkVars>>
    BY DEF SourceMoves
  <1>4. SourceTypeOK'
    BY <1>2, <1>3 DEF SourceInv, SourceTypeOK, comparisonVars, checkVars
  <1>5. SettledIsRight'
    BY <1>2, <1>3, TypesOfSource DEF SourceInv, SettledIsRight
  <1>6. UncrossedIsCurrent'
    BY <1>2, <1>3, TypesOfSource DEF SourceInv, UncrossedIsCurrent, comparisonVars
  <1>7. RowsAreAnswered' /\ compares' \in 0..MaxComparisons
    BY <1>3 DEF SourceInv, RowsAreAnswered, comparisonVars
  <1> QED
    BY <1>3, <1>4, <1>5, <1>6, <1>7, ChecksKeep DEF SourceInv

LEMMA FeedArrivesKeeps == SourceInv /\ FeedArrives => SourceInv'
  <1> SUFFICES ASSUME SourceInv, FeedArrives PROVE SourceInv'
    OBVIOUS
  <1>1. UNCHANGED <<published, shown, awarded, comparisonVars, checkVars, settled>>
    BY DEF FeedArrives
  <1>2. feed' \in [Notices -> (StatusesUsed \ {"void"}) \cup {"absent"}]
    <2>1. PICK window \in (SUBSET {n \in Notices : StageFor(published[n]) # "none"}) \ {{}} :
             feed' = [n \in Notices |-> IF n \in window THEN published[n] ELSE "absent"]
      BY DEF FeedArrives
    <2>2. \A n \in window : published[n] \in StatusesUsed \ {"void"}
      BY StageForType, SourceBounds, TypesOfSource
    <2> QED
      BY <2>1, <2>2
  <1>3. SourceTypeOK'
    BY <1>1, <1>2 DEF SourceInv, SourceTypeOK, comparisonVars, checkVars
  <1> QED
    BY <1>1, <1>3, ChecksKeep
    DEF SourceInv, SettledIsRight, UncrossedIsCurrent, RowsAreAnswered, comparisonVars

LEMMA FeedCommitsKeeps == SourceInv /\ FeedCommits => SourceInv'
  <1> SUFFICES ASSUME SourceInv, FeedCommits PROVE SourceInv'
    OBVIOUS
  <1> DEFINE got == {n \in Notices : feed[n] # "absent"}
  <1>1. /\ shown' = [n \in Notices |-> IF n \in got THEN StageFor(feed[n]) ELSE shown[n]]
        /\ awarded' = awarded \cup {n \in got : HasWinner(feed[n])}
        /\ feed' = NoFeed /\ settled' = settled \ got
        /\ UNCHANGED <<published, comparisonVars, checkVars>>
    BY DEF FeedCommits
  <1>2. \A n \in got : StageFor(feed[n]) \in Stages
    BY StageForType, SourceBounds, TypesOfSource
  <1>3. /\ shown' \in [Notices -> Stages \cup {"absent"}]
        /\ \A n \in settled' : n \in settled /\ shown'[n] = shown[n]
    BY <1>1, <1>2, TypesOfSource
  <1>4. SourceTypeOK'
    <2>1. feed' \in [Notices -> (StatusesUsed \ {"void"}) \cup {"absent"}]
      BY <1>1 DEF NoFeed
    <2>2. awarded' \subseteq Notices /\ settled' \subseteq Notices
      BY <1>1, TypesOfSource
    <2> HIDE DEF got
    <2> QED
      BY <1>1, <1>3, <2>1, <2>2 DEF SourceInv, SourceTypeOK, comparisonVars, checkVars
  <1> HIDE DEF got
  <1>5. SettledIsRight'
    BY <1>1, <1>3 DEF SourceInv, SettledIsRight
  <1>6. UncrossedIsCurrent'
    BY <1>1, <1>3 DEF SourceInv, UncrossedIsCurrent, comparisonVars
  <1>7. RowsAreAnswered' /\ compares' \in 0..MaxComparisons
    BY <1>1 DEF SourceInv, RowsAreAnswered, comparisonVars
  <1> QED
    BY <1>1, <1>4, <1>5, <1>6, <1>7, ChecksKeep DEF SourceInv

-----------------------------------------------------------------------------
\* What a comparison has read is the row as it is, also where it is settled.
LEMMA CompareReadsKeeps ==
    ASSUME SourceInv, NEW q \in Comparisons, CompareReads(q)
    PROVE  SourceInv'
  <1>1. /\ compares' = compares + 1 /\ compares < MaxComparisons
        /\ UNCHANGED <<published, shown, awarded, feed, compared, checkVars, settled>>
    BY DEF CompareReads
  <1>2. PICK rows \in (SUBSET {n \in Notices : shown[n] # "absent"}) \ {{}} :
           compare' = [compare EXCEPT ![q] =
              [NoComparison EXCEPT !.phase = "reading", !.start = compares',
                                   !.rows = rows,
                  !.stored = [n \in Notices |-> IF n \in rows THEN shown[n] ELSE "absent"]]]
    BY DEF CompareReads
  <1> DEFINE kept == [n \in Notices |-> IF n \in rows THEN shown[n] ELSE "absent"]
             x == [NoComparison EXCEPT !.phase = "reading", !.start = compares',
                                       !.rows = rows, !.stored = kept]
  <1>3. compares' \in 0..MaxComparisons
    BY <1>1, SourceBounds DEF SourceInv
  <1>4. rows \subseteq Notices /\ kept \in [Notices -> Stages \cup {"absent"}]
        /\ \A n \in rows : kept[n] = shown[n]
    BY TypesOfSource
  <1>5. /\ x = [NoComparison EXCEPT !.phase = "reading", !.start = compares',
                                    !.rows = rows, !.stored = kept]
        /\ NoComparison \in ComparisonRow /\ compare' = [compare EXCEPT ![q] = x]
    BY <1>2, NoComparisonType
  <1> HIDE DEF kept, x
  <1>6. x \in ComparisonRow /\ x.phase = "reading" /\ x.rows = rows /\ x.stored = kept
    <2>1. PICK entry \in ComparisonRow : entry = NoComparison
      BY <1>5
    <2>2. x = [entry EXCEPT !.phase = "reading", !.start = compares', !.rows = rows, !.stored = kept]
      BY <1>5, <2>1
    <2>3. x = [phase |-> "reading", start |-> compares', rows |-> rows, stored |-> kept,
               said |-> entry.said, crossed |-> entry.crossed]
      BY <2>2 DEF ComparisonRow
    <2> QED
      BY <1>3, <1>4, <2>1, <2>3 DEF ComparisonRow
  <1>7. /\ compare' \in [Comparisons -> ComparisonRow]
        /\ \A r \in Comparisons : compare'[r] = IF r = q THEN x ELSE compare[r]
    BY <1>5, <1>6, TypesOfSource, CompareAfter
  <1>8. SourceTypeOK'
    BY <1>1, <1>7, TypesOfSource DEF SourceTypeOK, ComparisonRow, CheckRow, checkVars
  <1>9. SettledIsRight'
    BY <1>1 DEF SourceInv, SettledIsRight
  <1>10. RowsAreAnswered'
    BY <1>6, <1>7 DEF SourceInv, RowsAreAnswered
  <1>11. UncrossedIsCurrent'
    BY <1>1, <1>4, <1>6, <1>7 DEF SourceInv, UncrossedIsCurrent
  <1> QED
    BY <1>1, <1>3, <1>8, <1>9, <1>10, <1>11, ChecksKeep DEF SourceInv

\* What is not answered is as it was; what is, is as the source says it now.
LEMMA CompareFetchesKeeps ==
    ASSUME SourceInv, NEW q \in Comparisons, CompareFetches(q)
    PROVE  SourceInv'
  <1>1. /\ compare[q].phase = "reading"
        /\ UNCHANGED <<published, shown, awarded, feed, compared, compares, checkVars, settled>>
    BY DEF CompareFetches
  <1> DEFINE answers(missing) ==
        [n \in Notices |-> IF n \in missing THEN "not_found"
                           ELSE IF n \in compare[q].rows THEN StageFor(published[n])
                           ELSE "absent"]
  <1>2. PICK missing \in SUBSET compare[q].rows :
           compare' = [compare EXCEPT ![q].phase = "fetched", ![q].said = answers(missing)]
    BY DEF CompareFetches
  <1> DEFINE said == answers(missing)
             x == [compare[q] EXCEPT !.phase = "fetched", !.said = said]
  <1>3. /\ said \in [Notices -> Answers]
        /\ \A n \in compare[q].rows : /\ said[n] \in Stages \cup {"none", "not_found"}
                                      /\ said[n] \in {"not_found", StageFor(published[n])}
    <2>1. \A n \in Notices : StageFor(published[n]) \in Stages \cup {"none"}
      BY TypesOfSource, StageForType, SourceBounds
    <2>2. compare[q].rows \subseteq Notices
      BY TypesOfSource, ComparisonFields
    <2> QED
      BY <2>1, <2>2 DEF Answers
  <1> HIDE DEF said
  <1>4. /\ x = [compare[q] EXCEPT !.phase = "fetched", !.said = said]
        /\ compare[q] \in ComparisonRow /\ compare' = [compare EXCEPT ![q] = x]
    <2>1. q \in DOMAIN compare /\ compare[q] \in ComparisonRow
      BY TypesOfSource
    <2> QED
      BY <1>2, <2>1 DEF said
  <1> HIDE DEF x
  <1>5. /\ x \in ComparisonRow /\ x.phase = "fetched" /\ x.said = said /\ x.rows = compare[q].rows
        /\ x.stored = compare[q].stored /\ x.crossed = compare[q].crossed
    <2>1. PICK entry \in ComparisonRow : entry = compare[q]
      BY <1>4
    <2>2. x = [entry EXCEPT !.phase = "fetched", !.said = said]
      BY <1>4, <2>1
    <2>3. x = [phase |-> "fetched", start |-> entry.start, rows |-> entry.rows, stored |-> entry.stored,
               said |-> said, crossed |-> entry.crossed]
      BY <2>2 DEF ComparisonRow
    <2> QED
      BY <1>3, <2>1, <2>3 DEF ComparisonRow
  <1>7. /\ compare' \in [Comparisons -> ComparisonRow]
        /\ \A r \in Comparisons : compare'[r] = IF r = q THEN x ELSE compare[r]
    BY <1>4, <1>5, TypesOfSource, CompareAfter
  <1>8. SourceTypeOK'
    BY <1>1, <1>7, TypesOfSource DEF SourceTypeOK, ComparisonRow, CheckRow, checkVars
  <1>9. SettledIsRight' /\ compares' \in 0..MaxComparisons
    BY <1>1 DEF SourceInv, SettledIsRight
  <1>10. RowsAreAnswered'
    BY <1>3, <1>5, <1>7 DEF SourceInv, RowsAreAnswered
  <1>11. UncrossedIsCurrent'
    BY <1>1, <1>3, <1>5, <1>7 DEF SourceInv, UncrossedIsCurrent
  <1> QED
    BY <1>1, <1>8, <1>9, <1>10, <1>11, ChecksKeep DEF SourceInv

LEMMA ChangesAreStages ==
    ASSUME SourceInv, NEW q \in Comparisons, compare[q].phase = "fetched"
    PROVE  /\ Changes(q) \subseteq compare[q].rows /\ compare[q].rows \subseteq Notices
           /\ \A n \in Changes(q) : compare[q].said[n] \in Stages
  <1>1. \A n \in compare[q].rows : compare[q].said[n] \in Stages \cup {"none", "not_found"}
    BY DEF SourceInv, RowsAreAnswered
  <1> QED
    BY <1>1, TypesOfSource, ComparisonFields DEF Changes, Returned

\* A comparison that commits overtakes all others; what it leaves right is
\* settled, what it did not ask for is as settled as before.
LEMMA CompareCommitsKeeps ==
    ASSUME SourceInv, NEW q \in Comparisons, CompareCommits(q)
    PROVE  SourceInv'
  <1>1. /\ compare[q].phase = "fetched"
        /\ shown' = [n \in Notices |-> IF n \in Changes(q) THEN compare[q].said[n] ELSE shown[n]]
        /\ RecordResult(q) /\ Close(q)
        /\ settled' = LeftRight(q) \cup (settled \ compare[q].rows)
        /\ UNCHANGED <<published, awarded, feed, compares, checkVars>>
    BY DEF CompareCommits
  <1>2. /\ Changes(q) \subseteq compare[q].rows /\ compare[q].rows \subseteq Notices
        /\ \A n \in Changes(q) : compare[q].said[n] \in Stages
    BY <1>1, ChangesAreStages
  <1>3. shown' \in [Notices -> Stages \cup {"absent"}]
    BY <1>1, <1>2, TypesOfSource
  <1>4. settled' \subseteq Notices /\ SettledIsRight'
    <2>1. ASSUME NEW n \in LeftRight(q)
          PROVE  n \in Notices /\ StageFor(published[n]) \in {"none", shown'[n]}
      BY <1>1, <1>2, <2>1 DEF LeftRight, Returned
    <2>2. ASSUME NEW n \in settled \ compare[q].rows
          PROVE  n \in Notices /\ StageFor(published[n]) \in {"none", shown'[n]}
      BY <1>1, <1>2, TypesOfSource DEF SourceInv, SettledIsRight
    <2> QED
      BY <1>1, <2>1, <2>2 DEF SettledIsRight
  <1>5. \A r \in Comparisons :
           /\ compare'[r] \in ComparisonRow
           /\ compare'[r].phase # "off" =>
                 /\ compare'[r].crossed /\ compare'[r].phase = compare[r].phase
                 /\ compare'[r].rows = compare[r].rows /\ compare'[r].said = compare[r].said
    <2> TAKE r \in Comparisons
    <2>0. compare[r] \in ComparisonRow
      BY TypesOfSource
    <2>1. CASE r = q
      BY <1>1, <2>1, NoComparisonType DEF Close
    <2>2. CASE r # q /\ compare[r].phase = "off"
      BY <1>1, <2>0, <2>2 DEF Close
    <2>3. CASE r # q /\ compare[r].phase # "off"
      <3>1. compare'[r] = [compare[r] EXCEPT !.crossed = TRUE]
        BY <1>1, <2>3 DEF Close
      <3> QED
        BY <2>0, <3>1 DEF ComparisonRow
    <2> QED
      BY <2>1, <2>2, <2>3
  <1>6. compare' \in [Comparisons -> ComparisonRow]
    BY <1>1, <1>5 DEF Close
  <1>7. compared' \in [start : 0..MaxComparisons, high : BOOLEAN, severity : {"ok", "warn", "error"}]
    <2>1. MismatchHigh(q) \in BOOLEAN
      BY DEF MismatchHigh
    <2>2. ReconciliationSeverity(q) \in {"ok", "warn", "error"}
      BY DEF ReconciliationSeverity
    <2>3. compare[q].start \in 0..MaxComparisons
      BY TypesOfSource, ComparisonFields
    <2> QED
      BY <1>1, <2>1, <2>2, <2>3, TypesOfSource DEF RecordResult
  <1>8. SourceTypeOK'
    BY <1>1, <1>3, <1>4, <1>6, <1>7, TypesOfSource DEF SourceTypeOK, ComparisonRow, CheckRow, checkVars
  <1>9. RowsAreAnswered' /\ UncrossedIsCurrent' /\ compares' \in 0..MaxComparisons
    BY <1>1, <1>5 DEF SourceInv, RowsAreAnswered, UncrossedIsCurrent
  <1> QED
    BY <1>1, <1>4, <1>8, <1>9, ChecksKeep DEF SourceInv

LEMMA CompareEndsKeeps ==
    ASSUME SourceInv, NEW q \in Comparisons, CompareEnds(q)
    PROVE  SourceInv'
  <1>1. UNCHANGED <<published, shown, awarded, feed, compared, compares, checkVars, settled>>
    BY DEF CompareEnds
  <1>2. /\ compare' \in [Comparisons -> ComparisonRow]
        /\ \A r \in Comparisons : compare'[r] = IF r = q THEN NoComparison ELSE compare[r]
    BY TypesOfSource, CompareAfter, NoComparisonType DEF CompareEnds
  <1>3. SourceTypeOK'
    BY <1>1, <1>2, TypesOfSource DEF SourceTypeOK, ComparisonRow, CheckRow, checkVars
  <1>4. SettledIsRight' /\ RowsAreAnswered' /\ UncrossedIsCurrent' /\ compares' \in 0..MaxComparisons
    BY <1>1, <1>2, NoComparisonType
    DEF SourceInv, SettledIsRight, RowsAreAnswered, UncrossedIsCurrent
  <1> QED
    BY <1>1, <1>3, <1>4, ChecksKeep DEF SourceInv

-----------------------------------------------------------------------------
\* Steps of the health checks leave the rows and the comparisons alone.
LEMMA RowsKeep ==
    ASSUME SourceInv, UNCHANGED <<published, shown, awarded, feed, comparisonVars, settled>>,
           told' \in BOOLEAN, check' \in [Checks -> CheckRow], checks' \in 0..MaxChecks,
           verdict' \in [start : 0..MaxChecks, error : BOOLEAN, crossed : BOOLEAN],
           UncrossedIsAlone', ErrorIsAboutToBeTold'
    PROVE  SourceInv'
  <1>1. SourceTypeOK'
    BY TypesOfSource DEF SourceTypeOK, ComparisonRow, CheckRow, comparisonVars
  <1>2. SettledIsRight' /\ RowsAreAnswered' /\ UncrossedIsCurrent' /\ compares' \in 0..MaxComparisons
    BY DEF SourceInv, SettledIsRight, RowsAreAnswered, UncrossedIsCurrent, comparisonVars
  <1> QED
    BY <1>1, <1>2 DEF SourceInv

LEMMA CheckCollectsKeeps ==
    ASSUME SourceInv, NEW h \in Checks, CheckCollects(h)
    PROVE  SourceInv'
  <1>1. /\ check[h].phase = "off" /\ checks < MaxChecks /\ checks' = checks + 1
        /\ UNCHANGED <<published, shown, awarded, feed, comparisonVars, verdict, told, settled>>
    BY DEF CheckCollects
  <1>2. checks' \in 0..MaxChecks
    BY <1>1, SourceBounds DEF SourceInv
  <1> DEFINE others == \E g \in Checks : check[g].phase # "off"
             error == \E n \in awarded : shown[n] \in OpenStages
  <1>3. /\ check' = [g \in Checks |->
              IF g = h THEN [NoCheck EXCEPT !.phase = "collected", !.start = checks',
                               !.error = error, !.crossed = others]
              ELSE IF check[g].phase = "off" THEN check[g] ELSE [check[g] EXCEPT !.crossed = TRUE]]
    BY DEF CheckCollects
  <1>4. /\ check'[h] \in CheckRow /\ check'[h].phase = "collected"
        /\ check'[h].crossed <=> others
    <2>1. PICK entry \in CheckRow : entry = NoCheck
      BY NoCheckType
    <2>2. PICK e \in BOOLEAN, o \in BOOLEAN : e = error /\ o = others
      OBVIOUS
    <2> HIDE DEF error, others
    <2>3. check'[h] = [entry EXCEPT !.phase = "collected", !.start = checks', !.error = e,
                                  !.crossed = o]
      BY <1>3, <2>1, <2>2
    <2>4. check'[h] = [phase |-> "collected", start |-> checks', error |-> e,
                       before |-> entry.before, crossed |-> o]
      BY <2>3 DEF CheckRow
    <2> QED
      BY <1>2, <2>1, <2>2, <2>4 DEF CheckRow
  <1>5. \A g \in Checks \ {h} :
           /\ check'[g] \in CheckRow /\ check'[g].phase = check[g].phase
           /\ check'[g].error = check[g].error /\ check'[g].before = check[g].before
           /\ check[g].phase # "off" => check'[g].crossed
    <2> TAKE g \in Checks \ {h}
    <2>1. check[g] \in CheckRow
      BY TypesOfSource
    <2>2. CASE check[g].phase = "off"
      <3>1. check'[g] = check[g]
        BY <1>3, <2>2
      <3> QED
        BY <2>1, <2>2, <3>1
    <2>3. CASE check[g].phase # "off"
      <3>1. check'[g] = [check[g] EXCEPT !.crossed = TRUE]
        BY <1>3, <2>3
      <3> QED
        BY <2>1, <2>3, <3>1 DEF CheckRow
    <2> QED
      BY <2>2, <2>3
  <1>6. check' \in [Checks -> CheckRow]
    <2> HIDE DEF error, others
    <2>1. \A g \in Checks : check'[g] \in CheckRow
      BY <1>4, <1>5
    <2> QED
      BY <1>3, <2>1
  <1>7. UncrossedIsAlone'
    BY <1>1, <1>4, <1>5 DEF UncrossedIsAlone
  <1>8. ErrorIsAboutToBeTold'
    <2> SUFFICES ASSUME verdict.error, ~verdict.crossed, ~told
                 PROVE  \E g \in Checks :
                            check'[g].phase = "committed" /\ check'[g].error /\ ~check'[g].before
      BY <1>1 DEF ErrorIsAboutToBeTold
    <2>1. PICK g \in Checks : check[g].phase = "committed" /\ check[g].error /\ ~check[g].before
      BY DEF SourceInv, ErrorIsAboutToBeTold
    <2> QED
      BY <1>1, <1>5, <2>1
  <1> QED
    BY <1>1, <1>2, <1>6, <1>7, <1>8, RowsKeep, TypesOfSource

\* The verdict a check reads as the previous one is the latest while it is alone.
LEMMA CheckReadsPreviousKeeps ==
    ASSUME SourceInv, NEW h \in Checks, CheckReadsPrevious(h)
    PROVE  SourceInv'
  <1>1. /\ check[h].phase = "collected"
        /\ check' = [check EXCEPT ![h].phase = "read", ![h].before = verdict.error]
        /\ UNCHANGED <<published, shown, awarded, feed, comparisonVars, verdict, checks, told, settled>>
    BY DEF CheckReadsPrevious
  <1>2. PICK entry \in CheckRow : entry = check[h]
    BY TypesOfSource
  <1>e. PICK e \in BOOLEAN : e = verdict.error
    BY TypesOfSource
  <1> DEFINE x == [entry EXCEPT !.phase = "read", !.before = e]
  <1>3. x = [entry EXCEPT !.phase = "read", !.before = e] /\ check' = [check EXCEPT ![h] = x]
    BY <1>1, <1>2, <1>e, TypesOfSource
  <1> HIDE DEF x
  <1>4. x = [phase |-> "read", start |-> entry.start, error |-> entry.error,
             before |-> e, crossed |-> entry.crossed]
    BY <1>3 DEF CheckRow
  <1>5. x \in CheckRow /\ x.phase = "read" /\ x.before = verdict.error /\ x.crossed = check[h].crossed
    BY <1>2, <1>4, <1>e DEF CheckRow
  <1>6. /\ check' \in [Checks -> CheckRow]
        /\ \A g \in Checks : check'[g] = IF g = h THEN x ELSE check[g]
    BY <1>3, <1>5, TypesOfSource, CheckAfter
  <1>7. UncrossedIsAlone'
    BY <1>1, <1>5, <1>6 DEF SourceInv, UncrossedIsAlone
  <1>8. ErrorIsAboutToBeTold'
    BY <1>1, <1>6 DEF SourceInv, ErrorIsAboutToBeTold
  <1> QED
    BY <1>1, <1>6, <1>7, <1>8, RowsKeep, TypesOfSource DEF SourceInv

\* The error of a check that is alone was new, or its predecessor had told it.
LEMMA CheckCommitsKeeps ==
    ASSUME SourceInv, NEW h \in Checks, CheckCommits(h)
    PROVE  SourceInv'
  <1>1. /\ check[h].phase = "read"
        /\ check' = [check EXCEPT ![h].phase = "committed"]
        /\ told' = (told /\ verdict'.error)
        /\ UNCHANGED <<published, shown, awarded, feed, comparisonVars, checks, settled>>
    BY DEF CheckCommits
  <1>2. PICK entry \in CheckRow : entry = check[h]
    BY TypesOfSource
  <1> DEFINE x == [phase |-> "committed", start |-> entry.start, error |-> entry.error,
                   before |-> entry.before, crossed |-> entry.crossed]
  <1>3. x = [entry EXCEPT !.phase = "committed"]
    BY DEF CheckRow
  <1>4. check' = [check EXCEPT ![h] = x]
    BY <1>1, <1>2, <1>3, TypesOfSource
  <1>5. /\ x \in CheckRow /\ x.phase = "committed" /\ x.error = check[h].error
        /\ x.before = check[h].before /\ x.crossed = check[h].crossed
    BY <1>2 DEF CheckRow
  <1> HIDE DEF x
  <1>6. /\ check' \in [Checks -> CheckRow]
        /\ \A g \in Checks : check'[g] = IF g = h THEN x ELSE check[g]
    BY <1>4, <1>5, TypesOfSource, CheckAfter
  <1>7. \/ verdict' = verdict
        \/ /\ verdict'.error = check[h].error /\ verdict'.error \in BOOLEAN
           /\ verdict'.crossed <=> check[h].crossed \/ (check[h].error /\ verdict.crossed)
    BY TypesOfSource, CheckFields DEF CheckCommits
  <1>8. verdict' \in [start : 0..MaxChecks, error : BOOLEAN, crossed : BOOLEAN]
    <2>1. /\ check[h].start \in 0..MaxChecks /\ check[h].error \in BOOLEAN
          /\ (check[h].crossed \/ (check[h].error /\ verdict.crossed)) \in BOOLEAN
      BY TypesOfSource, CheckFields
    <2> QED
      BY <2>1, TypesOfSource DEF CheckCommits
  <1>9. UncrossedIsAlone'
    <2> SUFFICES ASSUME NEW g \in Checks, check'[g].phase # "off", ~check'[g].crossed
                 PROVE  /\ \A f \in Checks \ {g} : check'[f].phase = "off"
                        /\ check'[g].phase = "read" => check'[g].before = verdict'.error
      BY DEF UncrossedIsAlone
    <2>1. check[g].phase # "off" /\ ~check[g].crossed
      BY <1>1, <1>5, <1>6
    <2>2. \A f \in Checks \ {g} : check[f].phase = "off"
      BY <2>1 DEF SourceInv, UncrossedIsAlone
    <2>3. g = h
      BY <1>1, <2>2
    <2> QED
      BY <1>5, <1>6, <2>2, <2>3
  <1>10. ErrorIsAboutToBeTold'
    <2> SUFFICES ASSUME verdict'.error, ~verdict'.crossed, ~told'
                 PROVE  \E g \in Checks :
                            check'[g].phase = "committed" /\ check'[g].error /\ ~check'[g].before
      BY DEF ErrorIsAboutToBeTold
    <2>0. ~told
      BY <1>1
    <2>1. CASE verdict.error /\ ~verdict.crossed
      <3>1. PICK g \in Checks : check[g].phase = "committed" /\ check[g].error /\ ~check[g].before
        BY <2>0, <2>1 DEF SourceInv, ErrorIsAboutToBeTold
      <3> QED
        BY <1>1, <1>6, <3>1
    <2>2. CASE ~(verdict.error /\ ~verdict.crossed)
      <3>1. check[h].error /\ ~check[h].crossed /\ ~verdict.crossed /\ ~verdict.error
        BY <1>7, <2>2
      <3>2. ~check[h].before
        BY <1>1, <3>1 DEF SourceInv, UncrossedIsAlone
      <3> QED
        BY <1>5, <1>6, <3>1, <3>2
    <2> QED
      BY <2>1, <2>2
  <1>11. told' \in BOOLEAN
    BY <1>1
  <1> QED
    BY <1>1, <1>6, <1>8, <1>9, <1>10, <1>11, RowsKeep DEF SourceInv

\* A check ends: it has told the operator, or it has died.
LEMMA CheckAlertsKeeps ==
    ASSUME SourceInv, NEW h \in Checks, CheckAlerts(h)
    PROVE  SourceInv'
  <1>1. /\ check' = [check EXCEPT ![h] = NoCheck]
        /\ told' = (told \/ (check[h].error /\ ~check[h].before))
        /\ UNCHANGED <<published, shown, awarded, feed, comparisonVars, verdict, checks, settled>>
    BY DEF CheckAlerts
  <1>2. /\ check' \in [Checks -> CheckRow]
        /\ \A g \in Checks : check'[g] = IF g = h THEN NoCheck ELSE check[g]
    BY <1>1, NoCheckType, TypesOfSource, CheckAfter
  <1>3. UncrossedIsAlone'
    BY <1>1, <1>2, NoCheckType DEF SourceInv, UncrossedIsAlone
  <1>4. ErrorIsAboutToBeTold'
    BY <1>1, <1>2 DEF SourceInv, ErrorIsAboutToBeTold
  <1>5. told' \in BOOLEAN
    BY <1>1
  <1> QED
    BY <1>1, <1>2, <1>3, <1>4, <1>5, RowsKeep, TypesOfSource DEF SourceInv

LEMMA CheckDiesKeeps ==
    ASSUME SourceInv, NEW h \in Checks, CheckDies(h)
    PROVE  SourceInv'
  <1>1. /\ check' = [check EXCEPT ![h] = NoCheck]
        /\ verdict' = [verdict EXCEPT !.crossed = @ \/ check[h].phase = "committed"]
        /\ UNCHANGED <<published, shown, awarded, feed, comparisonVars, checks, told, settled>>
    BY DEF CheckDies
  <1>2. /\ check' \in [Checks -> CheckRow]
        /\ \A g \in Checks : check'[g] = IF g = h THEN NoCheck ELSE check[g]
    BY <1>1, NoCheckType, TypesOfSource, CheckAfter
  <1>3. /\ verdict' \in [start : 0..MaxChecks, error : BOOLEAN, crossed : BOOLEAN]
        /\ verdict'.error = verdict.error
        /\ verdict'.crossed <=> verdict.crossed \/ check[h].phase = "committed"
    BY <1>1, TypesOfSource
  <1>4. UncrossedIsAlone'
    BY <1>2, <1>3, NoCheckType DEF SourceInv, UncrossedIsAlone
  <1>5. ErrorIsAboutToBeTold'
    BY <1>1, <1>2, <1>3 DEF SourceInv, ErrorIsAboutToBeTold
  <1> QED
    BY <1>1, <1>2, <1>3, <1>4, <1>5, RowsKeep, TypesOfSource DEF SourceInv

-----------------------------------------------------------------------------
LEMMA SourceStepKeeps == SourceInv /\ [SourceNext]_sourceVars => SourceInv'
  <1> SUFFICES ASSUME SourceInv, [SourceNext]_sourceVars PROVE SourceInv'
    OBVIOUS
  <1>1. CASE SourceStep
    BY <1>1, SourceMovesKeeps, FeedArrivesKeeps, FeedCommitsKeeps DEF SourceStep
  <1>2. CASE CompareStep
    BY <1>2, CompareReadsKeeps, CompareFetchesKeeps, CompareCommitsKeeps, CompareEndsKeeps
    DEF CompareStep
  <1>3. CASE CheckStep
    BY <1>3, CheckCollectsKeeps, CheckReadsPreviousKeeps, CheckCommitsKeeps, CheckAlertsKeeps,
       CheckDiesKeeps DEF CheckStep
  <1>4. CASE UNCHANGED sourceVars
    BY <1>4
    DEF sourceVars, SourceInv, SourceTypeOK, SettledIsRight, RowsAreAnswered, UncrossedIsCurrent,
        UncrossedIsAlone, ErrorIsAboutToBeTold
  <1> QED
    BY <1>1, <1>2, <1>3, <1>4 DEF SourceNext

LEMMA SourceInvariance == SourceSpec => []SourceInv
  BY SourceInitInv, SourceStepKeeps, PTL DEF SourceSpec

\* The tenders, the comparisons and the health checks stay in their sets.
THEOREM SourceTypeCorrect == SourceSpec => []SourceTypeOK
  <1>1. SourceInv => SourceTypeOK
    BY DEF SourceInv
  <1> QED
    BY SourceInvariance, <1>1, PTL

\* An error the dashboard shows is one the operator was told of, or is about to
\* be, whatever number of health checks overlap, commit, alert and die, apart
\* from the two ways it is lost in (an overlap, a death before the mail).
THEOREM ShownErrorsAreTold == SourceSpec => []ShownErrorIsTold
  <1>1. SourceInv => ShownErrorIsTold
    BY DEF SourceInv, ErrorIsAboutToBeTold, ShownErrorIsTold
  <1> QED
    BY SourceInvariance, <1>1, PTL

\* A comparison that none has overtaken changes nothing that is settled.
LEMMA ChangesAreUnsettled ==
    ASSUME SourceInv, NEW q \in Comparisons, compare[q].phase = "fetched", ~compare[q].crossed
    PROVE  Changes(q) \cap settled = {}
  <1> SUFFICES ASSUME NEW n \in Changes(q), n \in settled PROVE FALSE
    OBVIOUS
  <1>1. /\ n \in compare[q].rows /\ compare[q].said[n] # "not_found"
        /\ compare[q].said[n] # "none" /\ compare[q].said[n] # compare[q].stored[n]
    BY DEF Changes, Returned
  <1>2. compare[q].stored[n] = shown[n] /\ compare[q].said[n] = StageFor(published[n])
    BY <1>1 DEF SourceInv, UncrossedIsCurrent
  <1>3. StageFor(published[n]) \in {"none", shown[n]}
    BY DEF SourceInv, SettledIsRight
  <1> QED
    BY <1>1, <1>2, <1>3

LEMMA MismatchChanges ==
    ASSUME SourceInv, NEW q \in Comparisons, MismatchHigh(q)
    PROVE  Changes(q) # {}
  <1>1. IsFiniteSet(Returned(q))
    <2>1. Returned(q) \subseteq Notices
      BY TypesOfSource, ComparisonFields DEF Returned
    <2> QED
      BY <2>1, SourceBounds, FS_Subset
  <1>2. Cardinality(Returned(q)) \in Nat /\ Cardinality({}) = 0
    BY <1>1, FS_CardinalityType, FS_EmptySet
  <1> QED
    BY <1>2 DEF MismatchHigh

\* Red means "still not right": a comparison that no other one overtook reports
\* an error only with a notice the one before had not settled, or that the
\* source or an ingestion has touched since.
THEOREM RedMeansStillWrong == SourceSpec => RedIsNotAlreadyFixed
  <1> DEFINE Red(q) ==
          /\ compare[q].phase = "fetched" /\ compare'[q].phase = "off" /\ compared' # compared
          /\ compared'.severity = "error" /\ ~compare[q].crossed
  <1>1. SourceInv /\ [SourceNext]_sourceVars =>
            [\A q \in Comparisons : Red(q) => Changes(q) \ settled # {}]_sourceVars
    <2> SUFFICES ASSUME SourceInv, SourceNext, NEW q \in Comparisons, Red(q)
                 PROVE  Changes(q) \ settled # {}
      OBVIOUS
    <2>1. PICK r \in Comparisons : CompareCommits(r)
      BY DEF SourceNext, SourceStep, CompareStep, CheckStep, SourceMoves, FeedArrives, FeedCommits,
             CompareReads, CompareFetches, CompareEnds, CheckCollects, CheckReadsPrevious,
             CheckCommits, CheckAlerts, CheckDies, comparisonVars
    <2>2. r = q
      <3>1. ASSUME r # q PROVE compare'[q] = [compare[q] EXCEPT !.crossed = TRUE]
        BY <2>1, <3>1 DEF CompareCommits, Close
      <3>2. ASSUME r # q PROVE FALSE
        <4>1. compare'[q].phase = "fetched"
          BY <3>1, <3>2, TypesOfSource, ComparisonFields DEF ComparisonRow
        <4> QED
          BY <4>1
      <3> QED
        BY <3>2
    <2>3. MismatchHigh(q)
      BY <2>1, <2>2 DEF CompareCommits, RecordResult, ReconciliationSeverity
    <2> QED
      BY <2>3, ChangesAreUnsettled, MismatchChanges
  <1> QED
    BY <1>1, SourceInvariance, PTL DEF SourceSpec, RedIsNotAlreadyFixed

-----------------------------------------------------------------------------
(***************************************************************************)
(* Upkeep, for any number of days                                          *)
(***************************************************************************)

\* The age of the last success grows with the clock, and every silent check is
\* a full day of it: at the hour h of cron it is 24 hours for each, less those
\* left until the check.
AgeTellsSilence ==
    /\ age = Never => silent = 0
    /\ age # Never => /\ Day * silent <= age + (StalenessHour - hour)
                      /\ age <= Day * day + (hour - BackupHour)

UpkeepInv ==
    /\ day \in 0..MaxDays /\ hour \in HoursOfCron
    /\ apiUp \in BOOLEAN /\ configured \in BOOLEAN
    /\ kind \in Kinds
    /\ age \in Nat \cup {Never}
    /\ silent \in Nat /\ silent <= day
    /\ AgeTellsSilence
    /\ SilenceIsMailed

-----------------------------------------------------------------------------
LEMMA UpkeepInitInv == UpkeepInit => UpkeepInv
  BY MaxDaysIsNat
  DEF UpkeepInit, UpkeepInv, AgeTellsSilence, SilenceIsMailed, HoursOfCron, Kinds, Never,
      BackupHour, DrillHour, StalenessHour, Day

\* A run, or none: the clock goes to the next hour of cron; what is silent is
\* as silent as before, or no longer.
LEMMA ClockKeeps ==
    ASSUME UpkeepInv, hour # StalenessHour,
           hour' = NextCron(hour), UNCHANGED <<day, apiUp, configured, kind>>,
           \/ age' = NextCron(hour) - hour /\ silent' = 0
           \/ age' = Aged(age, NextCron(hour) - hour) /\ silent' \in {0, silent}
    PROVE  UpkeepInv'
  <1> USE DEF HoursOfCron, BackupHour, DrillHour, StalenessHour, Day, Never
  <1>1. hour \in {3, 4} /\ day \in Nat /\ silent \in Nat /\ age \in Nat \cup {-1}
    BY MaxDaysIsNat DEF UpkeepInv
  <1>2. hour' = (IF hour = 3 THEN 4 ELSE 6) /\ UNCHANGED <<day, kind>>
    BY <1>1 DEF NextCron
  <1>3. CASE age' = NextCron(hour) - hour /\ silent' = 0
    <2>1. age' = (IF hour = 3 THEN 1 ELSE 2) /\ silent' = 0
      BY <1>1, <1>3 DEF NextCron
    <2>2. AgeTellsSilence' /\ SilenceIsMailed'
      BY <1>1, <1>2, <2>1 DEF AgeTellsSilence, SilenceIsMailed
    <2> QED
      BY <1>1, <1>2, <2>1, <2>2 DEF UpkeepInv
  <1>4. CASE age' = Aged(age, NextCron(hour) - hour) /\ silent' \in {0, silent}
    <2>1. age' = IF age = -1 THEN -1 ELSE age + (hour' - hour)
      BY <1>4 DEF Aged
    <2> QED
      BY <1>1, <1>2, <1>4, <2>1 DEF UpkeepInv, AgeTellsSilence, SilenceIsMailed
  <1> QED
    BY <1>3, <1>4

\* The check counts one more only while the last success is recent enough.
LEMMA CheckKeeps == UpkeepInv /\ StalenessCheck => UpkeepInv'
  <1> SUFFICES ASSUME UpkeepInv, StalenessCheck PROVE UpkeepInv'
    OBVIOUS
  <1> USE DEF HoursOfCron, BackupHour, DrillHour, StalenessHour, Day, Never
  <1>1. /\ hour = 6 /\ hour' = 3 /\ day' = day + 1 /\ day \in 0..MaxDays /\ day < MaxDays
        /\ MaxDays \in Nat /\ silent \in Nat /\ age \in Nat \cup {-1} /\ kind \in Kinds
        /\ UNCHANGED <<apiUp, configured, kind>>
    BY MaxDaysIsNat DEF UpkeepInv, StalenessCheck
  <1>2. age' = IF age = -1 THEN -1 ELSE age + 21
    BY DEF StalenessCheck, Aged
  <1>3. \/ silent' = 0
        \/ silent' = silent
        \/ /\ silent' = silent + 1 /\ age # -1
           /\ age <= IF kind = "backup" THEN 48 ELSE 240
    <2>1. Threshold = IF kind = "backup" THEN 48 ELSE 240
      BY <1>1 DEF Threshold, Kinds
    <2>2. Health \in {"never_run", "stale", "healthy"}
          /\ (Health = "healthy" => age # -1 /\ ~(age > Threshold))
      BY DEF Health
    <2>3. CASE ~Started \/ Health = "never_run"
      BY <2>3 DEF StalenessCheck
    <2>4. CASE Started /\ Health = "stale"
      BY <2>4 DEF StalenessCheck
    <2>5. CASE Started /\ Health = "healthy"
      <3>1. silent' = silent + 1
        BY <2>5 DEF StalenessCheck
      <3> QED
        BY <1>1, <2>1, <2>2, <2>5, <3>1
    <2> QED
      BY <2>2, <2>3, <2>4, <2>5
  <1> QED
    BY <1>1, <1>2, <1>3 DEF UpkeepInv, AgeTellsSilence, SilenceIsMailed, Kinds

\* The inductive invariant: a run, a check, a run by hand, a restart.
LEMMA UpkeepStep == UpkeepInv /\ [UpkeepNext]_upkeepVars => UpkeepInv'
  <1> SUFFICES ASSUME UpkeepInv, [UpkeepNext]_upkeepVars PROVE UpkeepInv'
    OBVIOUS
  <1>0. hour \in {BackupHour, DrillHour, StalenessHour}
    BY DEF UpkeepInv, HoursOfCron
  <1>1. CASE RunBackup
    BY <1>1, ClockKeeps
    DEF RunBackup, Succeeds, FailsMailed, FailsUnnoticed, Waits, Due, BackupHour, StalenessHour
  <1>2. CASE RunDrill
    BY <1>2, ClockKeeps
    DEF RunDrill, Succeeds, FailsMailed, FailsUnnoticed, Waits, Due, DrillHour, StalenessHour
  <1>3. CASE RunsNothing
    BY <1>3, ClockKeeps DEF RunsNothing, Waits
  <1>4. CASE StalenessCheck
    BY <1>4, CheckKeeps
  <1>5. CASE RunByHand
    BY <1>5, <1>0, MaxDaysIsNat
    DEF RunByHand, UpkeepInv, AgeTellsSilence, SilenceIsMailed, HoursOfCron,
        BackupHour, DrillHour, StalenessHour, Day, Never
  <1>6. CASE Stops
    BY <1>6 DEF Stops, UpkeepInv, AgeTellsSilence, SilenceIsMailed
  <1>7. CASE Starts
    BY <1>7 DEF Starts, UpkeepInv, AgeTellsSilence, SilenceIsMailed
  <1>8. CASE UNCHANGED upkeepVars
    BY <1>8 DEF upkeepVars, UpkeepInv, AgeTellsSilence, SilenceIsMailed
  <1> QED
    BY <1>1, <1>2, <1>3, <1>4, <1>5, <1>6, <1>7, <1>8 DEF UpkeepNext

LEMMA UpkeepInvariance == UpkeepSpec => []UpkeepInv
  BY UpkeepInitInv, UpkeepStep, PTL DEF UpkeepSpec

LEMMA UpkeepInvTypes == UpkeepInv => UpkeepTypeOK
  <1> SUFFICES ASSUME UpkeepInv PROVE UpkeepTypeOK
    OBVIOUS
  <1>1. hour \in {3, 4, 6} /\ day \in Nat /\ day <= MaxDays /\ MaxDays \in Nat
    BY MaxDaysIsNat DEF UpkeepInv, HoursOfCron, BackupHour, DrillHour, StalenessHour
  <1>2. silent \in 0..MaxDays
    BY <1>1 DEF UpkeepInv
  <1>3. age \in {Never} \cup 0..(Day * (MaxDays + 1))
    BY <1>1 DEF UpkeepInv, AgeTellsSilence, Never, Day, BackupHour
  <1> QED
    BY <1>2, <1>3 DEF UpkeepInv, UpkeepTypeOK

\* The clock, the age of the last success and the count of silent checks stay
\* in their sets.
THEOREM UpkeepTypeCorrect == UpkeepSpec => []UpkeepTypeOK
  BY UpkeepInvariance, UpkeepInvTypes, PTL

\* check_staleness_and_alert catches total silence: whatever mix of failures,
\* killed runs and hours the API was down follows a success, no more than three
\* daily checks of backups, or eleven of drills, pass without a success or a
\* mail.
THEOREM TotalSilenceIsCaught == UpkeepSpec => []SilenceIsMailed
  <1>1. UpkeepInv => SilenceIsMailed
    BY DEF UpkeepInv
  <1> QED
    BY UpkeepInvariance, <1>1, PTL

-----------------------------------------------------------------------------
(***************************************************************************)
(* All components side by side, as the run checks them                     *)
(***************************************************************************)

PartIsNamed ==
    part \in {"opportunity", "new", "matching", "rotation", "compare", "check",
              "upkeep", "feeds"}

\* A behaviour of the run is one of each component, of which all but one stand
\* still; of SourceChecks it has the comparisons or the health checks.
LEMMA WorkParts ==
    MCSpec => /\ OpportunitySpec /\ NewSpec /\ MatchingSpec
              /\ RotationSpec /\ SourceSpec /\ UpkeepSpec /\ FeedsSpec
              /\ []PartIsNamed
  <1>1. MCInit => /\ OpportunityInit /\ NewInit /\ MatchingInit
                  /\ RotationInit /\ SourceInit /\ UpkeepInit /\ FeedsInit
                  /\ PartIsNamed
    BY DEF MCInit, PartIsNamed
  <1>2. [MCNext]_<<pipelineVars, matchingVars, operationVars, part>>
        => /\ [OpportunityNext]_opportunityVars /\ [NewNext]_newVars
           /\ [MatchingNext]_matchingVars
           /\ [RotationNext]_rotationVars /\ [SourceNext]_sourceVars
           /\ [UpkeepNext]_upkeepVars /\ [FeedsNext]_feedVars
           /\ PartIsNamed => PartIsNamed'
    BY DEF PartIsNamed, MCNext, SourceNext, pipelineVars, matchingVars, operationVars
  <1> QED
    BY <1>1, <1>2, PTL DEF MCSpec, OpportunitySpec, NewSpec, MatchingSpec,
                           RotationSpec, SourceSpec, UpkeepSpec, FeedsSpec

\* Whatever is explored, its variables keep their types.
THEOREM WorkTypeCorrect == MCSpec => []TypesOK
  <1>1. /\ OpportunityTypeOK /\ NewTypeOK /\ MatchingTypeOK /\ RotationTypeOK
        /\ SourceTypeOK /\ UpkeepTypeOK /\ FeedsTypeOK /\ PartIsNamed
        => TypesOK
    BY DEF TypesOK, PartIsNamed
  <1> QED
    BY <1>1, WorkParts, OpportunityTypeCorrect, NewTypeCorrect, MatchingTypeCorrect, RotationTypeCorrect,
       SourceTypeCorrect, UpkeepTypeCorrect, FeedsTypeCorrect, PTL

\* All that the run checks on a small instance holds for every value of the
\* constants, of the pipeline and the sources as of the scheduled work.
THEOREM WorkIsSound ==
    MCSpec => /\ [](AdviceFitsRow /\ LogKnowsRow)
              /\ [](PassedIsListed /\ PreviewIsMatched)
              /\ [](QuietCompaniesSurvive /\ ShownErrorIsTold /\ SilenceIsMailed)
              /\ []RowsFollowSource
              /\ MatchedIsCorroborated /\ ResolvedIsMatched /\ RedIsNotAlreadyFixed
  BY WorkParts, AdviceAlwaysFits, LogTellsEveryState, NothingNewIsPassed,
     PreviewKeepsItsPromise, RotationLosesNothingQuiet, ShownErrorsAreTold, TotalSilenceIsCaught,
     FeedsRowsFollowSource, HighNeedsWords, ResolvedAreMatched, RedMeansStillWrong, PTL
=============================================================================
