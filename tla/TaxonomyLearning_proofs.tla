----------------------- MODULE TaxonomyLearning_proofs -----------------------
(***************************************************************************)
(* IInv is inductive: for any phrases, codes, rows, runs and admins, what   *)
(* is listed is in force, and what was learned can be reviewed.  The one    *)
(* action property, that decisions stand, follows from it step by step.     *)
(***************************************************************************)
EXTENDS TaxonomyLearning, FiniteSetTheorems, TLAPS

USE NamesAreDistinct, LimitsAreNat, RowsAreFinite

\* The room of a run is a number within the limit.
LEMMA RoomIsBounded == Room \in 0..MaxLearned
<1>1. IsFiniteSet(Learned)
  BY FS_Subset DEF Learned
<1>2. Cardinality(Learned) \in Nat
  BY <1>1, FS_CardinalityType
<1> QED
  BY <1>2 DEF Room

LEMMA InitIInv == Init => IInv
<1> SUFFICES ASSUME Init PROVE IInv
  OBVIOUS
<1>1. \A k \in Rows : keyword[k] = Unused
  BY DEF Init
<1>2. TypeOK
  BY DEF Init, TypeOK, Keyword, Unused, Suggestion, NoSuggestion, Learner, Resting, Admin
<1>3. ListedIsLive /\ LearnedWasSuggested /\ LinksAreOwn
  BY <1>1 DEF Init, ListedIsLive, LearnedWasSuggested, LinksAreOwn, Teaches, Live, Learned, Unused,
     NoSuggestion, Idle
<1> QED
  BY <1>2, <1>3 DEF IInv

-----------------------------------------------------------------------------
\* Steps that leave the taxonomy and its suggestions as they are
LEMMA LearnReadStep ==
    ASSUME IInv, NEW l \in Learners, LearnRead(l)
    PROVE  IInv'
<1> USE DEF IInv
<1>1. [busy |-> TRUE, fresh |-> Fresh, room |-> Room] \in Learner
  BY RoomIsBounded DEF Learner, Fresh
<1>2. TypeOK'
  BY <1>1 DEF LearnRead, TypeOK
<1>3. UNCHANGED <<keyword, mapped, suggestion, admin>>
  BY DEF LearnRead
<1> QED
  BY <1>2, <1>3 DEF ListedIsLive, LearnedWasSuggested, LinksAreOwn, Teaches, Live, Learned

LEMMA LearnRollbackStep ==
    ASSUME IInv, NEW l \in Learners, LearnRollback(l)
    PROVE  IInv'
<1> USE DEF IInv
<1>1. TypeOK'
  BY DEF LearnRollback, TypeOK, Learner, Resting
<1>2. UNCHANGED <<keyword, mapped, suggestion, admin>>
  BY DEF LearnRollback
<1> QED
  BY <1>1, <1>2 DEF ListedIsLive, LearnedWasSuggested, LinksAreOwn, Teaches, Live, Learned

\* What an admin reads is linked to its own keyword, by LinksAreOwn.
LEMMA AdminReadStep ==
    ASSUME IInv, NEW a \in Admins, NEW v \in Values, ApproveRead(a, v) \/ RejectRead(a, v)
    PROVE  IInv'
<1> USE DEF IInv
<1>1. PICK op \in {"approve", "reject"} :
        /\ admin' = [admin EXCEPT ![a] = [op |-> op, value |-> v, seen |-> suggestion[v]]]
        /\ op = "approve" => suggestion[v].status = "pending"
  BY DEF ApproveRead, RejectRead
<1>2. UNCHANGED <<keyword, mapped, suggestion, learner>>
  BY DEF ApproveRead, RejectRead
<1>3. TypeOK'
  BY <1>1, <1>2 DEF TypeOK, Admin
<1>4. \A b \in Admins : admin'[b] = IF b = a THEN [op |-> op, value |-> v, seen |-> suggestion[v]]
                                    ELSE admin[b]
  BY <1>1 DEF TypeOK
<1>5. LinksAreOwn'
  BY <1>1, <1>2, <1>4 DEF LinksAreOwn, Teaches, Live
<1> QED
  BY <1>2, <1>3, <1>5 DEF ListedIsLive, LearnedWasSuggested, Learned, Teaches

LEMMA AdminRollbackStep ==
    ASSUME IInv, NEW a \in Admins, AdminRollback(a)
    PROVE  IInv'
<1> USE DEF IInv
<1>1. UNCHANGED <<keyword, mapped, suggestion, learner>>
  BY DEF AdminRollback
<1>2. TypeOK'
  BY <1>1 DEF AdminRollback, TypeOK, Admin
<1>3. \A b \in Admins : admin'[b] = IF b = a THEN Idle ELSE admin[b]
  BY DEF AdminRollback, TypeOK
<1>4. LinksAreOwn'
  BY <1>1, <1>3 DEF LinksAreOwn, Teaches, Live, Idle, NoSuggestion
<1> QED
  BY <1>1, <1>2, <1>4 DEF ListedIsLive, LearnedWasSuggested, Learned, Teaches

-----------------------------------------------------------------------------
\* The rows a run inserts were free, so no link and no admin knew them.
LEMMA LearnCommitStep ==
    ASSUME IInv, NEW l \in Learners,
           NEW automatic \in SUBSET learner[l].fresh, NEW queued \in SUBSET learner[l].fresh,
           LearnCommit(l, automatic, queued)
    PROVE  IInv'
<1> USE DEF IInv
<1>1. automatic \subseteq Phrases /\ queued \subseteq Values
  BY DEF LearnCommit, TypeOK, Learner
<1>2. PICK row \in Injection(automatic, FreeRows) :
        /\ keyword' = [k \in Rows |->
               IF \E v \in automatic : row[v] = k
               THEN [phrase |-> CHOOSE v \in automatic : row[v] = k, origin |-> "learned"]
               ELSE keyword[k]]
        /\ suggestion' = Suggested(row, queued)
  BY DEF LearnCommit
<1>3. /\ row \in [automatic -> FreeRows]
      /\ \A v, w \in automatic : row[v] = row[w] => v = w
  BY <1>2 DEF Injection, IsInjective
<1>4. \A v \in automatic :
        /\ row[v] \in Rows /\ keyword[row[v]].origin = "unused"
        /\ keyword'[row[v]].origin = "learned" /\ keyword'[row[v]].phrase = v
  <2> TAKE v \in automatic
  <2>1. row[v] \in Rows /\ keyword[row[v]].origin = "unused"
    BY <1>3 DEF FreeRows
  <2>2. (CHOOSE w \in automatic : row[w] = row[v]) = v
    BY <1>3
  <2> QED
    BY <1>2, <2>1, <2>2
<1>5. \A k \in Rows : \/ keyword'[k] = keyword[k]
                      \/ \E v \in automatic : row[v] = k
  BY <1>2
<1>6. \A k \in Rows : keyword[k].origin # "unused" => keyword'[k] = keyword[k]
  BY <1>4, <1>5
<1>7. \A v \in Values :
        /\ suggestion[v].status # "none" =>
              /\ suggestion'[v] = suggestion[v]
        /\ suggestion[v].status = "none" =>
              \/ v \in automatic /\ suggestion'[v].status = "auto_added" /\ suggestion'[v].keyword = row[v]
              \/ v \notin automatic /\ suggestion'[v].status = "pending" /\ suggestion'[v].keyword = NoRow
              \/ v \notin automatic /\ suggestion'[v].status = "none" /\ suggestion'[v].keyword = NoRow
  BY <1>2, <1>3 DEF Suggested, NoSuggestion
<1>8. UNCHANGED <<mapped, admin>>
  BY DEF LearnCommit
<1>9. TypeOK'
  <2>1. keyword' \in [Rows -> Keyword]
    <3>1. \A k \in Rows : (\E v \in automatic : row[v] = k) =>
            (CHOOSE v \in automatic : row[v] = k) \in Phrases
      BY <1>1
    <3> QED
      BY <1>2, <3>1 DEF TypeOK, Keyword
  <2>2. suggestion' \in [Values -> Suggestion]
    <3>1. \A v \in automatic : row[v] \in Rows
      BY <1>4
    <3> QED
      BY <1>2, <1>3, <3>1 DEF Suggested, TypeOK, Suggestion, NoSuggestion
  <2>3. learner' \in [Learners -> Learner]
    BY DEF LearnCommit, TypeOK, Learner, Resting
  <2> QED
    BY <1>8, <2>1, <2>2, <2>3 DEF TypeOK
<1>10. ListedIsLive'
  <2> SUFFICES ASSUME NEW v \in Values, suggestion'[v].status \in {"auto_added", "approved"}
               PROVE  ListedIsLive!(v)'
    BY DEF ListedIsLive
  <2>1. CASE suggestion[v].status # "none"
    BY <1>6, <1>7, <1>8, <2>1 DEF ListedIsLive, Teaches
  <2>2. CASE suggestion[v].status = "none"
    <3>1. v \in automatic /\ suggestion'[v].keyword = row[v]
      BY <1>7, <2>2 DEF NoSuggestion
    <3> QED
      BY <1>1, <1>4, <3>1 DEF Teaches
  <2> QED
    BY <2>1, <2>2
<1>11. LearnedWasSuggested'
  <2>1. \A v \in Values : suggestion[v].status # "none" => suggestion'[v].status # "none"
    BY <1>7
  <2>2. \A v \in automatic : suggestion'[v].status # "none"
    BY <1>1, <1>7 DEF Values
  <2>3. \A k \in Rows : keyword'[k].origin = "learned" => suggestion'[keyword'[k].phrase].status # "none"
    <3> SUFFICES ASSUME NEW k \in Rows, keyword'[k].origin = "learned"
                 PROVE  suggestion'[keyword'[k].phrase].status # "none"
      OBVIOUS
    <3>1. CASE keyword'[k] = keyword[k]
      BY <2>1, <3>1 DEF LearnedWasSuggested, Learned, LinksAreOwn, Teaches, Live, Values
    <3>2. CASE keyword'[k] # keyword[k]
      BY <1>4, <1>5, <2>2, <3>2
    <3> QED
      BY <3>1, <3>2
  <2> QED
    BY <1>8, <2>1, <2>3 DEF LearnedWasSuggested, Learned, TypeOK, Values
<1>12. LinksAreOwn'
  <2>1. \A k \in Rows : Live(k)' => keyword'[k].phrase \in Phrases
    BY <1>1, <1>4, <1>5 DEF LinksAreOwn, Live
  <2>2. \A v \in Values : suggestion'[v].keyword \in Rows =>
           Teaches(suggestion[v].keyword, v)'
    <3> TAKE v \in Values
    <3>1. CASE suggestion'[v] = suggestion[v]
      BY <1>6, <3>1 DEF LinksAreOwn, Teaches
    <3>2. CASE v \in automatic /\ suggestion'[v].keyword = row[v]
      BY <1>4, <3>2 DEF Teaches
    <3>3. CASE suggestion'[v].keyword = NoRow
      BY <3>3
    <3> QED
      BY <1>7, <3>1, <3>2, <3>3 DEF NoSuggestion
  <2>3. \A b \in Admins : admin'[b].seen.keyword \in Rows =>
           \/ keyword'[admin'[b].seen.keyword].origin = "deleted"
           \/ Teaches(admin[b].seen.keyword, admin[b].value)'
    BY <1>6, <1>8 DEF LinksAreOwn, Teaches, Deleted
  <2>4. \A b \in Admins : admin'[b].op = "approve" =>
           suggestion'[admin'[b].value].status \notin {"none", "auto_added"}
    BY <1>7, <1>8 DEF LinksAreOwn, Teaches, TypeOK, Admin, Idle
  <2> QED
    BY <2>1, <2>2, <2>3, <2>4 DEF LinksAreOwn
<1> QED
  BY <1>9, <1>10, <1>11, <1>12

-----------------------------------------------------------------------------
LEMMA ApproveCommitStep ==
    ASSUME IInv, NEW a \in Admins, ApproveCommit(a)
    PROVE  IInv'
<1> USE DEF IInv
<1> DEFINE v == admin[a].value
<1>1. v \in Values /\ UNCHANGED learner
  BY DEF ApproveCommit, TypeOK, Admin, Idle
<1>2. \A b \in Admins : admin'[b] = IF b = a THEN Idle ELSE admin[b]
  BY DEF ApproveCommit, TypeOK
<1>3. admin' \in [Admins -> Admin]
  BY DEF ApproveCommit, TypeOK, Admin
<1>4. CASE v \in Phrases
  <2>1. PICK k \in FreeRows :
          /\ keyword' = [keyword EXCEPT ![k] = [phrase |-> v, origin |-> "learned"]]
          /\ suggestion' = [suggestion EXCEPT ![v] = [status |-> "approved", keyword |-> k]]
          /\ mapped' = mapped
    BY <1>4 DEF ApproveCommit, Values
  <2>2. /\ k \in Rows /\ keyword[k].origin = "unused"
        /\ \A j \in Rows : keyword'[j] = IF j = k THEN [phrase |-> v, origin |-> "learned"] ELSE keyword[j]
        /\ \A w \in Values : suggestion'[w] = IF w = v THEN [status |-> "approved", keyword |-> k]
                                              ELSE suggestion[w]
    BY <1>1, <2>1 DEF FreeRows, TypeOK
  <2>3. TypeOK'
    BY <1>1, <1>3, <1>4, <2>1, <2>2 DEF TypeOK, Keyword, Suggestion
  <2>4. ListedIsLive'
    BY <1>4, <2>1, <2>2 DEF ListedIsLive, Teaches
  <2>5. LearnedWasSuggested'
    <3>1. \A j \in Rows : keyword'[j].origin = "learned" => suggestion'[keyword'[j].phrase].status # "none"
      BY <1>1, <2>2 DEF LearnedWasSuggested, Learned, LinksAreOwn, Teaches, Live, Values
    <3>2. \A w \in mapped' : suggestion'[w].status # "none"
      BY <2>1, <2>2 DEF LearnedWasSuggested, TypeOK, Values
    <3> QED
      BY <3>1, <3>2 DEF LearnedWasSuggested, Learned
  <2>6. LinksAreOwn'
    <3>1. \A j \in Rows : Live(j)' => keyword'[j].phrase \in Phrases
      BY <1>4, <2>2 DEF LinksAreOwn, Teaches, Live
    <3>2. \A w \in Values : suggestion'[w].keyword \in Rows =>
             Teaches(suggestion[w].keyword, w)'
      BY <2>2 DEF LinksAreOwn, Teaches
    <3>3. \A b \in Admins : admin'[b].seen.keyword \in Rows =>
             \/ keyword'[admin'[b].seen.keyword].origin = "deleted"
             \/ Teaches(admin[b].seen.keyword, admin[b].value)'
      BY <1>2, <2>2 DEF LinksAreOwn, Teaches, Deleted, Idle, NoSuggestion
    <3>4. \A b \in Admins : admin'[b].op = "approve" =>
             suggestion'[admin'[b].value].status \notin {"none", "auto_added"}
      BY <1>2, <2>2 DEF LinksAreOwn, Teaches, TypeOK, Admin, Idle
    <3> QED
      BY <3>1, <3>2, <3>3, <3>4 DEF LinksAreOwn
  <2> QED
    BY <2>3, <2>4, <2>5, <2>6
<1>5. CASE v \in Codes
  <2>1. /\ keyword' = keyword /\ mapped' = mapped \cup {v}
        /\ \A w \in Values : suggestion'[w] = IF w = v THEN [status |-> "approved", keyword |-> NoRow]
                                              ELSE suggestion[w]
    BY <1>1, <1>5 DEF ApproveCommit, TypeOK
  <2>2. suggestion' \in [Values -> Suggestion]
    BY <1>1, <1>5 DEF ApproveCommit, TypeOK, Suggestion
  <2>3. TypeOK'
    BY <1>1, <1>3, <1>5, <2>1, <2>2 DEF TypeOK
  <2>4. ListedIsLive'
    BY <1>5, <2>1 DEF ListedIsLive, Teaches
  <2>5. LearnedWasSuggested'
    <3>1. \A w \in Values : suggestion[w].status # "none" => suggestion'[w].status # "none"
      BY <2>1
    <3> QED
      BY <1>1, <2>1, <3>1 DEF LearnedWasSuggested, Learned, LinksAreOwn, Teaches, Live, TypeOK, Values
  <2>6. LinksAreOwn'
    BY <1>2, <2>1 DEF LinksAreOwn, Teaches, Live, Idle, NoSuggestion, TypeOK, Admin
  <2> QED
    BY <2>3, <2>4, <2>5, <2>6
<1> QED
  BY <1>1, <1>4, <1>5 DEF Values

-----------------------------------------------------------------------------
\* Deleting a set of rows that no suggestion but a rejected one links to
LEMMA DeleteKeeps ==
    ASSUME IInv, TypeOK', NEW gone \in SUBSET Rows,
           keyword' = [k \in Rows |-> IF k \in gone THEN Deleted ELSE keyword[k]],
           mapped' = mapped,
           \A v \in Values :
             \/ suggestion'[v].status = "rejected"
             \/ suggestion'[v].status = suggestion[v].status /\ suggestion[v].keyword \notin gone,
           \A v \in Values :
             \/ suggestion'[v].keyword = suggestion[v].keyword /\ suggestion[v].keyword \notin gone
             \/ suggestion'[v].keyword = NoRow /\ suggestion'[v].status = "rejected",
           \A b \in Admins : admin'[b] = admin[b] \/ admin'[b] = Idle
    PROVE  IInv'
<1> USE DEF IInv
<1>1. \A k \in Rows : keyword'[k] = IF k \in gone THEN Deleted ELSE keyword[k]
  OBVIOUS
<1>2. ListedIsLive'
  BY <1>1 DEF ListedIsLive, Teaches
<1>3. LearnedWasSuggested'
  <2>1. \A v \in Values : suggestion[v].status # "none" => suggestion'[v].status # "none"
    OBVIOUS
  <2>2. \A k \in Rows : keyword'[k].origin = "learned" => keyword'[k] = keyword[k]
    BY <1>1 DEF Deleted
  <2> QED
    BY <2>1, <2>2 DEF LearnedWasSuggested, Learned, LinksAreOwn, Teaches, Live, TypeOK, Values
<1>4. LinksAreOwn'
  <2>1. \A k \in Rows : Live(k)' => keyword'[k].phrase \in Phrases
    BY <1>1 DEF LinksAreOwn, Teaches, Live, Deleted
  <2>2. \A v \in Values : suggestion'[v].keyword \in Rows =>
           Teaches(suggestion[v].keyword, v)'
    BY <1>1 DEF LinksAreOwn, Teaches
  <2>3. \A b \in Admins : admin'[b].seen.keyword \in Rows =>
           \/ keyword'[admin'[b].seen.keyword].origin = "deleted"
           \/ Teaches(admin[b].seen.keyword, admin[b].value)'
    BY <1>1 DEF LinksAreOwn, Teaches, Deleted, Idle, NoSuggestion
  <2>4. \A b \in Admins : admin'[b].op = "approve" =>
           suggestion'[admin'[b].value].status \notin {"none", "auto_added"}
    BY DEF LinksAreOwn, Teaches, TypeOK, Admin, Idle
  <2> QED
    BY <2>1, <2>2, <2>3, <2>4 DEF LinksAreOwn
<1> QED
  BY <1>2, <1>3, <1>4

\* By LinksAreOwn the keyword that goes belongs to the rejected suggestion alone.
LEMMA RejectCommitStep ==
    ASSUME IInv, NEW a \in Admins, RejectCommit(a)
    PROVE  IInv'
<1> USE DEF IInv
<1> DEFINE v == admin[a].value
           seen == admin[a].seen
           gone == IF seen.status = "auto_added" THEN {seen.keyword} \ {NoRow} ELSE {}
<1>1. v \in Values /\ seen \in Suggestion /\ gone \subseteq Rows
  BY DEF RejectCommit, TypeOK, Admin, Idle, Suggestion
<1>2. /\ keyword' = [k \in Rows |-> IF k \in gone THEN Deleted ELSE keyword[k]]
      /\ suggestion' = [w \in Values |->
             IF w = v THEN [Unlinked(suggestion[w], gone) EXCEPT !.status = "rejected"]
             ELSE Unlinked(suggestion[w], gone)]
      /\ mapped' = mapped /\ learner' = learner
  BY DEF RejectCommit
<1>3. \A w \in Values : w # v => suggestion[w].keyword \notin gone
  BY <1>1 DEF LinksAreOwn, Teaches, Deleted
<1>4. \A w \in Values :
        /\ suggestion[w] \in Suggestion
        /\ w # v => suggestion'[w] = suggestion[w]
        /\ w = v => /\ suggestion'[w].status = "rejected"
                    /\ suggestion'[w].keyword = IF suggestion[w].keyword \in gone THEN NoRow
                                                ELSE suggestion[w].keyword
  BY <1>2, <1>3 DEF Unlinked, TypeOK, Suggestion
<1>5. TypeOK'
  <2>1. keyword' \in [Rows -> Keyword]
    BY <1>2 DEF TypeOK, Keyword, Deleted
  <2>2. suggestion' \in [Values -> Suggestion]
    BY <1>2 DEF Unlinked, TypeOK, Suggestion
  <2>3. admin' \in [Admins -> Admin]
    BY DEF RejectCommit, TypeOK, Admin
  <2> QED
    BY <1>2, <2>1, <2>2, <2>3 DEF TypeOK
<1>6. \A b \in Admins : admin'[b] = admin[b] \/ admin'[b] = Idle
  BY DEF RejectCommit, TypeOK
<1>7. \A w \in Values :
         \/ suggestion'[w].status = "rejected"
         \/ suggestion'[w].status = suggestion[w].status /\ suggestion[w].keyword \notin gone
  BY <1>3, <1>4
<1>8. \A w \in Values :
         \/ suggestion'[w].keyword = suggestion[w].keyword /\ suggestion[w].keyword \notin gone
         \/ suggestion'[w].keyword = NoRow /\ suggestion'[w].status = "rejected"
  BY <1>3, <1>4
<1>9. keyword' = [k \in Rows |-> IF k \in gone THEN Deleted ELSE keyword[k]] /\ mapped' = mapped
  BY <1>2
<1> HIDE DEF IInv, gone
<1> QED
  BY <1>1, <1>5, <1>6, <1>7, <1>8, <1>9, DeleteKeeps

LEMMA RemoveKeywordStep ==
    ASSUME IInv, NEW k \in Rows, RemoveKeyword(k)
    PROVE  IInv'
<1> USE DEF IInv
<1>1. /\ keyword' = [j \in Rows |-> IF j \in {k} THEN Deleted ELSE keyword[j]]
      /\ UNCHANGED <<mapped, learner, admin>>
      /\ suggestion' = [v \in Values |->
             IF suggestion[v].keyword = k THEN [status |-> "rejected", keyword |-> NoRow]
             ELSE suggestion[v]]
  BY DEF RemoveKeyword, TypeOK
<1>2. TypeOK'
  BY <1>1 DEF TypeOK, Keyword, Deleted, Suggestion
<1>3. \A v \in Values :
         \/ suggestion'[v].status = "rejected"
         \/ suggestion'[v].status = suggestion[v].status /\ suggestion[v].keyword \notin {k}
  BY <1>1
<1>4. \A v \in Values :
         \/ suggestion'[v].keyword = suggestion[v].keyword /\ suggestion[v].keyword \notin {k}
         \/ suggestion'[v].keyword = NoRow /\ suggestion'[v].status = "rejected"
  BY <1>1
<1> HIDE DEF IInv
<1> QED
  BY <1>1, <1>2, <1>3, <1>4, DeleteKeeps

LEMMA AddKeywordStep ==
    ASSUME IInv, NEW k \in Rows, NEW v \in Phrases, AddKeyword(k, v)
    PROVE  IInv'
<1> USE DEF IInv
<1>1. /\ keyword[k].origin = "unused"
      /\ \A j \in Rows : keyword'[j] = IF j = k THEN [phrase |-> v, origin |-> "curated"] ELSE keyword[j]
      /\ UNCHANGED <<mapped, suggestion, learner, admin>>
  BY DEF AddKeyword, FreeRows, TypeOK
<1>2. TypeOK'
  BY <1>1 DEF AddKeyword, TypeOK, Keyword
<1>3. ListedIsLive' /\ LearnedWasSuggested'
  BY <1>1 DEF ListedIsLive, LearnedWasSuggested, Learned, Teaches
<1>4. LinksAreOwn'
  BY <1>1 DEF LinksAreOwn, Teaches, Live, Deleted
<1> QED
  BY <1>2, <1>3, <1>4

LEMMA StutterStep == IInv /\ UNCHANGED vars => IInv'
<1> SUFFICES ASSUME IInv, UNCHANGED vars PROVE IInv'
  OBVIOUS
<1>1. UNCHANGED <<keyword, mapped, suggestion, learner, admin>>
  BY DEF vars
<1>2. TypeOK'
  BY <1>1 DEF IInv, TypeOK
<1> QED
  BY <1>1, <1>2 DEF IInv, ListedIsLive, LearnedWasSuggested, LinksAreOwn, Teaches, Live, Learned

LEMMA NextStep == IInv /\ [Next]_vars => IInv'
<1> SUFFICES ASSUME IInv, [Next]_vars PROVE IInv'
  OBVIOUS
<1>1. CASE \E l \in Learners : LearnRead(l) \/ LearnRollback(l)
  BY <1>1, LearnReadStep, LearnRollbackStep
<1>2. CASE \E l \in Learners : \E automatic, queued \in SUBSET learner[l].fresh :
             LearnCommit(l, automatic, queued)
  BY <1>2, LearnCommitStep
<1>3. CASE \E a \in Admins, v \in Values : ApproveRead(a, v) \/ RejectRead(a, v)
  BY <1>3, AdminReadStep
<1>4. CASE \E a \in Admins : ApproveCommit(a) \/ RejectCommit(a) \/ AdminRollback(a)
  BY <1>4, ApproveCommitStep, RejectCommitStep, AdminRollbackStep
<1>5. CASE \E k \in Rows, v \in Phrases : AddKeyword(k, v)
  BY <1>5, AddKeywordStep
<1>6. CASE \E k \in Rows : RemoveKeyword(k)
  BY <1>6, RemoveKeywordStep
<1>7. CASE UNCHANGED vars
  BY <1>7, StutterStep
<1> QED
  BY <1>1, <1>2, <1>3, <1>4, <1>5, <1>6, <1>7 DEF Next

-----------------------------------------------------------------------------
\* The inductive invariant
THEOREM Invariance == Spec => []IInv
  BY InitIInv, NextStep, PTL DEF Spec

\* Every variable keeps its type, the room of a run included.
THEOREM TypeCorrect == Spec => []TypeOK
<1>1. IInv => TypeOK
  BY DEF IInv
<1> QED
  BY <1>1, Invariance, PTL

\* A suggestion the review screen lists as added or approved is in force,
\* whatever runs and admins overlapped.
THEOREM ListedIsInForce == Spec => []ListedIsLive
<1>1. IInv => ListedIsLive
  BY DEF IInv
<1> QED
  BY <1>1, Invariance, PTL

\* Everything learned has a suggestion by which it can be reviewed.
THEOREM LearnedIsReviewable == Spec => []LearnedWasSuggested
<1>1. IInv => LearnedWasSuggested
  BY DEF IInv
<1> QED
  BY <1>1, Invariance, PTL

\* No step takes a decision back or lets a run decide what a person has decided.
THEOREM DecisionsStand == Spec => NeverReproposed
<1> DEFINE Stands(v) ==
      /\ suggestion[v].status # "none" /\ suggestion'[v].status \in {"none", "pending", "auto_added"}
            => suggestion'[v].status = suggestion[v].status
      /\ suggestion[v].status = "auto_added" => suggestion'[v].status # "approved"
<1>1. ASSUME IInv, [Next]_vars, NEW v \in Values
      PROVE  Stands(v)
  <2> USE <1>1 DEF IInv
  <2>1. CASE suggestion' = suggestion
    BY <2>1
  <2>2. ASSUME NEW l \in Learners,
               NEW automatic \in SUBSET learner[l].fresh, NEW queued \in SUBSET learner[l].fresh,
               LearnCommit(l, automatic, queued)
        PROVE  Stands(v)
    <3>1. suggestion[v].status # "none" => suggestion'[v] = suggestion[v]
      BY <2>2 DEF LearnCommit, Suggested
    <3> QED
      BY <3>1
  <2>3. ASSUME NEW a \in Admins, ApproveCommit(a)
        PROVE  Stands(v)
    <3>1. \/ suggestion'[v] = suggestion[v]
          \/ v = admin[a].value /\ suggestion'[v].status = "approved"
      <4>1. CASE admin[a].value \in Phrases /\ admin[a].value \notin Codes
        <5>1. PICK k \in FreeRows : suggestion' =
                [suggestion EXCEPT ![admin[a].value] = [status |-> "approved", keyword |-> k]]
          BY <2>3, <4>1 DEF ApproveCommit
        <5> QED
          BY <5>1 DEF TypeOK
      <4>2. CASE admin[a].value \in Codes /\ admin[a].value \notin Phrases
        BY <2>3, <4>2 DEF ApproveCommit, TypeOK
      <4> QED
        BY <2>3, <4>1, <4>2 DEF ApproveCommit
    <3>2. suggestion[admin[a].value].status # "auto_added"
      BY <2>3 DEF ApproveCommit, LinksAreOwn
    <3> QED
      BY <3>1, <3>2
  <2>4. ASSUME NEW a \in Admins, RejectCommit(a)
        PROVE  Stands(v)
    <3>1. suggestion'[v].status \in {"rejected", suggestion[v].status}
      BY <2>4 DEF RejectCommit, Unlinked, TypeOK, Suggestion
    <3> QED
      BY <3>1 DEF TypeOK, Suggestion
  <2>5. ASSUME NEW k \in Rows, RemoveKeyword(k)
        PROVE  Stands(v)
    BY <2>5 DEF RemoveKeyword
  <2>6. CASE \/ \E l \in Learners : LearnRead(l) \/ LearnRollback(l)
             \/ \E a \in Admins, w \in Values : ApproveRead(a, w) \/ RejectRead(a, w)
             \/ \E a \in Admins : AdminRollback(a)
             \/ \E k \in Rows, w \in Phrases : AddKeyword(k, w)
             \/ UNCHANGED vars
    BY <2>1, <2>6 DEF LearnRead, LearnRollback, ApproveRead, RejectRead, AdminRollback, AddKeyword, vars
  <2> QED
    BY <2>2, <2>3, <2>4, <2>5, <2>6 DEF Next
<1>2. IInv /\ [Next]_vars =>
        [\A v \in Values :
           LET before == suggestion[v].status
               after == suggestion'[v].status IN
           /\ before # "none" /\ after \in {"none", "pending", "auto_added"} => after = before
           /\ before = "auto_added" => after # "approved"]_vars
  BY <1>1
<1> QED
  BY <1>2, Invariance, PTL DEF Spec, NeverReproposed

-----------------------------------------------------------------------------
\* The limit on what is added without review.  Every run has MaxLearned places;
\* those it holds are the room it saw.  What was added and the places still
\* held never exceed the places of all runs together: a run that reads some
\* room has seen everything added so far among the learned keywords, so what
\* was added fits its own places; a commit gives up a place for each keyword.
Automatic == {v \in Values : suggestion[v].status = "auto_added"}
Places == Learners \X (1..MaxLearned)
Held == {p \in Places : p[2] <= learner[p[1]].room}

\* Codes are never added without review.
CodesWait == Automatic \subseteq Phrases
WithinPlaces == Cardinality(Automatic) + Cardinality(Held) <= Cardinality(Places)

LimitInv == IInv /\ CodesWait /\ WithinPlaces

LEMMA PlacesCounted ==
    /\ IsFiniteSet(Places) /\ Cardinality(Places) \in Nat
    /\ Cardinality(Places) = MaxLearned * Cardinality(Learners)
<1>1. IsFiniteSet(1..MaxLearned) /\ Cardinality(1..MaxLearned) = MaxLearned
  BY FS_Interval
<1>2. IsFiniteSet(Places) /\ Cardinality(Places) = Cardinality(Learners) * MaxLearned
  BY <1>1, LearnersAreFinite, FS_Product DEF Places
<1>3. Cardinality(Learners) \in Nat /\ Cardinality(Places) \in Nat
  BY <1>2, LearnersAreFinite, FS_CardinalityType
<1>4. Cardinality(Learners) * MaxLearned = MaxLearned * Cardinality(Learners)
  BY <1>3
<1> QED
  BY <1>2, <1>3, <1>4

LEMMA HeldCounted ==
    /\ IsFiniteSet(Held) /\ Cardinality(Held) \in Nat
    /\ Cardinality(Held) <= Cardinality(Places)
<1>1. Held \in SUBSET Places
  BY DEF Held
<1> QED
  BY <1>1, PlacesCounted, FS_Subset, FS_CardinalityType

\* Each has a learned keyword of its own.
LEMMA AutomaticIsLearned ==
    ASSUME IInv, CodesWait
    PROVE  /\ IsFiniteSet(Automatic) /\ Cardinality(Automatic) \in Nat
           /\ Cardinality(Learned) \in Nat /\ Cardinality(Automatic) <= Cardinality(Learned)
<1> DEFINE f == [v \in Automatic |-> suggestion[v].keyword]
<1>1. \A v \in Automatic : suggestion[v].keyword \in Rows /\ Teaches(suggestion[v].keyword, v)
  BY DEF IInv, ListedIsLive, Automatic, CodesWait, Values
<1>2. f \in [Automatic -> Learned]
  BY <1>1 DEF Learned, Teaches
<1>3. \A v, w \in Automatic : f[v] = f[w] => v = w
  BY <1>1 DEF Teaches
<1>4. f \in Injection(Automatic, Learned)
  BY <1>2, <1>3 DEF Injection, IsInjective
<1>5. IsFiniteSet(Learned)
  BY FS_Subset DEF Learned
<1> QED
  BY <1>4, <1>5, FS_Injection, FS_CardinalityType

\* Steps that add nothing and take no places
LEMMA NothingAdded ==
    ASSUME LimitInv, IInv', Automatic' \subseteq Automatic, Held' \subseteq Held
    PROVE  LimitInv'
<1>1. CodesWait'
  BY DEF LimitInv, CodesWait
<1>2. /\ Cardinality(Automatic') \in Nat /\ Cardinality(Automatic') <= Cardinality(Automatic)
      /\ Cardinality(Automatic) \in Nat
  BY AutomaticIsLearned, FS_Subset, FS_CardinalityType DEF LimitInv
<1>3. /\ Cardinality(Held') \in Nat /\ Cardinality(Held') <= Cardinality(Held)
      /\ Cardinality(Held) \in Nat
  BY HeldCounted, FS_Subset, FS_CardinalityType
<1>4. Places' = Places
  BY DEF Places
<1>5. WithinPlaces'
  BY <1>2, <1>3, <1>4, PlacesCounted DEF LimitInv, WithinPlaces
<1> QED
  BY <1>1, <1>5 DEF LimitInv

\* The places of one run, and those of the others
LEMMA OwnPlaces ==
    ASSUME NEW l \in Learners, NEW n \in 0..MaxLearned
    PROVE  /\ IsFiniteSet({l} \X (1..n)) /\ Cardinality({l} \X (1..n)) = n
           /\ IsFiniteSet((Learners \ {l}) \X (1..MaxLearned))
           /\ Cardinality((Learners \ {l}) \X (1..MaxLearned)) \in Nat
           /\ Cardinality(Places) = Cardinality((Learners \ {l}) \X (1..MaxLearned)) + MaxLearned
<1>1. ASSUME NEW m \in Nat PROVE IsFiniteSet({l} \X (1..m)) /\ Cardinality({l} \X (1..m)) = m
  <2>1. IsFiniteSet({l}) /\ Cardinality({l}) = 1
    BY FS_Singleton
  <2>2. IsFiniteSet(1..m) /\ Cardinality(1..m) = m
    BY FS_Interval
  <2>3. /\ IsFiniteSet({l} \X (1..m))
        /\ Cardinality({l} \X (1..m)) = Cardinality({l}) * Cardinality(1..m)
    BY <2>1, <2>2, FS_Product
  <2>4. Cardinality({l}) * Cardinality(1..m) = m
    BY <2>1, <2>2
  <2> QED
    BY <2>3, <2>4
<1> DEFINE own == {l} \X (1..MaxLearned)
           others == (Learners \ {l}) \X (1..MaxLearned)
<1>2. IsFiniteSet(own) /\ Cardinality(own) = MaxLearned
  BY <1>1
<1>3. IsFiniteSet(others) /\ Cardinality(others) \in Nat
  <2>1. IsFiniteSet(Learners \ {l})
    BY LearnersAreFinite, FS_RemoveElement
  <2>2. IsFiniteSet(1..MaxLearned)
    BY FS_Interval
  <2> QED
    BY <2>1, <2>2, FS_Product, FS_CardinalityType
<1>4. Places = own \cup others /\ own \cap others = {}
  BY DEF Places
<1>5. Cardinality(Places) = Cardinality(own) + Cardinality(others) - Cardinality({})
  BY <1>2, <1>3, <1>4, FS_Union
<1>6. Cardinality({}) = 0
  BY FS_EmptySet
<1>7. Cardinality(Places) = Cardinality(others) + MaxLearned
  <2> HIDE DEF own, others
  <2> QED
    BY <1>2, <1>3, <1>5, <1>6
<1>8. IsFiniteSet({l} \X (1..n)) /\ Cardinality({l} \X (1..n)) = n
  BY <1>1
<1> QED
  BY <1>3, <1>7, <1>8

LEMMA LearnReadWithinLimit ==
    ASSUME LimitInv, IInv', NEW l \in Learners, LearnRead(l)
    PROVE  LimitInv'
<1>1. /\ UNCHANGED suggestion
      /\ learner' = [learner EXCEPT ![l] = [busy |-> TRUE, fresh |-> Fresh, room |-> Room]]
      /\ learner \in [Learners -> Learner]
  BY DEF LearnRead, LimitInv, IInv, TypeOK
<1>2. /\ learner'[l].room = Room
      /\ \A m \in Learners \ {l} : learner'[m].room = learner[m].room
  BY <1>1
<1>3. Automatic' = Automatic
  BY <1>1 DEF Automatic
<1>4. CASE Room = 0
  <2>1. Held' \subseteq Held
    <3> SUFFICES ASSUME NEW p \in Places, p[2] <= learner'[p[1]].room
                 PROVE  p \in Held
      BY DEF Held, Places
    <3>1. p[1] \in Learners /\ p[2] \in 1..MaxLearned
      BY DEF Places
    <3>2. p[1] # l
      BY <3>1, <1>2, <1>4
    <3> QED
      BY <3>1, <3>2, <1>2 DEF Held
  <2> QED
    BY <2>1, <1>3, NothingAdded
<1>5. CASE Room # 0
  <2>1. Room = MaxLearned - Cardinality(Learned) /\ Room \in 0..MaxLearned
    BY <1>5, RoomIsBounded DEF Room
  <2> DEFINE own == {l} \X (1..Room)
             others == (Learners \ {l}) \X (1..MaxLearned)
  <2>2. Held' \subseteq own \cup others
    <3> SUFFICES ASSUME NEW p \in Places, p[2] <= learner'[p[1]].room
                 PROVE  p \in own \cup others
      BY DEF Held, Places
    <3>1. PICK m \in Learners, n \in 1..MaxLearned : p = <<m, n>>
      BY DEF Places
    <3>2. m = l => n \in 1..Room
      BY <3>1, <2>1, <1>2
    <3> QED
      BY <3>1, <3>2
  <2>3. IsFiniteSet(own) /\ Cardinality(own) = Room
    BY <2>1, OwnPlaces
  <2>4. /\ IsFiniteSet(others) /\ Cardinality(others) \in Nat
        /\ Cardinality(Places) = Cardinality(others) + MaxLearned
    BY <2>1, OwnPlaces
  <2>5. Cardinality(own \cup others) = Room + Cardinality(others) /\ IsFiniteSet(own \cup others)
    <3>1. own \cap others = {}
      OBVIOUS
    <3>2. Cardinality({}) = 0
      BY FS_EmptySet
    <3>3. /\ IsFiniteSet(own \cup others)
          /\ Cardinality(own \cup others)
                = Cardinality(own) + Cardinality(others) - Cardinality(own \cap others)
      BY <2>3, <2>4, FS_Union
    <3>4. Cardinality(own \cap others) = 0
      BY <3>1, <3>2
    <3> HIDE DEF own, others
    <3>5. Room \in Int
      BY <2>1
    <3> QED
      BY <2>3, <2>4, <3>3, <3>4, <3>5
  <2> HIDE DEF own, others
  <2>6. Cardinality(Held') \in Nat /\ Cardinality(Held') <= Room + Cardinality(others)
    BY <2>2, <2>5, FS_Subset, FS_CardinalityType
  <2>7. /\ Cardinality(Automatic) \in Nat /\ Cardinality(Learned) \in Nat
        /\ Cardinality(Automatic) <= Cardinality(Learned)
    BY AutomaticIsLearned DEF LimitInv
  <2>8. Places' = Places
    BY DEF Places
  <2>9. WithinPlaces'
    BY <1>3, <2>1, <2>4, <2>6, <2>7, <2>8 DEF WithinPlaces
  <2> QED
    BY <2>9, <1>3 DEF LimitInv, CodesWait
<1> QED
  BY <1>4, <1>5

LEMMA LearnCommitWithinLimit ==
    ASSUME LimitInv, IInv', NEW l \in Learners,
           NEW automatic \in SUBSET learner[l].fresh, NEW queued \in SUBSET learner[l].fresh,
           LearnCommit(l, automatic, queued)
    PROVE  LimitInv'
<1>1. /\ learner' = [learner EXCEPT ![l] = Resting] /\ learner \in [Learners -> Learner]
      /\ automatic \subseteq Phrases /\ Cardinality(automatic) <= learner[l].room
  BY DEF LearnCommit, LimitInv, IInv, TypeOK
<1>2. PICK row \in Injection(automatic, FreeRows) : suggestion' = Suggested(row, queued)
  BY DEF LearnCommit
<1>3. IsFiniteSet(automatic) /\ Cardinality(automatic) \in Nat
  <2>1. IsFiniteSet(FreeRows)
    BY FS_Subset DEF FreeRows
  <2> QED
    BY <2>1, FS_Injection, FS_CardinalityType
<1>4. Automatic' \subseteq Automatic \cup automatic
  <2>1. DOMAIN row = automatic
    BY DEF Injection
  <2> SUFFICES ASSUME NEW v \in Values, suggestion'[v].status = "auto_added"
               PROVE  suggestion[v].status = "auto_added" \/ v \in automatic
    BY DEF Automatic
  <2> QED
    BY <1>2, <2>1 DEF Suggested, NoSuggestion
<1>5. learner[l].room \in 0..MaxLearned
  BY <1>1 DEF Learner
<1> DEFINE own == {l} \X (1..learner[l].room)
<1>6. IsFiniteSet(own) /\ Cardinality(own) = learner[l].room
  BY <1>5, OwnPlaces
<1>7. own \subseteq Held
  BY <1>5 DEF Held, Places
<1>8. Held' \subseteq Held \ own
  <2> SUFFICES ASSUME NEW p \in Places, p[2] <= learner'[p[1]].room
               PROVE  p \in Held /\ p \notin own
    BY DEF Held, Places
  <2>1. p[1] \in Learners /\ p[2] \in 1..MaxLearned
    BY DEF Places
  <2>2. p[1] # l
    BY <2>1, <1>1 DEF Resting
  <2>3. learner'[p[1]] = learner[p[1]]
    BY <2>1, <2>2, <1>1
  <2> QED
    BY <2>1, <2>2, <2>3 DEF Held
<1>9. Cardinality(Held \ own) = Cardinality(Held) - learner[l].room /\ IsFiniteSet(Held \ own)
  <2>1. Held \cap own = own
    BY <1>7
  <2>2. /\ IsFiniteSet(Held \ own)
        /\ Cardinality(Held \ own) = Cardinality(Held) - Cardinality(Held \cap own)
    BY HeldCounted, FS_Difference
  <2> HIDE DEF own
  <2> QED
    BY <2>1, <2>2, <1>6
<1> HIDE DEF own
<1>10. /\ Cardinality(Held') \in Nat
       /\ Cardinality(Held') <= Cardinality(Held) - learner[l].room
  BY <1>8, <1>9, FS_Subset, FS_CardinalityType
<1>11. Cardinality(Automatic) \in Nat /\ IsFiniteSet(Automatic)
  BY AutomaticIsLearned DEF LimitInv
<1>12. /\ Cardinality(Automatic') \in Nat
       /\ Cardinality(Automatic') <= Cardinality(Automatic) + Cardinality(automatic)
  <2>1. /\ IsFiniteSet(Automatic \cup automatic)
        /\ Cardinality(Automatic \cup automatic) = Cardinality(Automatic) + Cardinality(automatic)
                                                   - Cardinality(Automatic \cap automatic)
    BY <1>3, <1>11, FS_Union
  <2>2. Cardinality(Automatic \cap automatic) \in Nat
    BY <1>11, FS_Intersection, FS_CardinalityType
  <2>3. /\ Cardinality(Automatic') \in Nat
        /\ Cardinality(Automatic') <= Cardinality(Automatic \cup automatic)
        /\ Cardinality(Automatic \cup automatic) \in Nat
    BY <1>4, <2>1, FS_Subset, FS_CardinalityType
  <2> QED
    BY <1>3, <1>11, <2>1, <2>2, <2>3
<1>13. Places' = Places
  BY DEF Places
<1>14. WithinPlaces'
  <2>1. Cardinality(Automatic) + Cardinality(Held) <= Cardinality(Places)
    BY DEF LimitInv, WithinPlaces
  <2>2. Cardinality(Held) \in Nat
    BY HeldCounted
  <2>3. Cardinality(automatic) <= learner[l].room
    BY <1>1
  <2> QED
    BY <1>3, <1>5, <1>10, <1>11, <1>12, <1>13, <2>1, <2>2, <2>3, PlacesCounted DEF WithinPlaces
<1>15. CodesWait'
  BY <1>1, <1>4 DEF CodesWait, LimitInv
<1> QED
  BY <1>14, <1>15 DEF LimitInv

\* People add nothing automatically and take no places.
LEMMA OthersWithinLimit ==
    ASSUME LimitInv, IInv', learner' = learner,
           \A v \in Values : suggestion'[v].status = "auto_added" => suggestion[v].status = "auto_added"
    PROVE  LimitInv'
<1>1. Automatic' \subseteq Automatic /\ Held' = Held
  BY DEF Automatic, Held, Places
<1> QED
  BY <1>1, NothingAdded

LEMMA InitLimit == Init => LimitInv
<1> SUFFICES ASSUME Init PROVE LimitInv
  OBVIOUS
<1>1. Automatic = {} /\ Cardinality(Automatic) = 0
  BY FS_EmptySet DEF Init, Automatic, NoSuggestion
<1> QED
  BY <1>1, InitIInv, HeldCounted, PlacesCounted DEF LimitInv, CodesWait, WithinPlaces

LEMMA NextLimit == LimitInv /\ [Next]_vars => LimitInv'
<1> SUFFICES ASSUME LimitInv, [Next]_vars PROVE LimitInv'
  OBVIOUS
<1>1. IInv' /\ TypeOK /\ LinksAreOwn
  BY NextStep DEF LimitInv, IInv
<1>2. ASSUME NEW l \in Learners, LearnRead(l) PROVE LimitInv'
  BY <1>1, <1>2, LearnReadWithinLimit
<1>3. ASSUME NEW l \in Learners, LearnRollback(l) PROVE LimitInv'
  <2>1. /\ UNCHANGED suggestion /\ learner' = [learner EXCEPT ![l] = Resting]
        /\ learner \in [Learners -> Learner]
    BY <1>1, <1>3 DEF LearnRollback, TypeOK
  <2>2. Automatic' = Automatic
    BY <2>1 DEF Automatic
  <2>3. Held' \subseteq Held
    <3> SUFFICES ASSUME NEW p \in Places, p[2] <= learner'[p[1]].room PROVE p \in Held
      BY DEF Held, Places
    <3>1. p[1] \in Learners /\ p[2] \in 1..MaxLearned
      BY DEF Places
    <3>2. p[1] # l
      BY <3>1, <2>1 DEF Resting
    <3> QED
      BY <3>1, <3>2, <2>1 DEF Held
  <2> QED
    BY <1>1, <2>2, <2>3, NothingAdded
<1>4. ASSUME NEW l \in Learners, NEW automatic \in SUBSET learner[l].fresh,
             NEW queued \in SUBSET learner[l].fresh, LearnCommit(l, automatic, queued)
      PROVE  LimitInv'
  BY <1>1, <1>4, LearnCommitWithinLimit
<1>5. ASSUME NEW a \in Admins, ApproveCommit(a) PROVE LimitInv'
  <2>1. learner' = learner
    BY <1>5 DEF ApproveCommit
  <2>2. PICK k \in Rows \cup {NoRow} : suggestion' =
            [suggestion EXCEPT ![admin[a].value] = [status |-> "approved", keyword |-> k]]
    BY <1>5 DEF ApproveCommit, FreeRows
  <2>3. \A v \in Values : suggestion'[v].status = "auto_added" => suggestion[v].status = "auto_added"
    BY <1>1, <2>2 DEF TypeOK
  <2> QED
    BY <1>1, <2>1, <2>3, OthersWithinLimit
<1>6. ASSUME NEW a \in Admins, RejectCommit(a) PROVE LimitInv'
  <2>1. learner' = learner
    BY <1>6 DEF RejectCommit
  <2>2. \A v \in Values : suggestion'[v].status \in {"rejected", suggestion[v].status}
    BY <1>1, <1>6 DEF RejectCommit, Unlinked, TypeOK, Suggestion
  <2> QED
    BY <1>1, <2>1, <2>2, OthersWithinLimit
<1>7. ASSUME NEW k \in Rows, RemoveKeyword(k) PROVE LimitInv'
  <2>1. learner' = learner /\ \A v \in Values : suggestion'[v] = suggestion[v]
                                                \/ suggestion'[v].status = "rejected"
    BY <1>7 DEF RemoveKeyword
  <2> QED
    BY <1>1, <2>1, OthersWithinLimit
<1>8. CASE \/ \E a \in Admins, v \in Values : ApproveRead(a, v) \/ RejectRead(a, v)
           \/ \E a \in Admins : AdminRollback(a)
           \/ \E k \in Rows, v \in Phrases : AddKeyword(k, v)
           \/ UNCHANGED vars
  <2>1. UNCHANGED <<suggestion, learner>>
    BY <1>8 DEF ApproveRead, RejectRead, AdminRollback, AddKeyword, vars
  <2> QED
    BY <1>1, <2>1, OthersWithinLimit
<1> QED
  BY <1>2, <1>3, <1>4, <1>5, <1>6, <1>7, <1>8 DEF Next

\* However many runs overlap, what was added without review never exceeds the
\* limit once for each of them.
THEOREM LimitHolds == Spec => []AutomaticWithinLimit
<1>1. LimitInv => AutomaticWithinLimit
  <2> SUFFICES ASSUME LimitInv PROVE AutomaticWithinLimit
    OBVIOUS
  <2>1. Cardinality(Automatic) \in Nat
    BY AutomaticIsLearned DEF LimitInv
  <2>2. Cardinality(Automatic) <= MaxLearned * Cardinality(Learners)
    BY <2>1, HeldCounted, PlacesCounted DEF LimitInv, WithinPlaces
  <2> QED
    BY <2>2 DEF AutomaticWithinLimit, Automatic
<1> QED
  BY <1>1, InitLimit, NextLimit, PTL DEF Spec
=============================================================================
