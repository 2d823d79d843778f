-------------------------- MODULE TaxonomyLearning --------------------------
(***************************************************************************)
(* The self-expanding taxonomy of one capability: app/taxonomy_learning.py *)
(* mines stored tenders for keywords and codes, platform admins approve,   *)
(* reject, add and remove (src/api/app/main.py).                           *)
(*                                                                         *)
(* A learning run reads the taxonomy, mines, and writes in one commit; so  *)
(* do approve and reject, each for one suggestion.  Runs may overlap: the  *)
(* daily schedule, an admin's request and a product search all start one.  *)
(***************************************************************************)
EXTENDS Naturals, FiniteSets, Functions

CONSTANTS
    Phrases,        \* keywords the mined tenders could teach
    Codes,          \* classification codes they could teach
    Rows, NoRow,    \* identifiers of keyword rows (bounds insertions)
    Learners,       \* learning runs that may be in flight
    Admins,         \* approve and reject requests that may be in flight
    NoValue,
    MaxNew,         \* MAX_NEW_KEYWORDS_PER_CAPABILITY_PER_RUN
    MaxLearned      \* MAX_LEARNED_KEYWORDS_PER_CAPABILITY

ASSUME NamesAreDistinct ==
    Phrases \cap Codes = {} /\ NoRow \notin Rows /\ NoValue \notin Phrases \cup Codes
ASSUME LimitsAreNat == MaxNew \in Nat /\ MaxLearned \in Nat
ASSUME RowsAreFinite == IsFiniteSet(Rows)
ASSUME LearnersAreFinite == IsFiniteSet(Learners)

VARIABLES
    keyword,        \* keyword[k]: row k of capability_taxonomy_keywords
    mapped,         \* codes in the mapping tables
    suggestion,     \* suggestion[v]: its row of taxonomy_learning_suggestions
    learner,        \* learner[l]: what a learning run has read
    admin           \* admin[a]: what an approve or reject has read

vars == <<keyword, mapped, suggestion, learner, admin>>

-----------------------------------------------------------------------------
Values == Phrases \cup Codes

Keyword == [phrase : Phrases \cup {NoValue}, origin : {"unused", "curated", "learned", "deleted"}]
Unused == [phrase |-> NoValue, origin |-> "unused"]
Deleted == [phrase |-> NoValue, origin |-> "deleted"]

Suggestion ==
    [status : {"none", "pending", "auto_added", "approved", "rejected"},
     keyword : Rows \cup {NoRow}]
NoSuggestion == [status |-> "none", keyword |-> NoRow]

Resting == [busy |-> FALSE, fresh |-> {}, room |-> 0]
Learner == [busy : BOOLEAN, fresh : SUBSET Values, room : 0..MaxLearned]

Idle == [op |-> "idle", value |-> NoValue, seen |-> NoSuggestion]
Admin == {Idle} \cup [op : {"approve", "reject"}, value : Values, seen : Suggestion]

Live(k) == keyword[k].origin \in {"curated", "learned"}
Teaches(k, v) == keyword[k].origin = "learned" /\ keyword[k].phrase = v
Learned == {k \in Rows : keyword[k].origin = "learned"}
FreeRows == {k \in Rows : keyword[k].origin = "unused"}
Known == {keyword[k].phrase : k \in {k \in Rows : Live(k)}}

Init ==
    /\ keyword \in [Rows -> {Unused}]
    /\ mapped = {}
    /\ suggestion = [v \in Values |-> NoSuggestion]
    /\ learner = [l \in Learners |-> Resting]
    /\ admin = [a \in Admins |-> Idle]

-----------------------------------------------------------------------------
\* What mining may propose: not a keyword or a mapping yet, never suggested
Fresh == {v \in Values \ (Known \cup mapped) : suggestion[v].status = "none"}

\* Mutants: the limit is per run; the limit is not compared with.
RoomPerRun == MaxLearned
RoomUnfloored == MaxLearned - Cardinality(Learned)

\* How many keywords may still be added without review
Room ==
    IF Cardinality(Learned) < MaxLearned THEN MaxLearned - Cardinality(Learned) ELSE 0

\* _load_state
LearnRead(l) ==
    /\ ~learner[l].busy
    /\ learner' = [learner EXCEPT ![l] = [busy |-> TRUE, fresh |-> Fresh, room |-> Room]]
    /\ UNCHANGED <<keyword, mapped, suggestion, admin>>

\* Mutant: only what waits for review is recorded.
SuggestedQueueOnly(row, queued) ==
    [v \in Values |->
        IF suggestion[v].status = "none" /\ v \in queued
        THEN [status |-> "pending", keyword |-> NoRow] ELSE suggestion[v]]

\* Mutant: "on conflict do update set status = excluded.status".
SuggestedAgain(row, queued) ==
    [v \in Values |->
        IF v \in DOMAIN row THEN [status |-> "auto_added", keyword |-> row[v]]
        ELSE IF v \in queued THEN [status |-> "pending", keyword |-> NoRow]
        ELSE suggestion[v]]

\* "on conflict (kind, capability_id, value) do nothing": a suggestion that
\* another run has made meanwhile stays as it is.
Suggested(row, queued) ==
    [v \in Values |->
        IF suggestion[v].status # "none" THEN suggestion[v]
        ELSE IF v \in DOMAIN row THEN [status |-> "auto_added", keyword |-> row[v]]
        ELSE IF v \in queued THEN [status |-> "pending", keyword |-> NoRow]
        ELSE NoSuggestion]

\* What the tenders teach is any part of what was fresh.  The automatic tier
\* comes first; what exceeds the room joins the review queue, as codes do.
\* row[v] is the row inserted for v, and nothing checks for another one.
LearnCommit(l, automatic, queued) ==
    /\ learner[l].busy
    /\ automatic \cup queued \subseteq learner[l].fresh
    /\ automatic \subseteq Phrases /\ automatic \cap queued = {}
    /\ Cardinality((automatic \cup queued) \ Codes) <= MaxNew
    /\ Cardinality(automatic) <= learner[l].room
    /\ \E row \in Injection(automatic, FreeRows) :
        /\ keyword' = [k \in Rows |->
               IF \E v \in automatic : row[v] = k
               THEN [phrase |-> CHOOSE v \in automatic : row[v] = k, origin |-> "learned"]
               ELSE keyword[k]]
        /\ suggestion' = Suggested(row, queued)
    /\ learner' = [learner EXCEPT ![l] = Resting]
    /\ UNCHANGED <<mapped, admin>>

\* The except clause, a lost connection, the end of the process
LearnRollback(l) ==
    /\ learner[l].busy
    /\ learner' = [learner EXCEPT ![l] = Resting]
    /\ UNCHANGED <<keyword, mapped, suggestion, admin>>

-----------------------------------------------------------------------------
ApproveRead(a, v) ==
    /\ admin[a] = Idle
    /\ suggestion[v].status = "pending"
    /\ admin' = [admin EXCEPT ![a] =
           [op |-> "approve", value |-> v, seen |-> suggestion[v]]]
    /\ UNCHANGED <<keyword, mapped, suggestion, learner>>

\* The insert and the update look at the suggestion read before, whatever has
\* become of it.
ApproveCommit(a) ==
    LET v == admin[a].value IN
    /\ admin[a].op = "approve"
    /\ \/ /\ v \in Phrases
          /\ \E k \in FreeRows :
                /\ keyword' = [keyword EXCEPT ![k] = [phrase |-> v, origin |-> "learned"]]
                /\ suggestion' = [suggestion EXCEPT ![v] = [status |-> "approved", keyword |-> k]]
          /\ UNCHANGED mapped
       \/ /\ v \in Codes
          /\ mapped' = mapped \cup {v}
          /\ suggestion' = [suggestion EXCEPT ![v] = [status |-> "approved", keyword |-> NoRow]]
          /\ UNCHANGED keyword
    /\ admin' = [admin EXCEPT ![a] = Idle]
    /\ UNCHANGED learner

RejectRead(a, v) ==
    /\ admin[a] = Idle
    /\ suggestion[v].status \notin {"none", "rejected"}
    /\ admin' = [admin EXCEPT ![a] =
           [op |-> "reject", value |-> v, seen |-> suggestion[v]]]
    /\ UNCHANGED <<keyword, mapped, suggestion, learner>>

\* The foreign key of a suggestion is nulled when its keyword is deleted.
Unlinked(s, deleted) == IF s.keyword \in deleted THEN [s EXCEPT !.keyword = NoRow] ELSE s

\* Only a keyword that was added automatically is retracted.
RejectCommit(a) ==
    LET v == admin[a].value
        seen == admin[a].seen
        gone == IF seen.status = "auto_added" THEN {seen.keyword} \ {NoRow} ELSE {} IN
    /\ admin[a].op = "reject"
    /\ keyword' = [k \in Rows |-> IF k \in gone THEN Deleted ELSE keyword[k]]
    /\ suggestion' = [w \in Values |->
           IF w = v THEN [Unlinked(suggestion[w], gone) EXCEPT !.status = "rejected"]
           ELSE Unlinked(suggestion[w], gone)]
    /\ admin' = [admin EXCEPT ![a] = Idle]
    /\ UNCHANGED <<mapped, learner>>

AdminRollback(a) ==
    /\ admin[a] # Idle
    /\ admin' = [admin EXCEPT ![a] = Idle]
    /\ UNCHANGED <<keyword, mapped, suggestion, learner>>

AddKeyword(k, v) ==
    /\ k \in FreeRows
    /\ keyword' = [keyword EXCEPT ![k] = [phrase |-> v, origin |-> "curated"]]
    /\ UNCHANGED <<mapped, suggestion, learner, admin>>

\* Mutant: the link is nulled before the suggestion could be found by it.
RemoveKeywordUnmarked(k) ==
    /\ Live(k)
    /\ keyword' = [keyword EXCEPT ![k] = Deleted]
    /\ suggestion' = [v \in Values |-> Unlinked(suggestion[v], {k})]
    /\ UNCHANGED <<mapped, learner, admin>>

\* The suggestion is marked before the delete nulls its link.
RemoveKeyword(k) ==
    /\ Live(k)
    /\ keyword' = [keyword EXCEPT ![k] = Deleted]
    /\ suggestion' = [v \in Values |->
           IF suggestion[v].keyword = k THEN [status |-> "rejected", keyword |-> NoRow]
           ELSE suggestion[v]]
    /\ UNCHANGED <<mapped, learner, admin>>

Next ==
    \/ \E l \in Learners : LearnRead(l) \/ LearnRollback(l)
    \/ \E l \in Learners : \E automatic, queued \in SUBSET learner[l].fresh :
           LearnCommit(l, automatic, queued)
    \/ \E a \in Admins, v \in Values : ApproveRead(a, v) \/ RejectRead(a, v)
    \/ \E a \in Admins : ApproveCommit(a) \/ RejectCommit(a) \/ AdminRollback(a)
    \/ \E k \in Rows, v \in Phrases : AddKeyword(k, v)
    \/ \E k \in Rows : RemoveKeyword(k)

Spec == Init /\ [][Next]_vars

-----------------------------------------------------------------------------
TypeOK ==
    /\ keyword \in [Rows -> Keyword]
    /\ mapped \subseteq Codes
    /\ suggestion \in [Values -> Suggestion]
    /\ learner \in [Learners -> Learner]
    /\ admin \in [Admins -> Admin]

\* What the review screen shows as added or approved is in force: its keyword
\* row, or its mapping, exists and is the one it was approved for, however
\* approvals, rejections, removals and runs overlap (main.py 3436-3518, 4626-4657).
ListedIsLive ==
    \A v \in Values : suggestion[v].status \in {"auto_added", "approved"} =>
        IF v \in Codes THEN v \in mapped
        ELSE suggestion[v].keyword \in Rows /\ Teaches(suggestion[v].keyword, v)

\* Nothing was ever learned that cannot be reviewed: every learned keyword and
\* every mapped code has a suggestion (taxonomy_learning.py 445-454).
LearnedWasSuggested ==
    /\ \A k \in Learned : suggestion[keyword[k].phrase].status # "none"
    /\ \A v \in mapped : suggestion[v].status # "none"

\* What the invariants above rest on: a live row has a phrase; a suggestion links
\* no keyword but its own, and so does what an admin has seen of it, unless that
\* keyword is gone; and what an approve has seen pending was never automatic.
LinksAreOwn ==
    /\ \A k \in Rows : Live(k) => keyword[k].phrase \in Phrases
    /\ \A v \in Values : suggestion[v].keyword \in Rows => Teaches(suggestion[v].keyword, v)
    /\ \A a \in Admins : admin[a].seen.keyword \in Rows =>
           \/ keyword[admin[a].seen.keyword].origin = "deleted"
           \/ Teaches(admin[a].seen.keyword, admin[a].value)
    /\ \A a \in Admins : admin[a].op = "approve" =>
           suggestion[admin[a].value].status \notin {"none", "auto_added"}

IInv == TypeOK /\ ListedIsLive /\ LearnedWasSuggested /\ LinksAreOwn

\* Each run stays within the room it saw, so the limit on learned keywords can
\* be exceeded by runs that overlap, and only as often as they do
\* (taxonomy_learning.py 101-102, 429-441).
AutomaticWithinLimit ==
    Cardinality({v \in Values : suggestion[v].status = "auto_added"})
        <= MaxLearned * Cardinality(Learners)

\* No run re-opens a decision: what exists is never queued or added again, and
\* what was added automatically can only be rejected (taxonomy_learning.py 37:
\* "A rejected suggestion is never proposed again").
NeverReproposed ==
    [][\A v \in Values :
         LET before == suggestion[v].status
             after == suggestion'[v].status IN
         /\ before # "none" /\ after \in {"none", "pending", "auto_added"} => after = before
         /\ before = "auto_added" => after # "approved"]_vars

\* main.py 3500: "Rejecting an already-live learned keyword retracts it too."
RejectionRetracts ==
    \A v \in Phrases : suggestion[v].status = "rejected" =>
        \A k \in Learned : keyword[k].phrase # v
=============================================================================
