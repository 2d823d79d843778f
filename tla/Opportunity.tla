----------------------------- MODULE Opportunity -----------------------------
(***************************************************************************)
(* One row of opportunities and the requests that write it                 *)
(* (src/api/app/main.py): the upsert of match-programmes, PATCH            *)
(* /opportunities/{id}, and the count of visits to the tender, while       *)
(* ingestion and time change the tender.                                   *)
(*                                                                         *)
(* PATCH reads the row, computes every column it will write and the audit  *)
(* entry from what it has read, and writes them all; only the owner is     *)
(* decided by the SQL itself.  Two that overlap lose one's update.         *)
(***************************************************************************)
EXTENDS PipelineRules

CONSTANTS
    Editors,            \* requests in flight
    Members, Nobody,    \* users of the tenant
    StagesUsed,         \* the stages an instance explores
    TenderStates,       \* what an instance lets the tender be
    Asks,               \* the requests an instance sends
    MaxOpens, MaxEdits  \* bounds: visits, edits

Owners == Members \cup {Nobody}
SetAsides == {"none", "NONE", "stated"}  \* no code, one that means none, a real one
DueDates == {"none", "ahead", "past"}    \* the team's own follow-up date

\* What a request asks for: "same" leaves a field alone; "auto" is
\* auto_suggest_next_action, which works with a stage only.
Ask == [stage : StagesUsed \cup {"same"}, action : {"same", "manual", "auto"},
        owner : Owners \cup {"same"}, due : {"same", "ahead", "past"}]

ASSUME OpportunityAssumptions ==
    /\ StagesUsed \subseteq OpportunityStages /\ "lead" \in StagesUsed
    /\ Nobody \notin Members /\ MaxOpens \in Nat /\ MaxEdits \in Nat
    /\ TenderStates \subseteq [days : Int, setAside : SetAsides]
    /\ Asks \subseteq Ask

VARIABLES
    row,            \* the opportunity
    tender,         \* days to its response deadline, and its set-aside code
    editor,         \* editor[q]: what a PATCH has read and will write
    opensLogged,    \* audit entries opportunity.tender_opened
    edits,          \* edits so far, up to the bound
    optedOut,       \* history: a stage was set with auto_suggest off
    audited         \* history: what the row was inserted as, and the after-states of
                    \* the audit entries opportunity.stage_changed

opportunityVars == <<row, tender, editor, opensLogged, edits, optedOut, audited>>

-----------------------------------------------------------------------------
\* The stored text: the parts suggest_next_action puts together, or a user's
Manual == [base |-> "manual", restriction |-> FALSE, overdue |-> FALSE, assign |-> FALSE]
Sentences == {Manual} \cup
    [base : UNION {SuggestionsFor(s) : s \in OpportunityStages},
     restriction : BOOLEAN, overdue : BOOLEAN, assign : BOOLEAN]

Row == [there : BOOLEAN, stage : StagesUsed, action : Sentences, confidence : {"low", "high"},
        owner : Owners, due : DueDates, opened : 0..MaxOpens]

\* keeps: stage and action written are those read; held: the owner read
Resting == [busy |-> FALSE]
Editing == [busy : {TRUE}, stage : StagesUsed, action : Sentences, owner : Owners \cup {"same"},
            due : DueDates, keeps : BOOLEAN, held : Owners]

\* What an audit entry says of the row
Audited(r) == <<r.stage, r.action, r.owner>>

OpportunityInit ==
    /\ tender \in TenderStates
    /\ row = [there |-> FALSE, stage |-> "lead", action |-> Manual, confidence |-> "low",
              owner |-> Nobody, due |-> "none", opened |-> 0]
    /\ opensLogged = 0 /\ audited = {}
    /\ editor = [q \in Editors |-> Resting]
    /\ edits = 0 /\ optedOut = FALSE

\* The advice takes any code for a restriction; of a date ahead it says nothing.
Suggested(stage, confidence, owner, due) ==
    SuggestNextAction(stage, confidence, tender.days, tender.setAside # "none",
                      owner # Nobody, IF due = "past" THEN 1 ELSE Unknown)

\* match_programmes_for_product: an existing row keeps its place in the
\* pipeline, only the score and the confidence are those of the new match.
Match(confidence) ==
    /\ row' = IF row.there THEN [row EXCEPT !.confidence = confidence]
              ELSE [row EXCEPT !.there = TRUE, !.confidence = confidence,
                               !.action = Suggested("lead", confidence, Nobody, "none")]
    /\ audited' = IF row.there THEN audited ELSE audited \cup {Audited(row')}
    /\ UNCHANGED <<tender, editor, opensLogged, edits, optedOut>>

Chosen(asked, old) == IF asked = "same" THEN old ELSE asked

\* Mutant: the suggestion is computed for the stage the row had.
ActionForOldStage(ask, seen) ==
    IF ask.action = "manual" THEN Manual
    ELSE IF ask.stage # "same" /\ ask.action = "auto"
         THEN Suggested(seen.stage, seen.confidence, Chosen(ask.owner, seen.owner),
                        Chosen(ask.due, seen.due))
    ELSE seen.action

NewAction(ask, seen) ==
    IF ask.action = "manual" THEN Manual
    ELSE IF ask.stage # "same" /\ ask.action = "auto"
         THEN Suggested(ask.stage, seen.confidence, Chosen(ask.owner, seen.owner),
                        Chosen(ask.due, seen.due))
    ELSE seen.action

EditRead(q, ask) ==
    /\ ~editor[q].busy /\ row.there /\ edits < MaxEdits /\ edits' = edits + 1
    /\ LET stage == Chosen(ask.stage, row.stage)
           action == NewAction(ask, row)
       IN editor' = [editor EXCEPT ![q] =
              [busy |-> TRUE, stage |-> stage, action |-> action, owner |-> ask.owner,
               due |-> Chosen(ask.due, row.due), held |-> row.owner,
               keeps |-> stage = row.stage /\ action = row.action]]
    /\ optedOut' = (optedOut \/ (ask.stage # "same" /\ ask.action = "same"))
    /\ UNCHANGED <<row, tender, opensLogged, audited>>

Written(q) ==
    [row EXCEPT !.action = editor[q].action, !.stage = editor[q].stage,
                !.due = editor[q].due, !.owner = Chosen(editor[q].owner, @)]

\* Mutant: whether the owner changes is judged by the request, not by what the
\* update returned.
EditCommitComparesNow(q) ==
    /\ editor[q].busy
    /\ row' = Written(q)
    /\ audited' = IF editor[q].keeps /\ editor[q].owner = "same" THEN audited
               ELSE audited \cup {Audited(row')}
    /\ editor' = [editor EXCEPT ![q] = Resting]
    /\ UNCHANGED <<tender, opensLogged, edits, optedOut>>

\* Stage, action and due date (and the checklist) are those of the request or
\* of the row it read; the owner is "case when :clear_owner then null else
\* coalesce(:owner, owner)".  An audit entry is written if what the update
\* returned differs from what was read.
EditCommit(q) ==
    /\ editor[q].busy
    /\ row' = Written(q)
    /\ audited' = IF editor[q].keeps /\ row'.owner = editor[q].held THEN audited
               ELSE audited \cup {Audited(row')}
    /\ editor' = [editor EXCEPT ![q] = Resting]
    /\ UNCHANGED <<tender, opensLogged, edits, optedOut>>

\* 404, 422, a rollback
EditFails(q) ==
    /\ editor[q].busy
    /\ editor' = [editor EXCEPT ![q] = Resting]
    /\ UNCHANGED <<row, tender, opensLogged, edits, optedOut, audited>>

\* record_tender_opened: the update returns the count it started from.
RecordTenderOpened ==
    /\ row.there /\ row.opened < MaxOpens
    /\ row' = [row EXCEPT !.opened = @ + 1]
    /\ opensLogged' = IF row.opened = 0 THEN opensLogged + 1 ELSE opensLogged
    /\ UNCHANGED <<tender, editor, edits, optedOut, audited>>

\* Time passes, and ingestion stores a new deadline or set-aside.
TenderChanges ==
    /\ tender' \in TenderStates
    /\ UNCHANGED <<row, editor, opensLogged, edits, optedOut, audited>>

Passed(due) == IF due = "ahead" THEN "past" ELSE due

DueDatePasses ==
    /\ row' = [row EXCEPT !.due = Passed(@)]
    /\ editor' = [q \in Editors |->
           IF editor[q].busy THEN [editor[q] EXCEPT !.due = Passed(@)] ELSE Resting]
    /\ UNCHANGED <<tender, opensLogged, edits, optedOut, audited>>

OpportunityNext ==
    \/ \E c \in {"low", "high"} : Match(c)
    \/ \E q \in Editors, ask \in Asks : EditRead(q, ask)
    \/ \E q \in Editors : EditCommit(q) \/ EditFails(q)
    \/ RecordTenderOpened
    \/ TenderChanges \/ DueDatePasses

OpportunitySpec == OpportunityInit /\ [][OpportunityNext]_opportunityVars

-----------------------------------------------------------------------------
OpportunityTypeOK ==
    /\ row \in Row
    /\ tender \in TenderStates
    /\ opensLogged \in 0..MaxOpens
    /\ audited \subseteq StagesUsed \X Sentences \X Owners
    /\ editor \in [Editors -> {Resting} \cup Editing]
    /\ edits \in 0..MaxEdits
    /\ optedOut \in BOOLEAN

\* Whether a text fits a stage: its sentence is one of that stage, a warning of
\* a restriction belongs to an early stage, and a closed opportunity asks for
\* nothing more, neither for an owner nor for an overdue follow-up.
Fits(action, stage) ==
    \/ action = Manual
    \/ /\ action.base \in SuggestionsFor(stage)
       /\ action.restriction => stage \in EarlyStages
       /\ action.overdue \/ action.assign => stage \notin ClosedStages

\* What the user is told to do fits the stage shown next to it, also after
\* overlapping edits of which one is lost: an edit writes both or, for a user
\* who switched the suggestion off, knowingly only one.  (The other facts the
\* text mentions are those of the moment it was written: an owner named or a
\* deadline moved later does not change it.)
ActionFitsStage == optedOut \/ Fits(row.action, row.stage)

\* The score shown with the row, whatever is known of the buyer's awards: a
\* percentage, of at most 20 when a restriction is stated (a gate, not a
\* deduction); a better match never scores less, a deadline that passes never
\* scores more.
Restricted == tender.setAside = "stated"

ScoreFitsRow ==
    row.there => \A known \in BOOLEAN, winners \in {0, 1, 4, 5} :
        LET score(c, d) == FitScore(Signals(c, d, known, winners), Restricted)
            shown == score(row.confidence, tender.days)
        IN /\ shown \in IF Restricted THEN 0..20 ELSE 0..100
           /\ score("low", tender.days) <= shown
           /\ tender.days # Unknown => score(row.confidence, -1) <= shown

\* What a user is told of an opportunity, in words and as a percentage, fits it.
AdviceFitsRow == ActionFitsStage /\ ScoreFitsRow

\* The audit log tells every state the row is in: an edit that writes no entry
\* (main.py 3993: "An empty/no-op PATCH (nothing actually changed) is not a real
\* engagement event") compares with a row it read earlier, and so may undo an
\* edit committed since, but only back to what the log has told before.
LogKnowsRow == row.there => Audited(row) \in audited
=============================================================================
