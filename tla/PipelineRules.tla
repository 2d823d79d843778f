---------------------------- MODULE PipelineRules ----------------------------
(***************************************************************************)
(* The rules the opportunity pipeline computes with, as operators:         *)
(* app/next_best_action.py and app/fit_score.py.  Texts are abstracted to  *)
(* the rule that produces them, dates to the number of days from today.    *)
(***************************************************************************)
EXTENDS Integers

OpportunityStages ==
    {"lead", "qualified", "technical_discussion", "nda", "demo", "trial", "evaluation",
     "rfi", "rfp", "proposal", "negotiation", "won", "lost"}

ClosedStages == {"won", "lost"}
LateStages == {"proposal", "negotiation"}
MidStages == {"rfi", "rfp", "evaluation", "trial", "demo"}
EarlyStages == {"lead", "qualified", "technical_discussion", "nda"}

Confidences == {"none", "low", "medium", "high"}
UrgentDays == 7                                  \* URGENT_DEADLINE_DAYS
Unknown == -1000                                 \* no date, or one that is not read

\* _base_suggestion: which of its sentences
BaseSuggestion(stage, confidence, days) ==
    CASE stage \in ClosedStages -> stage
      [] stage \notin ClosedStages /\ days # Unknown /\ days < 0 -> "deadline_passed"
      [] stage \notin ClosedStages /\ days # Unknown /\ days \in 0..UrgentDays -> "urgent"
      [] OTHER ->
           CASE stage \in EarlyStages /\ confidence = "low" -> "recheck"
             [] stage \in EarlyStages /\ confidence = "high" -> "reach_out"
             [] stage \in EarlyStages /\ confidence \in {"none", "medium"} -> "decide"
             [] stage \in MidStages -> "qualify"
             [] stage \in LateStages -> "submit"

\* The sentences a stage can lead to, whatever the confidence and the deadline
SuggestionsFor(stage) ==
    {BaseSuggestion(stage, c, d) : c \in Confidences, d \in {Unknown, -1, 0, UrgentDays + 1}}

\* suggest_next_action; late is the number of days since the due date.
SuggestNextAction(stage, confidence, days, restricted, owned, late) ==
    [base |-> BaseSuggestion(stage, confidence, days),
     restriction |-> restricted /\ stage \in EarlyStages \ ClosedStages,
     overdue |-> late # Unknown /\ late > 0 /\ stage \notin ClosedStages,
     assign |-> ~owned /\ stage \notin ClosedStages]

-----------------------------------------------------------------------------
\* One of the four signals of the fit score: points out of max, or Unknown
Signal == [points : 0..40 \cup {Unknown}, max : {20, 40}]

ConfidencePoints(confidence) ==
    [max |-> 40,
     points |-> CASE confidence = "high" -> 40 [] confidence = "medium" -> 25
                  [] confidence = "low" -> 10 [] confidence = "none" -> Unknown]

DeadlinePoints(days) ==
    [max |-> 20,
     points |-> CASE days = Unknown -> Unknown
                  [] days # Unknown /\ days < 3 -> 0
                  [] days \in 3..7 -> 5
                  [] days \in 8..21 -> 15
                  [] days > 21 -> 20]

ValuePoints(known) == [max |-> 20, points |-> IF known THEN 20 ELSE Unknown]

\* No award history and no winner in it are the same here.
BuyerPoints(winners) ==
    [max |-> 20,
     points |-> CASE winners = 0 -> Unknown [] winners = 1 -> 0
                  [] winners \in 2..4 -> 10 [] winners >= 5 -> 20]

\* Python's round(100 * n / m): halves go to the even neighbour.
RoundedPercent(n, m) ==
    LET q == (100 * n) \div m
        twice == 2 * ((100 * n) % m)
    IN IF twice > m \/ (twice = m /\ q % 2 = 1) THEN q + 1 ELSE q

Signals(confidence, days, valueKnown, winners) ==
    <<ConfidencePoints(confidence), ValuePoints(valueKnown),
      DeadlinePoints(days), BuyerPoints(winners)>>

\* Sums over the four signals of f, leaving out the missing ones
Scored(signals) == {i \in 1..4 : signals[i].points # Unknown}
Total(signals) ==
    LET p(i) == IF i \in Scored(signals) THEN signals[i].points ELSE 0
    IN p(1) + p(2) + p(3) + p(4)
Available(signals) ==
    LET m(i) == IF i \in Scored(signals) THEN signals[i].max ELSE 0
    IN m(1) + m(2) + m(3) + m(4)

ScorePercent(signals) ==
    IF Available(signals) > 0 THEN RoundedPercent(Total(signals), Available(signals)) ELSE Unknown

\* compute_fit_score: a restriction is a gate, not a deduction.
FitScore(signals, restricted) ==
    LET percent == ScorePercent(signals)
    IN IF restricted /\ percent # Unknown /\ percent > 20 THEN 20 ELSE percent
=============================================================================
