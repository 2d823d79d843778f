---------------------------- MODULE MCOpportunity ----------------------------
(***************************************************************************)
(* Tenders and requests for small instances of Opportunity.                *)
(***************************************************************************)
EXTENDS Opportunity

\* A tender without a deadline, whose code means that there is no set-aside;
\* one that is urgent; one that has passed.
MCTenderStates == {[days |-> Unknown, setAside |-> "NONE"],
                   [days |-> UrgentDays, setAside |-> "stated"],
                   [days |-> -1, setAside |-> "none"]}

Leave == [stage |-> "same", action |-> "same", owner |-> "same", due |-> "same"]

\* Nothing, every field by itself, and a stage together with an owner
MCAsks ==
    {Leave, [Leave EXCEPT !.action = "manual"], [Leave EXCEPT !.due = "ahead"]}
    \cup {[Leave EXCEPT !.owner = o] : o \in Owners}
    \cup {[Leave EXCEPT !.stage = s, !.action = a] : s \in StagesUsed, a \in {"same", "auto"}}
    \cup {[Leave EXCEPT !.stage = "lead", !.action = "auto", !.owner = o] : o \in Owners}
=============================================================================
