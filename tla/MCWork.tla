------------------------------- MODULE MCWork -------------------------------
(***************************************************************************)
(* The components that share no variable, checked side by side: a          *)
(* behaviour is one of the component that part names, so that their states *)
(* add up instead of multiplying.  Comparisons and health checks of        *)
(* SourceChecks meet in the tenders only and are explored one at a time.   *)
(***************************************************************************)
EXTENDS MCOpportunity, NewOpportunities, MCMatching, KeyRotation, SourceChecks,
        Upkeep, Feeds

CONSTANTS i1, i2,   \* what is stored: finds, companies, notices
          r1, r2    \* who is at work: editors, views, comparisons, checks

VARIABLE part

Symmetry == Permutations({i1, i2}) \cup Permutations({r1, r2})

pipelineVars == <<opportunityVars, newVars>>
operationVars == <<rotationVars, sourceVars, upkeepVars, feedVars>>

MCInit ==
    /\ part \in {"opportunity", "new", "matching", "rotation",
                 "compare", "check", "upkeep", "feeds"}
    /\ OpportunityInit /\ NewInit /\ MatchingInit
    /\ RotationInit /\ SourceInit /\ UpkeepInit /\ FeedsInit
    \* One initial state of a component that stands still is enough.
    /\ part # "opportunity" => tender.days = Unknown
    /\ part # "upkeep" => configured /\ kind = "backup"
    /\ part # "feeds" => source = "sam_gov"

MCNext ==
    /\ UNCHANGED part
    /\ \/ /\ part = "opportunity" /\ OpportunityNext
          /\ UNCHANGED <<newVars, matchingVars, operationVars>>
       \/ /\ part = "new" /\ NewNext
          /\ UNCHANGED <<opportunityVars, matchingVars, operationVars>>
       \/ /\ part = "matching" /\ MatchingNext
          /\ UNCHANGED <<pipelineVars, operationVars>>
       \/ /\ part = "rotation" /\ RotationNext
          /\ UNCHANGED <<pipelineVars, matchingVars, sourceVars, upkeepVars, feedVars>>
       \/ /\ part = "compare" /\ (SourceStep \/ CompareStep)
          /\ UNCHANGED <<pipelineVars, matchingVars, rotationVars, upkeepVars,
                         feedVars>>
       \/ /\ part = "check" /\ (SourceStep \/ CheckStep)
          /\ UNCHANGED <<pipelineVars, matchingVars, rotationVars, upkeepVars,
                         feedVars>>
       \/ /\ part = "upkeep" /\ UpkeepNext
          /\ UNCHANGED <<pipelineVars, matchingVars, rotationVars, sourceVars, feedVars>>
       \/ /\ part = "feeds" /\ FeedsNext
          /\ UNCHANGED <<pipelineVars, matchingVars, rotationVars, sourceVars,
                         upkeepVars>>

MCSpec == MCInit /\ [][MCNext]_<<pipelineVars, matchingVars, operationVars, part>>

\* The variables of every component stay in their sets.
TypesOK ==
    CASE part = "opportunity" -> OpportunityTypeOK
      [] part = "new" -> NewTypeOK
      [] part = "matching" -> MatchingTypeOK
      [] part = "rotation" -> RotationTypeOK
      [] part \in {"compare", "check"} -> SourceTypeOK
      [] part = "upkeep" -> UpkeepTypeOK
      [] part = "feeds" -> FeedsTypeOK
=============================================================================
