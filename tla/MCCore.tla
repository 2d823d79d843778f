------------------------------- MODULE MCCore -------------------------------
(***************************************************************************)
(* The review of capabilities and the ingestion jobs.  They share no       *)
(* variable: a behaviour is one of the component that part names, so that  *)
(* their states add up instead of multiplying.                             *)
(***************************************************************************)
EXTENDS MCCapabilityReview, MCIngestionRun

VARIABLE part

MCInit == part \in {"review", "ingestion"} /\ ReviewInit /\ IngestionInit

MCNext ==
    /\ UNCHANGED part
    /\ \/ part = "review" /\ ReviewNext /\ UNCHANGED ingestionVars
       \/ part = "ingestion" /\ IngestionNext /\ UNCHANGED reviewVars

MCSpec == MCInit /\ [][MCNext]_<<reviewVars, ingestionVars, part>>

\* The instance gives Products and Jobs, and Requests and Workers, the same
\* values: to exchange two of them exchanges both.
Symmetry == ReviewSymmetry \cup IngestionSymmetry

\* The candidate list stays within its bound, the cursors within their ranges.
TypesOK == CASE part = "review" -> ReviewTypeOK [] part = "ingestion" -> IngestionTypeOK
=============================================================================
