--------------------------- MODULE MCIngestionRun ---------------------------
EXTENDS IngestionRun, TLC

CONSTANTS sam, listing, canada

AllShapes == (sam :> "paged") @@ (listing :> "listing") @@ (canada :> "phased")
TwoShapes == (sam :> "paged") @@ (canada :> "phased")
CanadaOnly == canada :> "phased"

\* Sessions and slots of the job table are interchangeable (safety runs only).
IngestionSymmetry == Permutations(Workers) \cup Permutations(Jobs)
=============================================================================
