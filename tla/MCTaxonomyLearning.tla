------------------------- MODULE MCTaxonomyLearning -------------------------
(***************************************************************************)
(* Two slices of the behaviours, named by part: "reviews" has two admins,  *)
(* a code and one phrase at a time, "runs" has all phrases and one admin   *)
(* at work.                                                                *)
(***************************************************************************)
EXTENDS TaxonomyLearning, TLC

VARIABLE part

Touched ==
    {v \in Values : suggestion[v] # NoSuggestion} \cup ({keyword[k].phrase : k \in Rows} \ {NoValue})

MCInit == Init /\ part \in {"reviews", "runs"}

MCNext ==
    /\ Next /\ UNCHANGED part
    /\ part = "reviews" => Cardinality((Touched \cap Phrases)') <= 1
    /\ part = "runs" => Touched' \cap Codes = {} /\ Cardinality({a \in Admins : admin'[a] # Idle}) <= 1

MCSpec == MCInit /\ [][MCNext]_<<vars, part>>

\* Phrases, keyword rows, runs and requests are interchangeable.
Symmetry == UNION {Permutations(S) : S \in {Phrases, Rows, Learners, Admins}}
=============================================================================
