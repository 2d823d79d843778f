------------------------ MODULE MCCapabilityReview ------------------------
EXTENDS CapabilityReview, TLC

\* The actions and the properties treat the members of each of these sets alike.
ReviewSymmetry ==
    UNION {Permutations(S) : S \in {Products, Capabilities, Evidence, Requests}}
=============================================================================
