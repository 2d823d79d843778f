----------------------------- MODULE ReviewGate -----------------------------
(***************************************************************************)
(* What the review of capabilities promises to the rest of the platform,   *)
(* without requests, rows or evidence: the pipeline of a product holds     *)
(* opportunities only after a person has vetted at least one capability of *)
(* that product.                                                           *)
(***************************************************************************)
CONSTANTS Products, Capabilities, Programmes

VARIABLES
    vetted,         \* vetted[p]: capabilities of p some person has confirmed
    opportunities   \* opportunities[p]: programmes p has an opportunity for

gateVars == <<vetted, opportunities>>

GateTypeOK ==
    /\ vetted \in [Products -> SUBSET Capabilities]
    /\ opportunities \in [Products -> SUBSET Programmes]

GateInit ==
    /\ vetted = [p \in Products |-> {}]
    /\ opportunities = [p \in Products |-> {}]

Vet(p, c) ==
    /\ vetted' = [vetted EXCEPT ![p] = @ \cup {c}]
    /\ UNCHANGED opportunities

Generate(p, found) ==
    /\ vetted[p] # {}
    /\ opportunities' = [opportunities EXCEPT ![p] = @ \cup found]
    /\ UNCHANGED vetted

Discard(p) ==
    /\ opportunities' = [opportunities EXCEPT ![p] = {}]
    /\ UNCHANGED vetted

GateNext ==
    \E p \in Products :
        \/ \E c \in Capabilities : Vet(p, c)
        \/ \E found \in SUBSET Programmes : Generate(p, found)
        \/ Discard(p)

GateSpec == GateInit /\ [][GateNext]_gateVars
=============================================================================
