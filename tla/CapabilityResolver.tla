------------------------- MODULE CapabilityResolver -------------------------
(***************************************************************************)
(* From a classification code to capabilities: app/capability_resolver.py. *)
(* A code is the sequence of its digits, <<>> for a programme without one. *)
(***************************************************************************)
EXTENDS Naturals, FiniteSets, SequencesExt

CONSTANTS
    Capabilities,
    ExactCodes,     \* pairs <<code, capability>>: the NAICS and CPV mappings
    CodePrefixes    \* pairs <<prefix, capability>>: the UNSPSC mapping

ASSUME MappingAssumptions ==
    /\ \A m \in ExactCodes : m[1] \in Seq(Nat) \ {<<>>} /\ m[2] \in Capabilities
    /\ \A m \in CodePrefixes : m[1] \in Seq(Nat) \ {<<>>} /\ m[2] \in Capabilities

\* resolve_capabilities: an exact mapping hides the prefixes, a longer prefix
\* hides the shorter ones; all capabilities of what is left count.
ResolveCapabilities(code) ==
    LET exact == {c \in Capabilities : <<code, c>> \in ExactCodes}
        fitting == {m \in CodePrefixes : IsPrefix(m[1], code)}
        longest == {m \in fitting : \A n \in fitting : Len(n[1]) <= Len(m[1])}
    IN IF exact # {} THEN exact ELSE {m[2] : m \in longest}
=============================================================================
