----------------------------- MODULE MCMatching -----------------------------
(***************************************************************************)
(* Mappings and keywords for small instances of Matching.                  *)
(***************************************************************************)
EXTENDS Matching, TLC

CONSTANTS cA, cB,       \* capabilities
          k1, k2, k3    \* keywords

\* Two exact codes; the same two capabilities by prefix; a sentinel that an
\* approved suggestion has mapped.
MCCodes == {<<1, 2>>, <<1, 3, 4>>, <<9>>}
MCSentinels == {<<9>>}
MCExactCodes == {<<<<1, 2>>, cA>>, <<<<1, 2>>, cB>>, <<<<9>>, cA>>}
MCCodePrefixes == {<<<<1>>, cA>>, <<<<1, 3>>, cB>>}
MCAbout == k1 :> cA @@ k2 :> cA @@ k3 :> cB
MCWeight == k1 :> 5 @@ k2 :> 1 @@ k3 :> 5     \* 1 to 5 in the schema
=============================================================================
