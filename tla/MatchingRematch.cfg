SPECIFICATION MatchingSpec
CONSTANTS
    cA = cA
    cB = cB
    k1 = k1
    k2 = k2
    k3 = k3
    Capabilities = {cA, cB}
    ExactCodes <- MCExactCodes
    CodePrefixes <- MCCodePrefixes
    Programmes = {p1}
    Codes <- MCCodes
    Sentinels <- MCSentinels
    Keywords = {k1, k2, k3}
    About <- MCAbout
    Weight <- MCWeight
    Long = {k1, k3}
    Standalone = {k1, k3}
    KeywordOnly = TRUE
INVARIANT RematchedIsCorroborated
CHECK_DEADLOCK FALSE
