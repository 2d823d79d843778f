SPECIFICATION MCSpec
CONSTANTS
    Editors = {r1, r2}
    Members = {m1}
    Nobody = Nobody
    StagesUsed = {"lead", "won"}
    TenderStates <- MCTenderStates
    Asks <- MCAsks
    MaxOpens = 1
    MaxEdits = 2
    Finds = {i1, i2}
    Views = {r1, r2}
    MaxTime = 4
    i1 = i1
    i2 = i2
    r1 = r1
    r2 = r2
    cA = cA
    cB = cB
    k1 = k1
    k2 = k2
    k3 = k3
    Capabilities = {cA, cB}
    ExactCodes <- MCExactCodes
    CodePrefixes <- MCCodePrefixes
    Programmes = {p1}
    Codes <- MCCodes
    Sentinels <- MCSentinels
    Keywords = {k1, k2, k3}
    About <- MCAbout
    Weight <- MCWeight
    Long = {k1, k3}
    Standalone = {k1, k3}
    KeywordOnly = TRUE
    Companies = {i1, i2}
    Columns = {gst, pan}
    Numbers = {n1}
    NoNumber = NoNumber
    Notices = {i1, i2}
    Comparisons = {r1, r2}
    Checks = {r1, r2}
    StatusesUsed = {"open", "partly", "awarded", "void"}
    MaxComparisons = 2
    MaxChecks = 2
    MaxDays = 12
SYMMETRY Symmetry
INVARIANTS
    TypesOK
    AdviceFitsRow
    LogKnowsRow
    PassedIsListed
    PreviewIsMatched
    QuietCompaniesSurvive
    
    SilenceIsMailed
    RowsFollowSource
PROPERTIES
    MatchedIsCorroborated
    ResolvedIsMatched
    RedIsNotAlreadyFixed
CHECK_DEADLOCK FALSE
