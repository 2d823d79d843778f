SPECIFICATION FairSpec
CONSTANTS
    sam = sam
    listing = listing
    canada = canada
    Sources = {sam, canada}
    Shape <- TwoShapes
    Workers = {w1}
    Jobs = {j1}
    NoJob = NoJob
    NumCodes = 2
    GroupSize = 1
    NumPages = 2
PROPERTIES
    RollingBackJobEnds
    OrphanIsReaped
    RotationReachesEveryPage
