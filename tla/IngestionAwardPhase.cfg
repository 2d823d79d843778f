SPECIFICATION IngestionSpec
CONSTANTS
    sam = sam
    listing = listing
    canada = canada
    Sources = {canada}
    Shape <- CanadaOnly
    Workers = {w1}
    Jobs = {j1, j2}
    NoJob = NoJob
    NumCodes = 2
    GroupSize = 2
    NumPages = 1
PROPERTY AwardPhaseUndoesNothing
