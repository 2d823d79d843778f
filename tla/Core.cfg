SPECIFICATION MCSpec
CONSTANTS
    Products = {i1, i2}
    Capabilities = {c1, c2}
    Programmes = {g1}
    Evidence = {e1, e2}
    Requests = {r1, r2}
    NoProduct = NoProduct
    NoCapability = NoCapability
    NoEvidence = NoEvidence
    MaxSuggestions = 2
    sam = sam
    listing = listing
    canada = canada
    Sources = {sam, listing, canada}
    Shape <- AllShapes
    Workers = {r1, r2}
    Jobs = {i1, i2}
    NoJob = NoJob
    NumCodes = 2
    GroupSize = 2
    NumPages = 1
SYMMETRY Symmetry
INVARIANTS
    TypesOK
    ReviewedIffConfirmed
    EvidencePerRow
    CascadeComplete
    SnapshotVetted
    OpportunityNeedsReview
    RowHasOneOwner
    SucceededIsStored
PROPERTIES
    GateSpec
    LedgerSpec
CHECK_DEADLOCK FALSE
