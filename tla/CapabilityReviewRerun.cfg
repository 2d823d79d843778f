SPECIFICATION ReviewSpec
CONSTANTS
    Products = {p1}
    Capabilities = {c1, c2}
    Programmes = {g1}
    Evidence = {e1, e2}
    Requests = {r1, r2}
    NoProduct = NoProduct
    NoCapability = NoCapability
    NoEvidence = NoEvidence
    MaxSuggestions = 2
SYMMETRY ReviewSymmetry
PROPERTY RerunNeverUnconfirms
CHECK_DEADLOCK FALSE
