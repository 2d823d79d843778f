SPECIFICATION MCSpec
CONSTANTS
    Phrases = {p1}
    Codes = {k1}
    Rows = {r1, r2, r3}
    NoRow = NoRow
    Learners = {l1}
    Admins = {a1}
    NoValue = NoValue
    MaxNew = 2
    MaxLearned = 1
SYMMETRY Symmetry
INVARIANT RejectionRetracts
