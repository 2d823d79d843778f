SPECIFICATION MCSpec
CONSTANTS
    Phrases = {p1, p2, p3}
    Codes = {k1}
    Rows = {r1, r2, r3}
    NoRow = NoRow
    Learners = {l1, l2}
    Admins = {a1, a2}
    NoValue = NoValue
    MaxNew = 2
    MaxLearned = 1
SYMMETRY Symmetry
INVARIANTS
    TypeOK
    ListedIsLive
    LearnedWasSuggested
    AutomaticWithinLimit
PROPERTY NeverReproposed
