SPECIFICATION MCSpec
CONSTANTS
    Requests = {r1, r2}
    Passwords = {p1, p2}
    Secrets = {s1}
    NoSecret = NoSecret
    Codes = {c1}
    Links = {k1}
    MaxAttempts = 2
    MaxVersion = 3
    MaxFailures = 2
    Emails = {e1, e2}
    Allowed = {e1, e2}
    Subjects = {i1, i2}
    Tenants = {t1, t2}
    Visitors = {v1, v2}
    NoTenant = NoTenant
    BackupRuns = 4
    AtOnce = 2
    Keep = 1
SYMMETRY Symmetry
INVARIANTS
    TypesOK
    LockoutNeedsFailures
    SignUpsAreWhole
    JobsTellTheTruth
PROPERTIES
    NoSessionOutlivesRevocation
    IdentityStays
CHECK_DEADLOCK FALSE
