SPECIFICATION AccountSpec
CONSTANTS
    Requests = {r1, r2}
    Passwords = {p1}
    Secrets = {s1, s2}
    NoSecret = NoSecret
    Codes = {}
    Links = {}
    MaxAttempts = 1
    MaxVersion = 1
    MaxFailures = 0
INVARIANT EnabledSecretIsProven
CHECK_DEADLOCK FALSE
