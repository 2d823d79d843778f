SPECIFICATION AccountSpec
CONSTANTS
    Requests = {r1, r2}
    Passwords = {p1}
    Secrets = {s1}
    NoSecret = NoSecret
    Codes = {c1}
    Links = {}
    MaxAttempts = 1
    MaxVersion = 2
    MaxFailures = 0
PROPERTY BlockedStaysOut
CHECK_DEADLOCK FALSE
