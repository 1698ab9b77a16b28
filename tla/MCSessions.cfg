CONSTANTS
    Null = Null
    admin = admin
    p1 = p1
    p2 = p2
    Servers = {srv1}
    Shells = {sh}
    Names = {admin}
    Passwords = {p1, p2}
    EnvAdmin <- Configured
    SeedData = TRUE
    Commands <- AdminCreates
    Files = 2
    MaxFaults = 2
    SessionIds = {s1}
    Clients = {c1, c2}
    SessionTTL = 1
    MaxTime = 2
SPECIFICATION FairSpec
INVARIANTS
    SchemaWhole
    ServedOnlyWhenLive
PROPERTIES
    NoEarlySignOut
    PasswordKept
    ComesToServe
    ExpiredSessionsGo
