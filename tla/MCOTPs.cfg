SPECIFICATION Spec
CONSTANTS
    Null = Null
    Envs = {e1}
    Subjects = {s1, s2}
    Digits = {d1}
    Guesses = {d1, d2}
    Otps = {o1, o2}
    Clients = {c1, c2}
    Ceilings = {1}
    TTLs = {1}
    OTPRetention = 0
    BatchSize = 1
    MaxBatches = 2
    Offered = {"generate", "validate", "revoke", "delete"}
    MaxTime = 1
    MaxFaults = 1
SYMMETRY Symmetry
INVARIANTS
    TypeOK
    AtMostOneLive
    CeilingHolds
PROPERTIES
    HandedTheLive
    KeepsLedger
    OwnSubjectOnly
    CleanUpSparesActive
    StatusMovesForward
