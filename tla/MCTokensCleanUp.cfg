SPECIFICATION FairSpec
CONSTANTS
    Null = Null
    Envs = {e1}
    Tokens = {t1, t2}
    Clients = {c1}
    MaxUses = {1}
    TTLs = {1, 3}
    ExpiredRetention = 1
    ConsumedRetention = 1
    BatchSize = 1
    MaxBatches = 1
    Offered = {"create", "consume"}
    MaxTime = 3
    MaxSpends = 1
    MaxFaults = 1
PROPERTIES
    CleanUpSparesActive
    FinishedRowsGo
