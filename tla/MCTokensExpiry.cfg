SPECIFICATION Spec
CONSTANTS
    Null = Null
    Envs = {e1, e2}
    Tokens = {t1}
    Clients = {c1, c2}
    MaxUses = {2, Null}
    TTLs = {2}
    ExpiredRetention = 1
    ConsumedRetention = 1
    BatchSize = 1
    MaxBatches = 1
    Offered = {"create", "consume", "revoke", "delete"}
    MaxTime = 2
    MaxSpends = 2
    MaxFaults = 1
SYMMETRY Symmetry
PROPERTY
    NeverSpentExpired
