CONSTANTS
    EventTypes = {created}
    Envs = {e1}
    Null = Null
    QueueSize = 1
    SweepBatch = 2
    MaxConcurrent = 2
    Retries = 1
    Subscriptions <- Everything
    Offered = {"notify", "test", "prune", "retire", "crash", "shutdown", "dberror"}
    MaxHooks = 1
    MaxEvents = 2
    MaxFaults = 2
SPECIFICATION FairSpec
INVARIANTS
    TypeOK
PROPERTIES
    KeepsLedger
    SettlesEventually
