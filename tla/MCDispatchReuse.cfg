CONSTANTS
    EventTypes = {created, revoked}
    Envs = {e1}
    Null = Null
    QueueSize = 1
    SweepBatch = 2
    MaxConcurrent = 2
    Retries = 1
    Subscriptions <- Everything
    Offered = {"notify", "delete"}
    MaxHooks = 2
    MaxEvents = 2
    MaxFaults = 0
SPECIFICATION Spec
INVARIANTS
    RightReceiver
