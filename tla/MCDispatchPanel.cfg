CONSTANTS
    EventTypes = {created, revoked}
    Envs = {e1}
    Null = Null
    QueueSize = 1
    SweepBatch = 2
    MaxConcurrent = 2
    Retries = 0
    Subscriptions <- AllOrOne
    Offered = {"notify", "test", "toggle", "delete"}
    MaxHooks = 2
    MaxEvents = 2
    MaxFaults = 0
SPECIFICATION Spec
INVARIANTS
    NeverTwiceAtOnce
    NudgeNotLost
    AttemptKeepsItsRow
PROPERTIES
    DeliveredByAnAttempt
SYMMETRY Symmetry
