SPECIFICATION Spec
CONSTANTS
    Demos = {d1}
    Wrappers = {w1}
    PoolSize = 4
    Publishes = 2
    PublishRetries = 1
    UnsubscribeRetries = 5
    AgentTask = AgentTask
    MaxDrops = 2
    MaxSessionLosses = 2
    MaxRefusals = 0
INVARIANT ManagedResubscribed
CHECK_DEADLOCK FALSE
