SPECIFICATION Spec
CONSTANTS
    Demos = {d1}
    Wrappers = {w1}
    PoolSize = 3
    Publishes = 2
    PublishRetries = 1
    UnsubscribeRetries = 5
    AgentTask = AgentTask
    MaxDrops = 2
    MaxSessionLosses = 2
    MaxRefusals = 1
INVARIANTS TypeOK OneAnswer PoolSuffices TopicsAlive
PROPERTY CallsAnswered
CHECK_DEADLOCK FALSE
