SPECIFICATION Spec
CONSTANTS
    Flow = {1}
    Protocols = {"tcp"}
    MaxOpens = 1
    MaxStreams = 1
    MaxUdpFlows = 1
    QueueCap = 2
    EventCap = 1
    Configured <- AllTimeouts
    Environment <- AnyEnvironment
    Observed = {}
    Misbehaving = TRUE
INVARIANTS
    QueueOrder
    LockHolderWrites
    TeardownComplete
    DrainWaitsForFlows
