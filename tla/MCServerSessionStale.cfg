SPECIFICATION Spec
CONSTANTS
    Flow = {1}
    Protocols = {"tcp", "udp"}
    MaxOpens = 2
    MaxStreams = 1
    MaxUdpFlows = 1
    QueueCap = 1
    EventCap = 1
    Configured <- AllTimeouts
    Environment = {}
    Observed = {1}
    Misbehaving = TRUE
INVARIANT
    StaleTaskSilent
