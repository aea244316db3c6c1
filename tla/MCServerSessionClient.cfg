SPECIFICATION Spec
CONSTANTS
    Flow = {1}
    Protocols = {"tcp"}
    MaxOpens = 1
    MaxStreams = 1
    MaxUdpFlows = 1
    QueueCap = 1
    EventCap = 2
    Configured <- AllTimeouts
    Environment = {"stalled", "broken", "stop"}
    Observed = {1}
    Misbehaving = FALSE
INVARIANT
    WireOrder
