SPECIFICATION FairSpec
CONSTANTS
    Flow = {1}
    Protocols = {"tcp"}
    MaxOpens = 1
    MaxStreams = 1
    MaxUdpFlows = 1
    QueueCap = 1
    EventCap = 1
    Configured <- AllTimeouts
    Environment = {"stalled"}
    Observed = {1}
    Misbehaving = FALSE
PROPERTIES
    OpenResolves
    HalfCloseEnds
