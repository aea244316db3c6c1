SPECIFICATION ClientSpec
CHECK_DEADLOCK FALSE
CONSTANTS
    Conns = {"c1", "c2"}
    Maintainer = "maintainer"
    Sessions = {1, 2}
    Nobody = NONE
    max_carrier_sessions = 1
    max_session_streams = 1
    max_socks_connections = 2
    RetryBase = 0
    SERVER_CONNECT_RETRY_MAX = 2
    MaxReloads = 0
    MaxDeaths = 1
    MaxFailures = 1
    Flows = {"t1", "u1", "u2"}
    UdpFlows = {"u1", "u2"}
    max_streams = 2
    max_udp_flows = 1
    MaxOpens = 2
    MaxPings = 3
    MaxUp = 2
    MaxDown = 2
    max_pending_open = 1
    PullLimit = 2
    Peers = {"client", "other", "stranger"}
    matches_requested <- FitsRequest
    Unknown = NONE
    UDP_TARGET_QUEUE_CAPACITY = 2
    UDP_SEND_ATTEMPTS = 2
    MaxFlows = 2
    NONE = NONE
    k1 = k1
INVARIANT PoolSound
 
PROPERTY SettledStaysSettled
INVARIANT PongMatched
INVARIANT BytesIntact
INVARIANT NothingLeftBehind
 
INVARIANT VerdictsTrue
 
INVARIANT FramesExact
