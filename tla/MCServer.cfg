SPECIFICATION ServerSpec
CHECK_DEADLOCK FALSE
CONSTANTS
    Addrs <- RateAddrs
    Allowlist = {}
    MaxFailures = 2
    Window = 2
    Ban = 2
    PRUNE_INTERVAL = 2
    PRUNE_THRESHOLD = 1
    MAX_ENTRIES = 2
    EVICTION_BATCH_SIZE = 1
    U32_MAX = 4
    MaxFlight = 1
    TcpConns = {"t1", "t2"}
    QuicConns = {"q1"}
    MaxSessions = 1
    MaxHandshakes = 1
    Masking = "on"
    HandshakeTimeout = TRUE
    ShutdownTimeout = TRUE
    Clients = {"c1", "c2", "c3"}
    Known = {"c1", "c2"}
    Links = {"l1", "l2", "l3"}
    MAX_COUNTER = 2
    REPLAY_WINDOW = 2
    Capacity = 1
    Callers = {"r1", "r2"}
    Main = "r1"
    Sessions = {"s1"}
    Keys = {k1}
    MaxReloads = 2
    Timeouts = FALSE
    NONE = NONE
    k1 = k1
PROPERTY BansSound
INVARIANT AdmissionExact
 
PROPERTY CommitGateExact
 
 
INVARIANT DialsSound
INVARIANT ReloadConsistent
PROPERTY RevocationHolds
 
