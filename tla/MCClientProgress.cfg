SPECIFICATION ProgressSpec
CHECK_DEADLOCK FALSE
CONSTANTS
    Conns = {"c1"}
    Maintainer = "maintainer"
    Sessions = {1, 2}
    Nobody = NONE
    max_carrier_sessions = 1
    max_session_streams = 1
    max_socks_connections = 2
    RetryBase = 1
    SERVER_CONNECT_RETRY_MAX = 2
    MaxReloads = 1
    MaxDeaths = 0
    MaxFailures = 1
    NONE = NONE
    k1 = k1
INVARIANT OldConfigurationGone
 
PROPERTY SessionsEnd
 
