CONSTANTS
    Clients = {c1}
    Known = {c1}
    Links = {k1, k2, k3}
    MAX_COUNTER = 2
    REPLAY_WINDOW = 4
    Capacity = 1
SPECIFICATION GateSpec
CHECK_DEADLOCK FALSE
INVARIANT NoDuplicateCommitted
