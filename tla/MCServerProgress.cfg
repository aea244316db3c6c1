SPECIFICATION ProgressSpec
CONSTANTS
    c1 = c1
    c2 = c2
    c3 = c3
    c4 = c4
    f1 = f1
    f2 = f2
    f3 = f3
    s1 = s1
    s2 = s2
    Chunk <- MCChunk
    Flow <- MCFlow
    Session <- MCSession
    FlowOf <- MCFlowOf
    SessionOf <- MCSessionOf
    Bytes <- MCBytes
    Byte = {1, 2, 3, 4, 5, 6, 7}
    FlowLimit = 2
    SessionLimit = 3
    GlobalLimit = 4
    NONE = NONE
    k1 = k1
INVARIANT Exact
PROPERTY ImplementsAtomic
 
PROPERTY WaitsEnd
