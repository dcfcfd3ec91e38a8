SPECIFICATION FingerSpec
CONSTANTS
    Bits = 3
    Slots = 3
    Capacity = 2
    None = None
    LookupTimeout = 1
    AdmissionTimeout = 1
    MinInterval = 0
    MaxBackoff = 0
    MaxExponent = 1
    MaxStreak = 1
    MaxEpoch = 3
    Local = 0
    Id = {a}
    Peers = {1, 3, 5}
INVARIANTS TypeOK AttemptIsCurrent FingersReachSlot JoinIsASet RemovalByRuns
PROPERTIES NoOvertakenProof EvictionIsIdentity
CHECK_DEADLOCK FALSE
