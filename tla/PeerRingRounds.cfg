SPECIFICATION RoundsSpec
CONSTANTS
    Bits = 3
    Slots = 3
    Capacity = 2
    None = None
    LookupTimeout = 1
    AdmissionTimeout = 1
    MinInterval = 1
    MaxBackoff = 2
    MaxExponent = 1
    MaxStreak = 1
    MaxEpoch = 0
    Local = 0
    Id = {a, b}
    Peers = {1, 3, 4}
SYMMETRY IdSymmetry
INVARIANTS ReferencesAdmitted PendingTracksHead SyncTracksSuccessors RoutesClockwise
PROPERTIES ReportClaimedOnce
CHECK_DEADLOCK FALSE
