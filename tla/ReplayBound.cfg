SPECIFICATION Spec
CONSTANTS
    Window = 2
    Lease = 2
    MaxSequence = 4
    Horizon = 1
    Sigma = 1
    None = None
    Damaged = Damaged
    Slots = {}
    Floor = 1
    Pool = 1
    LocalShare = 1
    InboxShare = 1
    CustodyShare = 0
    Senders = {}
    Receivers = {"r", "q"}
    Live <- RivalTxs
    Relayed = {}
    Capacity = 1
    CustodyCapacity = 1
    Counts = {1}
    MaxNow = 0
    MaxMembers = 2
    MaxLate = 1
    MaxCrashes = 1
    MaxDamaged = 0
INVARIANT StreamsWithinBound
CHECK_DEADLOCK FALSE
