SPECIFICATION Spec
CONSTANTS
    Window = 2
    Lease = 2
    MaxSequence = 4
    Horizon = 0
    Sigma = 1
    None = None
    Damaged = Damaged
    Slots = {"k"}
    Floor = 1
    Pool = 0
    LocalShare = 0
    InboxShare = 1
    CustodyShare = 0
    Senders = {}
    Receivers = {"r"}
    Live <- WindowTxs
    Relayed = {}
    Capacity = 2
    CustodyCapacity = 1
    Counts = {1}
    MaxNow = 2
    MaxMembers = 2
    MaxLate = 1
    MaxCrashes = 1
    MaxDamaged = 0
INVARIANTS TypeOK DeliveredOnce MemoryBelowDisk FailsClosed
CHECK_DEADLOCK FALSE
