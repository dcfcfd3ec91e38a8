SPECIFICATION LiveSpec
CONSTANTS
    Window = 2
    Lease = 2
    MaxSequence = 6
    Horizon = 1
    Sigma = 1
    None = None
    Damaged = Damaged
    Slots = {}
    Floor = 1
    Pool = 1
    LocalShare = 1
    InboxShare = 1
    CustodyShare = 0
    Senders = {"s"}
    Receivers = {}
    Live = {}
    Relayed = {}
    Capacity = 2
    CustodyCapacity = 1
    Counts = {1, 3}
    MaxNow = 0
    MaxMembers = 2
    MaxLate = 1
    MaxCrashes = 2
    MaxDamaged = 1
INVARIANTS NeverReused MemoryBelowDisk
PROPERTY EveryBatchTaken
CHECK_DEADLOCK FALSE
