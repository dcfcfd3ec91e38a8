SPECIFICATION FairRerouting
CONSTANTS
    Peers = {"p"}
    Node = "node"
    Demands <- Jam
    Fits <- StateFits
    Covers <- StateCovers
    Large <- StateLarge
    MaxWaiters = 2
    MaxCost = 6
    Transfers = 3
    TransferReservations <- OneEach
    PeerBytes = 6
    PeerReservations <- OneEach
    NodeBytes = 4
    NodeReservations <- OneEach
    Placement = 1
    Budget = 3
INVARIANTS PlaceOK NoMissedEvent
PROPERTIES AcceptedOnceQuiet
CHECK_DEADLOCK FALSE
