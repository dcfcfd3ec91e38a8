SPECIFICATION FairSpec
CONSTANTS
    Peers = {"p", "q"}
    Node = "node"
    Demands <- Load
    Fits <- StateFits
    Covers <- StateCovers
    Large <- StateLarge
    MaxWaiters = 2
    MaxCost = 6
    Transfers = 3
    TransferReservations <- OneEach
    PeerBytes = 4
    PeerReservations <- OneEach
    NodeBytes = 5
    NodeReservations <- OneEach
INVARIANTS TypeOK NoLostWake ReservationsKept
PROPERTIES ImplementsFairShare EveryWaitEnds
