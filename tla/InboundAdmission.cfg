SPECIFICATION FairSpec
CONSTANTS
    Lanes = {1, 2}
    Introducers <- OneSlot
    Requests <- Mixed
    Transfers = 6
    Bytes = 3
    ReservedTransfers <- TwoPerLane
    ReservedBytes <- OnePerLane
    PeerTransfers = 1
    PeerBytes = 2
    OpenFloor = 1
    OpenPoolBytes = 0
    MaxCancels = 1
INVARIANTS TypeOK StrandedBehindRefused RefusalsAgree ReservationsKept
PROPERTIES StreamOrder OneBudgetServed ServedOnceArrivalsStop
