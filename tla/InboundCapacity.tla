--------------------------- MODULE InboundCapacity ---------------------------
(***************************************************************************)
(* The mailbox ledger inbound arrivals are admitted against                *)
(* (crates/core/src/swarm/callback/inbound/capacity.rs and                 *)
(* fair_admission/capacity.rs): what a request draws on, which of its      *)
(* resources may be relieved, and which budget refuses it.                 *)
(*                                                                         *)
(* The budgets' counters are computed from the requests that hold a        *)
(* charge: `charged` those of the mailbox, `opened` those whose message is *)
(* also still open.  All three budgets change under their locks together.  *)
(***************************************************************************)
EXTENDS ReservedCapacity, Sequences, FiniteSets

CONSTANTS
    Lanes,          \* lanes of the mailbox, numbers
    Introducers,    \* the connection slots that introduce messages, in order
    Requests,       \* id -> [peer, lane, stream, charge, bytes, introducer]
    Transfers,      \* arrivals the mailbox holds
    Bytes,          \* bytes the mailbox holds
    ReservedTransfers, ReservedBytes,   \* lane -> its fixed reservation
    PeerTransfers, PeerBytes,           \* the budget of one peer
    OpenFloor, OpenPoolBytes            \* the shares of the open-message table

Request == DOMAIN Requests

Open == INSTANCE SlotAccounting
        WITH Slots <- Range(Introducers),
             Floor <- OpenFloor, Pool <- OpenPoolBytes,
             LocalShare <- 0, InboxShare <- 0, CustodyShare <- 0

ASSUME CapacityAssumption ==
    /\ {Transfers, Bytes, PeerTransfers, PeerBytes, OpenFloor, OpenPoolBytes} \subseteq Nat
    /\ Lanes \subseteq Nat /\ IsFiniteSet(Lanes)
    /\ ReservedTransfers \in [Lanes -> Nat] /\ Total(ReservedTransfers) <= Transfers
    /\ ReservedBytes \in [Lanes -> Nat] /\ Total(ReservedBytes) <= Bytes
    /\ DOMAIN Introducers \subseteq Nat /\ IsFiniteSet(Range(Introducers))
    /\ Range(Introducers) \cap (Open!OwnShare \cup {"Unbound"}) = {}

ASSUME RequestsAssumption ==
    \A r \in Request :
        /\ Requests[r].lane \in Lanes /\ {Requests[r].peer, Requests[r].stream} \subseteq Nat
        /\ Requests[r].charge \in {"Bytes", "Message", "Covered"}
        /\ Requests[r].bytes \in Nat
        /\ Requests[r].introducer \in Open!Principal

\* The principals that may introduce a message, with their place in the order.
Principals == [p \in Open!Principal |->
                 IF p \in Range(Introducers)
                 THEN CHOOSE i \in DOMAIN Introducers : Introducers[i] = p ELSE 0]

\* Resources in the order of the enumeration InboundResource.
Stream(r)  == <<1, Requests[r].stream>>
Peer(r)    == <<2, Requests[r].peer>>
Lane(r)    == <<3, Requests[r].lane>>
Shared     == <<4, 0>>
OpenPool   == <<5, 0>>
Floor(r)   == <<6, Principals[Requests[r].introducer]>>

Precedes(a, b) == a[1] < b[1] \/ (a[1] = b[1] /\ a[2] < b[2])
Least(S) == CHOOSE a \in S : \A b \in S \ {a} : Precedes(a, b)

Charges(r) == Requests[r].charge # "Covered"
Opening(r) == Requests[r].charge = "Message"

-----------------------------------------------------------------------------
SumBytes(S) == MapThenSumSet(LAMBDA r : Requests[r].bytes, S)
OnLane(S, l) == {r \in S : Requests[r].lane = l}

CountOf(charged, l) == Cardinality(OnLane(charged, l))
BytesOf(charged, l) == SumBytes(OnLane(charged, l))
Counts(charged) == [l \in Lanes |-> CountOf(charged, l)]
Sizes(charged) == [l \in Lanes |-> BytesOf(charged, l)]

\* The lane's fixed reservation alone covers one more arrival of this size.
covers(charged, r) ==
    LET l == Requests[r].lane
    IN  /\ fixed_reservation_covers(l, Counts(charged), 1, ReservedTransfers)
        /\ fixed_reservation_covers(l, Sizes(charged), Requests[r].bytes,
                                    ReservedBytes)

FitsPeer(charged, r) ==
    LET own == {c \in charged : Requests[c].peer = Requests[r].peer}
    IN  /\ Cardinality(own) + 1 <= PeerTransfers
        /\ SumBytes(own) + Requests[r].bytes <= PeerBytes

FitsMailbox(charged, r) ==
    LET l == Requests[r].lane
    IN  /\ fair_reservation_fits(l, Counts(charged), 1,
                                 Transfers, ReservedTransfers)
        /\ fair_reservation_fits(l, Sizes(charged), Requests[r].bytes,
                                 Bytes, ReservedBytes)

\* The bytes of open messages by the principal that introduced them.
OpenUse(opened) ==
    [p \in Open!Principal |->
        SumBytes({o \in opened : Requests[o].introducer = p})]

FitsOpen(opened, r) ==
    Opening(r) => Open!AdmitsItems(OpenUse(opened), Requests[r].introducer, Requests[r].bytes)

InFloor(opened, r) == Open!WithinFloor(OpenUse(opened), Requests[r].introducer, Requests[r].bytes)

-----------------------------------------------------------------------------
(* The AdmissionLedger of the waiting arrivals.                            *)

footprint(charged, opened, r) ==
    IF ~Charges(r) THEN {}
    ELSE {Peer(r), Lane(r)}
         \cup (IF covers(charged, r) THEN {} ELSE {Shared})
         \cup (IF Opening(r) /\ ~InFloor(opened, r) THEN {OpenPool} ELSE {})
         \cup (IF Opening(r) THEN {Floor(r)} ELSE {})

\* Resources whose release may shed others from the footprint, with those.
reliefs(charged, opened, r) ==
    IF ~Charges(r) THEN {}
    ELSE (IF covers(charged, r) THEN {} ELSE {<<Lane(r), {Shared}>>})
         \cup (IF /\ Opening(r) /\ ~InFloor(opened, r)
                  /\ Open!FitsFloor(Requests[r].introducer, Requests[r].bytes)
               THEN {<<Floor(r), {OpenPool}>>} ELSE {})

\* The resources that refuse the request; none when it is admitted.
refusal_of(charged, opened, r) ==
    IF ~Charges(r) THEN {}
    ELSE IF ~FitsPeer(charged, r) THEN {Peer(r)}
    ELSE IF ~FitsMailbox(charged, r) THEN {Lane(r), Shared}
    ELSE IF ~FitsOpen(opened, r) THEN {OpenPool}
    ELSE {}
=============================================================================
