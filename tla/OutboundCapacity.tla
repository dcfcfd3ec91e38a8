--------------------------- MODULE OutboundCapacity ---------------------------
(***************************************************************************)
(* The reservations of the two scopes of TransferCapacity                  *)
(* (crates/core/src/swarm/transport/outbound/capacity.rs): a peer counts   *)
(* transfers and bytes, the node bytes alone.                              *)
(***************************************************************************)
EXTENDS TransferCapacity, ReservedCapacity

CONSTANTS
    Transfers, TransferReservations,    \* of a peer, and class -> reserved
    PeerBytes, PeerReservations,
    NodeBytes, NodeReservations

\* Every class has its reservation in each, and the reservations fit together.
ASSUME BudgetAssumption ==
    /\ IsFiniteSet(Demand) /\ IsFiniteSet(DOMAIN NodeReservations)
    /\ {Transfers, PeerBytes, NodeBytes, MaxWaiters, MaxCost} \subseteq Nat
    /\ \A f \in {TransferReservations, PeerReservations, NodeReservations} :
        f \in [DOMAIN NodeReservations -> Nat]
    /\ Total(TransferReservations) <= Transfers
    /\ Total(PeerReservations) <= PeerBytes /\ Total(NodeReservations) <= NodeBytes
    /\ \A r \in Demand : /\ Demands[r].bytes \in Nat \ {0}
                         /\ Demands[r].class \in DOMAIN NodeReservations

OfClass(H, c) == {r \in H : Demands[r].class = c}
CountOf(H, c) == Cardinality(OfClass(H, c))
BytesOf(H, c) == Bytes(OfClass(H, c))

Reservations(s) == IF s = Node THEN NodeReservations ELSE PeerReservations
Counts(H) == [c \in DOMAIN TransferReservations |-> CountOf(H, c)]
Sizes(H, s) == [c \in DOMAIN Reservations(s) |-> BytesOf(H, c)]
Capacity(s) == IF s = Node THEN NodeBytes ELSE PeerBytes

\* PeerCapacityState::try_reserve and GlobalCapacityState::try_reserve.
StateFits(s, H, r) ==
    LET c == Demands[r].class IN
    /\ s = Node \/ fair_reservation_fits(c, Counts(H), 1,
                                         Transfers, TransferReservations)
    /\ fair_reservation_fits(c, Sizes(H, s), Demands[r].bytes,
                             Capacity(s), Reservations(s))

\* reservation_covers of the same.
StateCovers(s, H, r) ==
    LET c == Demands[r].class IN
    /\ s = Node \/ fixed_reservation_covers(c, Counts(H), 1, TransferReservations)
    /\ fixed_reservation_covers(c, Sizes(H, s), Demands[r].bytes, Reservations(s))

\* Larger than the class's fixed request: such a demand may wait.
StateLarge(s, r) == Demands[r].bytes > Reservations(s)[Demands[r].class]

\* These are the rules TransferCapacity runs by.
ASSUME RulesAssumption ==
    \A s \in Scope, H \in SUBSET Demand, r \in Demand :
        /\ Fits(s, H, r) = StateFits(s, H, r)
        /\ Covers(s, H, r) = StateCovers(s, H, r)

\* However transfers of both scopes interleave, every class can still be given
\* the rest of its reservation at every peer, in transfers and in bytes, and
\* at the node.
ReservationsKept ==
    /\ \A p \in Peers : ReservationsFree(Counts(held[p]), Transfers, TransferReservations)
    /\ \A s \in Scope : ReservationsFree(Sizes(held[s], s), Capacity(s), Reservations(s))
=============================================================================
