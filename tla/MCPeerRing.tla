----------------------------- MODULE MCPeerRing -----------------------------
(* Small instances of PeerRing for TLC. *)
EXTENDS RingLists

IdSymmetry == Permutations(Id)

\* A transition in which the transports of these peers do not flap once they
\* are admitted.
Steady(peers) == \A p \in peers : lifecycle'[p] = "active" => p \in ready'

\* Membership and report rounds without finger lookups; the farthest peer is
\* steady.
RoundsNext ==
    \/ Connections /\ Steady({p \in Peers : \A q \in Peers : q <= p})
    \/ Stabilization \/ Synchronization \/ Network
RoundsSpec == Init /\ [][RoundsNext]_vars

\* Membership and finger convergence without stabilization rounds; all peers
\* are steady, which leaves room for the dates of evidence it takes to
\* overtake a lookup.
FingerNext == (Connections /\ Steady(Peers)) \/ Fingers \/ Network
FingerSpec == Init /\ [][FingerNext]_vars

-----------------------------------------------------------------------------
\* The ring after admitting the peers of a sequence one after another.
Joined(order) ==
    FoldLeft(LAMBDA ring, p :
                 LET fing == finger_join(Local, ring.fingers, {p})
                 IN  [succ    |-> sorted_successors(Local, ring.succ \cup {p}),
                      fingers |-> fing,
                      conv    |-> rehint(ring.conv, ring.fingers, fing)],
             [succ |-> {}, fingers |-> [i \in Slot |-> None], conv |-> NewConvergence],
             order)

\* A node that has admitted its peers but the guests, in some order.
JoinedInit(guests) ==
    /\ \E order \in SetToSeqs(Peers \ guests) :
        /\ successors_ = Joined(order).succ
        /\ fingers = Joined(order).fingers
        /\ convergence = Joined(order).conv
    /\ predecessor_ = None
    /\ pending = None
    /\ sync = [p \in Peers |-> None]
    /\ lifecycle = [p \in Peers |-> IF p \in guests THEN "absent" ELSE "active"]
    /\ ready = Peers \ guests
    /\ queued = [p \in Peers |-> None]
    /\ sent = {} /\ claimed = {}
    /\ overtaken = {}

\* All peers have been admitted and stay.
SettledSpec == JoinedInit({}) /\ [][Fingers \/ Network]_vars /\ Maintenance

\* The middle peer is outside and tries to come in, over and over; it may
\* never make it.  The others stay.
Guest == 3
Handshake ==
    /\ lifecycle[Guest] # "active"
    /\ \/ Reserve(Guest) \/ TransportChange(Guest) \/ AdmitPending(Guest)
       \/ \E next \in {"absent", "pending"} : ReleasePending(Guest, next)
GuestSpec == JoinedInit({Guest}) /\ [][Fingers \/ Network \/ Handshake]_vars /\ Maintenance
=============================================================================
