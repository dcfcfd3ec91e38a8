---------------------------- MODULE RingGeometry ----------------------------
(***************************************************************************)
(* The identifier ring Z / 2^Bits and the pure Chord operators of          *)
(* crates/core/src/dht/topology.rs: clockwise distance, successor          *)
(* selection, finger-table maintenance and the routing step.               *)
(*                                                                         *)
(* A successor list is modelled by the SET of its members.  The code       *)
(* builds every list with sorted_successors, or by filtering such a list,  *)
(* so the list is the enumeration of that set by distance from the owner;  *)
(* module RingLists checks this correspondence on the list algorithms      *)
(* themselves.  A finger table is a function from slots to an identifier   *)
(* or None.                                                                *)
(***************************************************************************)
EXTENDS Integers, FiniteSets

CONSTANTS
    Bits,       \* width of the ring (160 in the code)
    Slots,      \* number of finger slots (configurable, 160 by default)
    Capacity,   \* successor-list capacity (3 by default)
    None        \* the absent identifier, Rust's Option::None

RingSize == 2^Bits
Did == 0 .. RingSize - 1
Slot == 0 .. Slots - 1

ASSUME GeometryAssumption ==
    /\ Bits \in Nat /\ Slots \in Nat /\ Capacity \in Nat
    /\ Slots <= Bits
    /\ None \notin Int

\* Arithmetic of the powers of two that occur as slot offsets: positive,
\* and ascending in the exponent.  The provers know nothing of 2^i.
ASSUME PowersAssumption ==
    \A i, j \in 0 .. Bits :
        /\ 2^i \in Nat \ {0}
        /\ i <= j => 2^i <= 2^j

-----------------------------------------------------------------------------
\* Clockwise distance: the difference b - a in the ring.
dist(a, b) == IF a <= b THEN b - a ELSE b - a + RingSize

\* The position a slot's finger aims at.
SlotTarget(local, i) == IF local + 2^i < RingSize
                        THEN local + 2^i
                        ELSE local + 2^i - RingSize

\* The member of a set of peers that is nearest clockwise, or None.
Nearest(local, peers) ==
    IF peers = {} THEN None
    ELSE CHOOSE p \in peers : \A q \in peers : dist(local, p) <= dist(local, q)

\* The member of a set of peers that is farthest clockwise, or None.
Farthest(local, peers) ==
    IF peers = {} THEN None
    ELSE CHOOSE p \in peers : \A q \in peers : dist(local, q) <= dist(local, p)

\* The Capacity nearest candidates other than the node itself.
sorted_successors(local, candidates) ==
    LET remote == candidates \ {local}
        nearer(p) == {q \in remote : dist(local, q) < dist(local, p)}
    IN  {p \in remote : Cardinality(nearer(p)) < Capacity}

successor_head(local, succ) == Nearest(local, succ \ {local})

\* The specification operators of a converged ring with members `all`.
successors(all, n) == sorted_successors(n, all)
predecessor(all, n) == Farthest(n, all \ {n})
finger(all, n, i) == Nearest(n, {p \in all \ {n} : dist(n, p) >= 2^i})

-----------------------------------------------------------------------------
\* Mutant of finger_join: the nearest candidate overwrites nearer hints.
finger_join_overwrites(local, fingers, peers) ==
    [i \in Slot |->
        LET near == Nearest(local, {p \in peers \ {local} : dist(local, p) >= 2^i})
        IN  IF near = None THEN fingers[i] ELSE near]

\* Offer a set of peers to every slot: a slot takes the nearest peer at or
\* beyond its offset unless it already holds a strictly nearer hint.  With a
\* singleton this is finger_join; with a successor list it is the fold of
\* finger_join over that list.
finger_join(local, fingers, peers) ==
    [i \in Slot |->
        LET near == Nearest(local, {p \in peers \ {local} : dist(local, p) >= 2^i})
        IN  IF near = None
               \/ /\ fingers[i] # None
                  /\ dist(local, fingers[i]) < dist(local, near)
            THEN fingers[i]
            ELSE near]

\* Mutant of remove_finger_peer: a slot inherits the next slot's hint, which
\* within a run is the removed peer itself.
remove_finger_peer_stepwise(fingers, peer) ==
    [i \in Slot |-> IF fingers[i] # peer THEN fingers[i]
                    ELSE IF i + 1 = Slots THEN None ELSE fingers[i + 1]]

\* Vacate a peer: each run of slots holding it inherits the hint of the slot
\* that follows the run, or None at the end of the table.
remove_finger_peer(fingers, peer) ==
    [i \in Slot |->
        LET follows == {j \in i .. Slots - 1 :
                            /\ fingers[j] # peer
                            /\ \A k \in i .. j - 1 : fingers[k] = peer}
        IN  IF fingers[i] # peer THEN fingers[i]
            ELSE IF follows = {} THEN None
            ELSE fingers[CHOOSE j \in follows : TRUE]]

\* Last slot a successor answer for slot `start` proves: the highest offset
\* not beyond the successor, the whole table for a self answer, None when
\* the answer does not reach the slot at all.
finger_proof_end(local, s, start) ==
    LET ends == {e \in start .. Slots - 1 :
                    IF s = local
                    THEN e = Slots - 1
                    ELSE /\ 2^e <= dist(local, s)
                         /\ e = Slots - 1 \/ dist(local, s) < 2^(e + 1)}
    IN  IF ends = {} THEN None ELSE CHOOSE e \in ends : TRUE

-----------------------------------------------------------------------------
\* Mutant of precedes: a peer at the target counts as preceding it.
precedes_or_equals(local, peer, target) == peer # local /\ dist(local, peer) <= target

precedes(local, peer, target) == peer # local /\ dist(local, peer) < target

\* The hint of the highest slot that lies strictly before the target.
closest_preceding_finger(local, fingers, target) ==
    LET preceding == {i \in Slot : /\ fingers[i] # None
                                   /\ precedes(local, fingers[i], target)}
    IN  IF preceding = {} THEN None
        ELSE fingers[CHOOSE i \in preceding : \A j \in preceding : j <= i]

\* Answer a lookup locally, or name the next hop.
find_successor(local, succ, fingers, did) ==
    LET head   == successor_head(local, succ)
        target == dist(local, did)
        hop    == closest_preceding_finger(local, fingers, target)
    IN  IF head = None THEN [local |-> TRUE, peer |-> local]
        ELSE IF target <= dist(local, head) THEN [local |-> TRUE, peer |-> head]
        ELSE [local |-> FALSE, peer |-> IF hop = None THEN head ELSE hop]

\* Whether the node owns position id: the interval (pred, local].
is_responsible_for(local, succ, pred, id) ==
    IF pred = None
    THEN successor_head(local, succ) = None
    ELSE id # pred /\ dist(pred, id) <= dist(pred, local)

\* Predecessor refinement on notify: the candidate replaces a predecessor
\* that is farther behind.
rectify_predecessor(local, current, candidate) ==
    IF candidate = local
       \/ /\ current # None
          /\ dist(local, current) >= dist(local, candidate)
    THEN current
    ELSE candidate

\* Successors after a stabilization report.
stabilize_successors(local, current, reported, reportedPred) ==
    successors(current \cup reported \cup ({reportedPred} \ {None}), local)

=============================================================================
