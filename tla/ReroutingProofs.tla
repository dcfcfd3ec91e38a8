--------------------------- MODULE ReroutingProofs ---------------------------
(***************************************************************************)
(* Proofs about Rerouting: the placement never disturbs the transfers it   *)
(* waits for, keeps within its budget, and misses no event it waits for,   *)
(* for every set of peers and demands, every reservation law that only     *)
(* gets tighter as others hold more, and every budget.                     *)
(***************************************************************************)
EXTENDS Rerouting, TransferCapacityProofs, FiniteSetTheorems

\* One step of transfer r.
TransferStep(r) == Acquire(r) \/ Proceed(r) \/ Poll(r) \/ Cancel(r) \/ End(r)

-----------------------------------------------------------------------------
(* The transfers beside the placement are those of TransferCapacity.       *)

\* A step of the system is a step of one transfer, or leaves them all alone.
LEMMA TransfersStep == ASSUME ReroutingNext PROVE [Next]_vars
  <1>1. Placement \in Demand
    BY PlacementAssumption
  <1> QED BY <1>1 DEF ReroutingNext, Other, Placing, Attempt, Send, Accept, Jammed, after, Listen,
        Observe, ObserveNode, Wake, Stop, EnvStops, Next

\* The placement and its waits leave the scopes' first-come-first-served law,
\* their wake-ups and their shares as they are without it.
THEOREM ReroutingTransfers == ReroutingSpec => Spec
  <1>1. ReroutingInit => Init
    BY DEF ReroutingInit
  <1>2. [ReroutingNext]_all => [Next]_vars
    BY TransfersStep DEF all, vars
  <1> QED BY <1>1, <1>2, PTL DEF ReroutingSpec, Spec

-----------------------------------------------------------------------------
(* What a step of a transfer does to the others and to the room it leaves. *)

\* A transfer that freed a share of scope s is about to wake its front.
Freeing(s) == \E r \in Demand : phase[r] = "freed" /\ at[r] = s

\* One transfer moves; shares grow, unless it returns its own; whoever freed
\* a share goes on.
LEMMA StepEffect ==
  ASSUME TypeOK, NEW r \in Demand, TransferStep(r)
  PROVE  /\ OnlyMoves(r) /\ (phase[r] = "freed" => phase'[r] # "freed")
         /\ \A s \in Scope : held[s] \subseteq held'[s]
                             \/ (phase[r] = "release" /\ phase'[r] = "freed"
                                 /\ at[r] = s /\ at'[r] = s)
  <1>1. Typed /\ Shares /\ at[r] \in Scope
    BY TypeParts DEF Typed
  <1>2. CASE Acquire(r) \/ End(r)
    BY <1>1, <1>2 DEF Acquire, End, Typed, OnlyMoves
  <1>3. CASE TryReserved(r)
    <2>1. CASE Admitted(r)
      BY <1>1, <1>3, <2>1, AdmittedKeeps, AdmittedGrows DEF TryReserved
    <2>2. CASE phase' = [phase EXCEPT ![r] = "share"] /\ UNCHANGED <<at, held>>
      BY <1>1, <1>3, <2>2 DEF TryReserved, Typed, OnlyMoves
    <2> QED BY <1>3, <2>1, <2>2 DEF TryReserved
  <1>4. CASE try_admit_unqueued(r) \/ admit_or_wait(r)
    <2>1. phase[r] = "share"
      BY <1>4 DEF try_admit_unqueued, admit_or_wait
    <2>2. CASE Admitted(r)
      BY <1>1, <2>1, <2>2, AdmittedKeeps, AdmittedGrows
    <2>3. CASE Refused(r) /\ held' = held
      BY <1>1, <2>1, <2>3, RefusedKeeps
    <2>4. CASE phase' = [phase EXCEPT ![r] = "wait"] /\ UNCHANGED <<at, held>>
      BY <1>1, <2>1, <2>4 DEF Typed, OnlyMoves
    <2> QED BY <1>4, <2>2, <2>3, <2>4 DEF try_admit_unqueued, admit_or_wait
  <1>5. CASE Release(r)
    <2>1. \A s \in Scope \ {at[r]} : held'[s] = held[s]
      BY <1>1, <1>5 DEF Release, Typed
    <2>2. OnlyMoves(r) /\ phase[r] = "release" /\ phase'[r] = "freed" /\ at'[r] = at[r]
      BY <1>1, <1>5 DEF Release, Typed, OnlyMoves
    <2> QED BY <2>1, <2>2
  <1>6. CASE WakeFront(r)
    BY <1>1, <1>6 DEF WakeFront, Typed, OnlyMoves
  <1>7. CASE Poll(r)
    <2>1. phase[r] = "wait"
      BY <1>7 DEF Poll
    <2>2. CASE Admitted(r)
      BY <1>1, <2>1, <2>2, AdmittedKeeps, AdmittedGrows
    <2>3. CASE UNCHANGED <<phase, at, held>>
      BY <2>1, <2>3 DEF OnlyMoves
    <2> QED BY <1>7, <2>2, <2>3 DEF Poll
  <1>8. CASE Cancel(r)
    BY <1>1, <1>8, RefusedKeeps DEF Cancel
  <1> QED BY <1>2, <1>3, <1>4, <1>5, <1>6, <1>7, <1>8 DEF TransferStep, Proceed

\* A scope that had no room for the placement has none after a step, unless
\* a waiter left its queue or a transfer returned a share of it.
LEMMA RoomKept ==
  ASSUME TypeOK, TypeOK', NEW r \in Demand, TransferStep(r), NEW s \in Scope, ~has_room(s),
         has_room(s)'
  PROVE  Departed(s) \/ Freeing(s)'
  <1>1. /\ held[s] \in SUBSET Demand /\ held'[s] \in SUBSET Demand /\ Placement \in Demand
        /\ queue[s] \in Seq(Demand) /\ queue'[s] \in Seq(Demand)
    BY PlacementAssumption DEF TypeOK
  <1>2. CASE ~(held[s] \subseteq held'[s])
    BY <1>2, StepEffect DEF Freeing
  <1>3. CASE held[s] \subseteq held'[s]
    <2>1. Fits(s, held'[s], Placement) /\ (Covers(s, held'[s], Placement) \/ queue'[s] = <<>>)
      BY DEF has_room
    <2>2. Fits(s, held[s], Placement)
      BY <1>1, <1>3, <2>1, FitsFewer
    <2>3. ~Covers(s, held[s], Placement) /\ queue[s] # <<>>
      BY <2>2 DEF has_room
    <2>4. ~Covers(s, held'[s], Placement)
      BY <1>1, <1>3, <2>3, CoverAssumption
    <2>5. queue'[s] = <<>>
      BY <2>1, <2>4
    <2>6. Len(queue'[s]) < Len(queue[s])
      BY <1>1, <2>3, <2>5
    <2> QED BY <2>6 DEF Departed
  <1> QED BY <1>2, <1>3

\* The thread that freed a share of scope s still is about to wake its front,
\* or just did.
LEMMA FreeingKept ==
  ASSUME TypeOK, NEW r \in Demand, TransferStep(r), NEW s, Freeing(s)
  PROVE  Freeing(s)' \/ Released(s)
  <1>1. PICK d \in Demand : phase[d] = "freed" /\ at[d] = s
    BY DEF Freeing
  <1>2. OnlyMoves(r) /\ (phase[r] = "freed" => phase'[r] # "freed")
    BY StepEffect
  <1>3. CASE d = r
    BY <1>1, <1>2, <1>3 DEF Released
  <1>4. CASE d # r
    BY <1>1, <1>2, <1>4 DEF Freeing, OnlyMoves
  <1> QED BY <1>3, <1>4

-----------------------------------------------------------------------------
(* The placement.                                                          *)

\* The trigger the placement sleeps for does not hold, or its event comes.
Ahead ==
    IF cause = "channel" THEN Freeing(Hop) \/ ~Drained
    ELSE Freeing(Hop) \/ Freeing(Node) \/ ~has_room(Hop) \/ ~has_room(Node)

\* The inductive invariant: between its two reads too, the placement that was
\* not notified saw what still holds.
Attentive ==
    /\ seen \in BOOLEAN /\ notified \in BOOLEAN
    /\ place = "asleep" /\ ~notified => Ahead
    /\ place = "node" => cause # "channel"
    /\ place = "node" /\ ~notified /\ ~seen => Freeing(Hop) \/ ~has_room(Hop)

PlacementInv == TypeOK /\ PlaceOK /\ Attentive

LEMMA HopFacts == Placement \in Demand /\ Hop \in Scope /\ Node \in Scope /\ Hop # Node
  BY PlacementAssumption, ScopeFacts DEF Hop

\* A finite population holds a counted number of shares.
LEMMA HoldersCounted ==
  ASSUME TypeOK
  PROVE  Cardinality(held[Hop]) \in Nat /\ Cardinality(held[Hop]) <= Cardinality(Demand)
  <1>1. held[Hop] \subseteq Demand /\ IsFiniteSet(Demand)
    BY HopFacts, PlacementAssumption DEF TypeOK
  <1> QED BY <1>1, FS_Subset, FS_CardinalityType

\* What a step of another transfer, or of the placement's own send, tells a
\* listener.
LEMMA HeardKeeps ==
  ASSUME TypeOK, TypeOK', Attentive, NEW r \in Demand, TransferStep(r), Heard(r),
         UNCHANGED <<place, ahead, seen>>, place \in {"node", "asleep"} => cause' = cause,
         drained \in Nat, ahead \in Nat
  PROVE  Attentive'
  <1>1. Hop \in Scope /\ Node \in Scope
    BY HopFacts
  <1>2. notified' \in BOOLEAN /\ seen' \in BOOLEAN
    BY DEF Heard, Attentive, Listening, Event, Departed, Released, Progressed
  <1>3. ASSUME ~notified' PROVE ~notified /\ (Listening => ~Event)
    BY <1>3 DEF Heard, Attentive
  <1>4. ASSUME place' = "asleep", ~notified' PROVE Ahead'
    <2>1. Ahead /\ ~Event /\ cause' = cause
      BY <1>3, <1>4 DEF Attentive, Listening
    <2>2. CASE cause = "channel"
      <3>1. ~Released(Hop)
        BY <2>1, <2>2 DEF Event
      <3>2. Freeing(Hop) => Freeing(Hop)'
        BY <3>1, FreeingKept
      <3>3. ASSUME ~Drained PROVE ~Drained' \/ Freeing(Hop)'
        <4>1. ~(drained >= ahead) /\ held[Hop] # {}
          BY <3>3 DEF Drained
        <4>2. CASE ~(held[Hop] \subseteq held'[Hop])
          BY <1>1, <4>2, StepEffect DEF Freeing
        <4>3. CASE phase[r] = "release" /\ at[r] = Hop
          <5>1. phase'[r] = "freed" /\ at'[r] = Hop
            BY <4>3 DEF TransferStep, Acquire, Proceed, TryReserved, try_admit_unqueued,
               admit_or_wait, WakeFront, Poll, Cancel, End, Release, TypeOK
          <5> QED BY <5>1 DEF Freeing
        <4>4. CASE held[Hop] \subseteq held'[Hop] /\ ~(phase[r] = "release" /\ at[r] = Hop)
          <5>1. drained' = drained /\ ahead' = ahead /\ held'[Hop] # {}
            BY <4>1, <4>4 DEF Heard
          <5> QED BY <4>1, <5>1 DEF Drained, Hop
        <4> QED BY <4>2, <4>3, <4>4
      <3> QED BY <2>1, <2>2, <3>2, <3>3 DEF Ahead
    <2>3. CASE cause # "channel"
      <3>1. ~Released(Hop) /\ ~Released(Node) /\ ~Departed(Hop) /\ ~Departed(Node)
        BY <2>1, <2>3 DEF Event
      <3>2. (Freeing(Hop) => Freeing(Hop)') /\ (Freeing(Node) => Freeing(Node)')
        BY <3>1, FreeingKept
      <3>3. /\ ~has_room(Hop) => ~has_room(Hop)' \/ Freeing(Hop)'
            /\ ~has_room(Node) => ~has_room(Node)' \/ Freeing(Node)'
        BY <1>1, <3>1, RoomKept
      <3> QED BY <2>1, <2>3, <3>2, <3>3 DEF Ahead
    <2> QED BY <2>2, <2>3
  <1>5. ASSUME place' = "node", ~notified', ~seen' PROVE Freeing(Hop)' \/ ~has_room(Hop)'
    <2>1. /\ Freeing(Hop) \/ ~has_room(Hop)
          /\ ~Event /\ cause # "channel"
      BY <1>3, <1>5 DEF Attentive, Listening
    <2>2. ~Released(Hop) /\ ~Departed(Hop)
      BY <2>1 DEF Event
    <2> QED BY <1>1, <2>1, <2>2, FreeingKept, RoomKept
  <1>6. place' = "node" => cause' # "channel"
    BY DEF Attentive
  <1> QED BY <1>2, <1>4, <1>5, <1>6 DEF Attentive

\* Every step keeps the placement's invariant.
LEMMA PlacementStep == ASSUME PlacementInv, [ReroutingNext]_all PROVE PlacementInv'
  <1>1. /\ TypeOK /\ PlaceOK /\ Attentive /\ Placement \in Demand /\ Budget \in Nat
        /\ phase \in [Demand -> Phase]
    BY HopFacts, PlacementAssumption DEF PlacementInv, TypeOK
  <1>2. TypeOK'
    BY <1>1, TransfersStep, StepType DEF all, vars
  <1>3. drained \in Nat /\ ahead \in Nat /\ drained <= ahead /\ deferrals \in Nat
    <2>1. Cardinality(Demand) \in Nat
      BY PlacementAssumption, FS_CardinalityType
    <2> QED BY <1>1, <2>1 DEF PlaceOK
  <1>4. CASE UNCHANGED all
    BY <1>1, <1>2, <1>4 DEF all, vars, own, PlacementInv, PlaceOK, Attentive, Ahead, Freeing,
       Drained, has_room
  <1>5. ASSUME NEW r \in Demand, Other(r) PROVE PlacementInv'
    <2>1. TransferStep(r) /\ Heard(r) /\ UNCHANGED own /\ r # Placement
      BY <1>5 DEF Other, TransferStep
    <2>2. Attentive'
      BY <1>1, <1>2, <1>3, <2>1, HeardKeeps DEF own
    <2>3. phase'[Placement] = phase[Placement]
      BY <1>1, <2>1, StepEffect DEF OnlyMoves
    <2>4. reached' \subseteq Demand
      BY <1>1, <1>5 DEF Other, Forget, PlaceOK
    <2>5. drained' \in 0..ahead'
      BY <1>3, <2>1 DEF Heard, own
    <2> QED BY <1>1, <1>2, <2>1, <2>2, <2>3, <2>4, <2>5 DEF PlacementInv, PlaceOK, own
  <1>6. CASE Attempt
    <2>1. place' = "sending" /\ ahead' = 0 /\ drained' = 0 /\ seen' = FALSE /\ notified' = FALSE
          /\ UNCHANGED <<deferrals, reached>>
      BY <1>6 DEF Attempt
    <2>2. Cardinality(Demand) \in Nat
      BY PlacementAssumption, FS_CardinalityType
    <2>3. Attentive'
      BY <2>1 DEF Attentive
    <2>4. PlaceOK'
      BY <1>1, <2>1, <2>2 DEF PlaceOK, Place
    <2> QED BY <1>2, <2>3, <2>4 DEF PlacementInv
  <1>7. CASE Send
    <2>1. /\ TransferStep(Placement) /\ Heard(Placement) /\ phase[Placement] # "idle"
          /\ UNCHANGED <<env, place, deferrals, ahead, seen>> /\ Forget(Placement)
      BY <1>7 DEF Send, TransferStep, Proceed, TryReserved, try_admit_unqueued, admit_or_wait,
         Release, WakeFront, Poll, Cancel
    <2>2. place \in {"sending", "accepted"}
      BY <1>1, <2>1 DEF PlaceOK
    <2>3. Attentive'
      BY <1>1, <1>2, <1>3, <2>1, <2>2, HeardKeeps
    <2>4. reached' \subseteq Demand
      BY <1>1, <2>1 DEF Forget, PlaceOK
    <2>5. drained' \in 0..ahead'
      BY <1>3, <2>1 DEF Heard
    <2> QED BY <1>1, <1>2, <2>1, <2>2, <2>3, <2>4, <2>5 DEF PlacementInv, PlaceOK
  <1>8. CASE Accept \/ Jammed
    <2>1. /\ phase[Placement] = "held" /\ place' \in {place, "accepted"}
          /\ reached' \subseteq reached \cup {Placement}
          /\ UNCHANGED <<deferrals, drained, ahead, seen, notified>>
      BY <1>8 DEF Accept, Jammed, End
    <2>2. place \in {"sending", "accepted"}
      BY <1>1, <2>1 DEF PlaceOK
    <2> QED BY <1>1, <1>2, <2>1, <2>2 DEF PlacementInv, PlaceOK, Attentive, Place
  <1>9. CASE after
    <2>1. /\ UNCHANGED <<vars, cause, reached, seen, notified>> /\ phase[Placement] = "idle"
          /\ \/ place' = "failed" /\ UNCHANGED <<deferrals, ahead, drained>>
             \/ /\ place' = "listen" /\ deferrals' = deferrals + 1 /\ deferrals + 1 <= Budget
                /\ ahead' \in {Cardinality(held[Hop]), 0} /\ drained' = 0
      BY <1>1, <1>3, <1>9 DEF after
    <2>2. /\ Cardinality(held[Hop]) \in Nat /\ Cardinality(held[Hop]) <= Cardinality(Demand)
          /\ Cardinality(Demand) \in Nat
      BY <1>1, HoldersCounted, PlacementAssumption, FS_CardinalityType
    <2>3. ahead' \in Nat /\ ahead' <= Cardinality(Demand) /\ drained' \in 0..ahead'
      BY <1>1, <1>3, <2>1, <2>2 DEF PlaceOK
    <2>4. deferrals' \in 0..Budget /\ place' \in Place /\ place' \notin {"node", "asleep"}
      BY <1>1, <1>3, <2>1 DEF PlaceOK, Place
    <2> QED BY <1>1, <1>2, <2>1, <2>3, <2>4 DEF PlacementInv, PlaceOK, Attentive, vars
  <1>10. ASSUME UNCHANGED <<vars, cause, deferrals, reached, drained, ahead>>,
                place \notin {"sending", "accepted"}, place' \in Place \ {"sending", "accepted"},
                Attentive'
         PROVE  PlacementInv'
    BY <1>1, <1>2, <1>10 DEF PlacementInv, PlaceOK, vars
  <1>11. CASE Listen \/ Wake \/ Stop
    <2>1. /\ UNCHANGED <<vars, cause, deferrals, reached, drained, ahead, seen>>
          /\ place \notin {"sending", "accepted"} /\ place' \in {"observe", "listen", "stopped"}
          /\ notified' \in {notified, FALSE}
      BY <1>11 DEF Listen, Wake, Stop
    <2>2. Attentive'
      BY <1>1, <2>1 DEF Attentive
    <2> QED BY <1>10, <2>1, <2>2 DEF Place
  <1>12. CASE Observe
    <2>1. /\ UNCHANGED <<vars, cause, deferrals, reached, drained, ahead, notified>>
          /\ place = "observe"
          /\ \/ cause = "channel" /\ place' = "ready" /\ seen' = seen
             \/ cause = "channel" /\ place' = "asleep" /\ seen' = seen /\ ~Drained
             \/ cause # "channel" /\ place' = "node" /\ seen' = has_room(Hop)
      BY <1>12 DEF Observe
    <2>2. has_room(Hop) \in BOOLEAN
      BY DEF has_room
    <2>3. /\ Drained' = Drained /\ has_room(Hop)' = has_room(Hop)
      BY <2>1 DEF vars, Drained, has_room
    <2>4. Attentive'
      BY <1>1, <2>1, <2>2, <2>3 DEF Attentive, Ahead
    <2> QED BY <1>10, <2>1, <2>4 DEF Place
  <1>13. CASE ObserveNode
    <2>1. /\ UNCHANGED <<vars, cause, deferrals, reached, drained, ahead, seen, notified>>
          /\ place = "node"
          /\ \/ place' = "ready"
             \/ place' = "asleep" /\ ~(seen /\ has_room(Node))
      BY <1>13 DEF ObserveNode
    <2>2. /\ has_room(Hop)' = has_room(Hop) /\ has_room(Node)' = has_room(Node)
          /\ Freeing(Hop)' = Freeing(Hop) /\ cause # "channel"
      BY <1>1, <2>1 DEF vars, has_room, Freeing, Attentive
    <2>3. Attentive'
      BY <1>1, <2>1, <2>2 DEF Attentive, Ahead
    <2> QED BY <1>10, <2>1, <2>3 DEF Place
  <1>14. CASE EnvStops
    BY <1>1, <1>2, <1>14 DEF EnvStops, vars, PlacementInv, PlaceOK, Attentive, Ahead, Freeing,
       Drained, has_room
  <1> QED BY <1>4, <1>5, <1>6, <1>7, <1>8, <1>9, <1>11, <1>12, <1>13, <1>14
          DEF ReroutingNext, Placing

LEMMA PlacementAlways == ReroutingSpec => []PlacementInv
  <1>1. ReroutingInit => PlacementInv
    <2> SUFFICES ASSUME ReroutingInit PROVE PlacementInv
      OBVIOUS
    <2>1. TypeOK
      BY InitType DEF ReroutingInit
    <2>2. /\ place = "ready" /\ deferrals = 0 /\ reached = {} /\ drained = 0 /\ ahead = 0
          /\ seen = FALSE /\ notified = FALSE /\ phase[Placement] = "idle"
      BY PlacementAssumption DEF ReroutingInit, Init
    <2>3. Cardinality(Demand) \in Nat /\ Budget \in Nat
      BY PlacementAssumption, FS_CardinalityType
    <2>4. Attentive
      BY <2>2 DEF Attentive
    <2>5. PlaceOK
      BY <2>2, <2>3 DEF PlaceOK, Place
    <2> QED BY <2>1, <2>4, <2>5 DEF PlacementInv
  <1>2. PlacementInv /\ [ReroutingNext]_all => PlacementInv'
    BY PlacementStep
  <1> QED BY <1>1, <1>2, PTL DEF ReroutingSpec

\* The placement's attempt is under way only while it sends or after it was
\* accepted, so nothing is sent for a placement that failed or was stopped;
\* it is deferred within its budget, and never counts more transfers drained
\* than it saw ahead of it (swarm/transport/rerouting.rs).
THEOREM PlaceOKAlways == ReroutingSpec => []PlaceOK
  <1>1. PlacementInv => PlaceOK
    BY DEF PlacementInv
  <1> QED BY <1>1, PlacementAlways, PTL

\* A placement that listens, reads the hop and then the node, each under its
\* own lock, and sleeps misses no event that lets it pass: it was notified,
\* or a thread that freed a share is about to notify it, or its trigger does
\* not hold (rerouting/driver.rs, outbound/capacity/view.rs).
THEOREM NoMissedEventAlways == ReroutingSpec => []NoMissedEvent
  <1>1. PlacementInv => NoMissedEvent
    BY DEF PlacementInv, Attentive, Ahead, Freeing, NoMissedEvent
  <1> QED BY <1>1, PlacementAlways, PTL
=============================================================================
